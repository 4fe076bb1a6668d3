------------------------------ MODULE MCTexts ------------------------------
(* Texts, and what reads and writes them.  A text grows lexeme by lexeme   *)
(* out of one of many lexicons; which module reads it goes with the        *)
(* lexicon: expressions (ExprReaders), lists and scripts (Parser), regular *)
(* expressions (RegexpCommands).                                           *)
EXTENDS ExprReaders, TLC

Lexicon(reader, of, upto) == [reader |-> reader, of |-> of, upto |-> upto]
Of(reader) == lexicon.reader = reader

MCInit == Init /\ (~Of("expression") => ~outcome)
Grow   == /\ ~Of("expression") /\ Len(text) < lexicon.upto
          /\ \E l \in lexicon.of : text' = Append(text, l)
          /\ UNCHANGED <<lexicon, outcome, stack, complete, operand, verdict>>
MCNext == Grow \/ (Of("expression") /\ Next)
MCSpec == MCInit /\ [][MCNext]_vars

(* Lexemes that are more than one character.                               *)
Spelling == [x \in {"(?=", "\\1", "\\w", "\\A", "\\m", "\\*", "end", "0x", "[ab]", "[b-a]"} |->
               CASE x = "(?=" -> <<"(", "?", "=">> [] x = "\\1" -> <<"\\", "1">> [] x = "\\w" -> <<"\\", "w">>
                 [] x = "\\A" -> <<"\\", "A">>     [] x = "\\m" -> <<"\\", "m">> [] x = "\\*" -> <<"\\", "*">>
                 [] x = "end" -> <<"e", "n", "d">> [] x = "0x"  -> <<"0", "x">>
                 [] x = "[ab]" -> <<"[", "a", "b", "]">> [] x = "[b-a]" -> <<"[", "b", "-", "a", "]">>]
Spelled(l) == IF l \in DOMAIN Spelling THEN Spelling[l] ELSE <<l>>
Chars == FlattenSeq([i \in DOMAIN text |-> Spelled(text[i])])
(* The texts that a bar parts.                                             *)
Items ==
  LET chars == Chars
      bars  == <<0>> \o SetToSortSeq({i \in DOMAIN chars : chars[i] = "|"}, <) \o <<Len(chars) + 1>>
  IN [k \in 1..(Len(bars) - 1) |-> SubSeq(chars, bars[k] + 1, bars[k + 1] - 1)]

-----------------------------------------------------------------------------
(* Expressions.                                                            *)

Expressions_ == {
  Lexicon("expression", {"t", "z", "?", ":", "||", "&&", "(", ")", "f("}, 7),
  Lexicon("expression", {"t", "|", "^", "&", "==", "<", "<<", "+", "*", "**", "&&"}, 7),
  Lexicon("expression", {"s", "w", "-", "+", "!", "?", ":", "in", "lt", "f(", ",", ")"}, 5),
  Lexicon("expression", {"t", "w", "n", "-", "!", "eq", "==", "**", "(", ")"}, 6)}

(* The three readers of an expression agree: what is checked before a      *)
(* script runs is the grammar, and the evaluator and the compiler read it  *)
(* (see ChecksTheGrammar, ReadsTheGrammar and CompiledAgrees).             *)
ReadersAgree == Of("expression") => ChecksTheGrammar /\ ReadsTheGrammar /\ CompiledAgrees

-----------------------------------------------------------------------------
(* Lists and scripts.                                                      *)

P == INSTANCE Parser

Lists == {
  Lexicon("list", {"k", "{", "}", "\\", "|"}, 6),
  Lexicon("list", {"\"", "]", "k", "\\", "|"}, 5),
  Lexicon("list", {"#", "\\", "nl", "{", "|", " "}, 5),
  Lexicon("list", {"[", "$", "cr", "nl", "\\", "n"}, 5)}

Joined_(l, k) == P!Concat(<<P!SerializeList(SubSeq(l, 1, k)), P!SerializeList(SubSeq(l, k + 1, Len(l)))>>)
IsList(r, l)  == r.why = "ok" /\ r.items = l
OneCommand(r, words) == r.why = "ok" /\ r.x = <<[i \in DOMAIN words |-> P!Literal(words[i])]>>
(* A line end that is escaped by a backslash that is escaped, or by one    *)
(* with a carriage return between them.                                    *)
Spliced == \E i, j \in DOMAIN text :
             SubSeq(text, i, j) \in {<<"\\", "\\", "nl">>, <<"\\", "\\", "cr", "nl">>, <<"\\", "cr", "nl">>}

(* Whatever its elements contain, a list is read back as it was, concat    *)
(* joins two lists into the list of the elements of both, and as a script  *)
(* it is one command whose words are the elements, nothing substituted     *)
(* (serialize_list; the writer decides by what an element contains, the    *)
(* list reader and the parser are two others).  The script needs that no   *)
(* element has a spliced line, which the parser joins inside braces.       *)
ListsReadBack ==
  Of("list") =>
    P!Then(Items, LAMBDA l : P!Then(P!SerializeList(l), LAMBDA t :
      /\ IsList(P!ParseList(t), l)
      /\ \A k \in 0..Len(l) : IsList(P!ParseList(Joined_(l, k)), l)
      /\ ~Spliced => OneCommand(P!Parse(t), l)))

-----------------------------------------------------------------------------
(* Regular expressions.                                                    *)

E == INSTANCE RegexpCommands
G == INSTANCE Strings WITH IntBits <- 5, IndexBits <- 3

Patterns == {
  Lexicon("regexp", {"a", "(", ")", "|", "*", "?"}, 6),
  Lexicon("regexp", {"a", "(", ")", "\\1", "+", "(?=", "."}, 5),
  Lexicon("regexp", {"a", "\\w", "^", "*", "$", "\\A", "\\m"}, 4)}

Subjects == UNION {[1..n -> {"a", "b"}] : n \in 0..3}
NoSwitch == [nocase |-> FALSE, expanded |-> FALSE, lineanchor |-> FALSE, linestop |-> FALSE]

(* Ok of the compiled pattern, unless it is rejected.                      *)
WhenCompiled(Ok(_, _)) ==
  E!Then(Chars, LAMBDA p :
    E!Validate(p, 1, "none", 0) = "ok" =>
      E!Then(E!Compile(p, NoSwitch), LAMBDA prog : prog.why = "ok" => Ok(p, prog)))

Globs == {Lexicon("glob", {"a", "b", "*", "?", "\\*", "[ab]", "[b-a]"}, 4)}

(* A glob pattern as the regular expression that says the same.           *)
AsRegexp(l) == CASE l = "*" -> <<".", "*">> [] l = "?" -> <<".">> [] l = "[b-a]" -> Spelled("[ab]") [] OTHER -> Spelled(l)
GlobsAgree ==
  Of("glob") =>
    E!Then(E!Compile(<<"^">> \o FlattenSeq([i \in DOMAIN text |-> AsRegexp(text[i])]) \o <<"$">>, NoSwitch), LAMBDA prog :
      E!Then(Chars, LAMBDA p : \A s \in Subjects \cup {<<"a", "*">>} : G!GlobMatch(p, s) = (E!CapsAt(prog, s) # <<>>)))

(* The groups the backtracking engine leaves in its one table, after all   *)
(* it undid, are those of the first of the ways to match, in the order it  *)
(* prefers them; of a pattern that either engine takes they match from the *)
(* same place, and the same groups unless something that may be empty is   *)
(* repeated; when regsub puts back every match the text is as it was, so   *)
(* that no match overlaps another or loses a character between two; and    *)
(* the indices that regexp -all leaves in a variable are those of the last *)
(* match it gives.  A glob pattern, read by a matcher of its own, matches  *)
(* as its regular expression does.                                         *)
RepeatsEmpty(prog) == \E n \in E!Nodes(prog.root) : n[1] = "rep" /\ E!Nullable(n[2])
SameMatch(prog, s) ==
  E!Then(E!CapsAt(prog, s), LAMBDA m : E!Then(E!SearchFrom(prog, s, 1), LAMBDA f :
    IF RepeatsEmpty(prog) /\ m # <<>> /\ f # <<>> THEN m[1][1] = f[1][1] ELSE m = f))
EnginesAgree ==
  /\ GlobsAgree
  /\ Of("regexp") =>
    WhenCompiled(LAMBDA p, prog :
      \A s \in Subjects :
        /\ E!CapsAt(prog, s) = E!FirstFrom(prog, s, 1)
        /\ E!FastTakes(p, prog) => SameMatch(prog, s)
        /\ E!Regsub(p, prog, s, 1, TRUE, <<"&">>) = s
        /\ LET shown == E!RegexpAnswer(p, prog, s, 0, {"all", "inline"}, 0).answer
               last  == E!RegexpAnswer(p, prog, s, 0, {"all", "indices"}, 1).sets
               of    == Len(shown) - prog.ngroups
           IN IF last = <<>> THEN shown = <<>> ELSE SubSeq(s, last[1][1] + 1, last[1][2] + 1) = shown[of])

-----------------------------------------------------------------------------
(* Indices.                                                                *)

Indices_ == {Lexicon("index", {"end", "1", "0", "-", "+", "|", "0x"}, 5), Lexicon("index", {"end", "1", "-", " ", "|"}, 4)}

(* Two ways to take out a range, and two to write one element, of a list   *)
(* of the characters that a text has.                                      *)
SameRange(r, q) == r.why = q.why /\ r.x = FlattenSeq(q.x)
RangesAgree(t, u) ==
  \A n \in 0..3 :
    LET s == SubSeq(<<"a", "b", "c">>, 1, n)
        l == G!Split(s, <<>>)
        range == G!Lrange(l, t, u)
        set   == G!LsetNested(l, <<t>>, <<"x">>)
    IN /\ SameRange(G!StringRange(s, t, u), range)
       /\ SameRange(G!StringReplace(s, t, u, <<>>), G!Lreplace(l, t, u, <<>>))
       /\ range.why = "ok" => G!Lreplace(l, t, u, range.x).x = l
       /\ G!StringIndex(s, t) = G!Descend(G!SerializeList(l), <<t>>)
       /\ set.why = "ok" => set = G!Lreplace(l, t, t, <<<<"x">>>>)

(* What -index keeps of an index is what the index is, of any length: the  *)
(* two readers take the same texts, but for blanks and terms past the      *)
(* limit of an index.                                                      *)
EncodingAgrees(t) ==
  LET spec == G!Encode(t) IN
  " " \notin Range(t) =>
    \A n \in 0..3 :
      G!ParseIndex(t, n).ok =>
        /\ spec.why # "bad index"
        /\ spec.why = "ok" /\ G!Decode(spec, n - 1) \in 0..n => G!ParseIndex(t, n).val = G!Decode(spec, n - 1)

(* All that reads an index or a number reads the same: the commands on     *)
(* texts and on lists take the same range and change the same element, a   *)
(* range put back where it was gives the list, the index that lsort and    *)
(* lsearch keep for later is the one the others resolve at once, and what  *)
(* string is calls an integer is one, the least of them apart, whose       *)
(* magnitude is none.                                                      *)
IndicesAgree ==
  Of("index") =>
    LET items == Items
        t == items[1]
        u == IF Len(items) > 1 THEN items[2] ELSE G!EndText
    IN /\ RangesAgree(t, u)
       /\ EncodingAgrees(t)
       /\ G!GetInt(t).ok => G!IsTclInteger(t)
       /\ G!IsTclInteger(t) /\ ~G!GetInt(t).ok => "-" \in Range(t) /\ G!IsTclInteger(SelectSeq(t, LAMBDA c : c # "-")) = FALSE

-----------------------------------------------------------------------------
(* Sorted lists.                                                           *)

S == INSTANCE Sorting WITH IntBits <- 10, IndexBits <- 6, NumLists <- 2

Sortings == {Lexicon("sort", {"a", "A", "|"}, 5), Lexicon("sort", {"a", "0", "1", "|"}, 4)}

Opt(name) == [opt |-> name, val |-> <<>>]
Keyed(path) == [opt |-> "index", val |-> path]
ByLength(items) == [opt |-> "command", val |-> [p \in Range(items) \X Range(items) |-> S!Some(Len(p[1]) - Len(p[2]))]]
Orders == {<<>>, <<Opt("nocase")>>, <<Opt("dictionary")>>, <<Opt("integer")>>}
Ways   == {<<>>, <<Opt("decreasing")>>}

(* The elements in their order, those of the same rank as they were, or    *)
(* the last of them when only one is kept.                                 *)
InOrder(unique, n, r, Placed(_, _)) ==
  /\ \A p, q \in DOMAIN r : p < q =>
       S!Then(Placed(r[p], r[q]), LAMBDA c : c < 0 \/ (c = 0 /\ ~unique /\ r[p] < r[q]))
  /\ \A e \in 0..(n - 1) : \E p \in DOMAIN r :
       IF unique THEN Placed(e, r[p]) = 0 /\ e <= r[p] ELSE e = r[p]
StablySorted(items, args) ==
  S!Then(S!SortOptions(args), LAMBDA o : S!Then(S!Lsort(Append(args, Opt("indices")), items), LAMBDA r :
    r.why = "ok" =>
      S!Then([o |-> o, keys |-> [e \in DOMAIN items |-> S!KeyOf(o.mode, items[e]).val]], LAMBDA s :
      S!Then([d \in (DOMAIN items) \X (DOMAIN items) |-> S!SortCompare(s, d[1], d[2]).x], LAMBDA placed :
        InOrder(o.unique, Len(items), r.x, LAMBDA e, f : placed[<<e + 1, f + 1>>])))))

(* The binary search finds what the scan finds, and bisection the last     *)
(* that is not past the pattern.                                           *)
SearchesAgree(items, args) ==
  S!Then(S!SortOptions(args), LAMBDA o : S!Then(S!Lsort(args, items), LAMBDA sorted :
    sorted.why = "ok" =>
      \A pat \in Range(items) \cup {<<"a">>, <<"1">>} :
        S!Then([t \in Range(sorted.x) \cup {pat} |-> S!KeyOf(o.mode, t)], LAMBDA key :
        S!Then([how \in {"sorted", "exact", "bisect"} |-> S!Lsearch(Append(args, Opt(how)), sorted.x, pat)], LAMBDA found :
          key[pat].ok =>
            /\ found["sorted"] = found["exact"]
            /\ found["bisect"] = S!Answer(<<Max({0} \cup {i \in DOMAIN sorted.x :
                   S!Directed([o |-> o], S!CompareKeys(o.mode, key[sorted.x[i]].val, key[pat].val)) <= 0}) - 1>>)))))

(* A group, or an inner list, is where its key is.                         *)
GroupsAgree ==
  LET items  == Items
      back   == Reverse(items)
      pairs  == FlattenSeq([i \in DOMAIN items |-> <<back[i], items[i]>>])
      inner  == [i \in DOMAIN items |-> S!SerializeList(<<back[i], items[i]>>)]
      stride == [opt |-> "stride", val |-> <<"2">>]
  IN /\ S!Then([how \in {"items", "pairs", "inner"} |->
                  CASE how = "items" -> <<<<Opt("indices")>>, items>>
                    [] how = "pairs" -> <<<<stride, Keyed(<<"1">>)>>, pairs>>
                    [] how = "inner" -> <<<<Keyed(<<"e", "n", "d">>), Opt("indices")>>, inner>>], LAMBDA calls :
        S!Then([how \in DOMAIN calls |-> S!Lsort(calls[how][1], calls[how][2]).x], LAMBDA r :
          /\ r["pairs"] = FlattenSeq([k \in DOMAIN r["items"] |-> <<back[r["items"][k] + 1], items[r["items"][k] + 1]>>])
          /\ r["inner"] = r["items"]))
     /\ \A e \in DOMAIN items :
          S!Then([grouped \in BOOLEAN |->
                   S!Lsearch(<<Opt("exact")>> \o IF grouped THEN <<stride, Keyed(<<"1">>)>> ELSE <<>>,
                             IF grouped THEN pairs ELSE items, items[e]).x[1]], LAMBDA at :
            at[TRUE] = 2 * at[FALSE])

(* Sorting orders a list stably, in every mode and direction, whatever the *)
(* runs that were merged, and what is searched in a sorted list is found   *)
(* where a scan finds it (merge_lists, sort_compare, cmd_lsearch).         *)
SortsStably ==
  Of("sort") =>
    /\ S!Then(Items, LAMBDA items :
         /\ \A order \in Orders \cup {<<ByLength(items)>>}, way \in Ways \cup {<<Opt("unique")>>} :
              StablySorted(items, order \o way)
         /\ \A order \in Orders, way \in Ways : SearchesAgree(items, order \o way))
    /\ GroupsAgree

-----------------------------------------------------------------------------
(* What comments say and the code does not.                                *)

(* "Build a script string that invokes `prefix` with `args`, quoting each  *)
(* word as a list element would be" (handler_script).                      *)
HandlerScript(l) == P!Parse(FlattenSeq([i \in DOMAIN l |-> (IF i > 1 THEN <<" ">> ELSE <<>>) \o P!TclQuote(l[i])]))
ArgumentsQuoted == Of("list") => P!Then(Items, LAMBDA l : OneCommand(HandlerScript(l), l))

(* "a backslash-newline inside a BARE word ends the word (it is a word     *)
(* separator, not a space)" (parse_word): of a, a substitution, the        *)
(* continuation and b.                                                     *)
ContinuationEndsWord ==
  Of("script") => LET r == P!Parse(text \o <<"\\", "nl", "b">>)
                  IN r.why = "ok" /\ r.x # <<>> => P!Literal(<<"b">>) \in Range(r.x[Len(r.x)])

(* "leftmost-first preference order (matching what the fast engine         *)
(* produces for the patterns both accept)" (regexp_bt.rs).                 *)
FoundAlike ==
  Of("regexp") =>
    WhenCompiled(LAMBDA p, prog :
      E!FastTakes(p, prog) => \A s \in Subjects : E!CapsAt(prog, s) = E!SearchFrom(prog, s, 1))

-----------------------------------------------------------------------------
AllLexicons == Expressions_ \cup Lists \cup Patterns \cup Globs \cup Indices_ \cup Sortings
Scripts == {Lexicon("script", {"a", "$", "k", "\\", "[", "]"}, 4)}
=============================================================================
