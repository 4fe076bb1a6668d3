------------------------------ MODULE Strings ------------------------------
(***************************************************************************)
(* The string command (string_cmds.rs) and glob patterns (util.rs).        *)
(***************************************************************************)
EXTENDS Lists

Folded(s, nocase) == IF nocase THEN [i \in DOMAIN s |-> Lower(s[i])] ELSE s

(* Of two sequences of numbers, whether the first is before (less than 0), *)
(* the same as (0), or after the second.                                   *)
CompareSeqs(a, b) ==
  Then({i \in DOMAIN a \cap DOMAIN b : a[i] # b[i]}, LAMBDA differ :
    IF differ = {} THEN Len(a) - Len(b) ELSE a[Min(differ)] - b[Min(differ)])
Codes(s) == [i \in DOMAIN s |-> Code[s[i]]]
Sign(n)  == CASE n < 0 -> -1 [] n = 0 -> 0 [] n > 0 -> 1

(* The first n characters; a negative n is a large one.                    *)
Limited(s, n) == IF n < 0 THEN s ELSE SubSeq(s, 1, Min({n, Len(s)}))
StringCompare(a, b, nocase, n) ==
  Sign(CompareSeqs(Codes(Folded(Limited(a, n), nocase)), Codes(Folded(Limited(b, n), nocase))))
StringEqual(a, b, nocase, n) == Folded(Limited(a, n), nocase) = Folded(Limited(b, n), nocase)

-----------------------------------------------------------------------------
(* Parts.                                                                  *)

StringIndex(s, t) ==
  OnIndex(t, Len(s), LAMBDA i : Answer(IF i \in 0..(Len(s) - 1) THEN <<s[i + 1]>> ELSE <<>>))

StringRange(s, t, u) ==
  OnRange(t, u, Len(s), LAMBDA i, j :
    Then(Max({i, 0}), LAMBDA first : Then(Min({j, Len(s) - 1}), LAMBDA last :
      Answer(IF first <= last THEN SubSeq(s, first + 1, last + 1) ELSE <<>>))))

(* Nothing is put where nothing is taken out.                              *)
StringReplace(s, t, u, new) ==
  OnRange(t, u, Len(s), LAMBDA i, j :
    Then(Max({i, 0}), LAMBDA first : Then(Min({j, Len(s) - 1}), LAMBDA last :
      Answer(IF first > last THEN s ELSE Before(s, first) \o new \o From(s, last + 1)))))

OccursAt(needle, s, i) == SubSeq(s, i + 1, i + Len(needle)) = needle
Occurrences(needle, s) ==
  IF needle = <<>> THEN {} ELSE {i \in 0..(Len(s) - Len(needle)) : OccursAt(needle, s, i)}
First(found) == IF found = {} THEN -1 ELSE Min(found)
Last_(found) == IF found = {} THEN -1 ELSE Max(found)
StringFirst(needle, s, t) ==
  OnIndex(t, Len(s), LAMBDA i : Answer(First({k \in Occurrences(needle, s) : k >= i})))
StringLast(needle, s, t) ==
  OnIndex(t, Len(s), LAMBDA i : Answer(Last_({k \in Occurrences(needle, s) : k + Len(needle) - 1 <= i})))

(* wordstart and wordend, of the character at an index inside the text.    *)
InText(s, i) == Max({0, Min({i, Len(s) - 1})})
WordBegin(s, t) ==
  OnIndex(t, Len(s), LAMBDA i : Answer(Max({0} \cup {k \in 1..InText(s, i) : ~IsWord(s[k])})))
WordEnd(s, t) ==
  OnIndex(t, Len(s), LAMBDA i :
    Answer(Min({Len(s)} \cup {k \in InText(s, i)..(Len(s) - 1) : ~IsWord(s[k + 1])})))

-----------------------------------------------------------------------------
(* Whole texts.                                                            *)

StringRepeat(s, t) ==
  Then(GetInt(t), LAMBDA n :
    IF n.ok THEN Answer(FlattenSeq([k \in 1..n.val |-> s])) ELSE Refuse("expected integer"))

(* Of the pairs, the first whose key the rest begins with; what is put is  *)
(* not looked at again.                                                    *)
RECURSIVE StringMap(_, _, _)
StringMap(pairs, s, nocase) ==
  IF s = <<>> THEN <<>>
  ELSE Then({k \in DOMAIN pairs : /\ pairs[k][1] # <<>>
                                  /\ IsPrefix(Folded(pairs[k][1], nocase), Folded(s, nocase))}, LAMBDA hits :
         IF hits = {} THEN <<Head(s)>> \o StringMap(pairs, Tail(s), nocase)
         ELSE pairs[Min(hits)][2] \o StringMap(pairs, From(s, Len(pairs[Min(hits)][1])), nocase))

BooleanWords == {<<"t", "r", "u", "e">>, <<"f", "a", "l", "s", "e">>, <<"y", "e", "s">>, <<"n", "o">>,
                 <<"o", "n">>, <<"o", "f", "f">>}
IsTclBoolean(s) ==
  \/ s \in {<<"0">>, <<"1">>}
  \/ s # <<>> /\ Cardinality({w \in BooleanWords : IsPrefix(Folded(s, TRUE), w)}) = 1
OfClass(s, class) == s # <<>> /\ Range(s) \subseteq class
StringIs(s, class) ==
  CASE class = "integer"  -> IsTclInteger(s)
    [] class = "boolean"  -> IsTclBoolean(s)
    [] class = "list"     -> ParseList(s).why = "ok"
    [] class = "alpha"    -> OfClass(s, Letters)
    [] class = "alnum"    -> OfClass(s, Letters \cup Decimal)
    [] class = "digit"    -> OfClass(s, Decimal)
    [] class = "xdigit"   -> OfClass(s, Hex \cup {"A", "B"})
    [] class = "space"    -> OfClass(s, TclSpace)
    [] class = "upper"    -> OfClass(s, {"A", "B"})
    [] class = "lower"    -> OfClass(s, Letters \ {"A", "B"})

-----------------------------------------------------------------------------
(* glob_match.                                                             *)

Between(c, a, b) == Code[c] \in Code[a]..Code[b] \/ Code[c] \in Code[b]..Code[a]

(* The class whose members begin at i, of the character c: past what is    *)
(* read of it when a member is c, or 0.  A closer before that ends it, and *)
(* a dash always makes a range.                                            *)
RECURSIVE MemberEnd(_, _, _)
MemberEnd(p, i, c) ==
  CASE At(p, i) \in {"end", "]"} -> 0
    [] At(p, i) \notin {"end", "]"} /\ At(p, i + 1) = "-" ->
         IF At(p, i + 2) = "end" THEN 0
         ELSE IF Between(c, p[i], p[i + 2]) THEN i + 3 ELSE MemberEnd(p, i + 3, c)
    [] OTHER -> IF p[i] = c THEN i + 1 ELSE MemberEnd(p, i + 1, c)

(* Whether the pattern from i on is the text from j on.                    *)
RECURSIVE GlobFrom(_, _, _, _)
GlobFrom(p, i, s, j) ==
  Then(At(p, i), LAMBDA c :
    CASE c = "end" -> j > Len(s)
      [] c = "*"   -> Then(SkipAll(p, i, {"*"}), LAMBDA k :
                        k > Len(p) \/ \E to \in j..(Len(s) + 1) : GlobFrom(p, k, s, to))
      [] c \notin {"end", "*"} /\ j > Len(s) -> FALSE
      [] c = "?" /\ j <= Len(s) -> GlobFrom(p, i + 1, s, j + 1)
      [] c = "[" /\ j <= Len(s) -> Then(MemberEnd(p, i + 1, s[j]), LAMBDA k :
                        k # 0 /\ GlobFrom(p, SkipAll(p, k, Range(p) \ {"]"}) + 1, s, j + 1))
      [] c = "\\" /\ j <= Len(s) -> At(p, i + 1) = s[j] /\ GlobFrom(p, i + 2, s, j + 1)
      [] OTHER -> c = s[j] /\ GlobFrom(p, i + 1, s, j + 1))
GlobMatch(p, s) == GlobFrom(p, 1, s, 1)
=============================================================================
