--------------------------- MODULE RegexpCommands ---------------------------
(***************************************************************************)
(* regexp and regsub (regexp_cmds.rs): what is rejected before either      *)
(* engine sees it, which engine runs a pattern, and how the matches of one *)
(* attempt after another are collected and put into a text.                *)
(***************************************************************************)
EXTENDS Regexp

-----------------------------------------------------------------------------
(* validate_are: what Tcl's compiler rejects.                              *)

KnownEscapes == {"d", "D", "s", "S", "w", "W", "b", "B", "A", "Z", "z", "m", "M", "y", "Y",
                 "C", "N", "c", "e", "n", "t", "r", "f", "v", "U", "u", "x"}
Alphanumeric == Letters \cup Decimal \cup KnownEscapes \cup {"Q", "E", "i", "q"}

RECURSIVE BracketEnd(_, _)
BracketEnd(p, i) ==
  CASE At(p, i) = "end" -> 0
    [] At(p, i) = "]"   -> i + 1
    [] At(p, i) = "[" /\ At(p, i + 1) = ":" /\ At(p, i + 3) = ":" /\ At(p, i + 4) = "]" ->
         IF At(p, i + 2) \in PosixNames THEN BracketEnd(p, i + 5) ELSE -1
    [] OTHER -> BracketEnd(p, IF At(p, i) = "\\" THEN i + 2 ELSE i + 1)
BracketStart(p, i) ==
  Then(IF At(p, i) = "^" THEN i + 1 ELSE i, LAMBDA j : IF At(p, j) = "]" THEN j + 1 ELSE j)

(* prev is what came before: none, operand, quant or lazy.                 *)
RECURSIVE Validate(_, _, _, _)
Validate(p, i, prev, depth) ==
  LET c == At(p, i)
      bound == IF c = "{" THEN ScanBound(p, i + 1) ELSE NoBound
      bracket == IF c = "[" THEN BracketEnd(p, BracketStart(p, i + 1)) ELSE 0
  IN CASE c = "end" -> IF depth > 0 THEN "REG_EPAREN" ELSE "ok"
       [] c = "\\" -> IF At(p, i + 1) \in {"end"} \cup (Alphanumeric \ (Decimal \cup KnownEscapes)) THEN "REG_EESCAPE"
                      ELSE Validate(p, i + 2, "operand", depth)
       [] c = "[" -> CASE bracket = 0 -> "REG_EBRACK" [] bracket < 0 -> "REG_ECTYPE"
                       [] OTHER -> Validate(p, bracket, "operand", depth)
       [] c = "(" -> Validate(p, i + 1, "none", depth + 1)
       [] c = ")" -> IF depth = 0 THEN "REG_EPAREN" ELSE Validate(p, i + 1, "operand", depth - 1)
       [] c \in {"*", "+"} -> IF prev = "operand" THEN Validate(p, i + 1, "quant", depth) ELSE "REG_BADRPT"
       [] c = "?" -> CASE prev = "operand" -> Validate(p, i + 1, "quant", depth)
                       [] prev = "quant"   -> Validate(p, i + 1, "lazy", depth)
                       [] prev = "none" /\ At(p, i - 1) = "(" ->
                            Validate(p, IF At(p, i + 1) = ":" THEN i + 2 ELSE i + 1, prev, depth)
                       [] OTHER -> "REG_BADRPT"
       [] c = "{" /\ prev = "operand" /\ bound.to # 0 ->
            IF bound.max < bound.min THEN "REG_BADBR" ELSE Validate(p, bound.to, "quant", depth)
       [] c = "|" -> Validate(p, i + 1, "none", depth)
       [] OTHER -> Validate(p, i + 1, "operand", depth)

-----------------------------------------------------------------------------
(* Which engine.                                                           *)

(* \w, \W, \s, \S and bracket names: their tables are Tcl's.               *)
RECURSIVE UsesTclUnicode(_, _, _)
UsesTclUnicode(p, i, inClass) ==
  CASE At(p, i) = "end" -> FALSE
    [] At(p, i) = "\\"  -> At(p, i + 1) \in {"w", "W", "s", "S"} \/ UsesTclUnicode(p, i + 2, inClass)
    [] At(p, i) = "["   -> UsesTclUnicode(p, i + 1, TRUE)
    [] At(p, i) = ":" /\ inClass /\ At(p, i - 1) = "[" -> TRUE
    [] OTHER            -> UsesTclUnicode(p, i + 1, inClass /\ At(p, i) # "]")

(* count_groups and has_string_anchor, over the same walk.                 *)
RECURSIVE Unescaped(_, _, _)
Unescaped(p, i, inClass) ==
  CASE At(p, i) = "end" -> {}
    [] At(p, i) = "\\"  -> (IF ~inClass THEN {i} ELSE {}) \cup Unescaped(p, i + 2, inClass)
    [] OTHER -> (IF ~inClass THEN {i} ELSE {}) \cup
                Unescaped(p, i + 1, (inClass \/ At(p, i) = "[") /\ At(p, i) # "]")
CountGroups(p)     == Cardinality({i \in Unescaped(p, 1, FALSE) : p[i] = "(" /\ At(p, i + 1) # "?"})
HasStringAnchor(p) == \E i \in Unescaped(p, 1, FALSE) : p[i] = "\\" /\ At(p, i + 1) = "A"

(* The nodes of a compiled pattern.                                        *)
RECURSIVE Nodes(_)
Nodes(n) == {n} \cup CASE n[1] \in {"cat", "alt"} -> UNION {Nodes(n[2][k]) : k \in DOMAIN n[2]}
                       [] n[1] = "cap" -> Nodes(n[3])
                       [] n[1] \in {"ncap", "rep"} -> Nodes(n[2])
                       [] n[1] = "look" -> Nodes(n[4])
                       [] OTHER -> {}

(* The regex crate takes no backreference, look-around or word assertion   *)
(* of Tcl's, and no flag of Tcl's alone.                                   *)
OwnFlags(p) == \E i \in DOMAIN p : p[i] = "(" /\ At(p, i + 1) = "?" /\ At(p, i + 2) \in {"b", "c", "e", "q", "n", "p", "w"}
FastTakes(p, prog) ==
  /\ \A n \in Nodes(prog.root) : n[1] \notin {"backref", "look", "wordstart", "wordend", "wordb", "notwordb"}
  /\ ~OwnFlags(p)
RunsFull(p, prog) == UsesTclUnicode(p, 1, FALSE) \/ ~FastTakes(p, prog)

-----------------------------------------------------------------------------
(* The regex crate: a search of the states of an automaton, each of which  *)
(* is tried once at a position, the preferred ones first.  A state is what *)
(* is left to match: nodes, and the places where a group ends, branches    *)
(* join, a repetition goes on and where one with a maximum may.  A body    *)
(* that may be empty is not guarded, as in mrep: x* is (x+)?.              *)

RECURSIVE Nullable(_)
Nullable(n) ==
  CASE n[1] \in TakesOne -> FALSE
    [] n[1] = "cat"  -> \A k \in DOMAIN n[2] : Nullable(n[2][k])
    [] n[1] = "alt"  -> \E k \in DOMAIN n[2] : Nullable(n[2][k])
    [] n[1] = "cap"  -> Nullable(n[3])
    [] n[1] = "ncap" -> Nullable(n[2])
    [] n[1] = "rep"  -> n[3] = 0 \/ Nullable(n[2])
    [] OTHER -> TRUE

(* The states a repetition begins with.                                    *)
Repetition(n) ==
  LET copies == [k \in 1..n[3] |-> n[2]]
  IN IF n[4] = Infinite THEN copies \o <<<<"loop", n[2], n[5]>>>>
     ELSE copies \o <<<<"opt", n[2], n[4] - n[3], n[5]>>>>

(* tried are the states tried since the last character.                    *)
RECURSIVE Search(_, _, _, _, _, _)
Search(prog, s, todo, pos, caps, tried) ==
  LET n == Head(todo)  rest == Tail(todo)
      Try(next, c) == Search(prog, s, next, pos, c, tried \cup {todo})
      Either(first, second) == Then(Try(first, caps), LAMBDA r : IF r # <<>> THEN r ELSE Try(second, caps))
      Prefer(lazy, more) == IF lazy THEN Either(rest, more \o rest) ELSE Either(more \o rest, rest)
  IN CASE todo \in tried -> <<>>
       [] todo = <<>> -> [caps EXCEPT ![1][2] = pos]
       [] OTHER ->
     CASE n[1] \in TakesOne -> IF pos <= Len(s) /\ Takes(prog, n, s[pos])
                               THEN Search(prog, s, rest, pos + 1, caps, {}) ELSE <<>>
       [] n[1] \in Asserting -> IF Holds(prog, n, s, pos) THEN Try(rest, caps) ELSE <<>>
       [] n[1] \in {"empty", "join"} -> Try(rest, caps)
       [] n[1] = "cat"    -> Try(n[2] \o rest, caps)
       [] n[1] = "ncap"   -> Try(<<n[2]>> \o rest, caps)
       [] n[1] = "cap"    -> Try(<<n[3], <<"endcap", n[2]>>>> \o rest, [caps EXCEPT ![n[2] + 1][1] = pos])
       [] n[1] = "endcap" -> Try(rest, [caps EXCEPT ![n[2] + 1][2] = pos])
       [] n[1] = "alt"    -> IF n[2] = <<>> THEN <<>>
                             ELSE Either(<<Head(n[2]), <<"join", Len(n[2])>>>> \o rest, <<<<"alt", Tail(n[2])>>>> \o rest)
       [] n[1] = "loop"   -> Prefer(n[3], <<n[2], n>>)
       [] n[1] = "opt"    -> IF n[3] = 0 THEN Try(rest, caps) ELSE Prefer(n[4], <<n[2], [n EXCEPT ![3] = @ - 1]>>)
       [] n[1] = "rep" /\ (n[3] > 0 \/ n[4] # Infinite) -> Try(Repetition(n) \o rest, caps)
       [] n[1] = "rep" /\ n[3] = 0 /\ n[4] = Infinite ->
            Prefer(n[5], <<n[2]>> \o IF Nullable(n[2]) THEN Repetition(n) ELSE <<n>>)

NoGroups(prog) == [g \in 1..(prog.ngroups + 1) |-> NoGroup]
RECURSIVE SearchFrom(_, _, _)
SearchFrom(prog, s, start) ==
  IF start > Len(s) + 1 THEN <<>>
  ELSE Then(Search(prog, s, <<prog.root>>, start, [NoGroups(prog) EXCEPT ![1][1] = start], {}), LAMBDA caps :
         IF caps # <<>> THEN caps ELSE SearchFrom(prog, s, start + 1))

-----------------------------------------------------------------------------
(* The reference for the backtracking engine, without its one table: of    *)
(* all the ways a node can match from a position, in the order mnd prefers *)
(* them, the first.                                                        *)

RECURSIVE Ways(_, _, _, _, _), WaysOfCat(_, _, _, _), WaysOfRep(_, _, _, _, _, _)
Way(pos, caps) == [pos |-> pos, caps |-> caps]
ThenWays(ways, F(_)) == FlattenSeq([k \in DOMAIN ways |-> F(ways[k])])
Ways(prog, s, n, pos, caps) ==
  CASE n[1] \in TakesOne  -> IF pos <= Len(s) /\ Takes(prog, n, s[pos]) THEN <<Way(pos + 1, caps)>> ELSE <<>>
    [] n[1] \in Asserting -> IF Holds(prog, n, s, pos) THEN <<Way(pos, caps)>> ELSE <<>>
    [] n[1] = "empty" -> <<Way(pos, caps)>>
    [] n[1] = "cat"   -> WaysOfCat(prog, s, n[2], Way(pos, caps))
    [] n[1] = "alt"   -> FlattenSeq([k \in DOMAIN n[2] |-> Ways(prog, s, n[2][k], pos, caps)])
    [] n[1] = "ncap"  -> Ways(prog, s, n[2], pos, caps)
    [] n[1] = "cap"   -> Then(Ways(prog, s, n[3], pos, caps), LAMBDA ways :
         [k \in DOMAIN ways |-> [ways[k] EXCEPT !.caps[n[2] + 1] = <<pos, ways[k].pos>>]])
    [] n[1] = "rep"   -> WaysOfRep(prog, s, n, 0, pos, caps)
    [] n[1] = "look"  ->
         IF n[2] # (IF n[3] THEN \E j \in 1..pos : \E w \in Range(Ways(prog, s, n[4], j, caps)) : w.pos = pos
                    ELSE Ways(prog, s, n[4], pos, caps) # <<>>)
         THEN <<Way(pos, caps)>> ELSE <<>>
    [] n[1] = "backref" ->
         Then(caps[n[2] + 1], LAMBDA g :
           IF g # NoGroup /\ \E to \in pos..(Len(s) + 1) : /\ to - pos = g[2] - g[1]
                               /\ \A j \in 0..(to - pos - 1) : SameChar(prog, s[g[1] + j], s[pos + j])
           THEN <<Way(pos + g[2] - g[1], caps)>> ELSE <<>>)
WaysOfCat(prog, s, items, from) ==
  IF items = <<>> THEN <<from>>
  ELSE ThenWays(Ways(prog, s, Head(items), from.pos, from.caps), LAMBDA w : WaysOfCat(prog, s, Tail(items), w))
(* A repetition past the minimum takes something, or it is not made.       *)
WaysOfRep(prog, s, n, done, pos, caps) ==
  LET more == IF done = n[4] THEN <<>>
              ELSE ThenWays(SelectSeq(Ways(prog, s, n[2], pos, caps), LAMBDA w : w.pos # pos \/ done < n[3]),
                            LAMBDA w : WaysOfRep(prog, s, n, done + 1, w.pos, w.caps))
      stop == IF done < n[3] THEN <<>> ELSE <<Way(pos, caps)>>
  IN IF n[5] THEN stop \o more ELSE more \o stop

Found(w, start) == [w.caps EXCEPT ![1] = <<start, w.pos>>]
RECURSIVE FirstFrom(_, _, _)
FirstFrom(prog, s, start) ==
  IF start > Len(s) + 1 THEN <<>>
  ELSE Then(Ways(prog, s, prog.root, start, NoGroups(prog)), LAMBDA ways :
         IF ways # <<>> THEN Found(ways[1], start) ELSE FirstFrom(prog, s, start + 1))

-----------------------------------------------------------------------------
(* Matches.                                                                *)

Shifted(caps, by) == [g \in DOMAIN caps |-> IF caps[g] = NoGroup THEN NoGroup ELSE <<caps[g][1] + by, caps[g][2] + by>>]
From(s, at) == SubSeq(s, at, Len(s))

(* \A turned into ^, as the fast engine has it for the text from at on.    *)
RECURSIVE Anchored(_)
Anchored(n) ==
  CASE n[1] = "bos" -> <<"bol">>
    [] n[1] \in {"cat", "alt"} -> [n EXCEPT ![2] = [k \in DOMAIN n[2] |-> Anchored(n[2][k])]]
    [] n[1] = "cap" -> [n EXCEPT ![3] = Anchored(@)]
    [] n[1] \in {"ncap", "rep"} -> [n EXCEPT ![2] = Anchored(@)]
    [] OTHER -> n

(* engine_attempt: one match from position at on.                          *)
FullAttempt(prog, s, at) == Shifted(CapsAt(prog, From(s, at)), at - 1)
FastAttempt(p, prog, s, at) ==
  IF HasStringAnchor(p)
  THEN Shifted(SearchFrom([prog EXCEPT !.root = Anchored(@)], From(s, at), 1), at - 1)
  ELSE SearchFrom(prog, s, at)
Attempt(p, prog, s, at) ==
  IF RunsFull(p, prog) THEN FullAttempt(prog, s, at) ELSE FastAttempt(p, prog, s, at)

(* collect_matches: an empty match goes on one character further.          *)
RECURSIVE AllMatches(_, _, _, _)
AllMatches(p, prog, s, at) ==
  IF at > Len(s) THEN <<>>
  ELSE Then(Attempt(p, prog, s, at), LAMBDA m :
         IF m = <<>> THEN <<>>
         ELSE <<m>> \o AllMatches(p, prog, s, Max({m[1][2], m[1][1] + 1})))
CollectMatches(p, prog, s, start, all) ==
  CASE start > Len(s) + 1 -> <<>>
    [] start <= Len(s) + 1 /\ all /\ Len(s) > 0 -> AllMatches(p, prog, s, start)
    [] OTHER -> Then(Attempt(p, prog, s, start), LAMBDA m : IF m = <<>> THEN <<>> ELSE <<m>>)

(* expand_sub_spec and the text regsub makes.                              *)
GroupText(s, m, k) == IF k + 1 > Len(m) \/ m[k + 1] = NoGroup THEN <<>> ELSE Slice(s, m[k + 1][1], m[k + 1][2])
RECURSIVE ExpandSubSpec(_, _, _, _)
ExpandSubSpec(spec, i, s, m) ==
  LET c == At(spec, i)  d == At(spec, i + 1) IN
  CASE c = "end" -> <<>>
    [] c = "&"   -> GroupText(s, m, 0) \o ExpandSubSpec(spec, i + 1, s, m)
    [] c = "\\" /\ d \in Decimal     -> GroupText(s, m, ValueOf(d)) \o ExpandSubSpec(spec, i + 2, s, m)
    [] c = "\\" /\ d \in {"\\", "&"} -> <<d>> \o ExpandSubSpec(spec, i + 2, s, m)
    [] c = "\\" /\ d = "end"         -> <<c>>
    [] c = "\\" /\ d \notin Decimal \cup {"\\", "&", "end"} -> <<c, d>> \o ExpandSubSpec(spec, i + 2, s, m)
    [] OTHER -> <<c>> \o ExpandSubSpec(spec, i + 1, s, m)

(* The text with each match replaced by its one of texts.                  *)
RECURSIVE Replace(_, _, _, _)
Replace(s, matches, texts, last) ==
  IF matches = <<>> THEN From(s, last)
  ELSE Slice(s, last, Head(matches)[1][1]) \o Head(texts)
       \o Replace(s, Tail(matches), Tail(texts), Head(matches)[1][2])
(* Each match becomes what Puts makes of it.                               *)
RegsubWith(p, prog, s, start, all, Puts(_)) ==
  Then(CollectMatches(p, prog, s, start, all), LAMBDA ms : Then(Min({start, Len(s) + 1}), LAMBDA from :
    SubSeq(s, 1, from - 1) \o Replace(s, ms, [i \in DOMAIN ms |-> Puts(ms[i])], from)))
Regsub(p, prog, s, start, all, spec) ==
  RegsubWith(p, prog, s, start, all, LAMBDA m : ExpandSubSpec(spec, 1, s, m))

-----------------------------------------------------------------------------
(* What the commands answer.  The switches sw are the set of those given.  *)

(* parse_start_index: a number, end (the length), or a sum or difference.  *)
StartIndex(head, sign, n, len) ==
  Then(IF head = "end" THEN len ELSE head, LAMBDA h :
    Max({0, CASE sign = "+" -> h + n [] sign = "-" -> h - n [] OTHER -> h}))

(* A group as its text, or as the indices of its first and last character. *)
GroupElem(s, m, k, sw) ==
  CASE "indices" \notin sw -> GroupText(s, m, k)
    [] "indices" \in sw /\ (k + 1 > Len(m) \/ m[k + 1] = NoGroup) -> <<-1, -1>>
    [] OTHER -> <<m[k + 1][1] - 1, m[k + 1][2] - 2>>

(* cmd_regexp, of vars match variables: what it answers, and what they are *)
(* set to (the last match under -all); nothing without a match.            *)
RegexpAnswer(p, prog, s, start, sw, vars) ==
  Then(CollectMatches(p, prog, s, start + 1, "all" \in sw), LAMBDA ms :
    CASE "about" \in sw -> [answer |-> IF RunsFull(p, prog) THEN prog.ngroups ELSE CountGroups(p), sets |-> <<>>]
      [] "about" \notin sw /\ "inline" \in sw /\ vars > 0 -> [answer |-> "error", sets |-> <<>>]
      [] "about" \notin sw /\ "inline" \in sw /\ vars = 0 ->
           [answer |-> FlattenSeq([i \in DOMAIN ms |-> [k \in DOMAIN ms[i] |-> GroupElem(s, ms[i], k - 1, sw)]]),
            sets |-> <<>>]
      [] OTHER -> [answer |-> Len(ms),
                   sets |-> IF ms = <<>> THEN <<>> ELSE [k \in 1..vars |-> GroupElem(s, Last(ms), k - 1, sw)]])

(* regsub -command: each match is a call of the spec with the groups in    *)
(* braces as they are; Runs is what the call answers.                      *)
CallText(spec, s, m) ==
  spec \o FlattenSeq([k \in DOMAIN m |-> <<" ", "{">> \o GroupText(s, m, k - 1) \o <<"}">>])
RegsubCommand(p, prog, s, start, all, spec, Runs(_)) ==
  RegsubWith(p, prog, s, start, all, LAMBDA m : Runs(CallText(spec, s, m)))
=============================================================================
