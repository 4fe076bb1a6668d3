------------------------------- MODULE Regexp -------------------------------
(***************************************************************************)
(* Regular expressions.  A pattern is compiled by the regex crate when it  *)
(* takes it, and by rtcl's backtracking engine (regexp_bt.rs) when it does *)
(* not, or when its classes follow Tcl's tables.                           *)
(*                                                                         *)
(* This module is the backtracking engine: its compiler, and its matcher,  *)
(* in which what is left to match is a list instead of a closure.  A node  *)
(* of a compiled pattern is a tuple headed by its kind.                    *)
(***************************************************************************)
EXTENDS ListText

(* Pred::has, of the sets that escapes and bracket names stand for.        *)
InSet(name, c) ==
  CASE name \in {"d", "digit"} -> c \in Decimal       [] name = "D" -> c \notin Decimal
    [] name \in {"w", "word"}  -> IsWord(c)           [] name = "W" -> ~IsWord(c)
    [] name \in {"s", "space"} -> c \in TclSpace      [] name = "S" -> c \notin TclSpace
    [] name = "alpha" -> c \in Letters                [] name = "alnum" -> c \in Letters \cup Decimal
    [] name = "upper" -> Lower(c) # c                 [] name = "lower" -> Upper(c) # c
Has(pred, c, nocase) ==
  CASE pred[1] = "lit"   -> pred[2] = c \/ (nocase /\ Lower(pred[2]) = Lower(c))
    [] pred[1] = "range" -> \/ Code[c] \in Code[pred[2]]..Code[pred[3]]
                            \/ nocase /\ Code[Lower(c)] \in Code[pred[2]]..Code[pred[3]]
    [] pred[1] = "set"   -> InSet(pred[2], c)

-----------------------------------------------------------------------------
(* The compiler.  It goes over the pattern with a state st; a result is    *)
(* the node and the state after it, or why the pattern is refused.         *)

R(st, node) == [why |-> "ok", st |-> st, node |-> node]
Refuse(why) == [why |-> why]
OnOk(r, F(_, _)) == IF r.why = "ok" THEN F(r.st, r.node) ELSE r
To(st, i)    == [st EXCEPT !.i = i]
Peek(p, st)  == At(p, st.i)

RECURSIVE SkipX(_, _)
SkipX(p, st) ==
  CASE ~st.expanded -> st
    [] st.expanded /\ Peek(p, st) \in TclSpace -> SkipX(p, To(st, st.i + 1))
    [] st.expanded /\ Peek(p, st) = "#" ->
         SkipX(p, To(st, SkipAll(p, st.i, Range(p) \ {"nl"})))
    [] OTHER -> st

(* A bound {m}, {m,}, {,n} or {m,n} whose digits begin at i; Infinite is   *)
(* no maximum.  What is no bound is literal text.                          *)
Infinite == 99
NoBound  == [to |-> 0, min |-> 0, max |-> 0]
IntOr(p, from, to, none) == IF from = to THEN none ELSE Number(p, from, to, 10, 0)
ScanBound(p, i) ==
  Then(SkipAll(p, i, Decimal), LAMBDA j :
    CASE At(p, j) = "}" /\ j > i -> [to |-> j + 1, min |-> IntOr(p, i, j, 0), max |-> IntOr(p, i, j, 0)]
      [] At(p, j) = "," -> Then(SkipAll(p, j + 1, Decimal), LAMBDA k :
           IF At(p, k) # "}" THEN NoBound
           ELSE [to |-> k + 1, min |-> IntOr(p, i, j, 0), max |-> IntOr(p, j + 1, k, Infinite)])
      [] OTHER -> NoBound)
ScanBreBound(p, i) ==
  Then(SkipAll(p, i, Decimal), LAMBDA j : Then(IF At(p, j) = "," THEN SkipAll(p, j + 1, Decimal) ELSE j, LAMBDA k :
    IF At(p, k) # "\\" \/ At(p, k + 1) # "}" THEN NoBound
    ELSE [to |-> k + 2, min |-> IntOr(p, i, j, 0),
          max |-> IF j = k THEN IntOr(p, i, j, 0) ELSE IntOr(p, j + 1, k, Infinite)]))
Quantifier(p, st) ==
  CASE Peek(p, st) = "*"             -> [to |-> st.i + 1, min |-> 0, max |-> Infinite]
    [] Peek(p, st) = "+" /\ ~st.bre  -> [to |-> st.i + 1, min |-> 1, max |-> Infinite]
    [] Peek(p, st) = "?" /\ ~st.bre  -> [to |-> st.i + 1, min |-> 0, max |-> 1]
    [] Peek(p, st) = "{" /\ ~st.bre  -> ScanBound(p, st.i + 1)
    [] Peek(p, st) = "\\" /\ st.bre /\ At(p, st.i + 1) = "{" -> ScanBreBound(p, st.i + 2)
    [] OTHER                         -> NoBound

ParseQuant(p, before, atom) ==
  Then(SkipX(p, before), LAMBDA st : Then(Quantifier(p, st), LAMBDA q :
    IF q.to = 0 THEN R(st, atom)
    ELSE Then(SkipX(p, To(st, q.to)), LAMBDA after :
           Then(~after.bre /\ Peek(p, after) = "?", LAMBDA lazy :
             R(IF lazy THEN To(after, after.i + 1) ELSE after, <<"rep", atom, q.min, q.max, lazy>>)))))

ApplyFlag(st, f) ==
  CASE f = "b" -> [st EXCEPT !.bre = TRUE]
    [] f \in {"c", "i"} -> [st EXCEPT !.nocase = (f = "i")]
    [] f \in {"e", "x"} -> [st EXCEPT !.expanded = TRUE]
    [] f = "q" -> [st EXCEPT !.literal = TRUE]
    [] f \in {"n", "p"} -> [st EXCEPT !.lineanchor = TRUE, !.linestop = (f = "p")]
    [] f = "w" -> [st EXCEPT !.linestop = TRUE]
    [] f = "s" -> [st EXCEPT !.lineanchor = TRUE]
    [] OTHER -> st
Flags == {"b", "c", "i", "e", "x", "q", "n", "p", "w", "s"} \cup Letters

Named == [n |-> "nl", t |-> "tab", r |-> "cr", f |-> "ff", v |-> "vt", a |-> "bel", e |-> "esc", b |-> "bs"]
UnescapeChar(c) == IF c \in DOMAIN Named THEN Named[c] ELSE c
Shorthands == {"d", "D", "w", "W", "s", "S"}
Asserts == [m |-> "wordstart", M |-> "wordend", y |-> "wordb", Y |-> "notwordb", A |-> "bos", z |-> "eos", Z |-> "eos"]

HexChar(p, st) ==
  Then(Past(p, st.i, Hex, 2), LAMBDA to :
    IF to = st.i THEN Refuse("invalid hex escape") ELSE R(To(st, to), <<"char", Chr(Number(p, st.i, to, 16, 0))>>))

(* The escape whose letter is at i; a run of digits waits for the number   *)
(* of groups.                                                              *)
ParseEscape(p, st) ==
  Then(Peek(p, st), LAMBDA c : Then(To(st, st.i + 1), LAMBDA after :
    CASE c = "end" -> Refuse("trailing backslash")
      [] st.bre /\ c \in Decimal \ {"0"} -> R(after, <<"backref", ValueOf(c)>>)
      [] st.bre /\ c \notin Decimal \ {"0"} -> R(after, <<"char", UnescapeChar(c)>>)
      [] ~st.bre /\ c = "x" -> HexChar(p, after)
      [] ~st.bre /\ c \in Decimal ->
           Then(Past(p, st.i, Decimal, 9), LAMBDA to : R(To(st, to), <<"digits", Slice(p, st.i, to)>>))
      [] ~st.bre /\ c \in Shorthands -> R(after, <<"class", FALSE, <<<<"set", c>>>>>>)
      [] ~st.bre /\ c \in DOMAIN Asserts -> R(after, <<Asserts[c]>>)
      [] OTHER -> R(after, <<"char", UnescapeChar(c)>>)))

(* class_char: a character, or a set.                                      *)
ClassChar(p, i) ==
  Then(At(p, i), LAMBDA c : Then(At(p, i + 1), LAMBDA e :
    CASE c = "end" -> Refuse("unmatched '['")
      [] c \notin {"end", "\\"} -> [why |-> "ok", to |-> i + 1, pred |-> <<"lit", c>>]
      [] c = "\\" /\ e = "end" -> Refuse("trailing backslash")
      [] c = "\\" /\ e \in Shorthands -> [why |-> "ok", to |-> i + 2, pred |-> <<"set", e>>]
      [] OTHER -> [why |-> "ok", to |-> i + 2, pred |-> <<"lit", UnescapeChar(e)>>]))

(* A bracket name at i: its preds, or none.                                *)
Negated(name) == CASE name = "digit" -> "D" [] name = "word" -> "W" [] name = "space" -> "S" [] OTHER -> name
PosixNames == {"alpha", "digit", "alnum", "upper", "lower", "space", "word"}
PosixAt(p, i) ==
  Then(IF At(p, i + 2) = "^" THEN i + 3 ELSE i + 2, LAMBDA j :
    IF At(p, i) = "[" /\ At(p, i + 1) = ":" /\ At(p, j) \in PosixNames /\ At(p, j + 1) = ":" /\ At(p, j + 2) = "]"
    THEN [to |-> j + 3, pred |-> <<"set", IF At(p, i + 2) = "^" THEN Negated(At(p, j)) ELSE At(p, j)>>]
    ELSE [to |-> 0, pred |-> <<>>])

RECURSIVE ClassItems(_, _, _, _)
ClassItems(p, i, first, preds) ==
  CASE At(p, i) = "end" -> Refuse("unmatched '['")
    [] At(p, i) = "]" /\ ~first -> [why |-> "ok", to |-> i + 1, preds |-> preds]
    [] PosixAt(p, i).to # 0 -> ClassItems(p, PosixAt(p, i).to, FALSE, Append(preds, PosixAt(p, i).pred))
    [] OTHER -> Then(ClassChar(p, i), LAMBDA lo :
         IF lo.why # "ok" THEN lo
         ELSE IF lo.pred[1] = "lit" /\ At(p, lo.to) = "-" /\ At(p, lo.to + 1) \notin {"end", "]"}
              THEN Then(ClassChar(p, lo.to + 1), LAMBDA hi :
                     IF hi.why # "ok" THEN hi
                     ELSE ClassItems(p, hi.to, FALSE, preds \o
                            IF hi.pred[1] = "lit" THEN <<<<"range", lo.pred[2], hi.pred[2]>>>>
                            ELSE <<lo.pred, hi.pred>>))
              ELSE ClassItems(p, lo.to, FALSE, Append(preds, lo.pred)))
ParseClass(p, st) ==
  Then(At(p, st.i + 1) = "^", LAMBDA neg :
    Then(ClassItems(p, IF neg THEN st.i + 2 ELSE st.i + 1, TRUE, <<>>), LAMBDA c :
      IF c.why # "ok" THEN c ELSE R(To(st, c.to), <<"class", neg, c.preds>>)))

RECURSIVE ParseAlt(_, _), ParseBranches(_, _, _), ParseCat(_, _, _), ParseAtom(_, _), ParseParen(_, _)

(* A group whose inside begins in state st.                                *)
Grouped(p, st, F(_)) ==
  OnOk(ParseAlt(p, st), LAMBDA after, sub :
    IF Peek(p, after) = ")" THEN R(To(after, after.i + 1), F(sub)) ELSE Refuse("expected ')'"))

ParseParen(p, st) ==
  LET i == st.i
      j == SkipAll(p, i + 2, Flags)
      flagged == FoldLeft(ApplyFlag, st, Slice(p, i + 2, j))
  IN CASE At(p, i + 1) = "<" /\ At(p, i + 2) \in {"=", "!"} ->
            Grouped(p, To(st, i + 3), LAMBDA sub : <<"look", At(p, i + 2) = "!", TRUE, sub>>)
       [] At(p, i + 1) = "?" /\ j = i + 2 /\ At(p, j) \in {"=", "!"} ->
            Grouped(p, To(st, j + 1), LAMBDA sub : <<"look", At(p, j) = "!", FALSE, sub>>)
       [] At(p, i + 1) = "?" /\ At(p, j) = ":" -> Grouped(p, To(flagged, j + 1), LAMBDA sub : <<"ncap", sub>>)
       [] At(p, i + 1) = "?" /\ At(p, j) = ")" -> R(To(flagged, j + 1), <<"empty">>)
       [] At(p, i + 1) = "?" /\ At(p, j) \notin {":", ")"} /\ ~(j = i + 2 /\ At(p, j) \in {"=", "!"}) ->
            Refuse("unrecognized flag")
       [] OTHER -> Grouped(p, [st EXCEPT !.i = i + 1, !.ngroups = @ + 1],
                           LAMBDA sub : <<"cap", st.ngroups + 1, sub>>)

ParseAtom(p, before) ==
  Then(SkipX(p, before), LAMBDA st : Then(Peek(p, st), LAMBDA c : Then(To(st, st.i + 1), LAMBDA after :
    CASE c = "end" -> R(st, <<"empty">>)
      [] c # "end" /\ st.literal -> R(after, <<"char", c>>)
      [] ~st.literal /\ c = "(" /\ ~st.bre -> ParseParen(p, st)
      [] ~st.literal /\ c = "["  -> ParseClass(p, st)
      [] ~st.literal /\ c = "."  -> R(after, <<"dot">>)
      [] ~st.literal /\ c = "^"  -> R(after, <<"bol">>)
      [] ~st.literal /\ c = "$"  -> R(after, <<"eol">>)
      [] ~st.literal /\ c \in {"*", "+", "?"} -> Refuse("quantifier with nothing to repeat")
      [] ~st.literal /\ c = "\\" -> ParseEscape(p, after)
      [] OTHER -> R(after, <<"char", c>>))))

CatOf(items) == CASE Len(items) = 0 -> <<"empty">> [] Len(items) = 1 -> items[1] [] OTHER -> <<"cat", items>>
ParseCat(p, before, items) ==
  Then(SkipX(p, before), LAMBDA st :
    IF \/ Peek(p, st) = "end"
       \/ ~st.bre /\ Peek(p, st) \in {"|", ")"}
       \/ st.bre /\ Peek(p, st) = "\\" /\ At(p, st.i + 1) = ")"
    THEN R(st, CatOf(items))
    ELSE OnOk(ParseAtom(p, st), LAMBDA after, atom :
           OnOk(ParseQuant(p, after, atom), LAMBDA done, item : ParseCat(p, done, Append(items, item)))))

ParseBranches(p, before, branches) ==
  Then(SkipX(p, before), LAMBDA st :
    IF st.bre \/ Peek(p, st) # "|"
    THEN R(st, IF Len(branches) = 1 THEN branches[1] ELSE <<"alt", branches>>)
    ELSE OnOk(ParseCat(p, To(st, st.i + 1), <<>>), LAMBDA after, b : ParseBranches(p, after, Append(branches, b))))
ParseAlt(p, st) == OnOk(ParseCat(p, st, <<>>), LAMBDA after, b : ParseBranches(p, after, <<b>>))

(* resolve_digits: the longest number of a group, else an octal character. *)
CharsOf(s) == [k \in DOMAIN s |-> <<"char", s[k]>>]
Resolved(run, ngroups) ==
  LET fits == {n \in DOMAIN run : run[1] # "0" /\ Number(run, 1, n + 1, 10, 0) <= ngroups}
      octal == Past(run, 1, Octal, 3)
  IN IF fits # {} THEN <<<<"backref", Number(run, 1, Max(fits) + 1, 10, 0)>>>>
                       \o CharsOf(SubSeq(run, Max(fits) + 1, Len(run)))
     ELSE <<<<"char", Chr(IF octal = 1 THEN 0 ELSE Number(run, 1, octal, 10, 0))>>>>
          \o CharsOf(SubSeq(run, octal, Len(run)))

RECURSIVE ResolveDigits(_, _)
ResolveDigits(n, ngroups) ==
  CASE n[1] = "digits" -> CatOf(Resolved(n[2], ngroups))
    [] n[1] \in {"cat", "alt"} -> <<n[1], [k \in DOMAIN n[2] |-> ResolveDigits(n[2][k], ngroups)]>>
    [] n[1] = "cap"  -> <<"cap", n[2], ResolveDigits(n[3], ngroups)>>
    [] n[1] = "ncap" -> <<"ncap", ResolveDigits(n[2], ngroups)>>
    [] n[1] = "rep"  -> [n EXCEPT ![2] = ResolveDigits(@, ngroups)]
    [] n[1] = "look" -> [n EXCEPT ![4] = ResolveDigits(@, ngroups)]
    [] OTHER -> n

(* bt_compile; opts are the switches of the command.                       *)
Compile(p, opts) ==
  LET start == [i |-> 1, ngroups |-> 0, bre |-> FALSE, literal |-> FALSE, nocase |-> opts.nocase,
                expanded |-> opts.expanded, lineanchor |-> opts.lineanchor, linestop |-> opts.linestop]
  IN OnOk(ParseAlt(p, start), LAMBDA st, root :
       IF st.i # Len(p) + 1 THEN Refuse("unmatched closing parenthesis")
       ELSE [why |-> "ok", root |-> ResolveDigits(root, st.ngroups), ngroups |-> st.ngroups,
             nocase |-> st.nocase, lineanchor |-> st.lineanchor, linestop |-> st.linestop])
-----------------------------------------------------------------------------
(* The matcher.  What follows a node is a list todo of nodes and of the    *)
(* closures the code passes on: close, that ends a group begun at a        *)
(* position; again, that goes on with a repetition; upto, that ends a look *)
(* behind.  The captures are one table that all the attempts write, so a   *)
(* result has the table, whether it is a hit or not.                       *)

Hit(caps)  == [hit |-> TRUE, caps |-> caps]
Miss(caps) == [hit |-> FALSE, caps |-> caps]

WordBefore(s, pos) == pos > 1 /\ IsWord(s[pos - 1])
WordAfter(s, pos)  == pos <= Len(s) /\ IsWord(s[pos])

(* Whether a node that takes one character takes c.                        *)
Takes(prog, n, c) ==
  CASE n[1] = "char"  -> n[2] = c \/ (prog.nocase /\ Lower(n[2]) = Lower(c))
    [] n[1] = "dot"   -> ~prog.linestop \/ c # "nl"
    [] n[1] = "class" ->
         n[2] # (\E k \in DOMAIN n[3] :
                   \/ Has(n[3][k], c, prog.nocase)
                   \/ (prog.nocase /\ (Has(n[3][k], Lower(c), FALSE) \/ Has(n[3][k], Upper(c), FALSE))))
TakesOne == {"char", "dot", "class"}

(* Whether a node that takes none holds at pos.                            *)
Holds(prog, n, s, pos) ==
  CASE n[1] = "bol" -> pos = 1 \/ (prog.lineanchor /\ s[pos - 1] = "nl")
    [] n[1] = "eol" -> pos = Len(s) + 1 \/ (prog.lineanchor /\ s[pos] = "nl")
    [] n[1] = "bos" -> pos = 1
    [] n[1] = "eos" -> pos = Len(s) + 1
    [] n[1] = "wordb"     -> WordBefore(s, pos) # WordAfter(s, pos)
    [] n[1] = "notwordb"  -> WordBefore(s, pos) = WordAfter(s, pos)
    [] n[1] = "wordstart" -> ~WordBefore(s, pos) /\ WordAfter(s, pos)
    [] n[1] = "wordend"   -> WordBefore(s, pos) /\ ~WordAfter(s, pos)
Asserting == {"bol", "eol", "bos", "eos", "wordb", "notwordb", "wordstart", "wordend"}

SameChar(prog, x, y) == x = y \/ (prog.nocase /\ Lower(x) = Lower(y))
NoGroup == <<0, 0>>

(* A group that was closed in vain is again what it was.                   *)
LeftClosed(caps, g, before) == Miss(caps)
Undone(caps, g, before)     == Miss([caps EXCEPT ![g] = before[g]])

RECURSIVE Match(_, _, _, _, _), Branch(_, _, _, _, _, _), Repeat(_, _, _, _, _, _, _)

(* mnd, of the first of todo.                                              *)
Match(prog, s, todo, pos, caps) ==
  IF todo = <<>> THEN Hit([caps EXCEPT ![1] = <<@[1], pos>>])
  ELSE LET n == Head(todo)  rest == Tail(todo)
  IN CASE n[1] = "empty" -> Match(prog, s, rest, pos, caps)
       [] n[1] \in TakesOne -> IF pos <= Len(s) /\ Takes(prog, n, s[pos]) THEN Match(prog, s, rest, pos + 1, caps)
                                ELSE Miss(caps)
       [] n[1] \in Asserting -> IF Holds(prog, n, s, pos) THEN Match(prog, s, rest, pos, caps) ELSE Miss(caps)
       [] n[1] = "cat"  -> Match(prog, s, n[2] \o rest, pos, caps)
       [] n[1] = "ncap" -> Match(prog, s, <<n[2]>> \o rest, pos, caps)
       [] n[1] = "alt"  -> Branch(prog, s, n[2], rest, pos, caps)
       [] n[1] = "cap"  -> Match(prog, s, <<n[3], <<"close", n[2], pos>>>> \o rest, pos, caps)
       [] n[1] = "close" ->
            Then(Match(prog, s, rest, pos, [caps EXCEPT ![n[2] + 1] = <<n[3], pos>>]), LAMBDA r :
              IF r.hit THEN r ELSE Undone(r.caps, n[2] + 1, caps))
       [] n[1] = "backref" ->
            Then(caps[n[2] + 1], LAMBDA g :
              IF /\ g # NoGroup /\ pos + g[2] - g[1] <= Len(s) + 1
                 /\ \A j \in 0..(g[2] - g[1] - 1) : SameChar(prog, s[g[1] + j], s[pos + j])
              THEN Match(prog, s, rest, pos + g[2] - g[1], caps) ELSE Miss(caps))
       [] n[1] = "rep"   -> Repeat(prog, s, n, 0, rest, pos, caps)
       [] n[1] = "again" -> IF pos = n[4] /\ n[3] >= n[2][3] THEN Miss(caps)
                            ELSE Repeat(prog, s, n[2], n[3] + 1, rest, pos, caps)
       [] n[1] = "upto"  -> IF pos = n[2] THEN Hit(caps) ELSE Miss(caps)
       [] n[1] = "look"  ->
            Then(IF n[3] THEN \E j \in 1..pos : Match(prog, s, <<n[4], <<"upto", pos>>>>, j, caps).hit
                 ELSE Match(prog, s, <<n[4]>>, pos, caps).hit, LAMBDA hit :
              IF hit # n[2] THEN Match(prog, s, rest, pos, caps) ELSE Miss(caps))
       [] OTHER -> Miss(caps)

Branch(prog, s, branches, rest, pos, caps) ==
  IF branches = <<>> THEN Miss(caps)
  ELSE Then(Match(prog, s, <<Head(branches)>> \o rest, pos, caps), LAMBDA r :
         IF r.hit THEN r ELSE Branch(prog, s, Tail(branches), rest, pos, r.caps))

(* mrep: a repetition of which done are done.                              *)
Repeat(prog, s, n, done, rest, pos, caps) ==
  LET More(c) == IF done < n[4] THEN Match(prog, s, <<n[2], <<"again", n, done, pos>>>> \o rest, pos, c) ELSE Miss(c)
      Stop(c) == IF done >= n[3] THEN Match(prog, s, rest, pos, c) ELSE Miss(c)
  IN IF n[5] THEN Then(Stop(caps), LAMBDA r : IF r.hit THEN r ELSE More(r.caps))
     ELSE Then(More(caps), LAMBDA r : IF r.hit THEN r ELSE Stop(r.caps))

(* bt_caps_at: the first position where the pattern matches.  The groups   *)
(* that took part, the match first, as positions of the slice.             *)
RECURSIVE CapsFrom(_, _, _)
CapsFrom(prog, s, start) ==
  IF start > Len(s) + 1 THEN <<>>
  ELSE Then(Match(prog, s, <<prog.root>>, start, [g \in 1..(prog.ngroups + 1) |-> IF g = 1 THEN <<start, 0>> ELSE NoGroup]),
            LAMBDA r : IF r.hit THEN r.caps ELSE CapsFrom(prog, s, start + 1))
CapsAt(prog, s) == CapsFrom(prog, s, 1)
=============================================================================
