------------------------------ MODULE ListText ------------------------------
(***************************************************************************)
(* How a list is written, and how its text is read (value.rs).             *)
(*                                                                         *)
(* Every value has a text, and a list has one only when it is asked for:   *)
(* the elements are then written so that the list reader gives the same    *)
(* elements back.  Each element is written as it is, in braces, or with    *)
(* its special characters escaped; what decides is what it contains.       *)
(*                                                                         *)
(* A text is a sequence of characters.  The characters lists and scripts   *)
(* tell apart are themselves; tab, nl, vt, ff and cr are the other white   *)
(* ones, and a character given by its number is named by it.               *)
(***************************************************************************)
EXTENDS Integers, Sequences, SequencesExt, FiniteSets, FiniteSetsExt, TLC

(* A text is read from a position on.                                      *)
Blank    == {" ", "tab"}
TclSpace == Blank \cup {"nl", "vt", "ff", "cr"}
Digits   == <<"0", "1", "2", "3", "4", "5", "6", "7", "8", "9", "a", "b", "c", "d", "e", "f">>
Octal    == {Digits[k] : k \in 1..8}
Decimal  == {Digits[k] : k \in 1..10}
Hex      == {Digits[k] : k \in 1..16}
ValueOf(c) == CHOOSE k \in 0..15 : Digits[k + 1] = c
Chr(n)     == "U+" \o ToString(n)

(* The characters whose order matters, in it.                              *)
Alphabet  == <<"nl", " ", "*", "+", "-", "0", "1", "2", "8", "?", "A", "B", "[", "\\", "]", "_", "a", "b", "c", "d", "e", "n", "o", "x">>
Code      == [c \in Range(Alphabet) |-> CHOOSE k \in DOMAIN Alphabet : Alphabet[k] = c]
Lower(c)  == CASE c = "A" -> "a" [] c = "B" -> "b" [] OTHER -> c
Upper(c)  == CASE c = "a" -> "A" [] c = "b" -> "B" [] OTHER -> c
Letters   == {"A", "B", "a", "b", "c", "d", "e", "n", "o", "x"}
IsWord(c) == c \in Letters \cup Decimal \cup {"_"}

At(s, i)      == IF i \in DOMAIN s THEN s[i] ELSE "end"
Slice(s, from, to) == SubSeq(s, from, to - 1)
Then(x, F(_)) == F(x)

(* The first position from i on that is not of a set, up to limit of them. *)
RECURSIVE Past(_, _, _, _)
Past(s, i, set, limit) ==
  IF limit > 0 /\ At(s, i) \in set THEN Past(s, i + 1, set, limit - 1) ELSE i
SkipAll(s, i, set) == Past(s, i, set, Len(s))

(* The number that the digits from i up to to write.                       *)
RECURSIVE Number(_, _, _, _, _)
Number(s, i, to, base, sum) ==
  IF i = to THEN sum ELSE Number(s, i + 1, to, base, sum * base + ValueOf(s[i]))

-----------------------------------------------------------------------------
(* Writing.                                                                *)

(* What the characters of an element ask for, braces counted along.        *)
RECURSIVE Asks(_, _, _)
Asks(s, i, nesting) ==
  IF i > Len(s) THEN IF nesting # 0 THEN {"require escape"} ELSE {}
  ELSE CASE s[i] = "{" -> Asks(s, i + 1, nesting + 1)
         [] s[i] = "}" -> (IF nesting < 1 THEN {"require escape"} ELSE {}) \cup Asks(s, i + 1, nesting - 1)
         [] s[i] \in {"]", "\""} -> {"forbid none", "prefer escape"} \cup Asks(s, i + 1, nesting)
         [] s[i] \in {"[", "$", ";"} \cup TclSpace ->
              {"forbid none", "prefer brace"} \cup Asks(s, i + 1, nesting)
         [] s[i] = "\\" ->
              {"forbid none", "prefer brace"}
              \cup (IF At(s, i + 1) \in {"end", "nl"} THEN {"require escape"} ELSE {})
              \cup Asks(s, IF At(s, i + 1) \in {"nl", "{", "}", "\\"} THEN i + 2 ELSE i + 1, nesting)
         [] OTHER -> Asks(s, i + 1, nesting)

ModeOf(asks) == CASE "require escape" \in asks -> "escape"
                  [] "require escape" \notin asks /\ "forbid none" \notin asks -> "none"
                  [] asks = {"forbid none", "prefer escape"} -> "mask"
                  [] OTHER -> "brace"

ScanElement(s) ==
  IF s = <<>> THEN "brace"
  ELSE ModeOf(Asks(s, 1, 0) \cup IF s[1] \in {"{", "\""} THEN {"forbid none", "prefer brace"} ELSE {})

Escaped(c, mode) ==
  CASE c \in {"]", "[", "$", ";", " ", "\\", "\""} -> <<"\\", c>>
    [] c \in {"{", "}"} /\ mode = "escape" -> <<"\\", c>>
    [] c = "nl" -> <<"\\", "n">>  [] c = "tab" -> <<"\\", "t">>  [] c = "cr" -> <<"\\", "r">>
    [] c = "ff" -> <<"\\", "f">>  [] c = "vt"  -> <<"\\", "v">>
    [] OTHER -> <<c>>

InBraces(s) == <<"{">> \o s \o <<"}">>
WrittenAs(s, mode) ==
  CASE mode = "none"  -> s
    [] mode = "brace" -> InBraces(s)
    [] OTHER          -> FlattenSeq([i \in DOMAIN s |-> Escaped(s[i], mode)])

ConvertPlainly(s, first) == IF s = <<>> THEN <<"{", "}">> ELSE WrittenAs(s, ScanElement(s))
(* A hash is hidden from the parser where it would begin a comment.        *)
Convert(s, first) ==
  CASE s = <<>> -> <<"{", "}">>
    [] s # <<>> /\ first /\ s[1] = "#" ->
         IF ScanElement(s) = "escape" THEN <<"\\", "#">> \o WrittenAs(Tail(s), "escape") ELSE InBraces(s)
    [] OTHER -> WrittenAs(s, ScanElement(s))

SerializeList(items) ==
  FlattenSeq([i \in DOMAIN items |-> (IF i > 1 THEN <<" ">> ELSE <<>>) \o Convert(items[i], i = 1)])

-----------------------------------------------------------------------------
(* Reading.                                                                *)

ByNumber(s, from, to, base) == [next |-> to, char |-> Chr(Number(s, from, to, base, 0) % 256)]

(* \x and up to two digits, \u and up to four: the letter if there is none. *)
ByHex(s, i, most) ==
  Then(Past(s, i + 2, Hex, most), LAMBDA to :
    IF to = i + 2 THEN [next |-> to, char |-> s[i + 1]]
    ELSE IF most = 2 THEN ByNumber(s, i + 2, to, 16)
    ELSE [next |-> to, char |-> Chr(Number(s, i + 2, to, 16, 0))])

(* A third octal digit is taken only when the value stays below 256.       *)
OctalEnd(s, i) == Past(s, i, Octal, IF ValueOf(s[i]) >= 4 THEN 2 ELSE 3)

Escapes == [a |-> "bel", b |-> "bs", f |-> "ff", n |-> "nl", r |-> "cr", t |-> "tab", v |-> "vt"]

(* scan_backslash, of the backslash at i.                                  *)
Backslash(s, i) ==
  Then(At(s, i + 1), LAMBDA c :
    CASE c = "end"            -> [next |-> i + 1, char |-> "\\"]
      [] c \in DOMAIN Escapes -> [next |-> i + 2, char |-> Escapes[c]]
      [] c = "x"              -> ByHex(s, i, 2)
      [] c = "u"              -> ByHex(s, i, 4)
      [] c \in Octal          -> ByNumber(s, i + 1, OctalEnd(s, i + 1), 8)
      [] c = "nl"             -> [next |-> SkipAll(s, i + 2, Blank), char |-> " "]
      [] OTHER                -> [next |-> i + 2, char |-> c])

RECURSIVE Collapse(_, _)
Collapse(s, i) ==
  CASE i > Len(s)  -> <<>>
    [] At(s, i) = "\\" -> Then(Backslash(s, i), LAMBDA e : <<e.char>> \o Collapse(s, e.next))
    [] OTHER       -> <<s[i]>> \o Collapse(s, i + 1)

Wrong(why)         == [why |-> why, elem |-> <<>>, next |-> 0]
Element(elem, next) == [why |-> "ok", elem |-> elem, next |-> next]

(* Past the closer at i there is white space or nothing.                   *)
Closed(s, i, elem, kind) ==
  IF i <= Len(s) /\ s[i] \notin TclSpace THEN Wrong("junk after " \o kind)
  ELSE Element(elem, SkipAll(s, i, TclSpace))

RECURSIVE Braced(_, _, _, _)
Braced(s, from, i, depth) ==
  CASE i > Len(s) -> Wrong("unmatched open brace")
    [] At(s, i) = "{"  -> Braced(s, from, i + 1, depth + 1)
    [] At(s, i) = "}" /\ depth = 1 -> Closed(s, i + 1, Slice(s, from, i), "braces")
    [] At(s, i) = "}" /\ depth > 1 -> Braced(s, from, i + 1, depth - 1)
    [] At(s, i) = "\\" -> Braced(s, from, Backslash(s, i).next, depth)
    [] OTHER -> Braced(s, from, i + 1, depth)

RECURSIVE Quoted(_, _, _)
Quoted(s, from, i) ==
  CASE i > Len(s) -> Wrong("unmatched open quote")
    [] At(s, i) = "\"" -> Closed(s, i + 1, Collapse(Slice(s, from, i), 1), "quotes")
    [] At(s, i) = "\\" -> Quoted(s, from, Backslash(s, i).next)
    [] OTHER -> Quoted(s, from, i + 1)

RECURSIVE BareEnd(_, _)
BareEnd(s, i) ==
  CASE i > Len(s) \/ At(s, i) \in TclSpace -> i
    [] At(s, i) = "\\" -> BareEnd(s, Backslash(s, i).next)
    [] OTHER -> BareEnd(s, i + 1)

FindElement(s, i) ==
  CASE s[i] = "{"  -> Braced(s, i + 1, i + 1, 1)
    [] s[i] = "\"" -> Quoted(s, i + 1, i + 1)
    [] OTHER -> Then(BareEnd(s, i), LAMBDA to : Element(Collapse(Slice(s, i, to), 1), to))

(* parse_elements: the elements from position i on.                        *)
RECURSIVE ElementsFrom(_, _)
ElementsFrom(s, i) ==
  IF i > Len(s) THEN [why |-> "ok", items |-> <<>>]
  ELSE Then(FindElement(s, i), LAMBDA e :
         IF e.why # "ok" THEN [why |-> e.why, items |-> <<>>]
         ELSE Then(ElementsFrom(s, SkipAll(s, e.next, TclSpace)), LAMBDA rest :
                [rest EXCEPT !.items = <<e.elem>> \o @]))
ParseList(s) == ElementsFrom(s, SkipAll(s, 1, TclSpace))

-----------------------------------------------------------------------------
(* Commands that join texts.                                               *)

(* White space at the end stays once what precedes it is a backslash.      *)
RECURSIVE TrimEnd(_, _)
TrimEnd(s, start) ==
  IF Len(s) >= start /\ Last(s) \in TclSpace /\ ~(Len(s) >= 2 /\ s[Len(s) - 1] = "\\")
  THEN TrimEnd(Front(s), start) ELSE s
ConcatTrim(s) ==
  Then(SkipAll(s, 1, TclSpace), LAMBDA start : Then(TrimEnd(s, start), LAMBDA t : SubSeq(t, start, Len(t))))

Concat(texts) ==
  FoldLeft(LAMBDA all, t : IF t = <<>> THEN all ELSE IF all = <<>> THEN t ELSE all \o <<" ">> \o t,
           <<>>, [i \in DOMAIN texts |-> ConcatTrim(texts[i])])

(* tcl_quote, which is not how a list quotes its elements.                 *)
RECURSIVE BracesOff(_, _, _)
BracesOff(s, i, depth) ==
  CASE i > Len(s) -> depth # 0
    [] At(s, i) = "{" -> BracesOff(s, i + 1, depth + 1)
    [] At(s, i) = "}" -> depth < 1 \/ BracesOff(s, i + 1, depth - 1)
    [] OTHER -> BracesOff(s, i + 1, depth)
NeedsBraces(s) ==
  \/ s = <<>> \/ BracesOff(s, 1, 0)
  \/ \E i \in DOMAIN s : s[i] \in {" ", "tab", "nl", "cr", ";", "\"", "\\", "[", "]", "$"}
TclQuote(s) == IF NeedsBraces(s) THEN InBraces(s) ELSE s
=============================================================================
