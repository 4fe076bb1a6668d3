------------------------------- MODULE Parser -------------------------------
(***************************************************************************)
(* The parser of scripts (crates/rtcl-parser/src/rd): a script is read as  *)
(* commands, a command as words, a word as the parts to be substituted.    *)
(* Nested scripts are kept as texts, found by scanning for their closer    *)
(* and parsed when they are compiled.                                      *)
(*                                                                         *)
(* Lines, columns and the spans that error reports quote are left out.     *)
(***************************************************************************)
EXTENDS ListText

(* What the parser makes of a text: the result x and where it goes on, or  *)
(* why the text is refused.                                                *)
Ok(at, x) == [why |-> "ok", at |-> at, x |-> x]
Bad(why)  == [why |-> why, at |-> 0, x |-> <<>>]
OnOk(r, F(_)) == IF r.why = "ok" THEN F(r) ELSE r

Literal(t) == <<"literal", t>>
Var(name)  == <<"var", name>>
Command(t) == <<"command", t>>
Expr(t)    == <<"expr", t>>
Expand(w)  == <<"expand", w>>

(* Tokens: a line end is one token however it is written, and vt is none   *)
(* of the white ones.                                                      *)
Tok(s, i)  == IF At(s, i) = "cr" /\ At(s, i + 1) = "nl" THEN "nl" ELSE At(s, i)
After(s, i) == IF At(s, i) = "cr" /\ At(s, i + 1) = "nl" THEN i + 2 ELSE i + 1
Over(s, i) == IF At(s, i) = "end" THEN i ELSE After(s, i)
LineWhite == Blank \cup {"ff", "cr"}
NameChars == Hex \cup {"k", "n", "r", "t", "u", "v", "x", "_"}
EndOfCommand(s, i) == Tok(s, i) \in {"end", "nl", ";"}

RECURSIVE PastLineWhite(_, _)
PastLineWhite(s, i) == IF Tok(s, i) \in LineWhite THEN PastLineWhite(s, i + 1) ELSE i
RECURSIVE SkipLineWhite(_, _)
SkipLineWhite(s, i) ==
  Then(PastLineWhite(s, i), LAMBDA j :
    IF Tok(s, j) = "\\" /\ Tok(s, j + 1) = "nl" THEN SkipLineWhite(s, After(s, j + 1)) ELSE j)

(* The text of a word, or its parts when there are others than text.       *)
AddPart(parts, part) == Append(parts, part)
AddText(parts, t) ==
  CASE t = <<>> -> parts
    [] t # <<>> /\ parts # <<>> /\ Last(parts)[1] = "literal" ->
         Append(Front(parts), Literal(Last(parts)[2] \o t))
    [] OTHER -> Append(parts, Literal(t))
Word(parts) == CASE Len(parts) = 0 -> Literal(<<>>)
                 [] Len(parts) = 1 -> parts[1]
                 [] OTHER          -> <<"concat", parts>>

-----------------------------------------------------------------------------
(* Pieces of words.                                                        *)

(* backslash_subst: unlike a list's, three octal digits may overflow.      *)
OctalChar(s, from, to) ==
  Then(Number(s, from, to, 8, 0), LAMBDA n : [next |-> to, char |-> Chr(IF n > 255 THEN 0 ELSE n)])
BackslashSubst(s, i) ==
  Then(Tok(s, i + 1), LAMBDA c :
    CASE c = "nl"      -> [next |-> PastLineWhite(s, After(s, i + 1)), char |-> " "]
      [] c \in Octal   -> OctalChar(s, i + 1, Past(s, i + 1, Octal, 3))
      [] OTHER         -> Backslash(s, i))

RECURSIVE JoinLines(_, _)
JoinLines(s, i) ==
  CASE i > Len(s) -> <<>>
    [] At(s, i) = "\\" /\ Tok(s, i + 1) = "nl" ->
         <<" ">> \o JoinLines(s, SkipAll(s, After(s, i + 1), Blank))
    [] OTHER -> <<s[i]>> \o JoinLines(s, i + 1)

(* Past the brace that closes the one before i.                            *)
RECURSIVE CloseBrace(_, _, _)
CloseBrace(s, i, depth) ==
  CASE Tok(s, i) = "end" -> Bad("missing close-brace")
    [] Tok(s, i) = "{"   -> CloseBrace(s, i + 1, depth + 1)
    [] Tok(s, i) = "}"   -> IF depth = 1 THEN Ok(i + 1, <<>>) ELSE CloseBrace(s, i + 1, depth - 1)
    [] Tok(s, i) = "\\"  -> CloseBrace(s, Over(s, i + 1), depth)
    [] OTHER             -> CloseBrace(s, After(s, i), depth)

RECURSIVE CloseQuote(_, _)
CloseQuote(s, i) ==
  CASE Tok(s, i) = "end" -> Bad("missing quote")
    [] Tok(s, i) = "\""  -> Ok(i + 1, <<>>)
    [] Tok(s, i) = "\\"  -> CloseQuote(s, Over(s, i + 1))
    [] OTHER             -> CloseQuote(s, After(s, i))

(* parse_cmd_sub: braces and quotes count only where a word starts.        *)
RECURSIVE CloseBracket(_, _, _, _)
CloseBracket(s, i, depth, startofword) ==
  CASE Tok(s, i) = "end" -> Bad("missing close-bracket")
    [] Tok(s, i) = "["   -> CloseBracket(s, i + 1, depth + 1, TRUE)
    [] Tok(s, i) = "]"   -> IF depth = 1 THEN Ok(i + 1, <<>>) ELSE CloseBracket(s, i + 1, depth - 1, FALSE)
    [] Tok(s, i) = "{"  /\ startofword ->
         OnOk(CloseBrace(s, i + 1, 1), LAMBDA r : CloseBracket(s, r.at, depth, FALSE))
    [] Tok(s, i) = "\"" /\ startofword ->
         OnOk(CloseQuote(s, i + 1), LAMBDA r : CloseBracket(s, r.at, depth, FALSE))
    [] Tok(s, i) = "\\"  -> CloseBracket(s, Over(s, i + 1), depth, FALSE)
    [] OTHER -> CloseBracket(s, After(s, i), depth, Tok(s, i) \in {" ", "tab", "ff", "cr", "nl", ";"})
CmdSub(s, i) == OnOk(CloseBracket(s, i + 1, 1, TRUE), LAMBDA r : Ok(r.at, Slice(s, i + 1, r.at - 1)))

(* The parenthesis that closes the one before i; last is one that closed   *)
(* an inner one (zero if none did).                                        *)
RECURSIVE CloseParen(_, _, _, _)
CloseParen(s, i, depth, last) ==
  CASE Tok(s, i) = "end" -> [closed |-> FALSE, at |-> last]
    [] Tok(s, i) = "("   -> CloseParen(s, i + 1, depth + 1, last)
    [] Tok(s, i) = ")"   -> IF depth = 1 THEN [closed |-> TRUE, at |-> i]
                            ELSE CloseParen(s, i + 1, depth - 1, i)
    [] Tok(s, i) = "\\"  -> CloseParen(s, Over(s, i + 1), depth, last)
    [] OTHER             -> CloseParen(s, After(s, i), depth, last)

RECURSIVE NameEnd(_, _)
NameEnd(s, i) == CASE Tok(s, i) \in NameChars -> NameEnd(s, i + 1)
                   [] Tok(s, i) = ":" /\ Tok(s, i + 1) = ":" -> NameEnd(s, i + 2)
                   [] OTHER -> i

(* An index that is never closed ends at the last parenthesis inside it.   *)
VarName(s, from, to) ==
  IF Tok(s, to) # "(" THEN Ok(to, Var(Slice(s, from, to)))
  ELSE Then(CloseParen(s, to + 1, 1, 0), LAMBDA p :
         IF p.at = 0 THEN Bad("missing paren")
         ELSE Ok(p.at + 1, Var(Slice(s, from, p.at) \o <<")">>)))

ExprSugar(s, i) ==
  Then(CloseParen(s, i + 1, 1, 0), LAMBDA p :
    CASE ~p.closed                  -> Ok(i, Literal(<<"$">>))
      [] p.closed /\ p.at = i + 1   -> Ok(p.at + 1, Var(<<"(", ")">>))
      [] OTHER                      -> Ok(p.at + 1, Expr(Slice(s, i + 1, p.at))))

RECURSIVE To(_, _, _)
To(s, i, c) == IF Tok(s, i) \in {c, "end"} THEN i ELSE To(s, After(s, i), c)
BracedName(s, i) ==
  Then(To(s, i + 1, "}"), LAMBDA to :
    IF At(s, to) = "end" THEN Bad("missing close-brace for variable name")
    ELSE Ok(to + 1, Var(Slice(s, i + 1, to))))

(* parse_dollar, of the dollar before i.                                   *)
Dollar(s, i) ==
  CASE Tok(s, i) = "[" -> OnOk(CmdSub(s, i), LAMBDA r : Ok(r.at, Expr(r.x)))
    [] Tok(s, i) = "{" -> BracedName(s, i)
    [] Tok(s, i) = "(" -> ExprSugar(s, i)
    [] OTHER -> IF NameEnd(s, i) = i THEN Ok(i, Literal(<<"$">>)) ELSE VarName(s, i, NameEnd(s, i))

-----------------------------------------------------------------------------
(* Words.                                                                  *)

(* What quoted and bare words substitute alike, at i.                      *)
Substitution(s, i) ==
  CASE Tok(s, i) = "["  -> OnOk(CmdSub(s, i), LAMBDA r : Ok(r.at, Command(r.x)))
    [] Tok(s, i) = "$"  -> Dollar(s, i + 1)
    [] Tok(s, i) = "\\" -> Then(BackslashSubst(s, i), LAMBDA e : Ok(e.next, Literal(<<e.char>>)))
    [] OTHER            -> Ok(After(s, i), Literal(Slice(s, i, After(s, i))))
Extend(parts, part) == IF part[1] = "literal" THEN AddText(parts, part[2]) ELSE AddPart(parts, part)

RECURSIVE QuotedWord(_, _, _)
QuotedWord(s, i, parts) ==
  CASE Tok(s, i) = "end" -> Bad("missing quote")
    [] Tok(s, i) = "\""  -> Ok(i + 1, Word(parts))
    [] OTHER -> OnOk(Substitution(s, i), LAMBDA r : QuotedWord(s, r.at, Extend(parts, r.x)))

(* A continued line ends the word when text was read since the last part.  *)
RECURSIVE BareWord(_, _, _, _)
BareWord(s, i, parts, fresh) ==
  CASE EndOfCommand(s, i) \/ Tok(s, i) \in LineWhite -> Ok(i, Word(parts))
    [] Tok(s, i) = "\\" /\ Tok(s, i + 1) = "nl" ->
         IF fresh THEN Ok(BackslashSubst(s, i).next, Word(parts))
         ELSE BareWord(s, BackslashSubst(s, i).next, parts, FALSE)
    [] OTHER -> OnOk(Substitution(s, i), LAMBDA r :
                  BareWord(s, r.at, Extend(parts, r.x), Tok(s, i) \notin {"[", "$", "\\"}))

(* Nothing may be attached to a word in braces or quotes.                  *)
CheckNoTrailingGarbage(s, r) ==
  OnOk(r, LAMBDA ok :
    IF \/ EndOfCommand(s, ok.at) \/ Tok(s, ok.at) \in LineWhite
       \/ Tok(s, ok.at) = "\\" /\ Tok(s, ok.at + 1) = "nl"
    THEN ok ELSE Bad("extra characters"))

BracedWord(s, i) ==
  OnOk(CloseBrace(s, i + 1, 1), LAMBDA r : Ok(r.at, Literal(JoinLines(Slice(s, i + 1, r.at - 1), 1))))

Expands(s, i) == /\ SubSeq(s, i, i + 2) = <<"{", "*", "}">> /\ i + 3 <= Len(s)
                 /\ s[i + 3] \notin TclSpace \cup {";"}
RECURSIVE ParseWord(_, _)
ParseWord(s, i) ==
  CASE Tok(s, i) = "{" /\ i + 2 <= Len(s) /\ Expands(s, i) ->
         OnOk(ParseWord(s, i + 3), LAMBDA r : Ok(r.at, Expand(r.x)))
    [] Tok(s, i) = "\"" -> CheckNoTrailingGarbage(s, QuotedWord(s, i + 1, <<>>))
    [] Tok(s, i) = "{"  -> CheckNoTrailingGarbage(s, BracedWord(s, i))
    [] OTHER            -> BareWord(s, i, <<>>, FALSE)

-----------------------------------------------------------------------------
(* Commands.                                                               *)

RECURSIVE CommentEnd(_, _)
CommentEnd(s, i) ==
  CASE Tok(s, i) = "end" -> i
    [] Tok(s, i) = "nl"  -> After(s, i)
    [] Tok(s, i) = "\\"  -> CommentEnd(s, Over(s, i + 1))
    [] OTHER             -> CommentEnd(s, After(s, i))

RECURSIVE SkipSeparators(_, _)
SkipSeparators(s, i) ==
  CASE Tok(s, i) \in LineWhite \cup {"nl", ";"} -> SkipSeparators(s, After(s, i))
    [] Tok(s, i) = "#" -> SkipSeparators(s, CommentEnd(s, i + 1))
    [] OTHER           -> i

RECURSIVE ParseWords(_, _, _)
ParseWords(s, i, words) ==
  IF EndOfCommand(s, i) THEN Ok(Over(s, i), words)
  ELSE OnOk(ParseWord(s, i), LAMBDA r : ParseWords(s, SkipLineWhite(s, r.at), Append(words, r.x)))

RECURSIVE ParseScript(_, _, _)
ParseScript(s, i, commands) ==
  Then(SkipSeparators(s, i), LAMBDA at :
    IF At(s, at) = "end" THEN Ok(at, commands)
    ELSE OnOk(ParseWords(s, at, <<>>), LAMBDA r : ParseScript(s, r.at, Append(commands, r.x))))
Parse(s) == ParseScript(s, 1, <<>>)

(* is_complete: one pass that takes every brace, quote and bracket for an  *)
(* opener.                                                                 *)
RECURSIVE Matching(_, _, _)
Matching(s, i, closers) ==
  LET inside == Head(closers)
      skipped == IF At(s, i + 1) = "end" THEN i + 1 ELSE i + 2
  IN CASE i > Len(s) -> Len(closers) = 1
       [] At(s, i) = "\\" /\ Len(closers) = 1 /\ Tok(s, i + 1) = "nl" ->
            Then(SkipAll(s, i + 2, Blank), LAMBDA at : at <= Len(s) /\ Matching(s, at, closers))
       [] At(s, i) = "\\" -> Matching(s, skipped, closers)
       [] At(s, i) = inside -> Matching(s, i + 1, Tail(closers))
       [] At(s, i) = "{" /\ inside # "\"" -> Matching(s, i + 1, <<"}">> \o closers)
       [] At(s, i) = "\"" /\ inside # "}" -> Matching(s, i + 1, <<"\"">> \o closers)
       [] At(s, i) = "[" /\ inside # "}" -> Matching(s, i + 1, <<"]">> \o closers)
       [] OTHER -> Matching(s, i + 1, closers)
IsComplete(s) == Matching(s, 1, <<"end">>)
=============================================================================
