------------------------------ MODULE Bytecode ------------------------------
(* Scripts as trees, and the code the compiler makes of them                *)
(* (rtcl-parser/src/compiler.rs).  Kept are the commands whose bodies the    *)
(* compiler takes into the unit, with every jump, loop frame and region     *)
(* mark; commands that are dispatched are one instruction.  Operands are    *)
(* abstracted: a condition without brackets is one instruction, the words   *)
(* of a command are one value on the stack.  The fusion of instructions     *)
(* into larger ones (peephole) is left out, and jumps are relative, which   *)
(* stands for their patching.                                               *)
EXTENDS Integers, Sequences

(* A script is a sequence of commands.                                      *)
(*   leaf      a command the model knows nothing of; may: how it completes; *)
(*             arg: the script of a bracketed word, <<>> for none           *)
(*   return    arg likewise                                                 *)
(*   if        arms of [test, body], els                                    *)
(*   while, for, foreach (n elements; keep: it is lmap)                     *)
(*   eval, catch, try (on: the completion its handler is for)               *)
(* verbatim: the bodies are braced words that parse and the condition is a  *)
(* literal, the gates of the inline compilation (body_inlinable).           *)
(* A test is plain (an expression without brackets) or a bracketed script.  *)
None == [code |-> "none", val |-> <<>>]
C(code, v) == [code |-> code, val |-> v]
Ok(v) == C("ok", v)
Failed == C("error", <<>>)

(* An instruction: its name, its operand, and two things only the           *)
(* properties read: the command it belongs to (own) and how deep in loops,  *)
(* foreach loops, regions and values the text stands where it was compiled. *)
Place(own, loops, each, regions, stack) ==
  [own |-> own, loops |-> loops, each |-> each, regions |-> regions, stack |-> stack]
I(op, g, x) == [op |-> op, at |-> g, x |-> x]
Start == Place(<<>>, 0, 0, 0, 0)

Up(g)     == [g EXCEPT !.stack = @ + 1]
Word(g,j) == [g EXCEPT !.own = Append(@, j)]
Region(g) == [g EXCEPT !.regions = @ + 1]
Loop(g)   == [g EXCEPT !.loops = @ + 1]
Each(g)   == [Loop(g) EXCEPT !.each = @ + 1]

RECURSIVE CompileCommands(_, _, _), CompileIf(_, _, _, _)

(* compile_expr_word: a bracket in a condition goes into the unit, with the *)
(* context it stands in; otherwise the expression is evaluated.  next says  *)
(* whether the text is in the next script of a for (Compiler::in_next).     *)
CompileExprWord(t, next, g) ==
  IF t.t = "plain" THEN << I("test", g, t.id) >>
  ELSE << I("exprmark", g, 0) >> \o CompileCommands(t.s, next, Region(Word(g, 1)))
       \o << I("subend", Region(Up(g)), 0) >>

(* try_compile_sub: a bracket that is a whole word of a command.            *)
Sub(s, next, g) ==
  IF s = <<>> THEN <<>>
  ELSE << I("submark", g, 0) >> \o CompileCommands(s, next, Region(Word(g, 2)))
       \o << I("subend", Region(Up(g)), 0) >>

CompileWhile(c, g) ==
  LET l    == Loop(g)
      test == CompileExprWord(c.test, FALSE, l)
      body == CompileCommands(c.body, FALSE, Region(Word(l, 3)))
      tl   == Len(test)
      bl   == Len(body)
  IN << I("loopenter", g, [cont |-> 1, brk |-> tl + bl + 4]) >>
     \o test \o << I("jumpfalse", Up(l), bl + 3) >>
     \o body \o << I("pop", Region(Up(l)), 0), I("jump", Region(l), 0 - (tl + bl + 2)) >>
     \o << I("loopexit", l, 0), I("push", g, <<>>) >>

CompileFor(c, g) ==
  LET l     == Loop(g)
      start == CompileCommands(c.start, FALSE, Region(Word(g, 4)))
      test  == CompileExprWord(c.test, FALSE, l)
      body  == CompileCommands(c.body, FALSE, Region(Word(l, 3)))
      next  == CompileCommands(c.next, TRUE, Region(Word(l, 5)))
      tl    == Len(test)
      bl    == Len(body)
      nl    == Len(next)
  IN << I("exprmark", g, 0) >> \o start
     \o << I("subend", Region(Up(g)), 0), I("pop", Up(g), 0) >>
     \o << I("loopenter", g, [cont |-> tl + bl + 4, brk |-> tl + bl + nl + 7]) >>
     \o test \o << I("jumpfalse", Up(l), bl + nl + 6) >>
     \o body \o << I("pop", Region(Up(l)), 0), I("jump", Region(l), 1) >>
     \o << I("nextmark", l, 0) >>
     \o next \o << I("pop", Region(Up(l)), 0), I("jump", Region(l), 0 - (tl + bl + nl + 5)) >>
     \o << I("loopexit", l, 0), I("push", g, <<>>) >>

(* Inlined in any unit; unlike while and for it does not leave the context  *)
(* of a next script.                                                        *)
CompileForeach(c, next, g) ==
  LET l    == Each(g)
      body == CompileCommands(c.body, next, Region(Word(l, 3)))
      bl   == Len(body)
  IN << I("push", g, <<>>), I("foreachstart", Up(g), [n |-> c.n, keep |-> c.keep,
                                                   next |-> bl + 4, end |-> bl + 5]) >>
     \o << I("bodymark", l, 0) >> \o body
     \o << I(IF c.keep THEN "collect" ELSE "pop", Region(Up(l)), 0), I("jump", Region(l), 1) >>
     \o << I("foreachnext", l, 0 - (bl + 3)), I("foreachend", l, 0) >>

CompileIf(c, i, next, g) ==
  IF i > Len(c.arms)
  THEN IF c.els = <<>> THEN << I("push", g, <<>>) >>
       ELSE << I("bodymark", g, 0) >> \o CompileCommands(c.els, next, Region(Word(g, 3)))
            \o << I("jump", Region(Up(g)), 1) >>
  ELSE LET test == CompileExprWord(c.arms[i].test, next, g)
           body == CompileCommands(c.arms[i].body, next, Region(Word(g, 5 + i)))
           rest == CompileIf(c, i + 1, next, g)
       IN test \o << I("jumpfalse", Up(g), Len(body) + 2) >>
          \o body \o << I("jump", Region(Up(g)), Len(rest) + 1) >> \o rest

(* Tier 2 and 3: dispatched by name with its words, n of them on the stack. *)
CompileCall(c, next, g) ==
  LET arg == IF c.do = "leaf" THEN Sub(c.arg, next, Up(g)) ELSE <<>>
      n   == IF arg = <<>> THEN 1 ELSE 2
  IN << I("push", g, <<>>) >> \o arg
     \o << I("call", [g EXCEPT !.stack = @ + n], [c |-> c, n |-> n]) >>

CompileReturn(c, g) ==
  (IF c.arg = <<>> THEN << I("push", g, <<>>) >>
   ELSE << I("push", g, <<>>), I("evalscript", Up(g), c.arg) >>) \o << I("return", Up(g), 0) >>

(* compile_set, compile_incr: the variable is written in the unit.          *)
CompileSet(c, g)  == << I("push", g, <<c.n>>), I("storevar", Up(g), 0) >>
CompileIncr(g)    == << I("incrvar", g, 0) >>

CompileContinue(next, g) ==
  IF next THEN << I("loopexit", g, 0), I("continue", [g EXCEPT !.loops = @ - 1], 0) >>
  ELSE << I("continue", g, 0) >>

CompileCommand(c, next, g) ==
  << I("begincmd", g, 0) >> \o
  CASE c.do = "break"    -> << I("break", g, 0) >>
    [] c.do = "continue" -> CompileContinue(next, g)
    [] c.do = "return"   -> CompileReturn(c, g)
    [] c.do = "set"      -> CompileSet(c, g)
    [] c.do = "incr"     -> CompileIncr(g)
    [] c.do = "if"      /\ c.verbatim -> CompileIf(c, 1, next, g)
    [] c.do = "while"   /\ c.verbatim -> CompileWhile(c, g)
    [] c.do = "for"     /\ c.verbatim -> CompileFor(c, g)
    [] c.do = "foreach" /\ c.verbatim -> CompileForeach(c, next, g)
    [] OTHER -> CompileCall(c, next, g)

(* Only the last command's value is left.                                   *)
CompileCommands(s, next, g) ==
  LET code[i \in 0..Len(s)] ==
        IF i = 0 THEN <<>>
        ELSE code[i - 1] \o (IF i > 1 THEN << I("pop", Up(g), 0) >> ELSE <<>>)
             \o CompileCommand(s[i], next, Word(g, 10 + i))
  IN IF s = <<>> THEN << I("push", g, <<>>) >> ELSE code[Len(s)]

CompileUnit(s) == CompileCommands(s, FALSE, Start)
=============================================================================
