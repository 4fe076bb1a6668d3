------------------------------ MODULE MCEngines ------------------------------
(* Scripts for Engines: every kind of command with a place for a script,    *)
(* one in another's place, around a few short scripts.                      *)
EXTENDS Engines

Cmd0(do) == [do |-> do]
Do(id) == [do |-> "leaf", id |-> id, arg |-> <<>>, may |-> AnyCode, does |-> "nothing"]
Quiet(id) == [Do(id) EXCEPT !.may = Calm]
With(arg) == [Do("w") EXCEPT !.arg = arg]
Ret(arg) == [do |-> "return", arg |-> arg]
If1(t, b) == << [test |-> t, body |-> b] >>
If(arms, els, v) == [do |-> "if", arms |-> arms, els |-> els, verbatim |-> v]
While(t, b, v) == [do |-> "while", test |-> t, body |-> b, verbatim |-> v]
For(s, t, n, b, v) == [do |-> "for", start |-> s, test |-> t, next |-> n, body |-> b, verbatim |-> v]
Foreach(n, b, keep, v) == [do |-> "foreach", n |-> n, body |-> b, keep |-> keep, verbatim |-> v]
EvalOf(b) == [do |-> "eval", body |-> b]
Catch(b, v) == [do |-> "catch", body |-> b, verbatim |-> v]
Try(b, on, h, f) == [do |-> "try", body |-> b, on |-> on, handler |-> h, finally |-> f]
Plain(id) == [t |-> "plain", id |-> id]
Bracket(s) == [t |-> "sub", s |-> s]

T == Plain("t")
S(id) == << Do(id) >>

(* The places a script can stand in; v: braced and literal.                 *)
InBodies(s, v) ==
  { While(T, s, v), For(S("s"), T, S("n"), s, v), Foreach(2, s, FALSE, v), Foreach(2, s, TRUE, v) }
InNexts(s, v) == { For(S("s"), T, s, S("b"), v) }
InStarts(s, v) == { For(s, T, S("n"), S("b"), v) }
InArms(s, v) == { If(If1(T, s), S("l"), v), If(<< [test |-> T, body |-> S("a")],
                                                [test |-> Bracket(<<Quiet("q")>>), body |-> s] >>, <<>>, v) }
InElse(s, v) == { If(If1(T, S("a")), s, v) }
InCalls(s) == { EvalOf(s), Catch(s, TRUE), Catch(s, FALSE), With(s), Ret(s),
                Try(s, "break", S("h"), S("f")), Try(S("y"), "error", s, <<>>) }
InTests(s) == { If(If1(Bracket(s), S("a")), <<>>, TRUE) }
AnyPlace(s, v) == InBodies(s, v) \cup InStarts(s, v) \cup InArms(s, v) \cup InElse(s, v)
Around(s) == InBodies(s, TRUE) \cup InStarts(s, TRUE) \cup InArms(s, TRUE) \cup InElse(s, TRUE)
             \cup InCalls(s) \cup InTests(s)

Shorts == { << Do("a"), Cmd0("break") >>, << Do("a"), Cmd0("continue"), Do("c") >>, S("a") }
Firsts(s) == Around(s) \cup InNexts(s, TRUE) \cup AnyPlace(s, FALSE)

(* Who runs a script: all engines together, where the passes take the unit  *)
(* and the wasm agrees, the tree walk and the executor, or each alone.      *)
Run(s, p, agree) == [script |-> s, inProc |-> p, by |-> IF agree THEN "all" ELSE "both"]
Lonely(s, p, agree) == [script |-> s, inProc |-> p, by |-> IF agree THEN "each" ELSE "two"]
Accepted(c) == Assembled(CompileUnit(c.script), c.inProc).ok
Modes(c) == CASE c.by = "all" -> IF Accepted(c) THEN {"all"} ELSE {"both"}
              [] c.by = "each" -> IF Accepted(c) THEN Lone ELSE Lone \ {"jitted"}
              [] c.by = "two" -> Lone \ {"jitted"}
              [] OTHER -> {c.by}

(* The wasm parts from the others where a script that may break is a        *)
(* return's word, where a literal break ends a body the loop of which goes  *)
(* on only by a call's continue, and where the walk through the code met a  *)
(* literal break or continue in a bracket, a start or an inner loop.        *)
Leaps(s)  == \E i \in DOMAIN s : s[i].do \in {"break", "continue"}
Breaks(s) == \E i \in DOMAIN s : s[i].do = "break"
Agrees(s) ==
  IF ~Leaps(s) THEN Firsts(s) \ {Ret(s)}
  ELSE InNexts(s, TRUE) \cup InArms(s, TRUE) \cup InElse(s, TRUE) \cup AnyPlace(s, FALSE)
       \cup (InCalls(s) \ {Ret(s), With(s)}) \cup {While(T, s, TRUE)}
       \cup (IF Breaks(s) THEN {} ELSE InBodies(s, TRUE))

(* A loop's value is no condition; returns, with a word and without.        *)
Quits(w) == << Ret(w) >>
Returning == { If(If1(Bracket(<<While(T, S("a"), TRUE)>>), Quits(<<>>)), <<>>, TRUE),
               If(If1(T, Quits(<<Quiet("q")>>)), <<>>, TRUE), While(T, Quits(<<>>), TRUE), Ret(<<Quiet("q")>>) }
Nothing(v) == { Foreach(0, S("a"), FALSE, v), Foreach(0, S("a"), TRUE, v),
                If(If1(Bracket(<< Foreach(0, S("a"), FALSE, TRUE) >>), S("a")), S("l"), v) }
Empty == {Run(<<c, Do("z")>>, FALSE, TRUE) : c \in Nothing(TRUE) \cup Nothing(FALSE) \cup Returning}
One == UNION {{Run(<<c, Do("z")>>, p, c \in Agrees(s)) : c \in Firsts(s), p \in BOOLEAN} : s \in Shorts}

(* Two deep.  A literal continue in a next script keeps clear of the three  *)
(* places where the tree walk and the executor part (Strays).               *)
Inners(s) == Around(s) \cup InNexts(s, TRUE)
Parts(s)  == IF Cmd0("continue") \in {s[i] : i \in DOMAIN s}
             THEN InNexts(s, TRUE) \cup InStarts(s, TRUE)
                  \cup {Foreach(2, s, keep, TRUE) : keep \in BOOLEAN}
             ELSE {}
Outers(c) == Around(<<c, Do("z")>>)
Two == UNION {UNION {{Run(<<o>>, FALSE, ~Leaps(s) /\ c # Ret(s) /\ o.do # "return") : o \in
                        Outers(c) \cup (IF c \in Parts(s) THEN {} ELSE InNexts(<<c, Do("z")>>, TRUE))}
                     : c \in Inners(s)} : s \in Shorts}

(* The variable, in the wasm's cache and out of it.                         *)
Set(n) == [do |-> "set", n |-> n]
Incr   == Cmd0("incr")
Write  == [Quiet("w") EXCEPT !.does = "write"]
Count(s) == << While(T, s, TRUE), Do("z") >>
Counting ==
  { Count(s) : s \in {<<Incr>>, <<Incr, Do("a")>>, <<Write, Incr>>, <<Set(2), Write, Incr, Do("a")>>} }
  \cup { << Set(1), For(<<Set(0)>>, T, <<Incr>>, s, TRUE), Do("z") >> : s \in {<<Incr>>, S("b"), <<>>} }
  \cup { << Incr, c, Incr, Do("z") >> : c \in
           { If(If1(T, <<Incr>>), <<Set(2)>>, TRUE), If(If1(T, S("a")), <<Set(2), Incr>>, TRUE),
             If(If1(T, <<Set(2)>>), S("a"), TRUE), EvalOf(<<Incr>>), Catch(<<Set(2), Do("a")>>, TRUE),
             Foreach(2, <<Incr, Do("a")>>, FALSE, TRUE), Foreach(2, <<Incr>>, TRUE, TRUE) } }
Vars == {Run(s, p, TRUE) : s \in Counting, p \in BOOLEAN}

(* A command that redefines if, and what comes after it.                    *)
Bump(id) == [Quiet(id) EXCEPT !.does = "bump"]
AnIf == If(If1(T, <<Ret(<<>>)>>), <<>>, TRUE)
Redefining == { << Do("y"), c, AnIf, Do("z") >> : c \in
                  { Bump("b"), EvalOf(<<Bump("b"), AnIf>>), Catch(<<Bump("b"), AnIf>>, FALSE) } }
              \cup { << AnIf, Bump("b") >> }
BumpingLoop == << While(T, <<Bump("b")>>, TRUE), Do("z") >>
Redefined == {Run(s, p, TRUE) : s \in Redefining, p \in BOOLEAN}

(* Under a step budget, one engine at a time: loops that catch the error of *)
(* their own body, and a loop that only continues.                          *)
Spinning == { << While(T, <<Cmd0("continue")>>, v) >> : v \in BOOLEAN }
  \cup { << While(T, <<Catch(<<For(<<>>, T, S("n"), <<Catch(S("a"), v)>>, TRUE)>>, v)>>, TRUE) >> : v \in BOOLEAN }
  \cup { << While(T, <<Try(S("a"), "error", <<Foreach(2, S("h"), TRUE, v)>>, S("f"))>>, v) >> : v \in BOOLEAN }
Three == {Lonely(s, p, TRUE) : s \in Spinning \cup {BumpingLoop}, p \in BOOLEAN}
         \cup UNION {{Lonely(<<c, Do("z")>>, FALSE, c \in Agrees(s)) : c \in Firsts(s)} : s \in Shorts}

(* A unit the passes refuse.                                                *)
Refusal == << If(If1(T, S("a")), S("l"), TRUE) >>

Candidates == Empty \cup One \cup Two \cup Vars \cup Redefined \cup Three
MCPrograms == {[script |-> c.script, inProc |-> c.inProc, modes |-> Modes(c)] : c \in Candidates}
              \cup {[script |-> Refusal, inProc |-> FALSE, modes |-> {"all"}]}

(* Where the tree walk and the executor part: a continue of a loop that     *)
(* stands in a next script, and a break out of a loop's condition.          *)
Both(s, p) == [script |-> s, inProc |-> p, modes |-> {"both"}]
NextOf(c) == << For(S("s"), T, <<c>>, S("b"), TRUE) >>
MCStrays == {Both(NextOf(Foreach(2, << Do("a"), Cmd0("continue") >>, FALSE, TRUE)), TRUE)}
OtherStrays == {Both(s, TRUE) : s \in
  { NextOf(For(<<Cmd0("continue")>>, T, S("n"), S("c"), TRUE)),
    NextOf(For(S("s"), T, << Do("a"), Cmd0("continue") >>, S("c"), TRUE)),
    << While(T, << While(Bracket(S("q")), S("a"), TRUE) >>, TRUE) >> }}
=============================================================================
