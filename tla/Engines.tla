------------------------------- MODULE Engines -------------------------------
(* The three ways rtcl runs a script: the tree walk (interp/eval.rs), the   *)
(* executor of compiled units (interp/vm_exec.rs) and the wasm that         *)
(* rtcl-jit makes of a unit.  All call the same builtins                    *)
(* (commands/loops.rs, control.rs), which run their bodies through          *)
(* Interp::eval, so that in any engine the Rust stack is a stack of         *)
(* scripts or units and of commands in progress.  Runs of the same script,  *)
(* one per engine, go side by side: when all are at a command the model     *)
(* knows nothing of, it does the same and completes alike in each.          *)
EXTENDS JitCode

CONSTANTS Programs,   \* [script, inProc, modes]: what is run, and as a proc's body?
          Lone,       \* the modes in which one engine runs, under a step budget
          Most        \* the variable's values stay below it

ASSUME MostAssumption == Most \in Nat \ {0, 1, 2}

VARIABLES prog, mode,
          acts,       \* per engine: the Rust stack
          sig,        \* per engine: the completion on its way to the top of acts
          var,        \* per engine: the variable of loops, set and incr
          spent,      \* Interp.steps has reached max_steps
          bumped      \* Interp.tier1_epoch is past the units': if is redefined

vars == <<prog, mode, acts, sig, var, spent, bumped>>
Order == <<"walked", "compiled", "jitted">>
Names == {"walked", "compiled", "jitted"}
Running == CASE mode = "both" -> {"walked", "compiled"} [] mode = "all" -> Names [] OTHER -> {mode}

AnyCode == {Ok(<<1>>), Failed, C("break", <<>>), C("continue", <<>>), C("return", <<1>>)}
Calm == {Ok(<<0>>), Ok(<<1>>), Failed}

(* strict_bool of what a condition gave: numbers only.                      *)
IsBool(v) == Len(v) = 1 /\ v[1] >= 0
Holds(c)  == c.code = "ok" /\ IsBool(c.val) /\ c.val[1] > 0
Fails(c)  == c.code = "ok" /\ IsBool(c.val) /\ c.val[1] = 0
Unmet(c) == IF c.code = "ok" THEN Failed ELSE c   \* a condition that is neither
(* A list of one element is that element; an empty element shows.           *)
ListOf(got) == FlattenSeq([i \in DOMAIN got |-> IF got[i] = <<>> THEN <<-1>> ELSE got[i]])

(* --- The Rust stack ------------------------------------------------------ *)
Unit(s, locals) == [k |-> "unit", code |-> CompileUnit(s), pc |-> 1, stack |-> <<>>,
                    loops |-> <<>>, each |-> <<>>, bodies |-> <<>>, site |-> <<>>,
                    src |-> s, lex |-> locals]
Walk(s, lex) == [k |-> "script", cmds |-> s, at |-> 1, val |-> <<>>, ph |-> "command", lex |-> lex]
Leaf(id, arg, may, does) == [k |-> "leaf", id |-> id, arg |-> arg, may |-> may, does |-> does]
Expr(id) == Leaf(id, <<>>, Calm, "nothing")
Command(c, arg, lex) == [k |-> "command", c |-> c, arg |-> arg, ph |-> "enter", i |-> 1,
                         got |-> <<>>, held |-> None, lex |-> lex]
Dispatched(c, arg, lex) ==
  CASE c.do = "leaf" -> Leaf(c.id, arg, c.may, c.does)
    [] c.do = "if" /\ bumped -> Leaf("if", <<>>, Calm, "nothing")
    [] OTHER -> Command(c, arg, lex)

(* Interp::eval: the cached unit, while its epoch is the interpreter's, or  *)
(* the commands.  What the wasm has evaluated runs on the executor.         *)
Eval(e, s) == IF e = "walked" \/ bumped THEN Walk(s, FALSE) ELSE Unit(s, FALSE)
(* eval_expr, from a builtin.                                               *)
EvalExpr(e, t) == IF t.t = "plain" THEN Expr(t.id) ELSE Eval(e, t.s)

Top(e)   == Last(acts[e])
Alive(e) == e \in Running /\ acts[e] # <<>>
Waits(e) == acts[e] # <<>> /\ sig[e] = None /\ Top(e).k = "leaf"
Ended(e) == acts[e] = <<>>
(* The model lets the engines go in an order; none sees another.            *)
Turn(e)  == /\ Alive(e)
            /\ \A f \in Running : (\E i, j \in 1..3 : i < j /\ Order[i] = f /\ Order[j] = e)
                                  => Waits(f) \/ Ended(f)

Settled(e, stack, c, v) == /\ acts' = [acts EXCEPT ![e] = stack]
                           /\ sig' = [sig EXCEPT ![e] = c]
                           /\ var' = [var EXCEPT ![e] = v]
                           /\ UNCHANGED <<prog, mode, spent, bumped>>
Below(e) == Front(acts[e])
Become(e, a)   == Settled(e, Append(Below(e), a), None, var[e])
Enter(e, a, b) == Settled(e, Below(e) \o <<a, b>>, None, var[e])
Leave(e, c)    == Settled(e, Below(e), c, var[e])

(* Interp::charge_step: past the budget every charge is an error.           *)
Charged == ~spent

(* --- The executor -------------------------------------------------------- *)
AtUnit(e)  == Top(e).k = "unit" /\ sig[e] = None
InUnit(e)  == AtUnit(e) /\ Top(e).pc <= Len(Top(e).code)
Op(e)      == Top(e).code[Top(e).pc]
At(e, ops) == InUnit(e) /\ Op(e).op \in ops
Goes(e, d) == [Top(e) EXCEPT !.pc = @ + d]
Pushed(u, v) == [u EXCEPT !.stack = Append(@, v)]
Popped(u)    == [u EXCEPT !.stack = Front(@)]

(* Close the innermost region; the command it belongs to is current again.  *)
Closed(u) == IF u.bodies = <<>> THEN u
             ELSE [u EXCEPT !.site = Last(u.bodies).site, !.bodies = Front(@)]
Opened(u, kind) == [u EXCEPT !.bodies = Append(@, [kind |-> kind, site |-> u.site])]
(* A jump out of a loop's middle leaves nothing of it behind.               *)
CutToKeeps(u, l) == [u EXCEPT !.bodies = SubSeq(@, 1, l.bodies), !.site = l.owner]
CutTo(u, l) == [u EXCEPT !.bodies = SubSeq(@, 1, l.bodies), !.stack = SubSeq(@, 1, l.stack),
                         !.site = l.owner]
InNext(u, l) == \E i \in l.bodies + 1 .. Len(u.bodies) : u.bodies[i].kind = "next"

LoopFrame(u, cont, brk) == [cont |-> u.pc + cont, brk |-> u.pc + brk, bodies |-> Len(u.bodies),
                            stack |-> Len(u.stack), owner |-> u.site]

(* loop_signal: a break or continue that comes out of a call is the         *)
(* innermost inline loop's.  A continue of a next script escapes that loop, *)
(* and every loop around it whose next script that loop stands in.          *)
Escape(u) ==
  LET n == Len(u.loops)
      body == {i \in 1..n-1 : ~InNext(CutTo(u, u.loops[i + 1]), u.loops[i])}
      to == IF body = {} THEN 0 ELSE CHOOSE i \in body : \A j \in body : j <= i
  IN [u EXCEPT !.loops = SubSeq(@, 1, to)]
RouteNearest(e, u, c) ==
  IF c.code \notin {"break", "continue"} \/ u.loops = <<>> THEN Leave(e, c)
  ELSE LET l == Last(u.loops)
       IN Become(e, [CutTo(u, l) EXCEPT !.pc = IF c.code = "break" THEN l.brk ELSE l.cont])
Route(e, u, c) ==
  IF c.code \notin {"break", "continue"} \/ u.loops = <<>> THEN Leave(e, c)
  ELSE LET l == Last(u.loops)
           r == Escape(u)
       IN CASE c.code = "break" -> Become(e, [CutTo(u, l) EXCEPT !.pc = l.brk])
            [] c.code = "continue" /\ ~InNext(u, l) -> Become(e, [CutTo(u, l) EXCEPT !.pc = l.cont])
            [] OTHER -> IF r.loops = <<>> THEN Leave(e, c)
                        ELSE Become(e, [CutTo(r, Last(r.loops)) EXCEPT !.pc = Last(r.loops).cont])

UnitEnds(e) == /\ AtUnit(e) /\ Top(e).pc > Len(Top(e).code)
               /\ Leave(e, Ok(Last(Top(e).stack)))
(* redispatch_target: what is left of a unit from a top-level command on.   *)
Remaining(s, own) == IF Len(own) = 1 THEN SubSeq(s, own[1] - 10, Len(s)) ELSE <<>>
BeginCmd(e) ==
  /\ At(e, {"begincmd"})
  /\ LET rest == Remaining(Top(e).src, Op(e).at.own)
     IN IF bumped /\ rest # <<>> THEN Become(e, Walk(rest, Top(e).lex))
        ELSE Become(e, [Goes(e, 1) EXCEPT !.site = Op(e).at.own])
Push(e)     == At(e, {"push"}) /\ Become(e, Pushed(Goes(e, 1), Op(e).x))
Pop(e)      == At(e, {"pop"}) /\ Become(e, Popped(Goes(e, 1)))
Mark(e)     == \E m \in {"submark", "exprmark", "bodymark", "nextmark"} :
                 At(e, {m}) /\ Become(e, Opened(Goes(e, 1), IF m = "nextmark" THEN "next" ELSE "other"))
SubEnd(e)   == At(e, {"subend"}) /\ Become(e, Closed(Goes(e, 1)))
(* Every inline body ends in a jump; a backward one costs a step.           *)
Jump(e)     == /\ At(e, {"jump"})
               /\ IF Op(e).x <= 0 /\ ~Charged THEN Leave(e, Failed)
                  ELSE Become(e, Closed(Goes(e, Op(e).x)))
JumpFalse(e) ==
  /\ At(e, {"jumpfalse"})
  /\ LET v == Ok(Last(Top(e).stack))
     IN \/ Holds(v) /\ Become(e, Opened(Popped(Goes(e, 1)), "other"))
        \/ Fails(v) /\ Become(e, Popped(Goes(e, Op(e).x)))
        \/ ~Holds(v) /\ ~Fails(v) /\ Leave(e, Failed)
LoopEnter(e) == /\ At(e, {"loopenter"})
                /\ Become(e, [Goes(e, 1) EXCEPT !.loops =
                                Append(@, LoopFrame(Top(e), Op(e).x.cont, Op(e).x.brk))])
LoopExit(e)  == At(e, {"loopexit"}) /\ Become(e, [Goes(e, 1) EXCEPT !.loops = Front(@)])

Collecting(u, v) == IF Last(u.each).keep
                    THEN [u EXCEPT !.each[Len(u.each)].got = Append(@, v)] ELSE u
ForeachStart(e) ==
  /\ At(e, {"foreachstart"})
  /\ LET o == Op(e).x
         u == Popped(Top(e))
         v == [u EXCEPT !.each = Append(@, [i |-> 1, n |-> o.n, keep |-> o.keep, got |-> <<>>]),
                        !.loops = Append(@, LoopFrame(u, o.next, o.end)),
                        !.pc = @ + IF o.n = 0 THEN o.end ELSE 1]
     IN Settled(e, Append(Below(e), v), None, IF o.n = 0 THEN var[e] ELSE 1)
ForeachNext(e) ==
  /\ At(e, {"foreachnext"})
  /\ LET u == Top(e)
         i == Last(u.each).i + 1
     IN \/ i > Last(u.each).n /\ Become(e, Goes(e, 1))
        \/ i <= Last(u.each).n /\ ~Charged /\ Leave(e, Failed)
        \/ /\ i <= Last(u.each).n /\ Charged
           /\ Settled(e, Append(Below(e), [Goes(e, Op(e).x) EXCEPT !.each[Len(u.each)].i = i]), None, i)
Collect(e) == /\ At(e, {"collect"})
              /\ Become(e, Collecting(Popped(Goes(e, 1)), Last(Top(e).stack)))
ForeachEnd(e) == /\ At(e, {"foreachend"})
                 /\ Become(e, Pushed([Goes(e, 1) EXCEPT !.loops = Front(@), !.each = Front(@)],
                                     ListOf(Last(Top(e).each).got)))

(* op_break, op_continue: straight to the innermost loop's target; without  *)
(* a loop they are completions like any other.                              *)
LeapFree(e, name, target) ==
  /\ At(e, {name})
  /\ LET u == Top(e) IN
     \/ u.loops = <<>> /\ Leave(e, C(name, <<>>))
     \/ /\ u.loops # <<>>
        /\ Become(e, [CutTo(u, Last(u.loops)) EXCEPT !.pc = Last(u.loops)[target]])
Leap(e, name, target) ==
  /\ At(e, {name})
  /\ LET u == Top(e) IN
     \/ u.loops = <<>> /\ Leave(e, C(name, <<>>))
     \/ /\ u.loops # <<>>
        /\ IF Last(u.loops)[target] <= u.pc /\ ~Charged THEN Leave(e, Failed)
           ELSE Become(e, [CutTo(u, Last(u.loops)) EXCEPT !.pc = Last(u.loops)[target]])
Break(e)    == Leap(e, "break", "brk")
Continue(e) == Leap(e, "continue", "cont")
Return(e)   == At(e, {"return"}) /\ Leave(e, C("return", Last(Top(e).stack)))

(* Instructions that run something else, and what they do with its          *)
(* completion: its value is pushed, an error or a return ends the unit.     *)
Test(e)       == /\ At(e, {"test"})
                 /\ Enter(e, Goes(e, 1), Expr(Op(e).x))
EvalScript(e) == /\ At(e, {"evalscript"})
                 /\ Enter(e, Popped(Goes(e, 1)), Eval(e, Op(e).x))
(* set and incr of the variable: a word of it is left.                      *)
Incremented(v) == (v + 1) % Most
StoreVar(e) == /\ At(e, {"storevar"})
               /\ Settled(e, Append(Below(e), Goes(e, 1)), None, Last(Top(e).stack)[1])
IncrVar(e)  == /\ At(e, {"incrvar"})
               /\ LET v == Incremented(var[e])
                  IN Settled(e, Append(Below(e), Pushed(Goes(e, 1), <<v>>)), None, v)
Call(e) ==
  /\ At(e, {"call"})
  /\ LET o   == Op(e).x
         u   == [Goes(e, 1) EXCEPT !.stack = SubSeq(@, 1, Len(@) - o.n)]
         arg == IF o.n = 1 THEN <<>> ELSE Last(Top(e).stack)
     IN IF Charged THEN Enter(e, u, Dispatched(o.c, arg, u.lex)) ELSE Leave(e, Failed)
Returned(e) == /\ Top(e).k = "unit" /\ sig[e] # None
               /\ IF sig[e].code = "ok" THEN Become(e, Pushed(Top(e), sig[e].val))
                  ELSE Route(e, Top(e), sig[e])

ExecOp(e) == \/ UnitEnds(e) \/ BeginCmd(e) \/ Push(e) \/ Pop(e) \/ Mark(e) \/ SubEnd(e)
             \/ Jump(e) \/ JumpFalse(e) \/ LoopEnter(e) \/ LoopExit(e)
             \/ ForeachStart(e) \/ ForeachNext(e) \/ Collect(e) \/ ForeachEnd(e)
             \/ Break(e) \/ Continue(e) \/ Return(e)
             \/ Test(e) \/ EvalScript(e) \/ StoreVar(e) \/ IncrVar(e) \/ Call(e) \/ Returned(e)

(* --- The wasm of a unit (exec.rs, proc_exec.rs) --------------------------- *)
(* Values are in registers, one per place of the stack.  The variable is    *)
(* cached in the wasm's memory until the first instruction the host does:   *)
(* kept, <<>> or its value, and dirty, not yet written back.  each holds    *)
(* the host's foreach loops, rounds the wasm's own counters of them.        *)
Chunk == 1
(* The wasm of a unit is made once and kept.                                *)
Modules == <<>> @@ [p \in {q \in Programs : q.modes \cap {"all", "jitted"} # {}} |->
                      Assembled(CompileUnit(p.script), p.inProc)]
Made == Modules[prog]
Wasmed(m, lex) == [k |-> "jit", at |-> Len(m.flat), regs |-> [d \in 1..m.high |-> <<>>],
                   caching |-> TRUE, kept |-> <<>>, dirty |-> FALSE, fuel |-> 0, each |-> <<>>,
                   rounds |-> [pc \in m.counters |-> [i |-> 0, n |-> 0]],
                   lex |-> lex]
(* A unit the passes refuse runs on the executor.                           *)
Jitted(s, lex) == IF Made.ok THEN Wasmed(Made, lex) ELSE Unit(s, lex)

(* f is the instruction the wasm stands at.                                 *)
Value(e, f) == Top(e).regs[f.depth]
Onward(e)  == [Top(e) EXCEPT !.at = @ - 1]
ToPlace(e, to)  == [Top(e) EXCEPT !.at = to]
Put(t, d, v) == [t EXCEPT !.regs[d] = v]

(* LoadVar; the write back before the host does anything, after which       *)
(* nothing is cached any more.                                              *)
Loaded(e) == IF Top(e).kept = <<>> THEN var[e] ELSE Top(e).kept[1]
Keeping(t, v) == [t EXCEPT !.kept = IF t.caching THEN <<v>> ELSE <<>>]
Stored(e) == IF Top(e).dirty THEN Top(e).kept[1] ELSE var[e]
Impure(t) == [t EXCEPT !.caching = FALSE, !.kept = <<>>, !.dirty = FALSE]
Hosts(e, t, a) == Settled(e, Below(e) \o <<Impure(t), a>>, None, Stored(e))
(* rtcl.refuel charges for a chunk of the jumps back.                       *)
Fuelled(e, t) == IF t.fuel = 0 /\ ~Charged THEN Leave(e, Failed)
                 ELSE Become(e, [t EXCEPT !.fuel = IF @ = 0 THEN Chunk ELSE @ - 1])

JitPush(e, f) == f.do = "push" /\ Become(e, Put(Onward(e), f.depth + 1, f.source.x))
JitStore(e, f) ==
  /\ f.do = "storevar"
  /\ IF Top(e).caching THEN Become(e, [Keeping(Onward(e), Value(e, f)[1]) EXCEPT !.dirty = TRUE])
     ELSE Settled(e, Append(Below(e), Onward(e)), None, Value(e, f)[1])
(* A cached small integer is incremented in place.                          *)
JitIncr(e, f) ==
  /\ f.do = "incrvar"
  /\ LET v == Incremented(Loaded(e))
         t == Put(Onward(e), f.depth + 1, <<v>>)
     IN \/ Top(e).kept # <<>> /\ Become(e, [Keeping(t, v) EXCEPT !.dirty = TRUE])
        \/ Settled(e, Append(Below(e), Impure(t)), None, v)
(* An expression over small integers is computed in the wasm and does not   *)
(* fail; any other by the host.                                             *)
Computes(e, f) == /\ Top(e).caching
                  /\ Enter(e, Keeping(Top(e), Loaded(e)),
                           Leaf(f.source.x, <<>>, Calm \ {Failed}, "nothing") @@ [sees |-> Loaded(e)])
JitTest(e, f) == f.do = "test" /\ (Computes(e, f) \/ Hosts(e, Top(e), Expr(f.source.x)))
JitUnless(e, f) ==
  /\ f.do = "unless"
  /\ LET v == Ok(Value(e, f))
     IN \/ Holds(v) /\ Become(e, Onward(e))
        \/ Fails(v) /\ Become(e, ToPlace(e, f.to))
        \/ ~Holds(v) /\ ~Fails(v) /\ Leave(e, Failed)
JitGoto(e, f) == f.do = "goto" /\ Become(e, ToPlace(e, f.to))
JitFuel(e, f) == f.do = "fuel" /\ Fuelled(e, Onward(e))

RoundOf(e, f) == Top(e).rounds[f.counter]
JitForeachStart(e, f) ==
  /\ f.do = "foreachstart"
  /\ LET o == f.source.x
         t == [Impure(Onward(e)) EXCEPT !.each = Append(@, [keep |-> o.keep, got |-> <<>>]),
                                        !.rounds[f.pc] = [i |-> 0, n |-> o.n]]
     IN Settled(e, Append(Below(e), t), None, IF o.n = 0 THEN Stored(e) ELSE 1)
JitForeachEntry(e, f) ==
  /\ f.do = "entry"
  /\ Become(e, IF RoundOf(e, f).i < RoundOf(e, f).n THEN Onward(e) ELSE ToPlace(e, f.to))
JitForeachStep(e, f) ==
  /\ f.do = "step"
  /\ LET i == RoundOf(e, f).i + 1
     IN Become(e, [IF i < RoundOf(e, f).n THEN Onward(e) ELSE ToPlace(e, f.to)
                     EXCEPT !.rounds[f.counter].i = i])
JitForeachBind(e, f) ==
  /\ f.do = "bind"
  /\ Settled(e, Append(Below(e), Impure(Onward(e))), None, RoundOf(e, f).i + 1)
JitCollect(e, f) == f.do = "collect" /\ Become(e, Collecting(Onward(e), Value(e, f)))
JitForeachEnd(e, f) ==
  /\ f.do = "foreachend"
  /\ Become(e, Put([Onward(e) EXCEPT !.each = Front(@)], f.depth + 1, ListOf(Last(Top(e).each).got)))

JitResult(e, f) ==
  /\ f.do = "result"
  /\ Leave(e, Ok(IF f.depth = 0 THEN <<>> ELSE Value(e, f)))
JitLeaves(e, f) == \/ f.do = "return" /\ Leave(e, C("return", Value(e, f)))
                   \/ f.do \in {"break", "continue"} /\ Leave(e, C(f.do, <<>>))

JitEvalScript(e, f) == f.do = "evalscript" /\ Hosts(e, Top(e), Eval(e, f.source.x))
JitCall(e, f) ==
  /\ f.do = "call"
  /\ LET o == f.source.x
     IN IF Charged THEN Hosts(e, Top(e), Dispatched(o.c, IF o.n = 1 THEN <<>> ELSE Value(e, f), Top(e).lex))
        ELSE Settled(e, Below(e), Failed, Stored(e))

(* A command that moved the epoch has the rest of the unit walked, if it is *)
(* a command of the unit itself.                                            *)
Redispatched(e, f, v) ==
  LET rest == Remaining(prog.script, f.site)
  IN CASE rest = <<>>    -> Leave(e, Failed)
       [] Len(rest) = 1  -> Leave(e, Ok(v))
       [] OTHER          -> Become(e, Walk(Tail(rest), Top(e).lex))
(* take_fail sorts a completion that is not ok by its kind, the code after  *)
(* the call branches on it.                                                 *)
JitRouted(e, f, c) ==
  CASE c.code = "break" -> IF f.brk = 0 THEN Leave(e, Failed) ELSE Become(e, ToPlace(e, f.brk))
    [] c.code = "continue" /\ f.esc # NoEscape ->
         IF f.escape = 0 THEN Leave(e, c) ELSE Become(e, ToPlace(e, f.escape))
    [] c.code = "continue" /\ f.esc = NoEscape ->
         IF f.cont = 0 THEN Leave(e, Failed)
         ELSE IF f.back THEN Fuelled(e, ToPlace(e, f.cont)) ELSE Become(e, ToPlace(e, f.cont))
    [] OTHER -> Leave(e, c)
JitCalled(e, f) ==
  /\ f.do = "call"
  /\ LET c == sig[e]
     IN \/ /\ c.code = "ok" /\ ~bumped
           /\ Become(e, Put(Onward(e), f.depth - f.source.x.n + 1, c.val))
        \/ c.code = "ok" /\ bumped /\ Redispatched(e, f, c.val)
        \/ c.code # "ok" /\ JitRouted(e, f, c)
(* Of a script's break or continue the wasm takes no notice.                *)
JitEvaluated(e, f) ==
  /\ f.do = "evalscript"
  /\ IF sig[e].code \in {"error", "return"} THEN Leave(e, sig[e])
     ELSE Become(e, Put(Onward(e), f.depth, sig[e].val))
JitTested(e, f) ==
  /\ f.do = "test"
  /\ IF sig[e].code = "ok" THEN Become(e, Put(Onward(e), f.depth + 1, sig[e].val)) ELSE Leave(e, sig[e])

JitOps(e, f) ==
  \/ JitPush(e, f) \/ JitStore(e, f) \/ JitIncr(e, f) \/ JitTest(e, f) \/ JitUnless(e, f)
  \/ JitGoto(e, f) \/ JitFuel(e, f) \/ JitForeachStart(e, f) \/ JitForeachEntry(e, f)
  \/ JitForeachStep(e, f) \/ JitForeachBind(e, f) \/ JitCollect(e, f) \/ JitForeachEnd(e, f)
  \/ JitResult(e, f) \/ JitLeaves(e, f) \/ JitEvalScript(e, f) \/ JitCall(e, f)
JitBacks(e, f) == JitCalled(e, f) \/ JitEvaluated(e, f) \/ JitTested(e, f)
JitOp(e) == /\ Top(e).k = "jit"
            /\ LET f == Made.flat[Top(e).at]
               IN \/ sig[e] = None /\ JitOps(e, f)
                  \/ sig[e] # None /\ JitBacks(e, f)

(* --- The tree walk (eval_commands, eval_command) -------------------------- *)
InScript(e, ph) == Top(e).k = "script" /\ Top(e).ph = ph
Cmd(e) == Top(e).cmds[Top(e).at]
HasWord(c) == c.do \in {"leaf", "return"} /\ c.arg # <<>>

NextCommand(e) ==
  /\ InScript(e, "command") /\ sig[e] = None
  /\ \/ Top(e).at > Len(Top(e).cmds) /\ Leave(e, Ok(Top(e).val))
     \/ Top(e).at <= Len(Top(e).cmds) /\ ~Charged /\ Leave(e, Failed)
     \/ /\ Top(e).at <= Len(Top(e).cmds) /\ Charged
        /\ LET t == Top(e) IN
           IF HasWord(Cmd(e)) THEN Enter(e, [t EXCEPT !.ph = "word"], Eval(e, Cmd(e).arg))
           ELSE Enter(e, [t EXCEPT !.ph = "result"], Dispatched(Cmd(e), <<>>, t.lex))
WordDone(e) ==
  /\ InScript(e, "word") /\ sig[e] # None
  /\ IF sig[e].code = "ok"
     THEN Enter(e, [Top(e) EXCEPT !.ph = "result"], Dispatched(Cmd(e), sig[e].val, Top(e).lex))
     ELSE Leave(e, sig[e])
CommandDone(e) ==
  /\ InScript(e, "result") /\ sig[e] # None
  /\ IF sig[e].code = "ok"
     THEN Become(e, [Top(e) EXCEPT !.ph = "command", !.at = @ + 1, !.val = sig[e].val])
     ELSE Leave(e, sig[e])
WalkStep(e) == NextCommand(e) \/ WordDone(e) \/ CommandDone(e)

(* --- The builtins --------------------------------------------------------- *)
In(e, dos, ph) == Top(e).k = "command" /\ Top(e).c.do \in dos /\ Top(e).ph = ph
Begins(e, dos, ph) == In(e, dos, ph) /\ sig[e] = None
Back(e, dos, ph) == In(e, dos, ph) /\ sig[e] # None
To(e, ph) == [Top(e) EXCEPT !.ph = ph]
Runs(e, ph, s) == Enter(e, To(e, ph), Eval(e, s))
Loops == {"while", "for"}

Simple(e) ==
  /\ Begins(e, {"break", "continue", "return"}, "enter")
  /\ Leave(e, C(Top(e).c.do, Top(e).arg))

SetOrIncr(e) ==
  /\ Begins(e, {"set", "incr"}, "enter")
  /\ LET v == IF Top(e).c.do = "set" THEN Top(e).c.n ELSE Incremented(var[e])
     IN Settled(e, Below(e), Ok(<<v>>), v)

(* cmd_if.  i is the arm whose condition is looked at.                       *)
IfEnter(e) == Begins(e, {"if"}, "enter") /\ Enter(e, To(e, "test"), EvalExpr(e, Top(e).c.arms[1].test))
IfTested(e) ==
  /\ Back(e, {"if"}, "test")
  /\ LET c == Top(e).c
         i == Top(e).i
     IN \/ Holds(sig[e]) /\ Runs(e, "last", c.arms[i].body)
        \/ /\ Fails(sig[e]) /\ i < Len(c.arms)
           /\ Enter(e, [To(e, "test") EXCEPT !.i = i + 1], EvalExpr(e, c.arms[i + 1].test))
        \/ Fails(sig[e]) /\ i = Len(c.arms) /\ Runs(e, "last", c.els)
        \/ ~Holds(sig[e]) /\ ~Fails(sig[e]) /\ Leave(e, Unmet(sig[e]))

(* cmd_while, cmd_for: a step of the budget per round, the condition, the   *)
(* body; a for has a start, and a next script that may break the loop but   *)
(* not continue it.                                                          *)
LoopBegins(e) ==
  \/ Begins(e, {"while"}, "enter") /\ Become(e, To(e, "round"))
  \/ Begins(e, {"for"}, "enter") /\ Runs(e, "start", Top(e).c.start)
Started(e) == /\ Back(e, {"for"}, "start")
              /\ IF sig[e].code = "ok" THEN Become(e, To(e, "round")) ELSE Leave(e, sig[e])
Round(e) == /\ Begins(e, Loops, "round")
            /\ IF Charged THEN Enter(e, To(e, "test"), EvalExpr(e, Top(e).c.test))
               ELSE Leave(e, Failed)
Tested(e) == /\ Back(e, Loops, "test")
             /\ \/ Holds(sig[e]) /\ Runs(e, "body", Top(e).c.body)
                \/ Fails(sig[e]) /\ Leave(e, Ok(<<>>))
                \/ ~Holds(sig[e]) /\ ~Fails(sig[e]) /\ Leave(e, Unmet(sig[e]))
BodyDone(e) ==
  /\ Back(e, Loops, "body")
  /\ \/ /\ sig[e].code \in {"ok", "continue"}
        /\ IF Top(e).c.do = "for" THEN Runs(e, "next", Top(e).c.next) ELSE Become(e, To(e, "round"))
     \/ sig[e].code = "break" /\ Leave(e, Ok(<<>>))
     \/ sig[e].code \in {"error", "return"} /\ Leave(e, sig[e])
NextDone(e) ==
  /\ Back(e, {"for"}, "next")
  /\ \/ sig[e].code = "ok" /\ Become(e, To(e, "round"))
     \/ sig[e].code = "break" /\ Leave(e, Ok(<<>>))
     \/ sig[e].code \in {"continue", "error", "return"} /\ Leave(e, sig[e])

(* cmd_foreach, cmd_lmap.                                                    *)
EachRound(e) ==
  /\ Begins(e, {"foreach"}, "enter")
  /\ LET t == Top(e) IN
     \/ t.i > t.c.n /\ Leave(e, Ok(ListOf(t.got)))
     \/ t.i <= t.c.n /\ ~Charged /\ Leave(e, Failed)
     \/ /\ t.i <= t.c.n /\ Charged
        /\ Settled(e, Below(e) \o <<To(e, "body"), Eval(e, t.c.body)>>, None, t.i)
EachDone(e) ==
  /\ Back(e, {"foreach"}, "body")
  /\ LET t == [To(e, "enter") EXCEPT !.i = @ + 1] IN
     \/ /\ sig[e].code = "ok"
        /\ Become(e, IF t.c.keep THEN [t EXCEPT !.got = Append(@, sig[e].val)] ELSE t)
     \/ sig[e].code = "continue" /\ Become(e, t)
     \/ sig[e].code = "break" /\ Leave(e, Ok(ListOf(t.got)))
     \/ sig[e].code \in {"error", "return"} /\ Leave(e, sig[e])

(* cmd_eval; cmd_catch, which walks a braced body when the command stands   *)
(* in a proc's body, in either engine; cmd_try.                              *)
CodeOf == [ok |-> 0, error |-> 1, return |-> 2, break |-> 3, continue |-> 4]
EvalEnter(e)  == Begins(e, {"eval"}, "enter") /\ Runs(e, "last", Top(e).c.body)
CatchEnter(e) ==
  /\ Begins(e, {"catch"}, "enter")
  /\ IF Top(e).lex /\ Top(e).c.verbatim THEN Enter(e, To(e, "body"), Walk(Top(e).c.body, TRUE))
     ELSE Runs(e, "body", Top(e).c.body)
CatchDone(e)  == Back(e, {"catch"}, "body") /\ Leave(e, Ok(<<CodeOf[sig[e].code]>>))
TryEnter(e)   == Begins(e, {"try"}, "enter") /\ Runs(e, "body", Top(e).c.body)
(* The first handler for the completion replaces it; finally comes after.   *)
Finally(e, held) == IF Top(e).c.finally = <<>> THEN Leave(e, held)
                    ELSE Enter(e, [To(e, "finally") EXCEPT !.held = held], Eval(e, Top(e).c.finally))
TryDone(e) ==
  /\ Back(e, {"try"}, "body")
  /\ IF sig[e].code = Top(e).c.on THEN Runs(e, "handler", Top(e).c.handler) ELSE Finally(e, sig[e])
Handled(e) == Back(e, {"try"}, "handler") /\ Finally(e, sig[e])
FinallyDone(e) == /\ Back(e, {"try"}, "finally")
                  /\ Leave(e, IF sig[e].code = "ok" THEN Top(e).held ELSE sig[e])
LastDone(e) == Back(e, {"if", "eval"}, "last") /\ Leave(e, sig[e])

Builtin(e) == \/ Simple(e) \/ SetOrIncr(e) \/ IfEnter(e) \/ IfTested(e) \/ LoopBegins(e) \/ Started(e)
              \/ Round(e) \/ Tested(e) \/ BodyDone(e) \/ NextDone(e) \/ EachRound(e) \/ EachDone(e)
              \/ EvalEnter(e) \/ CatchEnter(e) \/ CatchDone(e) \/ TryEnter(e) \/ TryDone(e)
              \/ Handled(e) \/ FinallyDone(e) \/ LastDone(e)

(* --- The world around ----------------------------------------------------- *)
(* What the model knows nothing of completes, alike in all engines that     *)
(* run, and may have written the variable, or redefined if, whose epoch     *)
(* every unit is then behind.                                               *)
Doings == UNION {{Top(e).does} : e \in Running}
Answer == /\ \A e \in Running : Waits(e)
          /\ \E c \in AnyCode \cup Calm :
               /\ \A e \in Running : c \in Top(e).may
               /\ sig' = [e \in Names |-> IF e \in Running THEN c ELSE None]
          /\ acts' = [e \in Names |-> IF e \in Running THEN Below(e) ELSE acts[e]]
          /\ var' = [e \in Names |-> IF e \in Running /\ Top(e).does = "write" THEN 0 ELSE var[e]]
          /\ bumped' = (bumped \/ "bump" \in Doings)
          /\ UNCHANGED <<prog, mode, spent>>
(* A budget is only followed where one engine runs: the engines charge at   *)
(* different places.                                                         *)
Spend == /\ mode \in Lone /\ ~spent /\ \A e \in Running : ~Ended(e)
         /\ spent' = TRUE /\ UNCHANGED <<prog, mode, acts, sig, var, bumped>>
Done == (\A e \in Running : Ended(e)) /\ UNCHANGED vars

Activation(e) == CASE e = "walked"   -> Walk(prog.script, prog.inProc)
                   [] e = "compiled" -> Unit(prog.script, prog.inProc)
                   [] e = "jitted"   -> Jitted(prog.script, prog.inProc)
Init == /\ prog \in Programs
        /\ mode \in prog.modes
        /\ acts = [e \in Names |-> IF e \in Running THEN << Activation(e) >> ELSE <<>>]
        /\ sig = [e \in Names |-> None] /\ var = [e \in Names |-> 0] /\ spent = FALSE /\ bumped = FALSE

Step(e) == ExecOp(e) \/ JitOp(e) \/ WalkStep(e) \/ Builtin(e)
Work == \E e \in Names : Turn(e) /\ Step(e)
Next == Work \/ Answer \/ Spend \/ Done
Spec == Init /\ [][Next]_vars /\ WF_vars(Work) /\ WF_vars(Answer)

-----------------------------------------------------------------------------
(* A completion that no loop takes is an error in the wasm already, in the  *)
(* others where the proc or the file ends.                                  *)
Outcome(e) == IF mode = "all" /\ sig[e].code \in {"break", "continue"} THEN Failed ELSE sig[e]
SeenBy(e)  == IF "sees" \in DOMAIN Top(e) THEN Top(e).sees ELSE var[e]
Shown(e) == IF Ended(e) THEN <<"ended", Outcome(e), var[e]>>
            ELSE <<"at", Top(e).id, Top(e).arg, Top(e).does, SeenBy(e)>>
Still(e) == Ended(e) \/ Waits(e)
(* Whichever engine runs a script, the same commands run, in the same order *)
(* with the same arguments and variable, and the script completes in the    *)
(* same way (vm_exec.rs 8-12: every op's semantics are the tree walk's, the *)
(* two are interchangeable).  What could go wrong: a break, continue, error *)
(* or return that comes out of a call, a bracket, a handler or a next       *)
(* script is taken by another loop than the one the tree walk gives it to;  *)
(* a value of the variable is read from the wasm's cache, or the variable   *)
(* before it was written back; a redefined if goes on as it was compiled.   *)
Interchangeable == Cardinality(Running) > 1 /\ (\A e \in Running : Still(e))
                     => \A e \in Running : Shown(e) = Shown("walked")

(* Wherever a unit's execution stands, however it came there (a jump, a     *)
(* leap out of a loop, a completion routed to one), it holds the loops,     *)
(* foreach states, regions and values of that place of the text, no more    *)
(* and no less, and where something may fail the current command is the one *)
(* the instruction belongs to, so an error is attributed to it (LoopFrame,  *)
(* ForeachFrame, Region and cur_site of vm_exec.rs; the compiler emits      *)
(* their openings and closings apart from each other).  The registers and   *)
(* sites that one walk through the code gave the wasm are those of the text *)
(* too, and the host has the foreach loops of it.                           *)
Naming == {"test", "call", "evalscript", "jumpfalse", "foreachstart", "foreachnext",
           "break", "continue", "return"}
Touching == Naming \cup {"storevar", "incrvar", "push", "collect"}
UnitFits(u) ==
  LET g == IF u.pc > Len(u.code) THEN Up(Start) ELSE u.code[u.pc].at
  IN /\ Len(u.loops) = g.loops /\ Len(u.each) = g.each
     /\ Len(u.bodies) = g.regions /\ Len(u.stack) = g.stack
     /\ u.pc <= Len(u.code) /\ u.code[u.pc].op \in Naming => u.site = g.own
JitFits(t) ==
  LET f == Made.flat[t.at]
  IN f.do \in Touching =>
       LET g == f.source.at
       IN Len(t.each) = g.each /\ f.depth = g.stack /\ (f.do \in Naming => f.site = g.own)
FramesMatchText ==
  \A e \in Names : Alive(e) /\ sig[e] = None =>
    (Top(e).k = "unit" => UnitFits(Top(e))) /\ (Top(e).k = "jit" => JitFits(Top(e)))

(* Once the step budget is used up the script ends, in any engine and       *)
(* whatever it catches: no loop goes round without a charge (charge_step,   *)
(* mod.rs 1029; rtcl.refuel), so no loop that catches its body's errors is  *)
(* endless.                                                                 *)
BudgetEnds == spent ~> \A e \in Running : Ended(e)
=============================================================================
