---------------------------- MODULE CommandTraces ----------------------------
(***************************************************************************)
(* Traces on commands: rename and delete traces, which follow a command    *)
(* from name to name, and execution traces, which bracket its calls        *)
(* (enter, leave) and the commands of its body (enterstep, leavestep)      *)
(* (trace.rs; call_proc and eval_command where they fire them).            *)
(*                                                                         *)
(* Which proc's step traces a command fires is the top of a stack, steps,  *)
(* that calls push only while some execution trace exists.  While a        *)
(* callback of an execution trace runs, none fires.                        *)
(*                                                                         *)
(* What is under way is a stack, doing: calls, commands bracketed by step   *)
(* traces, and batches of callbacks.                                       *)
(***************************************************************************)
EXTENDS Naturals, Sequences, FiniteSets, SequencesExt

CONSTANTS
  Keys,        \* names of procs
  None,        \* no key: a rename to nothing
  Programs,    \* the sets of commands a program keeps to (a bound of the model)
  MaxIds,      \* bound of the model: traces ever added
  MaxNest      \* max_call_depth, in things under way

VARIABLES
  program,     \* one of Programs, for good
  cmds,        \* the procs there are
  cmdTraces,   \* cmd_traces: key -> [id, ops, script]; id is history
  execTraces,  \* exec_traces: key -> [id, ops, script], only keys it holds
  ids,         \* exec_trace_ids
  steps,       \* exec_step_stack
  running,     \* exec_step_running
  doing,       \* what is under way, the innermost last
  ended        \* how the last thing under way ended

vars == <<program, cmds, cmdTraces, execTraces, ids, steps, running, doing, ended>>

Drop(f, k)   == [x \in DOMAIN f \ {k} |-> f[x]]
Put(f, k, v) == [x \in DOMAIN f \cup {k} |-> IF x = k THEN v ELSE f[x]]
On(f, k)     == IF k \in DOMAIN f THEN f[k] ELSE <<>>
IdsOf(q)     == {q[i].id : i \in DOMAIN q}
Move(f, a, b) == IF a \notin DOMAIN f THEN f ELSE Put(Drop(f, a), b, On(f, b) \o f[a])

(* Vec::retain: a sequence without the elements of a set, in order.        *)
Dropped(s, gone) ==
  LET kept[k \in 0 .. Len(s)] ==
        IF k = 0 THEN <<>>
        ELSE IF s[k] \in gone THEN kept[k - 1] ELSE Append(kept[k - 1], s[k])
  IN  kept[Len(s)]
Recs(q, op)  == Dropped(q, {t \in Range(q) : op \notin t.ops})

Top   == doing[Len(doing)]
Idle  == doing = <<>>
InTop(a) == [doing EXCEPT ![Len(doing)] = a]
Finish(r) == doing' = Front(doing) /\ ended' = r
(* Scripts run at the top level, in a body and as callbacks.               *)
Free  == Idle \/ (~Idle /\ Top.kind = "call" /\ Top.stage = "body")

Fresh == /\ cmds = Keys /\ cmdTraces = <<>> /\ execTraces = <<>> /\ ids = 0
         /\ steps = <<>> /\ running = 0 /\ doing = <<>> /\ ended = "ok"
Init == program \in Programs /\ Fresh

(* What is under way.  now: the proc a call runs, after tail calls; snap:  *)
(* the ids of the step traces a command began with; cmd: its command.      *)
CallOf(k, traced)  == [kind |-> "call", key |-> k, now |-> k, stage |-> "enter", traced |-> traced]
StepOf(key, snap, c) == [kind |-> "step", key |-> key, snap |-> snap, cmd |-> c, stage |-> "enter"]
ScriptOf(t)        == [kind |-> "script", cmd |-> t.script]
ExecOf(key, op, todo) ==
  [kind |-> "exec", key |-> key, op |-> op, todo |-> todo, strict |-> (op = "enter"), inside |-> FALSE]
CmdOf(key, op, todo) == [kind |-> "cmd", key |-> key, op |-> op, todo |-> todo]

(* exec_fire_ids: the records of a set of ids that are registered now, the *)
(* newest first.  strict: an error is the command's own, of enter only.    *)
Batch(key, which, op) ==
  LET here == Recs(On(execTraces, key), op)
  IN  ExecOf(key, op, Reverse(Dropped(here, {t \in Range(here) : t.id \notin which})))
All(key) == IdsOf(On(execTraces, key))
Quiet == running > 0 \/ DOMAIN execTraces = {}

Same == UNCHANGED <<program, cmds, cmdTraces, execTraces, ids>>
Calm == UNCHANGED <<steps, running>>

-----------------------------------------------------------------------------
(* Commands; base is what is under way when they start *)

Answer(base, r) == doing' = base /\ ended' = r

(* The context of the steps is only kept while execution traces exist, and *)
(* enter fires before the frame does.                                      *)
CallProc(base, k) ==
  /\ IF k \in cmds /\ Len(base) < MaxNest
     THEN LET call == Append(base, CallOf(k, DOMAIN execTraces # {}))
          IN  Answer(IF Quiet THEN call ELSE Append(call, Batch(k, All(k), "enter")), "ok")
     ELSE Answer(base, "error")
  /\ Same /\ Calm

(* proc: a new definition drops the traces of an old one.                  *)
Define(base, k) ==
  /\ cmds' = cmds \cup {k}
  /\ cmdTraces'  = IF k \in cmds THEN Drop(cmdTraces, k) ELSE cmdTraces
  /\ execTraces' = IF k \in cmds THEN Drop(execTraces, k) ELSE execTraces
  /\ Answer(base, "ok") /\ UNCHANGED <<program, ids>> /\ Calm

CmdBatch(key, q, op) == CmdOf(key, op, Reverse(Recs(q, op)))

(* rename, finish_cmd_rename: the traces move with the command and then    *)
(* those for rename fire; a delete fires its own and leaves the rest.      *)
StaysBehind(f, a, b) == f
Rekeyed(f, a, b) == Move(f, a, b)
Rename(base, k, new) ==
  \/ /\ k \notin cmds \/ new \in cmds
     /\ Answer(base, "error") /\ Same /\ Calm
  \/ /\ k \in cmds /\ new = None
     /\ cmds' = cmds \ {k}
     /\ doing' = Append(base, CmdBatch(k, On(cmdTraces, k), "delete")) /\ ended' = "ok"
     /\ UNCHANGED <<program, cmdTraces, execTraces, ids>> /\ Calm
  \/ /\ k \in cmds /\ new \in Keys \ cmds
     /\ cmds' = (cmds \ {k}) \cup {new}
     /\ cmdTraces' = Rekeyed(cmdTraces, k, new) /\ execTraces' = Rekeyed(execTraces, k, new)
     /\ doing' = Append(base, CmdBatch(new, On(cmdTraces', new), "rename")) /\ ended' = "ok"
     /\ UNCHANGED <<program, ids>> /\ Calm

(* trace add and trace remove; remove goes by what was registered.         *)
Rec(t) == [id |-> ids + 1, ops |-> t.ops, script |-> t.script]
AddTrace(base, t, k) ==
  \/ k \notin cmds /\ Answer(base, "error") /\ Same /\ Calm
  \/ /\ k \in cmds
     /\ IF t.exec
        THEN execTraces' = Put(execTraces, k, Append(On(execTraces, k), Rec(t))) /\ UNCHANGED cmdTraces
        ELSE cmdTraces' = Put(cmdTraces, k, Append(On(cmdTraces, k), Rec(t))) /\ UNCHANGED execTraces
     /\ ids' = ids + 1
     /\ Answer(base, "ok") /\ UNCHANGED <<program, cmds>> /\ Calm

Without(f, k, t) ==
  IF k \in DOMAIN f
  THEN [f EXCEPT ![k] = Dropped(f[k], {u \in Range(f[k]) : u.ops = t.ops /\ u.script = t.script})] ELSE f
RemoveTrace(base, t, k) ==
  \/ k \notin cmds /\ Answer(base, "error") /\ Same /\ Calm
  \/ /\ k \in cmds
     /\ IF t.exec THEN execTraces' = Without(execTraces, k, t) /\ UNCHANGED cmdTraces
                  ELSE cmdTraces' = Without(cmdTraces, k, t) /\ UNCHANGED execTraces
     /\ Answer(base, "ok") /\ UNCHANGED <<program, cmds, ids>> /\ Calm

Do(base, c) ==
  \/ c.op = "call" /\ CallProc(base, c.key)
  \/ c.op = "proc" /\ Define(base, c.key)
  \/ c.op = "rename" /\ Rename(base, c.key, c.new)
  \/ c.op = "add" /\ AddTrace(base, c.trace, c.key)
  \/ c.op = "remove" /\ RemoveTrace(base, c.trace, c.key)
  \/ c.op = "fail" /\ Answer(base, "error") /\ Same /\ Calm

-----------------------------------------------------------------------------
(* The brackets around a command *)

(* A body or the top level gives its next command: exec_step_begin takes   *)
(* the ids registered now and fires enterstep.                             *)
Stepping == ~Quiet /\ steps # <<>> /\ Last(steps) \in DOMAIN execTraces
StepBegins(base, c) ==
  /\ LET p == Last(steps)
     IN  Answer(Append(Append(base, StepOf(p, All(p), c)), Batch(p, All(p), "enterstep")), "ok")
  /\ Same /\ Calm
Room == ids < MaxIds
Command ==
  /\ Free /\ Room
  /\ \E c \in program :
       IF Stepping THEN StepBegins(doing, c) ELSE Do(doing, c)

(* The command itself, whatever enterstep did.                             *)
Bracketed ==
  /\ ~Idle /\ Top.kind = "step" /\ Top.stage = "enter"
  /\ Do(InTop([Top EXCEPT !.stage = "run"]), Top.cmd)

(* exec_step_end: the records of the snapshot still registered.            *)
Afresh(snap) == All(Top.key)
StillThere(snap) == snap
StepEnds ==
  /\ ~Idle /\ Top.kind = "step" /\ Top.stage = "run"
  /\ IF running > 0 \/ ended = "other"
     THEN Finish(ended)
     ELSE /\ doing' = Append(InTop([Top EXCEPT !.stage = ended]), Batch(Top.key, StillThere(Top.snap), "leavestep"))
          /\ ended' = "ok"
  /\ Same /\ Calm
StepOver == ~Idle /\ Top.kind = "step" /\ Top.stage \in {"ok", "error"} /\ Finish(Top.stage) /\ Same /\ Calm

-----------------------------------------------------------------------------
(* The phases of a call *)

(* An error of enter is the call's own, before there is a frame.           *)
EnterFails ==
  /\ ~Idle /\ Top.kind = "call" /\ Top.stage = "enter" /\ ended = "error"
  /\ Finish("error") /\ Same /\ Calm
Entered ==
  /\ ~Idle /\ Top.kind = "call" /\ Top.stage = "enter" /\ ended = "ok"
  /\ doing' = InTop([Top EXCEPT !.stage = "body"])
  /\ steps' = IF Top.traced THEN Append(steps, Top.key) ELSE steps
  /\ UNCHANGED <<running, ended>> /\ Same

(* tailcall: the frame's context names the target, if it has one.          *)
RetargetsAny == TRUE
Retargets == Top.traced
TailCall(k) ==
  /\ ~Idle /\ Top.kind = "call" /\ Top.stage = "body" /\ k \in cmds \ {Top.now}
  /\ doing' = InTop([Top EXCEPT !.now = k])
  /\ steps' = IF Retargets /\ steps # <<>> THEN [steps EXCEPT ![Len(steps)] = k] ELSE steps
  /\ UNCHANGED <<running, ended>> /\ Same

(* What a body ended with, and what its caller then sees: a return that is *)
(* neither a value nor an error to the frame is either to the caller.      *)
Seen(r) == IF r = "other" THEN {"ok", "error", "other"} ELSE {r}

(* The frame goes; leave fires for a value and an error, under the name    *)
(* the call was entered by.                                                *)
BodyEnds(r) ==
  /\ ~Idle /\ Top.kind = "call" /\ Top.stage = "body"
  /\ steps' = IF Top.traced THEN Front(steps) ELSE steps
  /\ IF Top.traced /\ ~Quiet /\ r # "other"
     THEN /\ doing' = Append(InTop([Top EXCEPT !.stage = r]), Batch(Top.key, All(Top.key), "leave"))
          /\ ended' = "ok"
     ELSE \E seen \in Seen(r) : Finish(seen)
  /\ UNCHANGED running /\ Same
CallOver == ~Idle /\ Top.kind = "call" /\ Top.stage \in {"ok", "error"} /\ Finish(Top.stage) /\ Same /\ Calm

-----------------------------------------------------------------------------
(* Callbacks *)

(* The next callback of a batch of execution traces.                       *)
ExecCallback ==
  /\ ~Idle /\ Top.kind = "exec" /\ ~Top.inside /\ Top.todo # <<>>
  /\ running' = running + 1 /\ UNCHANGED steps
  /\ IF Len(doing) < MaxNest
     THEN LET base == InTop([Top EXCEPT !.inside = TRUE]) IN
          doing' = Append(base, ScriptOf(Head(Top.todo))) /\ ended' = "ok"
     ELSE doing' = InTop([Top EXCEPT !.inside = TRUE]) /\ ended' = "error"
  /\ Same

(* It ends; an error ends the batch of enter, and costs another its place. *)
Fewer(n) == n - 1
ExecReturns ==
  /\ ~Idle /\ Top.kind = "exec" /\ Top.inside
  /\ running' = Fewer(running) /\ UNCHANGED steps
  /\ IF ended = "error" /\ Top.strict
     THEN Finish("error") /\ UNCHANGED execTraces
     ELSE /\ doing' = InTop(ExecOf(Top.key, Top.op, Tail(Top.todo))) /\ ended' = "ok"
          /\ execTraces' = IF ended = "error" /\ Top.key \in DOMAIN execTraces
                           THEN [execTraces EXCEPT ![Top.key] =
                                   Dropped(@, {t \in Range(@) : t.id = Head(Top.todo).id})]
                           ELSE execTraces
  /\ UNCHANGED <<program, cmds, cmdTraces, ids>>

ExecOver == ~Idle /\ Top.kind = "exec" /\ ~Top.inside /\ Top.todo = <<>> /\ Finish("ok") /\ Same /\ Calm

(* Callbacks of a rename or a delete: errors are dropped.  A delete then   *)
(* drops the traces of the name, whoever registered them.                  *)
CmdCallback ==
  /\ ~Idle /\ Top.kind = "cmd" /\ Top.todo # <<>>
  /\ LET base == InTop([Top EXCEPT !.todo = Tail(@)])
     IN  IF Len(doing) < MaxNest
         THEN Answer(Append(base, ScriptOf(Head(Top.todo))), "ok")
         ELSE Answer(base, "error")
  /\ Same /\ Calm
CmdOver ==
  /\ ~Idle /\ Top.kind = "cmd" /\ Top.todo = <<>>
  /\ Finish("ok")
  /\ cmdTraces' = IF Top.op = "delete" THEN Drop(cmdTraces, Top.key) ELSE cmdTraces
  /\ UNCHANGED <<program, cmds, execTraces, ids>> /\ Calm

(* A callback is a command like another, with the step traces of whichever *)
(* proc is on top.                                                         *)
Callback ==
  /\ ~Idle /\ Top.kind = "script"
  /\ IF Stepping THEN StepBegins(Front(doing), Top.cmd) ELSE Do(Front(doing), Top.cmd)

Continue == Bracketed \/ StepEnds \/ StepOver \/ EnterFails \/ Entered \/ CallOver \/ ExecCallback
            \/ ExecReturns \/ ExecOver \/ CmdCallback \/ CmdOver \/ Callback
Ends == Idle /\ ~Room /\ UNCHANGED vars
Next == \/ Continue \/ Command \/ Ends
        \/ \E k \in Keys : TailCall(k)
        \/ \E r \in {"ok", "error", "other"} : BodyEnds(r)

Spec == Init /\ [][Next]_vars

-----------------------------------------------------------------------------
(* Properties *)

Inside == {i \in DOMAIN doing : doing[i].kind = "exec" /\ doing[i].inside}

(* exec_step_running is the number of callbacks of execution traces under  *)
(* way, however they and the batches they are in end.                      *)
RunningCounts == running = Cardinality(Inside)

(* A name the tables of traces hold is a proc's.                           *)
TypeOK ==
  /\ cmds \subseteq Keys /\ ids \in Nat
  /\ DOMAIN cmdTraces \subseteq Keys /\ DOMAIN execTraces \subseteq Keys
  /\ RunningCounts
  /\ \A i \in DOMAIN doing : doing[i].kind \in {"call", "step", "exec", "cmd", "script"}
  /\ ended \in {"ok", "error", "other"}

Traced == {i \in DOMAIN doing : doing[i].kind = "call" /\ doing[i].traced /\ doing[i].stage = "body"}

(* The stack of contexts is, in order, the procs the calls entered traced  *)
(* are running, through tail calls, errors and callbacks: a call that      *)
(* pushed nothing pops and retargets nothing.                              *)
StepContext ==
  /\ Len(steps) = Cardinality(Traced)
  /\ \A i \in Traced : steps[Cardinality({j \in Traced : j <= i})] = doing[i].now

(* A leavestep callback belongs to a record that was registered when the   *)
(* command began: one removed and added again meanwhile is another.        *)
LeaveStepPairs ==
  \A i \in DOMAIN doing : (doing[i].kind = "exec" /\ doing[i].op = "leavestep") =>
    IdsOf(doing[i].todo) \subseteq doing[i-1].snap

(* A name without a command has no rename or delete traces, except while   *)
(* its own delete traces run.                                              *)
NoTracesOfTheDead ==
  \A k \in Keys \ cmds :
    \/ On(cmdTraces, k) = <<>>
    \/ \E i \in DOMAIN doing : doing[i].kind = "cmd" /\ doing[i].key = k /\ doing[i].op = "delete"

(* Nor has it execution traces: a proc defined later under the name of a   *)
(* deleted one starts without traces.                                      *)
NoExecTracesOfTheDead == \A k \in Keys \ cmds : On(execTraces, k) = <<>>

(* A command fires the step traces of the proc whose body it stands in, no *)
(* other's.                                                                *)
StepsOfOwnBody ==
  \A i \in DOMAIN doing : doing[i].kind = "step" =>
    \E j \in 1..(i-1) :
      /\ doing[j].kind = "call" /\ doing[j].traced
      /\ \A l \in (j+1)..(i-1) : doing[l].kind # "call"
=============================================================================
