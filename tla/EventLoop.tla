----------------------------- MODULE EventLoop ------------------------------
(***************************************************************************)
(* after, vwait, update and the host's post_event and pump_events over one *)
(* queue of events (event.rs).                                             *)
(*                                                                         *)
(* An event loop runs rounds (process_events): a round reads the clock     *)
(* once and runs the ready events, in queue order, until none is ready.    *)
(* The script of an event may schedule, cancel, set variables and enter    *)
(* another loop, so loops nest; all of them take from the same queue.      *)
(*                                                                         *)
(* Time is relative: an event carries what is left of its delay, and a     *)
(* round the set of events its reading of the clock has reached.           *)
(***************************************************************************)
EXTENDS Naturals, Sequences, SequencesExt

CONSTANTS
  Ids,         \* event numbers; one in use is not given out again
  Scripts,     \* texts of scripts, which `after cancel` can name
  Vals,        \* values of the variable vwait waits for
  Unset,       \* it has none
  None,        \* a loop between two events
  MaxDelay,    \* the longest delay, in ticks
  Hosts,       \* whether the host's clock can sleep (no browser worker can)
  Cmds,        \* the commands scripts use (a bound of the model)
  Work,        \* bound of the model: commands that scripts run
  Endless,     \* TRUE: each event's script may run that many again
  MaxLoops     \* bound of the model: loops inside loops

ASSUME EventLoopAssumption ==
  /\ Ids \subseteq Nat /\ MaxDelay \in Nat /\ Work \in Nat /\ MaxLoops \in Nat
  /\ Hosts \subseteq BOOLEAN /\ Endless \in BOOLEAN
  /\ Unset \notin Vals /\ None \notin Ids
  /\ Cmds \subseteq {"after", "idle", "cancel", "set", "vwait", "update",
                     "idletasks", "post", "pump"}

VARIABLES
  queue,       \* event_queue: [id, script, idle, left]
  loops,       \* the loops entered, the innermost last
  var,         \* the variable
  work,        \* commands that scripts may still run
  canSleep     \* one of Hosts, for good

vars == <<queue, loops, var, work, canSleep>>

Top     == loops[Len(loops)]
Free    == IF loops = <<>> THEN TRUE ELSE Top.running # None
Looping == loops # <<>> /\ ~Free
SetTop(l) == [loops EXCEPT ![Len(loops)] = l]

IdsOf(q)  == {q[i].id : i \in DOMAIN q}
Due(q)    == {q[i].id : i \in {j \in DOMAIN q : q[j].left = 0}}
Idle(q)   == {q[i].id : i \in {j \in DOMAIN q : q[j].idle}}
Running   == {loops[i].running : i \in DOMAIN loops} \ {None}

Init == /\ queue = <<>> /\ loops = <<>>
        /\ var = Unset /\ work = Work /\ canSleep \in Hosts

-----------------------------------------------------------------------------
(* What scripts do, and the host *)

May(cmd)  == Free /\ cmd \in Cmds /\ work > 0 /\ work' = work - 1

NextId == LET unused == Ids \ (IdsOf(queue) \cup Running)
          IN  CHOOSE i \in unused : \A j \in unused : i <= j

(* schedule_event; a round that read the clock in this tick reaches an     *)
(* event without delay.                                                    *)
Schedule(delay, script, idle) ==
  /\ Ids \ (IdsOf(queue) \cup Running) # {}
  /\ queue' = Append(queue, [id |-> NextId, script |-> script, idle |-> idle, left |-> delay])
  /\ loops' = [i \in DOMAIN loops |->
                 IF delay = 0 /\ loops[i].fresh
                 THEN [loops[i] EXCEPT !.reached = @ \cup {NextId}] ELSE loops[i]]

After(delay, script) ==
  /\ May("after") /\ Schedule(delay, script, FALSE) /\ UNCHANGED <<var, canSleep>>
AfterIdle(script) ==
  /\ May("idle") /\ Schedule(0, script, TRUE) /\ UNCHANGED <<var, canSleep>>

Forget(ls, gone) ==
  [i \in DOMAIN ls |-> [ls[i] EXCEPT !.owed = @ \ gone, !.reached = @ \ gone]]

(* Vec::retain: a sequence without the elements of a set, in order.        *)
(* SelectSeq does as much, but the proof system knows nothing of it.       *)
Dropped(s, gone) ==
  LET kept[k \in 0 .. Len(s)] ==
        IF k = 0 THEN <<>>
        ELSE IF s[k] \in gone THEN kept[k - 1] ELSE Append(kept[k - 1], s[k])
  IN  kept[Len(s)]

(* after cancel: by id, or every event with the text.                      *)
CancelAll(doomed) ==
  /\ May("cancel") /\ doomed # {}
  /\ queue' = Dropped(queue, {queue[i] : i \in {j \in DOMAIN queue : queue[j].id \in doomed}})
  /\ loops' = Forget(loops, doomed)
  /\ UNCHANGED <<var, canSleep>>
Cancel ==
  \/ \E id \in IdsOf(queue) : CancelAll({id})
  \/ \E s \in Scripts :
       CancelAll({queue[i].id : i \in {j \in DOMAIN queue : queue[j].script = s}})

SetVar(v) ==
  /\ May("set")
  /\ var' = v
  /\ loops' = [i \in DOMAIN loops |-> [loops[i] EXCEPT !.touched = TRUE]]
  /\ UNCHANGED <<queue, canSleep>>

(* A script ends, with any completion: process_events ignores errors, and  *)
(* exit with them.                                                         *)
ScriptEnds ==
  /\ loops # <<>> /\ Free
  /\ loops' = SetTop([Top EXCEPT !.running = None])
  /\ UNCHANGED <<queue, var, work, canSleep>>

Post(script) ==
  /\ loops = <<>> /\ May("post") /\ Schedule(0, script, FALSE)
  /\ UNCHANGED <<var, canSleep>>

-----------------------------------------------------------------------------
(* Loops.  touched and owed are history: the variable was set since vwait  *)
(* began; the events that were ready then and have not been run or         *)
(* cancelled since.                                                        *)

RoundKeepsFired(l, q) == [l EXCEPT !.fresh = TRUE, !.reached = Due(q)]  \* mutant
Round(l, q) == [l EXCEPT !.fired = FALSE, !.fresh = TRUE, !.reached = Due(q)]

Enter(kind) ==
  /\ May(kind) /\ Len(loops) < MaxLoops
  /\ kind = "pump" => loops = <<>>
  /\ loops' = Append(loops, Round(
       [kind |-> kind, initial |-> var, running |-> None, fired |-> FALSE,
        fresh |-> TRUE, reached |-> {}, touched |-> FALSE,
        owed |-> IF kind = "idletasks" THEN Idle(queue) ELSE Due(queue)], queue))
  /\ UNCHANGED <<queue, var, canSleep>>

ReadyTimers(l) ==                               \* mutant: idle events only in idle rounds
  {i \in DOMAIN queue : IF l.kind = "idletasks" THEN queue[i].idle
                        ELSE ~queue[i].idle /\ queue[i].id \in l.reached}
Ready(l) ==
  {i \in DOMAIN queue : queue[i].idle \/ (l.kind # "idletasks" /\ queue[i].id \in l.reached)}
(* The event leaves the queue before its script runs.                      *)
FireInPlace ==                                  \* mutant: it leaves the queue later
  /\ Looping /\ Ready(Top) # {}
  /\ LET e == queue[CHOOSE i \in Ready(Top) : \A j \in Ready(Top) : i <= j]
     IN  loops' = [SetTop([Top EXCEPT !.running = e.id, !.fired = TRUE])
                     EXCEPT ![Len(loops)].reached = @ \ {e.id}]
  /\ work' = IF Endless THEN Work ELSE work
  /\ UNCHANGED <<queue, var, canSleep>>
Fire ==
  /\ Looping /\ Ready(Top) # {}
  /\ LET first == CHOOSE i \in Ready(Top) : \A j \in Ready(Top) : i <= j
         id    == queue[first].id
     IN  /\ queue' = RemoveAt(queue, first)
         /\ loops' = Forget(SetTop([Top EXCEPT !.running = id, !.fired = TRUE]), {id})
  /\ work' = IF Endless THEN Work ELSE work
  /\ UNCHANGED <<var, canSleep>>

RoundOver == Looping /\ Ready(Top) = {}
Again(q)  == loops' = SetTop(Round(Top, q))
Leave     == loops' = Front(loops)

(* update and pump_events: rounds until one runs nothing.                  *)
UpdateAgain ==
  /\ RoundOver /\ Top.kind # "vwait" /\ Top.fired
  /\ Again(queue) /\ UNCHANGED <<queue, var, work, canSleep>>
UpdateReturns ==
  /\ RoundOver /\ Top.kind # "vwait" /\ ~Top.fired
  /\ Leave /\ UNCHANGED <<queue, var, work, canSleep>>

(* vwait: rounds until the variable's value is not the one it had.         *)
ChangedOrIdle == var # Top.initial \/ ~Top.fired   \* mutant: a quiet round ends it too
Changed == var # Top.initial

VwaitReturns ==
  /\ RoundOver /\ Top.kind = "vwait" /\ Changed
  /\ Leave /\ UNCHANGED <<queue, var, work, canSleep>>
VwaitAgain ==
  /\ RoundOver /\ Top.kind = "vwait" /\ ~Changed /\ Top.fired
  /\ Again(queue) /\ UNCHANGED <<queue, var, work, canSleep>>

Quiet == RoundOver /\ Top.kind = "vwait" /\ ~Changed /\ ~Top.fired

VwaitGivesUp ==
  /\ Quiet /\ queue = <<>>
  /\ Leave /\ UNCHANGED <<queue, var, work, canSleep>>

(* It sleeps until the next event is due, or longer; not at all when one   *)
(* has become due since the round read the clock.                          *)
NextFire == CHOOSE n \in {queue[i].left : i \in DOMAIN queue} :
              \A i \in DOMAIN queue : n <= queue[i].left
Sleeps   == IF NextFire = 0 THEN {0} ELSE NextFire .. MaxDelay

Passed(q, n) ==
  [i \in DOMAIN q |-> [q[i] EXCEPT !.left = IF @ <= n THEN 0 ELSE @ - n]]

VwaitSleeps ==
  /\ Quiet /\ queue # <<>>
  /\ \E n \in Sleeps :
       /\ n > 0 => canSleep
       /\ queue' = Passed(queue, n)
       /\ Again(queue')
  /\ UNCHANGED <<var, work, canSleep>>
VwaitCannotSleep ==
  /\ Quiet /\ queue # <<>> /\ NextFire > 0 /\ ~canSleep
  /\ Leave /\ UNCHANGED <<queue, var, work, canSleep>>

(* Time passes whatever the interpreter does.                              *)
Tick ==
  /\ queue' = Passed(queue, 1)
  /\ loops' = [i \in DOMAIN loops |-> [loops[i] EXCEPT !.fresh = FALSE]]
  /\ UNCHANGED <<var, work, canSleep>>

-----------------------------------------------------------------------------
Step == \/ UpdateAgain \/ UpdateReturns
        \/ VwaitReturns \/ VwaitAgain \/ VwaitGivesUp \/ VwaitSleeps \/ VwaitCannotSleep
        \/ Fire

Next ==
  \/ \E s \in Scripts : AfterIdle(s) \/ Post(s) \/ \E d \in 0 .. MaxDelay : After(d, s)
  \/ Cancel
  \/ \E v \in Vals \cup {Unset} : SetVar(v)
  \/ \E kind \in {"vwait", "update", "idletasks", "pump"} : Enter(kind)
  \/ ScriptEnds \/ Step \/ Tick

(* Scripts end, the loops' own code does not stop, and the clock runs.     *)
Fairness == WF_vars(Step) /\ WF_vars(ScriptEnds) /\ WF_vars(Tick)

Spec == Init /\ [][Next]_vars /\ Fairness

-----------------------------------------------------------------------------
(* Properties *)

Kinds == {"vwait", "update", "idletasks", "pump"}
Event == [id : Ids, script : Scripts, idle : BOOLEAN, left : 0 .. MaxDelay]
Loop  == [kind : Kinds, initial : Vals \cup {Unset}, running : Ids \cup {None},
          fired : BOOLEAN, fresh : BOOLEAN, reached : SUBSET Ids,
          touched : BOOLEAN, owed : SUBSET Ids]

(* The queue holds events with numbers of their own, the stack of loops    *)
(* is inside scripts but for its top, and rounds know only pending events. *)
TypeOK ==
  /\ queue \in Seq(Event) /\ loops \in Seq(Loop) /\ var \in Vals \cup {Unset}
  /\ work \in Nat /\ canSleep \in BOOLEAN
  /\ \A i, j \in DOMAIN queue : queue[i].id = queue[j].id => i = j
  /\ \A i \in DOMAIN loops :
       /\ loops[i].reached \cup loops[i].owed \subseteq IdsOf(queue)
       /\ i < Len(loops) => loops[i].running # None

(* No event is pending while it runs, nor runs inside itself, however      *)
(* loops nest (event.rs, "Remove the event before executing").             *)
RunsOnce ==
  /\ Running \cap IdsOf(queue) = {}
  /\ \A i, j \in DOMAIN loops : i # j /\ loops[i].running # None
       => loops[i].running # loops[j].running

Returns(kinds) == Looping /\ Top.kind \in kinds /\ Len(loops') < Len(loops)

(* update and pump_events return with everything run, or cancelled, that   *)
(* was ready when they began, by themselves or by a loop inside them       *)
(* (event.rs, "Process all currently-ready events").                       *)
UpdateDrains == [][Returns({"update", "idletasks", "pump"}) => Top.owed = {}]_vars

(* Where the host can sleep, vwait on a variable nobody set goes on as long *)
(* as an event is pending that could set it (event.rs, "would wait         *)
(* forever").                                                              *)
VwaitHoldsOut ==
  [][canSleep /\ Returns({"vwait"}) /\ ~Top.touched => queue = <<>>]_vars

(* Whatever is entered returns, as long as scripts do not schedule new     *)
(* events forever (event.rs, "prevents infinite loops with `after 0`").    *)
LoopsReturn == (loops # <<>>) ~> (loops = <<>>)
=============================================================================
