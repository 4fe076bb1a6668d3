---------------------------- MODULE SlotPromise ----------------------------
(***************************************************************************)
(* What slots promise: a program answers as it would if every frame kept   *)
(* its variables by name.  The walked program is FrameVars itself with no  *)
(* slots; a frame is what degrading it would leave.                        *)
(***************************************************************************)
EXTENDS FrameVars

ByNames(f) == Degraded(f)
Walked == INSTANCE FrameVars WITH SlotLocals <- FALSE,
                                  frames <- [i \in DOMAIN frames |-> ByNames(frames[i])]

(* The exception the code makes: an instruction on a slot linked to a      *)
(* global variable goes straight to its key, whether the variable is       *)
(* traced, an array, or one the link is dead for.  It then answers as if   *)
(* all were well and may write that one variable, nothing else.            *)
Shortcut ==
  \E n \in Names :
    /\ Slotted(n) /\ Key(n) # None
    /\ Global(Key(n)) \in traced \/ globals[Key(n)].arr \/ IsDead(n)
    /\ op' \in {<<"read", n>>, <<"incr", n>>} \cup {<<"write", n, v>> : v \in Vals}
    /\ out'.res = "ok" /\ ~out'.fired
    /\ \E v \in Vals \cup {globals[Key(n)].val} :
          globals' = [globals EXCEPT ![Key(n)].val = v]
    /\ UNCHANGED <<frames, traced, live>>

(* The program with slots is the walked program, shortcuts apart.          *)
AnswersAsWalked ==
  Walked!Init /\ [][Walked!Next \/ (frames # <<>> /\ Shortcut)]_vars
=============================================================================
