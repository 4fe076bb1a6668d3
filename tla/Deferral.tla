------------------------------ MODULE Deferral ------------------------------
(***************************************************************************)
(* What `defer` promises: a script deferred in a frame runs when the frame *)
(* exits, the last one first, each exactly once, and the frame is gone     *)
(* only when none is left.                                                 *)
(***************************************************************************)
EXTENDS Sequences, SequencesExt

CONSTANT Scripts

VARIABLE acts       \* activations: [todo, stage]

Top    == acts[Len(acts)]
Alter(f) == acts' = [acts EXCEPT ![Len(acts)] = f]

Init == acts = <<>>

Begin    == acts' = Append(acts, [todo |-> <<>>, stage |-> "running"])
Defer    == /\ acts # <<>>
            /\ \E s \in Scripts : Alter([Top EXCEPT !.todo = Append(@, s)])
Leave    == acts # <<>> /\ Top.stage = "running" /\ Alter([Top EXCEPT !.stage = "leaving"])
RunLast  == /\ acts # <<>> /\ Top.stage = "leaving" /\ Top.todo # <<>>
            /\ Alter([Top EXCEPT !.todo = Front(@)])
End      == /\ acts # <<>> /\ Top.stage = "leaving" /\ Top.todo = <<>>
            /\ acts' = Front(acts)

Next == Begin \/ Defer \/ Leave \/ RunLast \/ End
Spec == Init /\ [][Next]_acts
=============================================================================
