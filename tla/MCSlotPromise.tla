--------------------------- MODULE MCSlotPromise ---------------------------
(* Two names, x and y; x is also a global variable and, as n::x, a         *)
(* variable of the namespace.  A program keeps to some of the operations   *)
(* and is cut after MaxSteps of them.                                      *)
EXTENDS SlotPromise, TLC

CONSTANTS Programs,   \* sets of operation groups
          MaxSteps    \* bound of the model: operations in a behaviour
VARIABLES program, steps

MCGlobalKey   == "x" :> "x"
MCVariableKey == "x" :> "n::x"
MCBodies == {[table |-> {"x", "y"}, params |-> {"y"}], [table |-> {}, params |-> {"x"}]}
MCPrograms == {{"scalars", "upvars", "info"},
               {"upvars", "globals", "elements"},
               {"upvars", "globals", "traces"},
               {"variables", "keyed", "scalars"},
               {"globals", "keyed", "traces"}}

MCView == <<frames, globals, traced, live, program, steps>>

Uses(group) == group \in program

MCInit == Init /\ program \in Programs /\ steps = 0
MCNext ==
  /\ steps < MaxSteps /\ steps' = steps + 1
  /\ UNCHANGED program
  /\ \/ Calls
     \/ /\ frames # <<>>
        /\ \/ Slots
           \/ Uses("scalars") /\ Scalars
           \/ Uses("upvars") /\ Upvars
           \/ Uses("globals") /\ GlobalCmds
           \/ Uses("variables") /\ Variables
     \/ Uses("variables") /\ Namespaces
     \/ Uses("keyed") /\ Keyed
     \/ Uses("elements") /\ Elements
     \/ Uses("traces") /\ Traces
     \/ Uses("info") /\ InfoVars
MCSpec == MCInit /\ [][MCNext]_<<vars, program, steps>>
=============================================================================
