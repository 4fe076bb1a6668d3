----------------------------- MODULE MCCallbacks -----------------------------
(* What calls scripts from the middle of a command: traces on variables    *)
(* (MCArrays) and on commands (MCCommandTraces), methods (MCObjects), and  *)
(* the handlers of channels (MCChannels).  A run is a program of one of    *)
(* the four; the others stay as the interpreter starts them.               *)
EXTENDS Naturals, Sequences

CONSTANTS
  None,
  Names, Elems, Links, MaxFrames, ArrayNest, MaxTraces, MaxCount,
  Keys, TraceNest, MaxIds,
  ObjectKeys, Root, Exported, Private, Destroy, Cloned, Bodies, MaxObjects, ObjectNest,
  Data, Pids, Cap, Chunk, MaxHandles, MaxLen, ChannelNest

ASSUME BuffersAssumption == Cap \in Nat \ {0} /\ Chunk \in Nat \ {0}

VARIABLES
  machine,     \* the module that runs, for good
  program,
  depth, links, table, traces, searches, stamps, gens, work, ret,
  cmds, cmdTraces, execTraces, ids, steps, running, doing, ended,
  objects, classes, created, commands, spaces, nextObj, memo, kont, res,
  chans, order, nextId, handles, reflected, transforms, pipes, file, active, result, finalized

ofArrays   == <<depth, links, table, traces, searches, stamps, gens, work, ret>>
ofCommands == <<cmds, cmdTraces, execTraces, ids, steps, running, doing, ended>>
ofObjects  == <<objects, classes, created, commands, spaces, nextObj, memo, kont, res>>
ofChannels == <<chans, order, nextId, handles, reflected, transforms, pipes, file, active, result, finalized>>
vars == <<machine, program, ofArrays, ofCommands, ofObjects, ofChannels>>

A == INSTANCE MCArrays WITH MaxNest <- ArrayNest, Programs <- {}
T == INSTANCE CommandTracesProofs WITH MaxNest <- TraceNest, Programs <- {}
TP == INSTANCE MCCommandTraces WITH MaxNest <- TraceNest, Programs <- {}
O == INSTANCE Objects WITH Keys <- ObjectKeys, MaxIds <- MaxObjects, MaxNest <- ObjectNest, Programs <- {}
OP == INSTANCE MCObjects WITH Keys <- ObjectKeys, MaxIds <- MaxObjects, MaxNest <- ObjectNest, Programs <- {}
C == INSTANCE ChannelsProofs WITH MaxNest <- ChannelNest, Programs <- {}

Programs(m) == CASE m = "arrays"   -> A!AllPrograms
                 [] m = "commands" -> TP!AllPrograms
                 [] m = "objects"  -> OP!AllPrograms
                 [] m = "channels" -> C!AllPrograms

MCInit == /\ machine \in {"arrays", "commands", "objects", "channels"} /\ program \in Programs(machine)
          /\ A!Fresh /\ T!Fresh /\ O!Fresh /\ C!Fresh
MCNext ==
  /\ UNCHANGED machine
  /\ \/ machine = "arrays"   /\ A!Next /\ UNCHANGED <<ofCommands, ofObjects, ofChannels>>
     \/ machine = "commands" /\ T!Next /\ UNCHANGED <<ofArrays, ofObjects, ofChannels>>
     \/ machine = "objects"  /\ O!Next /\ UNCHANGED <<ofArrays, ofCommands, ofChannels>>
     \/ machine = "channels" /\ C!Next /\ UNCHANGED <<ofArrays, ofCommands, ofObjects>>
MCSpec == MCInit /\ [][MCNext]_vars

(* The properties of the four, each while its module runs.                 *)
SearchCovers    == machine = "arrays" => A!SearchCovers
FrameTracesGone == machine = "arrays" => A!FrameTracesGone
StepContext     == machine = "commands" => T!StepContext
LeaveStepPairs  == machine = "commands" => T!LeaveStepPairs
MemoFresh       == machine = "objects" => O!MemoFresh
ReferencesLive  == machine = "objects" => O!ReferencesLive
GoneEitherWay   == [][machine = "objects" => O!GoneStep]_vars
TablesAgree     == machine = "channels" => C!TablesAgree
BufferFollows   == machine = "channels" => C!BufferFollows
EofIsFinal      == [][machine = "channels" => C!EndStaysEnd]_vars

SameName  == {<<"a", "a">>}
=============================================================================
