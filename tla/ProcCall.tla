------------------------------ MODULE ProcCall ------------------------------
(***************************************************************************)
(* A proc call, from the frame being pushed to its being popped, in the    *)
(* two copies the source has of it: call_proc ("full") and the shorter one *)
(* compiled code calls, jit_call_proc_direct ("direct").                   *)
(*                                                                         *)
(* A frame goes through phases: its body runs, a tail call may replace the *)
(* body by another proc's or run a last command, the deferred scripts run, *)
(* and the frame is popped.  The scripts in the frame's hands, body, last  *)
(* command or deferred scripts, may call other procs, so frames nest.      *)
(*                                                                         *)
(* Which names reach which proc is CommandNames' matter.  Here a proc is   *)
(* called by the key it is registered under, by its simple name from       *)
(* inside its namespace, or, when it is global, by ::name.                 *)
(*                                                                         *)
(* A behaviour keeps to one mode: the copies of the call machinery in use  *)
(* and the habits of its scripts, what they do beyond calling.  Some of    *)
(* what the calls promise holds only without certain habits; the           *)
(* properties say which.                                                   *)
(***************************************************************************)
EXTENDS Naturals, Sequences, FiniteSets, SequencesExt

CONSTANTS
  Procs,         \* the keys procs are registered under
  Home,          \* Home[k]: the namespace part of key k
  Root,          \* the global namespace
  StaticProcs,   \* the procs defined with the 4-argument proc
  LocalProcs,    \* the procs scripts create under `local`
  Vals,          \* values of a static
  Initial,       \* the value a definition gives a static
  None,          \* no statics, no value, no tail call, no command
  Builtin,       \* a command that is no proc and may run a script: eval, catch
  Scripts,       \* deferred scripts
  Modes,         \* the ways to run: [engines, habits]
  MaxCallDepth,  \* max_call_depth
  MaxDefer,      \* bound of the model: scripts deferred in a frame
  PoolMax        \* frames kept for reuse (32 in the code)

TailCalls == [proc : Procs \cup {Builtin}, spelling : {"own", "simple", "absolute"}]

ASSUME ProcCallAssumption ==
  /\ StaticProcs \subseteq Procs /\ LocalProcs \subseteq Procs \ StaticProcs
  /\ Initial \in Vals /\ None \notin Vals \cup Procs \cup TailCalls
  /\ Builtin \notin Procs
  /\ Modes \subseteq [engines : SUBSET {"full", "direct"},
                      habits : SUBSET {"recurse", "redefine", "late", "absolute",
                                       "nested", "simple", "tail", "defer"}]
  /\ MaxCallDepth \in Nat /\ MaxDefer \in Nat /\ PoolMax \in Nat

VARIABLES
  mode,       \* one of Modes, for good
  procs,      \* key -> the statics value in the definition, or None
  frames,     \* the call frames
  pool,       \* frames kept for reuse
  ns,         \* current_namespace
  depth,      \* call_depth
  redo,       \* a tail target the direct engine still has to dispatch
  escaped,    \* a tail call that left its frame as the frame's completion
  last        \* history: the last value a script gave each proc's static

vars == <<mode, procs, frames, pool, ns, depth, redo, escaped, last>>

(* The part of a frame that is cleared when it is recycled.                *)
Cleared     == [var |-> None, deferred |-> <<>>, local |-> {}, tail |-> None]
Recycled(f) == Cleared

Top       == frames[Len(frames)]
SetTop(f) == frames' = [frames EXCEPT ![Len(frames)] = f]
Put(f, k, v) == [x \in DOMAIN f \cup {k} |-> IF x = k THEN v ELSE f[x]]

(* A script is at a command, at the top level or in a frame's hands.       *)
Phase     == IF frames = <<>> THEN "toplevel" ELSE Top.phase
Calm      == redo = None /\ escaped = None
Free      == Calm /\ Phase \in {"toplevel", "body", "eval", "script"}
At(phase) == Calm /\ Phase = phase
(* A script that runs when the body is over.                               *)
Late      == Phase \in {"eval", "script"}

Keeping(k) == \E i \in DOMAIN frames : frames[i].proc = k /\ frames[i].statics # None

Init ==
  /\ mode \in Modes
  /\ procs = [k \in Procs \ LocalProcs |-> IF k \in StaticProcs THEN Initial ELSE None]
  /\ frames = <<>> /\ pool = <<>>
  /\ ns = Root /\ depth = 0
  /\ redo = None /\ escaped = None
  /\ last = [k \in StaticProcs |-> Initial]

-----------------------------------------------------------------------------
(* Calls *)

(* The spellings a call can use, and the key the frame then goes by.       *)
Spellings(k) ==
  {"own"} \cup (IF "simple" \in mode.habits /\ ns = Home[k] THEN {"simple"} ELSE {})
          \cup (IF "absolute" \in mode.habits /\ Home[k] = Root THEN {"absolute"} ELSE {})
KeyFor(k, spelling) == IF spelling = "absolute" THEN None ELSE k

(* call_proc takes the frame's namespace from the registered name; the     *)
(* direct copy takes it from the name as invoked.                          *)
FrameNs(engine, k, spelling) ==
  IF engine = "direct" /\ spelling = "simple" THEN Root ELSE Home[k]

(* key is the name call_proc goes by, None for ::name; statics is          *)
(* current_statics, the snapshot; queue, the deferred scripts still to run *)
(* once the frame exits; doomed, the local procs the direct copy will then *)
(* remove; raised, a tail call that is the frame's own completion; stale,  *)
(* a history bit: the proc was redefined.                                  *)
PushFrame(base, k, spelling, engine, p) ==
  LET kept    == IF pool = <<>> THEN Cleared ELSE Last(pool)
      statics == IF engine = "full" THEN p[k] ELSE None
      home    == FrameNs(engine, k, spelling)
  IN  /\ depth <= MaxCallDepth
      /\ frames' = Append(base,
           [proc |-> k, key |-> KeyFor(k, spelling), engine |-> engine,
            ns |-> home, prev |-> ns, statics |-> statics,
            phase |-> "body", queue |-> <<>>, doomed |-> {}, raised |-> None,
            stale |-> FALSE, kept |-> [kept EXCEPT !.var = statics]])
      /\ pool' = IF pool = <<>> THEN pool ELSE Front(pool)
      /\ ns' = home
      /\ depth' = depth + 1

(* The direct copy refuses a proc that keeps statics.                      *)
Gate(k, engine) == engine = "direct" => procs[k] = None

Enter(k, spelling, engine) ==
  /\ Free /\ engine \in mode.engines
  /\ k \in DOMAIN procs /\ spelling \in Spellings(k)
  /\ Keeping(k) => "recurse" \in mode.habits
  /\ Gate(k, engine)
  /\ PushFrame(frames, k, spelling, engine, procs)
  /\ UNCHANGED <<mode, procs, redo, escaped, last>>

(* The arguments do not fit: the frame is popped unused.                   *)
ArityError(k) ==
  /\ Free /\ k \in DOMAIN procs /\ depth <= MaxCallDepth
  /\ pool' = IF pool = <<>> /\ PoolMax > 0 THEN <<Cleared>> ELSE pool
  /\ UNCHANGED <<mode, procs, frames, ns, depth, redo, escaped, last>>

-----------------------------------------------------------------------------
(* What a script in a frame's hands may do *)

(* After the body the variable is still there, written back or not.        *)
Assign(v) ==
  /\ Free /\ frames # <<>> /\ Top.kept.var # None
  /\ Late => "late" \in mode.habits
  /\ SetTop([Top EXCEPT !.kept.var = v])
  /\ last' = IF Top.stale THEN last ELSE [last EXCEPT ![Top.proc] = v]
  /\ UNCHANGED <<mode, procs, pool, ns, depth, redo, escaped>>

Defer(s) ==
  /\ Free /\ frames # <<>> /\ "defer" \in mode.habits
  /\ Top.phase = "script" => "nested" \in mode.habits
  /\ Len(Top.kept.deferred) < MaxDefer
  /\ SetTop([Top EXCEPT !.kept.deferred = Append(@, s)])
  /\ UNCHANGED <<mode, procs, pool, ns, depth, redo, escaped, last>>

(* `local` runs a command that defines k and returns its name, as lambda   *)
(* and curry do (proc itself returns "", and `local proc` marks nothing).  *)
DefineLocal(k) ==
  /\ Free /\ frames # <<>> /\ k \in LocalProcs
  /\ (Top.phase = "script" /\ Top.engine = "direct") => "nested" \in mode.habits
  /\ procs' = Put(procs, k, None)
  /\ SetTop([Top EXCEPT !.kept.local = @ \cup {k}])
  /\ UNCHANGED <<mode, pool, ns, depth, redo, escaped, last>>

Redefine(k) ==
  /\ Free /\ "redefine" \in mode.habits /\ k \in StaticProcs
  /\ procs' = Put(procs, k, Initial)
  /\ last' = [last EXCEPT ![k] = Initial]
  /\ frames' = [i \in DOMAIN frames |->
                  IF frames[i].proc = k THEN [frames[i] EXCEPT !.stale = TRUE] ELSE frames[i]]
  /\ UNCHANGED <<mode, pool, ns, depth, redo, escaped>>

(* What a completion that nothing catches makes of the phase.              *)
Ended(phase) ==
  CASE phase = "body" -> "tail" [] phase = "script" -> "exit" [] OTHER -> "done"

(* tailcall: the marker is armed; the completion ends the script, or a     *)
(* catch stops it and the script goes on with the marker armed.  The last  *)
(* command of a frame is past the check of the marker: there the           *)
(* completion becomes the frame's own.                                     *)
Tailcall(k, spelling) ==
  LET t == [proc |-> k, spelling |-> spelling]
  IN  /\ Free /\ frames # <<>> /\ "tail" \in mode.habits
      /\ Late => "late" \in mode.habits
      /\ \/ k \in DOMAIN procs /\ spelling \in Spellings(k)
         \/ k = Builtin /\ spelling = "own"
      /\ (Keeping(k) /\ Top.proc # k) => "recurse" \in mode.habits
      /\ \/ SetTop([Top EXCEPT !.kept.tail = t])
         \/ SetTop([Top EXCEPT !.kept.tail = t, !.phase = Ended(@),
                               !.raised = IF Top.phase = "eval" THEN t ELSE @])
  /\ UNCHANGED <<mode, procs, pool, ns, depth, redo, escaped, last>>

(* The body ends, with any completion.  Only call_proc looks at a marker   *)
(* that a catch left armed.                                                *)
BodyEndsUnmarked ==                             \* mutant: call_proc neither
  /\ At("body")
  /\ SetTop([Top EXCEPT !.phase = "done"])
  /\ UNCHANGED <<mode, procs, pool, ns, depth, redo, escaped, last>>
BodyEnds ==
  /\ At("body")
  /\ SetTop([Top EXCEPT !.phase =
               IF Top.engine = "full" /\ Top.kept.tail # None THEN "tail" ELSE "done"])
  /\ UNCHANGED <<mode, procs, pool, ns, depth, redo, escaped, last>>

-----------------------------------------------------------------------------
(* The way out *)

(* Statics go back into the definition found under the frame's key.        *)
(* Mutant: they are forgotten when a tail call takes the frame over.       *)
WrittenUnlessTail(f) ==
  IF f.statics # None /\ f.key \in DOMAIN procs /\ f.phase # "tail"
  THEN [procs EXCEPT ![f.key] = f.kept.var] ELSE procs
Written(f) ==
  IF f.statics # None /\ f.key \in DOMAIN procs
  THEN [procs EXCEPT ![f.key] = f.kept.var] ELSE procs

(* call_proc, a proc found by the name as written: the frame is taken over *)
(* with what was deferred in it and made local to it.                      *)
TakenOverEmpty(f, t, p) ==                      \* mutant: emptied as if recycled
  [f EXCEPT !.proc = t, !.key = t, !.ns = Home[t], !.statics = p[t],
            !.phase = "body", !.stale = FALSE, !.kept = [Cleared EXCEPT !.var = p[t]]]
TakenOverInPlace(f, t, p) ==                    \* mutant: in the caller's namespace
  [f EXCEPT !.proc = t, !.key = t, !.statics = p[t], !.phase = "body", !.stale = FALSE,
            !.kept = [f.kept EXCEPT !.var = p[t], !.tail = None]]
TakenOver(f, t, p) ==
  [f EXCEPT !.proc = t, !.key = t, !.ns = Home[t], !.statics = p[t],
            !.phase = "body", !.stale = FALSE,
            !.kept = [f.kept EXCEPT !.var = p[t], !.tail = None]]

TailToProc ==
  /\ At("tail") /\ Top.engine = "full"
  /\ LET t == Top.kept.tail
         p == Written(Top)
     IN  /\ t.spelling = "own" /\ t.proc \in DOMAIN procs
         /\ procs' = p
         /\ SetTop(TakenOver(Top, t.proc, p))
         /\ ns' = Home[t.proc]
  /\ UNCHANGED <<mode, pool, depth, redo, escaped, last>>

(* call_proc, anything else: the command is evaluated in the frame, whose  *)
(* statics are already gone, and the frame exits with its result.  It is a *)
(* proc by another spelling, a name nothing goes by (or is too deep), or a *)
(* builtin, whose script has the frame to itself.                          *)
TailToEval ==
  /\ At("tail") /\ Top.engine = "full"
  /\ LET t    == Top.kept.tail
         p    == Written(Top)
         base == [frames EXCEPT ![Len(frames)] =
                    [Top EXCEPT !.phase = "done", !.statics = None, !.kept.tail = None]]
     IN  /\ t.spelling = "own" => t.proc \notin DOMAIN procs
         /\ procs' = p
         /\ \/ /\ t.proc \in DOMAIN procs
               /\ PushFrame(base, t.proc, t.spelling, "full", p)
            \/ /\ t.proc \in Procs \ DOMAIN procs \/ depth > MaxCallDepth
               /\ frames' = base /\ UNCHANGED <<pool, ns, depth>>
            \/ /\ t.proc = Builtin
               /\ frames' = [base EXCEPT ![Len(frames)].phase = "eval"]
               /\ UNCHANGED <<pool, ns, depth>>
  /\ UNCHANGED <<mode, redo, escaped, last>>

EvalEnds ==
  /\ At("eval")
  /\ SetTop([Top EXCEPT !.phase = "done"])
  /\ UNCHANGED <<mode, procs, pool, ns, depth, redo, escaped, last>>

PopFrameKeepNs ==                               \* mutant: ns is not restored
  /\ frames' = Front(frames)
  /\ pool' = IF Len(pool) < PoolMax THEN Append(pool, Recycled(Top.kept)) ELSE pool
  /\ ns' = ns
  /\ depth' = depth - 1
PopFrame ==
  /\ frames' = Front(frames)
  /\ pool' = IF Len(pool) < PoolMax THEN Append(pool, Recycled(Top.kept)) ELSE pool
  /\ ns' = Top.prev
  /\ depth' = depth - 1

(* The direct copy pops the frame at once and dispatches the target after, *)
(* from the caller's namespace.                                            *)
TailDirect ==
  /\ At("tail") /\ Top.engine = "direct"
  /\ PopFrame
  /\ redo' = Top.kept.tail
  /\ UNCHANGED <<mode, procs, escaped, last>>

Reached(t) == t.proc \in DOMAIN procs /\ t.spelling \in Spellings(t.proc)

Redispatch ==
  /\ redo # None
  /\ \/ /\ Reached(redo)
        /\ PushFrame(frames, redo.proc, redo.spelling, "full", procs)
     \/ /\ ~Reached(redo) \/ depth > MaxCallDepth
        /\ UNCHANGED <<frames, pool, ns, depth>>
  /\ redo' = None
  /\ UNCHANGED <<mode, procs, escaped, last>>

(* The statics go back, then the deferred scripts are copied, to be run    *)
(* the last one first (what stays in the frame is not read again, so only  *)
(* scripts deferred from now on are kept there).  call_proc looks at the   *)
(* local procs after the scripts, the direct copy before.                  *)
Queue(f) == f.kept.deferred

WriteBack ==
  /\ At("done")
  /\ procs' = Written(Top)
  /\ SetTop([Top EXCEPT !.phase = "exit", !.queue = Queue(Top),
                            !.doomed = Top.kept.local, !.kept.deferred = <<>>])
  /\ UNCHANGED <<mode, pool, ns, depth, redo, escaped, last>>

RunDeferred ==
  /\ At("exit") /\ Top.queue # <<>>
  /\ SetTop([Top EXCEPT !.phase = "script", !.queue = Front(@)])
  /\ UNCHANGED <<mode, procs, pool, ns, depth, redo, escaped, last>>

ScriptEnds ==
  /\ At("script")
  /\ SetTop([Top EXCEPT !.phase = "exit"])
  /\ UNCHANGED <<mode, procs, pool, ns, depth, redo, escaped, last>>

(* Local procs go, and the frame with them; a tail call it completed with  *)
(* is the caller's to deal with.                                           *)
DoomedCaller(f) == f.doomed                     \* mutant: local procs before scripts
Doomed(f) == IF f.engine = "direct" THEN f.doomed ELSE f.kept.local

Exit ==
  /\ At("exit") /\ Top.queue = <<>>
  /\ procs' = [k \in DOMAIN procs \ Doomed(Top) |-> procs[k]]
  /\ PopFrame
  /\ escaped' = Top.raised
  /\ UNCHANGED <<mode, redo, last>>

(* A catch around the call stops it; or it ends the caller's script like a *)
(* tail call of the caller's own, but arms nothing: a marker that is armed *)
(* goes first.  A deferred script's completion is dropped, the top level's *)
(* is an error.                                                            *)
Escape ==
  /\ escaped # None
  /\ \/ Phase \in {"toplevel", "body", "eval", "script"} /\ UNCHANGED frames
     \/ /\ Phase \in {"body", "eval", "done", "script"}
        /\ SetTop([Top EXCEPT
             !.phase = Ended(@),
             !.kept.tail = IF Top.phase = "body" /\ @ = None THEN escaped ELSE @,
             !.raised = IF Top.phase \in {"eval", "done"} THEN escaped ELSE @])
  /\ escaped' = None
  /\ UNCHANGED <<mode, procs, pool, ns, depth, redo, last>>

-----------------------------------------------------------------------------
Next ==
  \/ \E k \in Procs \cup {Builtin}, spelling \in {"own", "simple", "absolute"} :
       \/ \E engine \in {"full", "direct"} : Enter(k, spelling, engine)
       \/ Tailcall(k, spelling)
  \/ \E k \in Procs : ArityError(k) \/ DefineLocal(k) \/ Redefine(k)
  \/ \E v \in Vals : Assign(v)
  \/ \E s \in Scripts : Defer(s)
  \/ BodyEnds \/ TailToProc \/ TailToEval \/ TailDirect \/ Redispatch
  \/ EvalEnds \/ WriteBack \/ RunDeferred \/ ScriptEnds \/ Exit \/ Escape

Spec == Init /\ [][Next]_vars

-----------------------------------------------------------------------------
(* Properties *)

Statics == Vals \cup {None}
Kept    == [var : Statics, deferred : Seq(Scripts), local : SUBSET LocalProcs,
            tail : TailCalls \cup {None}]

(* The definitions, the frames and the pool hold what they are for.        *)
TypeOK ==
  /\ DOMAIN procs \subseteq Procs /\ \A k \in DOMAIN procs : procs[k] \in Statics
  /\ \A i \in DOMAIN frames :
       /\ frames[i].proc \in Procs /\ frames[i].key \in {frames[i].proc, None}
       /\ frames[i].statics \in Statics /\ frames[i].kept \in Kept
       /\ frames[i].phase \in {"body", "tail", "eval", "done", "exit", "script"}
       /\ frames[i].raised \in TailCalls \cup {None}
  /\ Len(pool) <= PoolMax
  /\ {redo, escaped} \subseteq TailCalls \cup {None}

(* Whatever calls, tail calls and exits came before, the interpreter is in *)
(* the namespace of its innermost frame and as deep as its frames          *)
(* (call.rs, "Pop the frame and leave the definition namespace").          *)
Balanced ==
  /\ depth = Len(frames)
  /\ ns = IF frames = <<>> THEN Root ELSE Top.ns

Without(habits) == mode.habits \cap habits = {}
OnlyFull        == mode.engines = {"full"}

(* A frame runs in the namespace its proc is registered in (call.rs, "A    *)
(* proc executes in the namespace where it was defined (the qualifiers of  *)
(* its registered name), not the caller's namespace"), unless the direct   *)
(* copy is called by a simple name.                                        *)
FrameAtHome ==
  OnlyFull \/ Without({"simple"}) =>
    \A i \in DOMAIN frames : frames[i].ns = Home[frames[i].proc]

(* When no call of a proc is in progress its definition holds the last     *)
(* value a script gave its static (mod.rs, "Static variables: persist      *)
(* across calls"), as long as no proc with statics recurses, is redefined  *)
(* while it runs or is called by ::name, and none assigns them when its    *)
(* body is over, in a deferred script or in a builtin it tail-calls.       *)
StaticsKept ==
  \A k \in StaticProcs \cap DOMAIN procs : ~Keeping(k) => procs[k] = last[k]
StaticsPersist ==
  Without({"recurse", "redefine", "absolute", "late"}) => StaticsKept

(* A local proc there is belongs to a frame there is (introspect.rs,       *)
(* "Marks a command ... for deletion when the current call frame exits"),  *)
(* unless the direct copy makes a tail call or its deferred scripts make   *)
(* procs local.                                                            *)
LocalsOwned ==
  OnlyFull \/ Without({"tail", "nested"}) =>
    \A k \in LocalProcs \cap DOMAIN procs :
      \E i \in DOMAIN frames : k \in frames[i].kept.local

(* No frame of call_proc exits with a tail call armed that did not fire,   *)
(* unless it was armed when the body was over, by a deferred script or by  *)
(* a builtin tail-called before (mod.rs, "kept on the frame ... so a       *)
(* `catch` consuming the completion still lets it fire").                  *)
MarkersFire ==
  [][/\ Without({"late"})
     /\ Len(frames') < Len(frames) /\ Top.engine = "full"
     => Top.kept.tail = None]_vars

(* Deferred scripts run as Deferral promises (mod.rs, "executed in reverse *)
(* order on frame exit").                                                  *)
Stage(f) == IF f.phase \in {"exit", "script"} \/ (f.phase = "tail" /\ f.engine = "direct")
            THEN "leaving" ELSE "running"
Promise == INSTANCE Deferral WITH
  acts <- [i \in DOMAIN frames |->
             [todo  |-> frames[i].queue \o frames[i].kept.deferred,
              stage |-> Stage(frames[i])]]
DefersRun == Promise!Spec
=============================================================================
