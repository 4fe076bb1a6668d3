--------------------------- MODULE ProcCallProofs ---------------------------
(***************************************************************************)
(* Types, balance, namespaces, armed tail calls, local procs, statics and  *)
(* deferred scripts of ProcCall, for any procs, modes, depth and pool.     *)
(***************************************************************************)
EXTENDS ProcCall, SequenceTheorems, TLAPS

-----------------------------------------------------------------------------
(* The inductive invariant *)

Engines  == {"full", "direct"}
Phases   == {"body", "tail", "eval", "done", "exit", "script"}
Spaces   == {Home[k] : k \in Procs} \cup {Root}

Frame == [proc : Procs, key : Procs \cup {None}, engine : Engines,
          ns : Spaces, prev : Spaces, statics : Statics, phase : Phases,
          queue : Seq(Scripts), doomed : SUBSET LocalProcs,
          raised : TailCalls \cup {None}, stale : BOOLEAN, kept : Kept]

(* What holds of each frame by itself, in mode m: it is at home; without   *)
(* tail calls it has no marker; a frame of call_proc on its way out has    *)
(* none; it completes with one only when one was made after the body; and  *)
(* what the direct copy is to remove on its way out is what the frame owns.*)
FrameOK(m, f) ==
  /\ f \in Frame
  /\ f.key \in {f.proc, None}
  /\ m.engines = {"full"} => f.engine = "full"
  /\ m.engines = {"full"} \/ "simple" \notin m.habits => f.ns = Home[f.proc]
  /\ "tail" \notin m.habits => f.kept.tail = None /\ f.phase # "tail"
  /\ "late" \notin m.habits /\ f.engine = "full" /\ f.phase \in {"eval", "done", "exit", "script"}
     => f.kept.tail = None
  /\ f.raised # None => {"tail", "late"} \subseteq m.habits
  /\ "nested" \notin m.habits /\ f.engine = "direct" /\ f.phase \in {"exit", "script"}
     => f.doomed = f.kept.local

FramesOK == frames \in Seq(Frame) /\ \A i \in DOMAIN frames : FrameOK(mode, frames[i])

(* Every frame restores the namespace of the one below it.                 *)
Linked ==
  \A i \in DOMAIN frames :
    frames[i].prev = IF i = 1 THEN Root ELSE frames[i - 1].ns

Stacked == FramesOK /\ Balanced /\ Linked

ProcsOK == /\ DOMAIN procs \subseteq Procs
           /\ \A k \in DOMAIN procs : procs[k] \in Statics
PoolOK  == /\ pool \in Seq(Kept) /\ Len(pool) <= PoolMax
           /\ \A i \in DOMAIN pool : pool[i] = Cleared

IInv == /\ mode \in Modes
        /\ ProcsOK /\ PoolOK
        /\ redo \in TailCalls \cup {None}
        /\ redo # None => "tail" \in mode.habits /\ mode.engines # {"full"}
        /\ escaped \in TailCalls \cup {None}
        /\ escaped # None => {"tail", "late"} \subseteq mode.habits
        /\ Stacked
        /\ LocalsOwned

-----------------------------------------------------------------------------
(* Sequences *)

LEMMA FrontSeq ==
  ASSUME NEW S, NEW s \in Seq(S), s # <<>>
  PROVE  /\ Front(s) \in Seq(S)
         /\ Len(Front(s)) = Len(s) - 1
         /\ \A i \in 1 .. Len(s) - 1 : Front(s)[i] = s[i]
<1>1. Len(s) \in Nat /\ Len(s) # 0
  OBVIOUS
<1>2. \A i \in 1 .. Len(s) - 1 : s[i] \in S
  BY <1>1
<1> DEFINE n == Len(s) - 1
           t == SubSeq(s, 1, n)
<1>3. n \in Nat /\ 1 \in Int /\ n \in Int
  BY <1>1
<1>4. /\ t \in Seq(S)
      /\ Len(t) = IF 1 <= n THEN n - 1 + 1 ELSE 0
      /\ \A i \in 1 .. n - 1 + 1 : t[i] = s[1 + i - 1]
  <2>1. n \in Int /\ \A i \in 1 .. n : s[i] \in S
    BY <1>2, <1>3
  <2> HIDE DEF n
  <2> QED BY <2>1, SubSeqProperties
<1>5. Front(s) = t
  BY DEF Front
<1> HIDE DEF n, t
<1>6. Len(t) = n /\ \A i \in 1 .. n : t[i] = s[i]
  BY <1>3, <1>4
<1> QED BY <1>4, <1>5, <1>6 DEF n

LEMMA TopIs ==
  ASSUME Stacked, frames # <<>>
  PROVE  /\ Len(frames) \in Nat \ {0} /\ DOMAIN frames = 1 .. Len(frames)
         /\ Top = frames[Len(frames)] /\ FrameOK(mode, Top) /\ ns = Top.ns
         /\ Top \in Frame
BY DEF Stacked, FramesOK, FrameOK, Top, Balanced

LEMMA RootSpace ==
  Root \in Spaces
BY DEF Spaces

LEMMA NsSpace ==
  ASSUME Stacked
  PROVE  ns \in Spaces
<1>1. CASE frames = <<>>
  BY <1>1, RootSpace DEF Stacked, Balanced
<1>2. CASE frames # <<>>
  BY <1>2, TopIs DEF Frame
<1> QED BY <1>1, <1>2

LEMMA ClearedKept ==
  Cleared \in Kept /\ Cleared.tail = None
BY DEF Cleared, Kept, Statics

-----------------------------------------------------------------------------
(* The three ways the stack of frames changes *)

(* The innermost frame becomes f; at most the last frame's namespace moves. *)
LEMMA Replaced ==
  ASSUME Stacked, frames # <<>>, NEW f, FrameOK(mode, f), f.prev = Top.prev,
         SetTop(f), ns' = f.ns, depth' = depth, mode' = mode
  PROVE  /\ Stacked'
         /\ Len(frames') = Len(frames) /\ DOMAIN frames' = DOMAIN frames
         /\ \A i \in DOMAIN frames :
              frames'[i] = IF i = Len(frames) THEN f ELSE frames[i]
<1>1. /\ Len(frames) \in Nat \ {0} /\ DOMAIN frames = 1 .. Len(frames)
      /\ Top = frames[Len(frames)]
  BY TopIs
<1>2. f \in Frame
  BY DEF FrameOK
<1>3. /\ frames' \in Seq(Frame) /\ Len(frames') = Len(frames)
      /\ DOMAIN frames' = DOMAIN frames
      /\ \A i \in DOMAIN frames :
           frames'[i] = IF i = Len(frames) THEN f ELSE frames[i]
  BY <1>1, <1>2 DEF SetTop, Stacked, FramesOK
<1>4. FramesOK'
  BY <1>1, <1>3 DEF FramesOK, Stacked
<1>5. Balanced'
  <2>1. frames' # <<>> /\ Top' = f
    BY <1>1, <1>3 DEF Top
  <2> QED BY <1>3, <2>1 DEF Balanced, Stacked
<1>6. Linked'
  <2>1. SUFFICES ASSUME NEW i \in DOMAIN frames
                 PROVE  frames'[i].prev = IF i = 1 THEN Root ELSE frames'[i - 1].ns
    BY <1>3 DEF Linked
  <2>2. frames'[i].prev = frames[i].prev
    BY <1>1, <1>3
  <2>3. frames[i].prev = IF i = 1 THEN Root ELSE frames[i - 1].ns
    BY DEF Linked, Stacked
  <2>4. i # 1 => frames'[i - 1] = frames[i - 1]
    BY <1>1, <1>3
  <2> QED BY <2>2, <2>3, <2>4
<1> QED BY <1>3, <1>4, <1>5, <1>6 DEF Stacked

(* The frame a call pushes: it is at home, empty, and starts its body.      *)
PushedFrame(f, base, k, spelling, engine, p) ==
  /\ frames' = Append(base, f) /\ FrameOK(mode, f)
  /\ f.prev = ns /\ f.ns = ns'
  /\ f.proc = k /\ f.key = KeyFor(k, spelling) /\ f.engine = engine
  /\ f.statics = (IF engine = "full" THEN p[k] ELSE None)
  /\ f.phase = "body" /\ f.queue = <<>> /\ ~f.stale
  /\ f.kept.var = f.statics /\ f.kept.deferred = <<>> /\ f.kept.tail = None

LEMMA PushedIs ==
  ASSUME IInv, NEW base, NEW k \in Procs, NEW spelling, NEW engine \in Engines,
         engine = "full" \/ spelling \in Spellings(k),
         mode.engines = {"full"} => engine = "full",
         NEW p, p[k] \in Statics,
         PushFrame(base, k, spelling, engine, p)
  PROVE  \E f \in Frame : PushedFrame(f, base, k, spelling, engine, p)
<1> DEFINE kept0   == IF pool = <<>> THEN Cleared ELSE Last(pool)
           statics == IF engine = "full" THEN p[k] ELSE None
           home    == FrameNs(engine, k, spelling)
           f       == [proc |-> k, key |-> KeyFor(k, spelling), engine |-> engine,
                       ns |-> home, prev |-> ns, statics |-> statics,
                       phase |-> "body", queue |-> <<>>, doomed |-> {}, raised |-> None,
                       stale |-> FALSE, kept |-> [kept0 EXCEPT !.var = statics]]
<1>1. frames' = Append(base, f) /\ ns' = home
  BY DEF PushFrame
<1>2. kept0 = Cleared
  BY DEF IInv, PoolOK, Last
<1>3. statics \in Statics
  BY DEF Statics
<1>4. /\ f.kept \in Kept /\ f.kept.tail = None
      /\ f.kept.var = statics /\ f.kept.deferred = <<>>
  <2>1. f.kept = [Cleared EXCEPT !.var = statics]
    BY <1>2
  <2> HIDE DEF f
  <2> QED BY <1>3, <2>1, ClearedKept DEF Kept, Cleared
<1>5. home \in Spaces /\ (mode.engines = {"full"} \/ "simple" \notin mode.habits => home = Home[k])
  BY DEF FrameNs, Spaces, Spellings
<1>6. ns \in Spaces
  BY NsSpace DEF IInv
<1>7. f \in Frame
  <2>1. [kept0 EXCEPT !.var = statics] \in Kept
    BY <1>4
  <2> HIDE DEF kept0, statics, home
  <2> QED BY <1>3, <1>5, <1>6, <2>1 DEF Frame, KeyFor, Phases
<1>8. /\ f.proc = k /\ f.key = KeyFor(k, spelling) /\ f.engine = engine
      /\ f.statics = statics /\ f.phase = "body" /\ f.queue = <<>> /\ ~f.stale
      /\ f.prev = ns /\ f.ns = home /\ f.raised = None
  OBVIOUS
<1>9. FrameOK(mode, f)
  <2> HIDE DEF f, kept0, statics, home
  <2> QED BY <1>4, <1>5, <1>7, <1>8 DEF FrameOK, KeyFor, Engines
<1> HIDE DEF f, home, kept0
<1> QED BY <1>1, <1>4, <1>7, <1>8, <1>9 DEF PushedFrame

(* A frame is pushed on base, the frames or what a tail call left of them. *)
LEMMA Pushed ==
  ASSUME IInv, mode' = mode,
         NEW base, base \in Seq(Frame), Len(base) = Len(frames),
         \A i \in DOMAIN base : FrameOK(mode, base[i])
                               /\ base[i].ns = frames[i].ns
                               /\ base[i].prev = frames[i].prev
                               /\ base[i].kept.local = frames[i].kept.local,
         NEW k \in Procs, NEW spelling, NEW engine \in Engines,
         engine = "full" \/ spelling \in Spellings(k),
         mode.engines = {"full"} => engine = "full",
         NEW p, p[k] \in Statics,
         PushFrame(base, k, spelling, engine, p)
  PROVE  /\ Stacked' /\ PoolOK'
         /\ Len(frames') = Len(frames) + 1
         /\ \A i \in DOMAIN frames :
              i \in DOMAIN frames' /\ frames'[i].kept.local = frames[i].kept.local
<1>1. depth' = depth + 1 /\ pool' = IF pool = <<>> THEN pool ELSE Front(pool)
  BY DEF PushFrame
<1>2. PICK f \in Frame : PushedFrame(f, base, k, spelling, engine, p)
  BY PushedIs
<1>3. frames' = Append(base, f) /\ FrameOK(mode, f) /\ f.prev = ns /\ f.ns = ns'
  BY <1>2 DEF PushedFrame
<1>4. /\ frames' \in Seq(Frame) /\ Len(frames') = Len(frames) + 1
      /\ Len(frames) \in Nat /\ DOMAIN frames = 1 .. Len(frames)
      /\ DOMAIN frames' = 1 .. Len(frames) + 1
      /\ frames'[Len(frames) + 1] = f
      /\ \A i \in DOMAIN frames : frames'[i] = base[i] /\ i \in DOMAIN base
  BY <1>1, <1>3 DEF IInv, Stacked, FramesOK
<1>5. FramesOK'
  <2>1. \A i \in DOMAIN frames' : i \in DOMAIN frames \/ i = Len(frames) + 1
    BY <1>4
  <2> QED BY <1>3, <1>4, <2>1 DEF FramesOK
<1>6. Balanced'
  <2>1. Top' = f /\ frames' # <<>>
    BY <1>4 DEF Top
  <2> QED BY <1>1, <1>3, <1>4, <2>1 DEF Balanced, IInv, Stacked
<1>7. Linked'
  <2>1. \A i \in DOMAIN frames :
          frames'[i].prev = IF i = 1 THEN Root ELSE frames'[i - 1].ns
    BY <1>4 DEF IInv, Stacked, Linked
  <2>2. f.prev = IF Len(frames) + 1 = 1 THEN Root ELSE frames'[Len(frames)].ns
    <3>1. CASE frames = <<>>
      BY <3>1, <1>3 DEF IInv, Stacked, Balanced
    <3>2. CASE frames # <<>>
      <4>1. Len(frames) \in DOMAIN frames
        BY <3>2, <1>4
      <4>2. ns = frames[Len(frames)].ns
        BY <3>2 DEF IInv, Stacked, Balanced, Top
      <4> QED BY <1>3, <1>4, <4>1, <4>2
    <3> QED BY <3>1, <3>2
  <2> QED BY <1>4, <2>1, <2>2 DEF Linked
<1>8. PoolOK'
  <2>1. CASE pool = <<>>
    BY <1>1, <2>1 DEF IInv, PoolOK
  <2>2. CASE pool # <<>>
    <3>1. /\ pool \in Seq(Kept) /\ Len(pool) \in Nat /\ Len(pool) <= PoolMax
          /\ DOMAIN pool = 1 .. Len(pool) /\ \A i \in DOMAIN pool : pool[i] = Cleared
      BY DEF IInv, PoolOK
    <3>2. /\ pool' \in Seq(Kept) /\ Len(pool') = Len(pool) - 1
          /\ \A i \in 1 .. Len(pool) - 1 : pool'[i] = pool[i]
      BY <1>1, <2>2, <3>1, FrontSeq
    <3>3. DOMAIN pool' = 1 .. Len(pool) - 1
      BY <3>2
    <3> QED BY <3>1, <3>2, <3>3, ProcCallAssumption DEF PoolOK
  <2> QED BY <2>1, <2>2
<1> QED BY <1>4, <1>5, <1>6, <1>7, <1>8 DEF Stacked

(* The innermost frame is popped and recycled. *)
LEMMA Popped ==
  ASSUME Stacked, PoolOK, frames # <<>>, mode' = mode, PopFrame
  PROVE  /\ Stacked' /\ PoolOK'
         /\ Len(frames') = Len(frames) - 1
         /\ \A i \in DOMAIN frames' : i \in DOMAIN frames /\ frames'[i] = frames[i]
<1>1. /\ Len(frames) \in Nat \ {0} /\ DOMAIN frames = 1 .. Len(frames)
      /\ Top = frames[Len(frames)]
  BY TopIs
<1>2. /\ frames' \in Seq(Frame) /\ Len(frames') = Len(frames) - 1
      /\ \A i \in 1 .. Len(frames) - 1 : frames'[i] = frames[i]
  BY FrontSeq DEF PopFrame, Stacked, FramesOK
<1>3. DOMAIN frames' = 1 .. Len(frames) - 1
  BY <1>1, <1>2
<1>4. FramesOK'
  BY <1>1, <1>2, <1>3 DEF FramesOK, Stacked
<1>5. Linked'
  BY <1>1, <1>2, <1>3 DEF Linked, Stacked
<1>6. Balanced'
  <2>1. Top.prev = IF Len(frames) = 1 THEN Root ELSE frames[Len(frames) - 1].ns
    BY <1>1 DEF Stacked, Linked
  <2>2. CASE Len(frames) = 1
    <3>1. frames' = <<>>
      BY <1>2, <2>2
    <3> QED BY <1>1, <1>2, <2>1, <2>2, <3>1 DEF Balanced, PopFrame, Stacked
  <2>3. CASE Len(frames) # 1
    <3>1. frames' # <<>> /\ Top' = frames[Len(frames) - 1]
      BY <1>1, <1>2, <2>3 DEF Top
    <3> QED BY <1>1, <1>2, <2>1, <2>3, <3>1 DEF Balanced, PopFrame, Stacked
  <2> QED BY <2>2, <2>3
<1>7. PoolOK'
  BY ClearedKept, ProcCallAssumption DEF PopFrame, PoolOK, Recycled
<1> QED BY <1>1, <1>2, <1>3, <1>4, <1>5, <1>6, <1>7 DEF Stacked

-----------------------------------------------------------------------------
(* Steps of a script, and those on the way out that keep the frame *)

LEMMA Owned ==
  ASSUME LocalsOwned, mode' = mode,
         NEW K, LocalProcs \cap DOMAIN procs' \subseteq DOMAIN procs \cup K,
         K # {} => \E i \in DOMAIN frames' : K \subseteq frames'[i].kept.local,
         \A i \in DOMAIN frames : i \in DOMAIN frames'
           /\ frames[i].kept.local \subseteq frames'[i].kept.local
  PROVE  LocalsOwned'
BY DEF LocalsOwned, OnlyFull, Without

LEMMA Quietly ==
  ASSUME IInv, frames # <<>>, NEW f, FrameOK(mode, f), f.prev = Top.prev, ns' = f.ns,
         NEW K, f.kept.local = Top.kept.local \cup K,
         LocalProcs \cap DOMAIN procs' \subseteq DOMAIN procs \cup K,
         SetTop(f), ProcsOK', UNCHANGED <<mode, pool, depth, redo>>,
         escaped' \in {escaped, None}
  PROVE  IInv'
<1>1. /\ Stacked'
      /\ DOMAIN frames' = DOMAIN frames
      /\ \A i \in DOMAIN frames :
           frames'[i] = IF i = Len(frames) THEN f ELSE frames[i]
  BY Replaced DEF IInv
<1>2. Len(frames) \in DOMAIN frames /\ Top = frames[Len(frames)]
  BY TopIs DEF IInv
<1>3. LocalsOwned'
  <2>1. K \subseteq frames'[Len(frames)].kept.local
    BY <1>1, <1>2
  <2>2. \A i \in DOMAIN frames : i \in DOMAIN frames'
           /\ frames[i].kept.local \subseteq frames'[i].kept.local
    BY <1>1, <1>2
  <2> QED BY <1>1, <1>2, <2>1, <2>2, Owned DEF IInv
<1>4. PoolOK'
  BY DEF IInv, PoolOK
<1> QED BY <1>1, <1>3, <1>4 DEF IInv

LEMMA AssignInv ==
  ASSUME IInv, NEW v \in Vals, Assign(v)
  PROVE  IInv'
<1> DEFINE f == [Top EXCEPT !.kept.var = v]
<1>1. frames # <<>> /\ SetTop(f) /\ UNCHANGED <<mode, procs, pool, ns, depth, redo, escaped>>
  BY DEF Assign
<1>2. FrameOK(mode, Top) /\ Top \in Frame /\ ns = Top.ns
  BY <1>1, TopIs DEF IInv
<1>3. f.kept = [Top.kept EXCEPT !.var = v] /\ f = [Top EXCEPT !.kept = [Top.kept EXCEPT !.var = v]]
  BY <1>2 DEF Frame
<1>4. [Top.kept EXCEPT !.var = v] \in Kept
  BY <1>2 DEF Frame, Kept, Statics
<1>5. FrameOK(mode, f)
  <2>1. f \in Frame
    BY <1>2, <1>3, <1>4 DEF Frame
  <2> QED BY <1>2, <1>3, <2>1 DEF FrameOK, Frame, Kept
<1>6. f.prev = Top.prev /\ f.ns = Top.ns /\ f.kept.local = Top.kept.local \cup {}
  BY <1>2 DEF Frame, Kept
<1>7. ProcsOK'
  BY <1>1 DEF IInv, ProcsOK
<1> QED BY <1>1, <1>2, <1>5, <1>6, <1>7, Quietly

LEMMA ScriptPhase ==
  ASSUME Free, frames # <<>>, IInv
  PROVE  Top.phase \in {"body", "eval", "script"}
<1>1. Phase \in {"toplevel", "body", "eval", "script"} /\ Phase = Top.phase
  BY DEF Free, Phase
<1>2. Top.phase \in Phases
  BY TopIs DEF IInv, Frame
<1> QED BY <1>1, <1>2 DEF Phases

LEMMA DeferInv ==
  ASSUME IInv, NEW s \in Scripts, Defer(s)
  PROVE  IInv'
<1> DEFINE kept == [Top.kept EXCEPT !.deferred = Append(@, s)]
           f    == [Top EXCEPT !.kept = kept]
<1>1. frames # <<>> /\ UNCHANGED <<mode, procs, pool, ns, depth, redo, escaped>>
  BY DEF Defer
<1>2. FrameOK(mode, Top) /\ Top \in Frame /\ ns = Top.ns
  BY <1>1, TopIs DEF IInv
<1>3. SetTop(f)
  BY <1>2 DEF Defer, Frame, Kept
<1>4. kept \in Kept
  <2>1. Top.kept \in Kept
    BY <1>2 DEF Frame
  <2>2. Top.kept.deferred \in Seq(Scripts)
    BY <2>1 DEF Kept
  <2>3. Append(Top.kept.deferred, s) \in Seq(Scripts)
    BY <2>2
  <2> QED BY <2>1, <2>3 DEF Kept
<1>5. FrameOK(mode, f)
  <2>1. f \in Frame
    BY <1>2, <1>4 DEF Frame
  <2> QED BY <1>2, <2>1 DEF FrameOK, Frame, Kept
<1>6. f.prev = Top.prev /\ f.ns = Top.ns /\ f.kept.local = Top.kept.local \cup {}
  BY <1>2 DEF Frame, Kept
<1>7. ProcsOK'
  BY <1>1 DEF IInv, ProcsOK
<1> HIDE DEF f
<1> QED BY <1>1, <1>2, <1>3, <1>5, <1>6, <1>7, Quietly

LEMMA DefineLocalInv ==
  ASSUME IInv, NEW k \in Procs, DefineLocal(k)
  PROVE  IInv'
<1> DEFINE kept == [Top.kept EXCEPT !.local = @ \cup {k}]
           f    == [Top EXCEPT !.kept = kept]
<1>1. /\ frames # <<>> /\ UNCHANGED <<mode, pool, ns, depth, redo, escaped>>
      /\ k \in LocalProcs /\ procs' = Put(procs, k, None)
      /\ Top.phase \in {"body", "eval", "script"}
      /\ Top.phase = "script" /\ Top.engine = "direct" => "nested" \in mode.habits
  BY ScriptPhase DEF DefineLocal
<1>2. FrameOK(mode, Top) /\ Top \in Frame /\ ns = Top.ns
  BY <1>1, TopIs DEF IInv
<1>3. SetTop(f)
  BY <1>2 DEF DefineLocal, Frame, Kept
<1>4. kept \in Kept
  BY <1>1, <1>2 DEF Frame, Kept
<1>5. FrameOK(mode, f)
  <2>1. f \in Frame
    BY <1>2, <1>4 DEF Frame
  <2> QED BY <1>1, <1>2, <2>1 DEF FrameOK, Frame, Kept
<1>6. f.prev = Top.prev /\ f.ns = Top.ns /\ f.kept.local = Top.kept.local \cup {k}
  BY <1>2 DEF Frame, Kept
<1>7. ProcsOK'
  BY <1>1 DEF IInv, ProcsOK, Put, Statics
<1>8. LocalProcs \cap DOMAIN procs' \subseteq DOMAIN procs \cup {k}
  BY <1>1 DEF Put
<1> HIDE DEF f
<1> QED BY <1>1, <1>2, <1>3, <1>5, <1>6, <1>7, <1>8, Quietly

(* The frame after a tail call, caught or not.                             *)
TailedFrame(f, t, caught) ==
  [f EXCEPT !.kept   = [f.kept EXCEPT !.tail = t],
            !.phase  = IF caught THEN f.phase ELSE Ended(f.phase),
            !.raised = IF ~caught /\ f.phase = "eval" THEN t ELSE f.raised]

LEMMA TailcallIs ==
  ASSUME IInv, NEW k, NEW spelling, Tailcall(k, spelling)
  PROVE  \E caught \in BOOLEAN :
           SetTop(TailedFrame(Top, [proc |-> k, spelling |-> spelling], caught))
<1> DEFINE t == [proc |-> k, spelling |-> spelling]
<1>1. /\ frames # <<>>
      /\ \/ SetTop([Top EXCEPT !.kept.tail = t])
         \/ SetTop([Top EXCEPT !.kept.tail = t, !.phase = Ended(@),
                               !.raised = IF Top.phase = "eval" THEN t ELSE @])
  BY DEF Tailcall
<1>2. Top \in Frame
  BY <1>1, TopIs DEF IInv
<1> HIDE DEF t
<1>3. [Top EXCEPT !.kept.tail = t] = TailedFrame(Top, t, TRUE)
  BY <1>2 DEF TailedFrame, Frame, Kept
<1>4. [Top EXCEPT !.kept.tail = t, !.phase = Ended(@),
                  !.raised = IF Top.phase = "eval" THEN t ELSE @]
      = TailedFrame(Top, t, FALSE)
  BY <1>2 DEF TailedFrame, Frame, Kept
<1> QED BY <1>1, <1>3, <1>4 DEF t

LEMMA TailcallInv ==
  ASSUME IInv, NEW k \in Procs \cup {Builtin},
         NEW spelling \in {"own", "simple", "absolute"}, Tailcall(k, spelling)
  PROVE  IInv'
<1>1. /\ frames # <<>> /\ UNCHANGED <<mode, procs, pool, ns, depth, redo, escaped>>
      /\ "tail" \in mode.habits
      /\ Top.phase \in {"body", "eval", "script"}
      /\ Top.phase # "body" => "late" \in mode.habits
  <2>1. frames # <<>> /\ Free /\ (Late => "late" \in mode.habits)
    BY DEF Tailcall
  <2> QED BY <2>1, ScriptPhase DEF Tailcall, Late, Phase
<1>2. FrameOK(mode, Top) /\ Top \in Frame /\ ns = Top.ns
  BY <1>1, TopIs DEF IInv
<1> DEFINE t    == [proc |-> k, spelling |-> spelling]
           kept == [Top.kept EXCEPT !.tail = t]
           f(caught) == TailedFrame(Top, t, caught)
<1>3. PICK caught \in BOOLEAN : SetTop(f(caught))
  BY TailcallIs
<1>4. kept \in Kept /\ t \in TailCalls
  BY <1>2 DEF Frame, Kept, TailCalls
<1>5. FrameOK(mode, f(caught))
  <2> HIDE DEF t
  <2>1. f(caught) \in Frame
    BY <1>1, <1>2, <1>4 DEF Frame, Phases, TailedFrame, Ended
  <2> QED BY <1>1, <1>2, <2>1 DEF FrameOK, Frame, Kept, TailedFrame, Ended
<1>6. /\ f(caught).prev = Top.prev /\ f(caught).ns = Top.ns
      /\ f(caught).kept.local = Top.kept.local \cup {}
  BY <1>2 DEF Frame, Kept, TailedFrame
<1>7. ProcsOK'
  BY <1>1 DEF IInv, ProcsOK
<1> HIDE DEF f
<1> QED BY <1>1, <1>2, <1>3, <1>5, <1>6, <1>7, Quietly

LEMMA BodyEndsInv ==
  ASSUME IInv, BodyEnds
  PROVE  IInv'
<1> DEFINE f == [Top EXCEPT !.phase =
                   IF Top.engine = "full" /\ Top.kept.tail # None THEN "tail" ELSE "done"]
<1>1. frames # <<>> /\ SetTop(f) /\ UNCHANGED <<mode, procs, pool, ns, depth, redo, escaped>>
  BY DEF BodyEnds, At, Phase
<1>2. FrameOK(mode, Top) /\ Top \in Frame /\ ns = Top.ns
  BY <1>1, TopIs DEF IInv
<1>3. FrameOK(mode, f)
  BY <1>2 DEF FrameOK, Frame, Phases
<1>4. f.prev = Top.prev /\ f.ns = Top.ns /\ f.kept.local = Top.kept.local \cup {}
  BY <1>2 DEF Frame, Kept
<1>5. ProcsOK'
  BY <1>1 DEF IInv, ProcsOK
<1> HIDE DEF f
<1> QED BY <1>1, <1>2, <1>3, <1>4, <1>5, Quietly

LEMMA RunDeferredInv ==
  ASSUME IInv, RunDeferred
  PROVE  IInv'
<1> DEFINE f == [Top EXCEPT !.phase = "script", !.queue = Front(@)]
<1>1. /\ frames # <<>> /\ SetTop(f) /\ UNCHANGED <<mode, procs, pool, ns, depth, redo, escaped>>
      /\ Top.queue # <<>> /\ Top.phase = "exit"
  BY DEF RunDeferred, At, Phase
<1>2. FrameOK(mode, Top) /\ Top \in Frame /\ ns = Top.ns
  BY <1>1, TopIs DEF IInv
<1>3. Front(Top.queue) \in Seq(Scripts)
  BY <1>1, <1>2, FrontSeq DEF Frame
<1>4. FrameOK(mode, f)
  BY <1>1, <1>2, <1>3 DEF FrameOK, Frame, Phases
<1>5. f.prev = Top.prev /\ f.ns = Top.ns /\ f.kept.local = Top.kept.local \cup {}
  BY <1>2 DEF Frame, Kept
<1>6. ProcsOK'
  BY <1>1 DEF IInv, ProcsOK
<1> HIDE DEF f
<1> QED BY <1>1, <1>2, <1>4, <1>5, <1>6, Quietly

LEMMA ScriptEndsInv ==
  ASSUME IInv, ScriptEnds
  PROVE  IInv'
<1> DEFINE f == [Top EXCEPT !.phase = "exit"]
<1>1. /\ frames # <<>> /\ SetTop(f) /\ UNCHANGED <<mode, procs, pool, ns, depth, redo, escaped>>
      /\ Top.phase = "script"
  BY DEF ScriptEnds, At, Phase
<1>2. FrameOK(mode, Top) /\ Top \in Frame /\ ns = Top.ns
  BY <1>1, TopIs DEF IInv
<1>3. FrameOK(mode, f)
  BY <1>1, <1>2 DEF FrameOK, Frame, Phases
<1>4. f.prev = Top.prev /\ f.ns = Top.ns /\ f.kept.local = Top.kept.local \cup {}
  BY <1>2 DEF Frame, Kept
<1>5. ProcsOK'
  BY <1>1 DEF IInv, ProcsOK
<1> HIDE DEF f
<1> QED BY <1>1, <1>2, <1>3, <1>4, <1>5, Quietly

LEMMA EvalEndsInv ==
  ASSUME IInv, EvalEnds
  PROVE  IInv'
<1> DEFINE f == [Top EXCEPT !.phase = "done"]
<1>1. /\ frames # <<>> /\ SetTop(f) /\ UNCHANGED <<mode, procs, pool, ns, depth, redo, escaped>>
      /\ Top.phase = "eval"
  BY DEF EvalEnds, At, Phase
<1>2. FrameOK(mode, Top) /\ Top \in Frame /\ ns = Top.ns
  BY <1>1, TopIs DEF IInv
<1>3. FrameOK(mode, f)
  BY <1>1, <1>2 DEF FrameOK, Frame, Phases
<1>4. f.prev = Top.prev /\ f.ns = Top.ns /\ f.kept.local = Top.kept.local \cup {}
  BY <1>2 DEF Frame, Kept
<1>5. ProcsOK'
  BY <1>1 DEF IInv, ProcsOK
<1> HIDE DEF f
<1> QED BY <1>1, <1>2, <1>3, <1>4, <1>5, Quietly

LEMMA WrittenOK ==
  ASSUME ProcsOK, NEW f \in Frame
  PROVE  /\ DOMAIN Written(f) = DOMAIN procs
         /\ \A k \in DOMAIN procs : Written(f)[k] \in Statics
BY DEF Written, ProcsOK, Frame, Kept

LEMMA WriteBackInv ==
  ASSUME IInv, WriteBack
  PROVE  IInv'
<1> DEFINE kept == [Top.kept EXCEPT !.deferred = <<>>]
           f    == [Top EXCEPT !.phase = "exit", !.queue = Queue(Top),
                               !.doomed = Top.kept.local, !.kept = kept]
<1>1. /\ frames # <<>> /\ UNCHANGED <<mode, pool, ns, depth, redo, escaped>>
      /\ Top.phase = "done" /\ procs' = Written(Top)
  BY DEF WriteBack, At, Phase
<1>2. FrameOK(mode, Top) /\ Top \in Frame /\ ns = Top.ns
  BY <1>1, TopIs DEF IInv
<1>3. SetTop(f)
  BY <1>2 DEF WriteBack, Frame, Kept
<1>4. kept \in Kept
  <2>1. Top.kept \in Kept /\ <<>> \in Seq(Scripts)
    BY <1>2 DEF Frame
  <2> QED BY <2>1 DEF Kept
<1>5. FrameOK(mode, f)
  <2>1. f \in Frame
    BY <1>2, <1>4 DEF Frame, Phases, Queue, Kept
  <2> QED BY <1>1, <1>2, <2>1 DEF FrameOK, Frame, Kept
<1>6. f.prev = Top.prev /\ f.ns = Top.ns /\ f.kept.local = Top.kept.local \cup {}
  BY <1>2 DEF Frame, Kept
<1>7. ProcsOK' /\ DOMAIN procs' = DOMAIN procs
  BY <1>1, <1>2, WrittenOK DEF IInv, ProcsOK
<1> HIDE DEF f
<1> QED BY <1>1, <1>2, <1>3, <1>5, <1>6, <1>7, Quietly

LEMMA TailToProcInv ==
  ASSUME IInv, TailToProc
  PROVE  IInv'
<1> DEFINE t == Top.kept.tail
           p == Written(Top)
           kept == [Top.kept EXCEPT !.var = p[t.proc], !.tail = None]
           f == TakenOver(Top, t.proc, p)
<1>1. /\ frames # <<>> /\ UNCHANGED <<mode, pool, depth, redo, escaped>>
      /\ Top.phase = "tail" /\ procs' = p /\ SetTop(f)
      /\ t.proc \in DOMAIN procs /\ ns' = Home[t.proc]
  BY DEF TailToProc, At, Phase
<1>2. FrameOK(mode, Top) /\ Top \in Frame
  BY <1>1, TopIs DEF IInv
<1>3. t.proc \in Procs /\ p[t.proc] \in Statics /\ Home[t.proc] \in Spaces
  BY <1>1, <1>2, WrittenOK DEF IInv, ProcsOK, Spaces
<1>4. kept \in Kept
  BY <1>2, <1>3 DEF Frame, Kept
<1>5. FrameOK(mode, f)
  <2> HIDE DEF p
  <2>1. f \in Frame
    BY <1>2, <1>3, <1>4 DEF Frame, Phases, TakenOver
  <2> QED BY <1>1, <1>2, <2>1 DEF FrameOK, Frame, Kept, TakenOver
<1>6. f.prev = Top.prev /\ f.ns = Home[t.proc] /\ f.kept.local = Top.kept.local \cup {}
  BY <1>2 DEF Frame, Kept, TakenOver
<1>7. ProcsOK' /\ DOMAIN procs' = DOMAIN procs
  BY <1>1, <1>2, WrittenOK DEF IInv, ProcsOK
<1> HIDE DEF f
<1> QED BY <1>1, <1>5, <1>6, <1>7, Quietly

LEMMA RedefineInv ==
  ASSUME IInv, NEW k \in Procs, Redefine(k)
  PROVE  IInv'
<1>1. /\ k \in StaticProcs /\ procs' = Put(procs, k, Initial)
      /\ UNCHANGED <<mode, pool, ns, depth, redo, escaped>>
  BY DEF Redefine
<1>2. frames \in Seq(Frame) /\ \A i \in DOMAIN frames : FrameOK(mode, frames[i])
  BY DEF IInv, Stacked, FramesOK
<1> DEFINE g(i) == IF frames[i].proc = k THEN [frames[i] EXCEPT !.stale = TRUE] ELSE frames[i]
<1>3. frames' = [i \in DOMAIN frames |-> g(i)]
  BY DEF Redefine
<1>4. \A i \in DOMAIN frames : g(i) \in Frame /\ FrameOK(mode, g(i))
        /\ g(i).ns = frames[i].ns /\ g(i).prev = frames[i].prev
        /\ g(i).kept = frames[i].kept
  <2>1. SUFFICES ASSUME NEW i \in DOMAIN frames
                 PROVE  g(i) \in Frame /\ FrameOK(mode, g(i))
                        /\ g(i).ns = frames[i].ns /\ g(i).prev = frames[i].prev
                        /\ g(i).kept = frames[i].kept
    OBVIOUS
  <2> DEFINE e == frames[i]
             d == [e EXCEPT !.stale = TRUE]
  <2>2. e \in Frame /\ FrameOK(mode, e)
    BY <1>2
  <2>3. g(i) = e \/ g(i) = d
    OBVIOUS
  <2> HIDE DEF e, g
  <2>4. d \in Frame /\ FrameOK(mode, d) /\ d.ns = e.ns /\ d.prev = e.prev /\ d.kept = e.kept
    BY <2>2 DEF FrameOK, Frame
  <2> QED BY <2>2, <2>3, <2>4 DEF e
<1> HIDE DEF g
<1>5. /\ frames' \in Seq(Frame) /\ Len(frames') = Len(frames)
      /\ DOMAIN frames' = DOMAIN frames /\ DOMAIN frames = 1 .. Len(frames)
      /\ Len(frames) \in Nat
  BY <1>2, <1>3, <1>4
<1>6. FramesOK'
  BY <1>1, <1>3, <1>4, <1>5 DEF FramesOK
<1>7. Linked'
  <2>1. \A i \in DOMAIN frames : i # 1 => i - 1 \in DOMAIN frames
    BY <1>5
  <2> QED BY <1>3, <1>4, <1>5, <2>1 DEF Linked, IInv, Stacked
<1>8. Balanced'
  <2>1. CASE frames = <<>>
    BY <1>1, <1>5, <2>1 DEF Balanced, IInv, Stacked
  <2>2. CASE frames # <<>>
    <3>1. Len(frames) \in DOMAIN frames /\ frames' # <<>>
      BY <1>5, <2>2
    <3> QED BY <1>1, <1>3, <1>4, <1>5, <2>2, <3>1 DEF Balanced, Top, IInv, Stacked
  <2> QED BY <2>1, <2>2
<1>9. ProcsOK'
  BY <1>1, ProcCallAssumption DEF IInv, ProcsOK, Put, Statics
<1>10. LocalsOwned'
  <2>1. LocalProcs \cap DOMAIN procs' \subseteq DOMAIN procs \cup {}
    BY <1>1, ProcCallAssumption DEF Put
  <2> QED BY <1>1, <1>3, <1>4, <1>5, <2>1, Owned DEF IInv
<1>11. PoolOK'
  BY <1>1 DEF IInv, PoolOK
<1> QED BY <1>1, <1>6, <1>7, <1>8, <1>9, <1>10, <1>11 DEF IInv, Stacked

LEMMA ArityErrorInv ==
  ASSUME IInv, NEW k \in Procs, ArityError(k)
  PROVE  IInv'
<1>1. /\ UNCHANGED <<mode, procs, frames, ns, depth, redo, escaped>>
      /\ pool' = IF pool = <<>> /\ PoolMax > 0 THEN <<Cleared>> ELSE pool
  BY DEF ArityError
<1>2. PoolOK'
  <2>1. CASE pool = <<>> /\ PoolMax > 0
    <3>1. /\ <<Cleared>> \in Seq(Kept) /\ Len(<<Cleared>>) = 1 /\ 1 <= PoolMax
          /\ \A i \in DOMAIN <<Cleared>> : <<Cleared>>[i] = Cleared
      BY <2>1, ClearedKept, ProcCallAssumption
    <3> QED BY <1>1, <2>1, <3>1 DEF PoolOK
  <2>2. CASE ~(pool = <<>> /\ PoolMax > 0)
    BY <1>1, <2>2 DEF IInv, PoolOK
  <2> QED BY <2>1, <2>2
<1>3. Stacked'
  BY <1>1 DEF IInv, Stacked, FramesOK, Linked, Balanced, Top
<1>4. LocalsOwned'
  BY <1>1 DEF IInv, LocalsOwned, OnlyFull, Without
<1> QED BY <1>1, <1>2, <1>3, <1>4 DEF IInv, ProcsOK

-----------------------------------------------------------------------------
(* Calls and exits *)

LEMMA EnterInv ==
  ASSUME IInv, NEW k, NEW spelling, NEW engine \in Engines,
         Enter(k, spelling, engine)
  PROVE  IInv'
<1> k \in Procs
  BY DEF Enter, IInv, ProcsOK
<1>1. /\ engine \in mode.engines /\ k \in DOMAIN procs /\ spelling \in Spellings(k)
      /\ PushFrame(frames, k, spelling, engine, procs)
      /\ UNCHANGED <<mode, procs, redo, escaped>>
  BY DEF Enter
<1>2. /\ frames \in Seq(Frame) /\ procs[k] \in Statics
      /\ \A i \in DOMAIN frames : FrameOK(mode, frames[i])
  BY <1>1 DEF IInv, ProcsOK, Stacked, FramesOK
<1>3. /\ Stacked' /\ PoolOK'
      /\ \A i \in DOMAIN frames :
           i \in DOMAIN frames' /\ frames'[i].kept.local = frames[i].kept.local
  BY <1>1, <1>2, Pushed
<1>4. LocalsOwned'
  BY <1>1, <1>3 DEF IInv, LocalsOwned, OnlyFull, Without
<1> QED BY <1>1, <1>3, <1>4 DEF IInv, ProcsOK

LEMMA RedispatchInv ==
  ASSUME IInv, Redispatch
  PROVE  IInv'
<1>1. redo # None /\ redo' = None /\ UNCHANGED <<mode, procs, escaped>>
  BY DEF Redispatch
<1>2. CASE /\ Reached(redo)
           /\ PushFrame(frames, redo.proc, redo.spelling, "full", procs)
  <2>1. /\ redo.proc \in DOMAIN procs /\ redo.proc \in Procs
        /\ frames \in Seq(Frame) /\ procs[redo.proc] \in Statics
        /\ \A i \in DOMAIN frames : FrameOK(mode, frames[i])
    BY <1>2 DEF Reached, IInv, ProcsOK, Stacked, FramesOK
  <2>2. /\ Stacked' /\ PoolOK'
        /\ \A i \in DOMAIN frames :
             i \in DOMAIN frames' /\ frames'[i].kept.local = frames[i].kept.local
    BY <1>1, <1>2, <2>1, Pushed DEF Engines
  <2>3. LocalsOwned'
    BY <1>1, <2>2 DEF IInv, LocalsOwned, OnlyFull, Without
  <2> QED BY <1>1, <2>2, <2>3 DEF IInv, ProcsOK
<1>3. CASE UNCHANGED <<frames, pool, ns, depth>>
  <2>1. Stacked'
    BY <1>1, <1>3 DEF IInv, Stacked, FramesOK, Linked, Balanced, Top
  <2>2. LocalsOwned'
    BY <1>1, <1>3 DEF IInv, LocalsOwned, OnlyFull, Without
  <2> QED BY <1>1, <1>3, <2>1, <2>2 DEF IInv, ProcsOK, PoolOK
<1> QED BY <1>2, <1>3 DEF Redispatch

LEMMA TailToEvalInv ==
  ASSUME IInv, TailToEval
  PROVE  IInv'
<1> DEFINE t    == Top.kept.tail
           p    == Written(Top)
           kept == [Top.kept EXCEPT !.tail = None]
           f    == [Top EXCEPT !.phase = "done", !.statics = None, !.kept = kept]
           base == [frames EXCEPT ![Len(frames)] = f]
           e    == [f EXCEPT !.phase = "eval"]
<1>1. /\ frames # <<>> /\ Top.phase = "tail" /\ procs' = p
      /\ UNCHANGED <<mode, redo, escaped>>
  BY DEF TailToEval, At, Phase
<1>2. FrameOK(mode, Top) /\ Top \in Frame /\ ns = Top.ns
  BY <1>1, TopIs DEF IInv
<1>3. \/ t.proc \in DOMAIN procs /\ PushFrame(base, t.proc, t.spelling, "full", p)
      \/ frames' = base /\ UNCHANGED <<pool, ns, depth>>
      \/ SetTop(e) /\ UNCHANGED <<pool, ns, depth>>
  <2> DEFINE g == [Top EXCEPT !.phase = "done", !.statics = None, !.kept.tail = None]
             b == [frames EXCEPT ![Len(frames)] = g]
  <2>1. g = f
    BY <1>2 DEF Frame, Kept
  <2>2. Len(frames) \in DOMAIN frames
    BY <1>1, TopIs DEF IInv
  <2>3. \/ t.proc \in DOMAIN procs /\ PushFrame(b, t.proc, t.spelling, "full", p)
        \/ frames' = b /\ UNCHANGED <<pool, ns, depth>>
        \/ /\ frames' = [b EXCEPT ![Len(frames)].phase = "eval"]
           /\ UNCHANGED <<pool, ns, depth>>
    BY DEF TailToEval
  <2> HIDE DEF g, f, p, t
  <2>4. b = base
    BY <2>1
  <2>5. [base EXCEPT ![Len(frames)].phase = "eval"] = [frames EXCEPT ![Len(frames)] = e]
    BY <2>2
  <2> HIDE DEF b, base, e
  <2>6. frames' = [frames EXCEPT ![Len(frames)] = e] => SetTop(e)
    BY DEF SetTop
  <2> QED BY <2>3, <2>4, <2>5, <2>6
<1>4. kept \in Kept
  BY <1>2 DEF Frame, Kept
<1>5. FrameOK(mode, f)
  <2>1. f \in Frame
    BY <1>2, <1>4 DEF Frame, Phases, Statics
  <2> QED BY <1>2, <2>1 DEF FrameOK, Frame, Kept
<1>6. f.prev = Top.prev /\ f.ns = Top.ns /\ f.kept.local = Top.kept.local \cup {}
  BY <1>2 DEF Frame, Kept
<1>7. ProcsOK' /\ DOMAIN procs' = DOMAIN procs
  BY <1>1, <1>2, WrittenOK DEF IInv, ProcsOK
<1>8. CASE frames' = base /\ UNCHANGED <<pool, ns, depth>>
  <2> HIDE DEF f
  <2>1. SetTop(f)
    BY <1>8 DEF SetTop
  <2> QED BY <1>1, <1>2, <1>5, <1>6, <1>7, <1>8, <2>1, Quietly
<1>9. CASE t.proc \in DOMAIN procs /\ PushFrame(base, t.proc, t.spelling, "full", p)
  <2>1. t.proc \in Procs /\ p[t.proc] \in Statics
    BY <1>2, <1>9, WrittenOK DEF IInv, ProcsOK
  <2>2. /\ Len(frames) \in Nat \ {0} /\ DOMAIN frames = 1 .. Len(frames)
        /\ Top = frames[Len(frames)] /\ frames \in Seq(Frame)
        /\ \A i \in DOMAIN frames : FrameOK(mode, frames[i])
    BY <1>1, TopIs DEF IInv, Stacked, FramesOK
  <2>3. f \in Frame
    BY <1>5 DEF FrameOK
  <2> HIDE DEF f, p
  <2>4. /\ base \in Seq(Frame) /\ Len(base) = Len(frames) /\ DOMAIN base = DOMAIN frames
        /\ \A i \in DOMAIN base : base[i] = IF i = Len(frames) THEN f ELSE frames[i]
    BY <2>2, <2>3
  <2> HIDE DEF base
  <2>5. \A i \in DOMAIN base : FrameOK(mode, base[i])
                               /\ base[i].ns = frames[i].ns
                               /\ base[i].prev = frames[i].prev
                               /\ base[i].kept.local = frames[i].kept.local
    BY <1>5, <1>6, <2>2, <2>4
  <2>6. /\ Stacked' /\ PoolOK'
        /\ \A i \in DOMAIN frames :
             i \in DOMAIN frames' /\ frames'[i].kept.local = frames[i].kept.local
    BY <1>1, <1>9, <2>1, <2>4, <2>5, Pushed DEF Engines
  <2>7. LocalsOwned'
    BY <1>1, <1>7, <2>6 DEF IInv, LocalsOwned, OnlyFull, Without
  <2> QED BY <1>1, <1>7, <2>6, <2>7 DEF IInv
<1>10. CASE SetTop(e) /\ UNCHANGED <<pool, ns, depth>>
  <2>1. FrameOK(mode, e) /\ e.ns = f.ns /\ e.prev = f.prev /\ e.kept = f.kept
    <3> HIDE DEF f
    <3>1. f \in Frame
      BY <1>5 DEF FrameOK
    <3>2. e \in Frame
      BY <3>1 DEF Frame, Phases
    <3>3. f.phase = "done" /\ f.kept.tail = None
      BY <1>2 DEF f, Frame, Kept
    <3> QED BY <1>5, <3>1, <3>2, <3>3 DEF FrameOK, Frame
  <2> HIDE DEF f, e
  <2> QED BY <1>1, <1>2, <1>6, <1>7, <1>10, <2>1, Quietly
<1> QED BY <1>3, <1>8, <1>9, <1>10

LEMMA TailDirectInv ==
  ASSUME IInv, TailDirect
  PROVE  IInv'
<1>1. /\ frames # <<>> /\ Top.phase = "tail" /\ Top.engine = "direct"
      /\ PopFrame /\ redo' = Top.kept.tail /\ UNCHANGED <<mode, procs, escaped>>
  BY DEF TailDirect, At, Phase
<1>2. FrameOK(mode, Top) /\ Top \in Frame
  BY <1>1, TopIs DEF IInv
<1>3. "tail" \in mode.habits /\ mode.engines # {"full"}
  BY <1>1, <1>2 DEF FrameOK
<1>4. redo' \in TailCalls \cup {None}
  BY <1>1, <1>2 DEF Frame, Kept
<1>5. Stacked' /\ PoolOK'
  BY <1>1, Popped DEF IInv
<1>6. LocalsOwned'
  BY <1>1, <1>3 DEF LocalsOwned, OnlyFull, Without
<1> QED BY <1>1, <1>3, <1>4, <1>5, <1>6 DEF IInv, ProcsOK

LEMMA ExitInv ==
  ASSUME IInv, Exit
  PROVE  IInv'
<1>1. /\ frames # <<>> /\ Top.phase = "exit" /\ PopFrame /\ UNCHANGED <<mode, redo>>
      /\ procs' = [k \in DOMAIN procs \ Doomed(Top) |-> procs[k]]
      /\ escaped' = Top.raised
  BY DEF Exit, At, Phase
<1>2. FrameOK(mode, Top) /\ Top \in Frame
  BY <1>1, TopIs DEF IInv
<1>3. /\ Stacked' /\ PoolOK' /\ Len(frames') = Len(frames) - 1
      /\ Len(frames) \in Nat \ {0} /\ DOMAIN frames = 1 .. Len(frames)
      /\ Top = frames[Len(frames)]
      /\ \A i \in DOMAIN frames' : i \in DOMAIN frames /\ frames'[i] = frames[i]
  BY <1>1, TopIs, Popped DEF IInv
<1>4. DOMAIN frames' = 1 .. Len(frames) - 1
  BY <1>3 DEF Stacked, FramesOK
<1>5. ProcsOK'
  BY <1>1 DEF IInv, ProcsOK
<1>6. LocalsOwned'
  <2>1. SUFFICES ASSUME OnlyFull \/ Without({"tail", "nested"}),
                        NEW k \in LocalProcs \cap DOMAIN procs'
                 PROVE  \E i \in DOMAIN frames' : k \in frames'[i].kept.local
    BY <1>1 DEF LocalsOwned, OnlyFull, Without
  <2>2. k \in DOMAIN procs /\ k \notin Doomed(Top)
    BY <1>1
  <2>3. PICK i \in DOMAIN frames : k \in frames[i].kept.local
    BY <2>1, <2>2 DEF IInv, LocalsOwned
  <2>4. Doomed(Top) = Top.kept.local
    BY <1>1, <1>2, <2>1 DEF Doomed, FrameOK, Frame, Engines, OnlyFull, Without
  <2>5. i # Len(frames)
    BY <1>3, <2>2, <2>3, <2>4
  <2>6. i \in DOMAIN frames'
    BY <1>3, <1>4, <2>5
  <2> QED BY <1>3, <2>3, <2>6
<1>7. /\ escaped' \in TailCalls \cup {None}
      /\ escaped' # None => {"tail", "late"} \subseteq mode.habits
  BY <1>1, <1>2 DEF FrameOK, Frame
<1> QED BY <1>1, <1>3, <1>5, <1>6, <1>7 DEF IInv

(* The caller's frame after a tail call that left the callee's.             *)
MetFrame(f) ==
  [f EXCEPT !.phase  = Ended(f.phase),
            !.kept   = [f.kept EXCEPT !.tail =
                          IF f.phase = "body" /\ f.kept.tail = None
                          THEN escaped ELSE f.kept.tail],
            !.raised = IF f.phase \in {"eval", "done"} THEN escaped ELSE f.raised]

LEMMA EscapeIs ==
  ASSUME IInv, Escape
  PROVE  \/ UNCHANGED frames
         \/ /\ frames # <<>> /\ Top.phase \in {"body", "eval", "done", "script"}
            /\ SetTop(MetFrame(Top))
<1> DEFINE f == [Top EXCEPT
             !.phase = Ended(@),
             !.kept.tail = IF Top.phase = "body" /\ @ = None THEN escaped ELSE @,
             !.raised = IF Top.phase \in {"eval", "done"} THEN escaped ELSE @]
<1>1. \/ UNCHANGED frames
      \/ Phase \in {"body", "eval", "done", "script"} /\ SetTop(f)
  BY DEF Escape
<1>3. Phase # "toplevel" => frames # <<>> /\ Top.phase = Phase
  BY DEF Phase
<1>2. ASSUME frames # <<>>
      PROVE  f = MetFrame(Top)
  <2>1. Top \in Frame /\ Top.kept \in Kept
    BY <1>2, TopIs DEF IInv, Frame
  <2> DEFINE phase  == Ended(Top.phase)
             tail   == IF Top.phase = "body" /\ Top.kept.tail = None
                       THEN escaped ELSE Top.kept.tail
             raised == IF Top.phase \in {"eval", "done"} THEN escaped ELSE Top.raised
  <2>2. /\ f = [Top EXCEPT !.phase = phase, !.kept.tail = tail, !.raised = raised]
        /\ MetFrame(Top) = [Top EXCEPT !.phase = phase,
                              !.kept = [Top.kept EXCEPT !.tail = tail], !.raised = raised]
    BY <2>1 DEF MetFrame, Frame, Kept
  <2> HIDE DEF phase, tail, raised, f
  <2> QED BY <2>1, <2>2 DEF Frame, Kept
<1> HIDE DEF f
<1> QED BY <1>1, <1>2, <1>3

LEMMA EscapeInv ==
  ASSUME IInv, Escape
  PROVE  IInv'
<1>1. /\ escaped # None /\ escaped' = None
      /\ UNCHANGED <<mode, procs, pool, ns, depth, redo>>
  BY DEF Escape
<1>2. ProcsOK' /\ PoolOK'
  BY <1>1 DEF IInv, ProcsOK, PoolOK
<1>3. CASE UNCHANGED frames
  <2>1. Stacked'
    BY <1>1, <1>3 DEF IInv, Stacked, FramesOK, Linked, Balanced, Top
  <2>2. LocalsOwned'
    BY <1>1, <1>3 DEF IInv, LocalsOwned, OnlyFull, Without
  <2> QED BY <1>1, <1>2, <2>1, <2>2 DEF IInv
<1>4. CASE frames # <<>> /\ SetTop(MetFrame(Top))
  <2> DEFINE f == MetFrame(Top)
  <2>1. FrameOK(mode, Top) /\ Top \in Frame /\ ns = Top.ns
    BY <1>4, TopIs DEF IInv
  <2>2. escaped \in TailCalls /\ {"tail", "late"} \subseteq mode.habits
    BY <1>1 DEF IInv
  <2>3. /\ f.kept = [Top.kept EXCEPT !.tail = f.kept.tail]
        /\ f.kept.tail \in TailCalls \cup {None}
    BY <2>1, <2>2 DEF MetFrame, Frame, Kept
  <2>4. f.kept \in Kept /\ f.kept.local = Top.kept.local
    BY <2>1, <2>3 DEF Frame, Kept
  <2>5. /\ f.phase = Ended(Top.phase) /\ f.raised \in {escaped, Top.raised}
        /\ f = [Top EXCEPT !.phase = f.phase, !.kept = f.kept, !.raised = f.raised]
    BY <2>1 DEF MetFrame, Frame
  <2> HIDE DEF f
  <2>6. f \in Frame
    BY <2>1, <2>2, <2>4, <2>5 DEF Frame, Phases, Ended
  <2>7. FrameOK(mode, f)
    BY <2>1, <2>2, <2>4, <2>5, <2>6 DEF FrameOK, Frame, Phases, Ended
  <2>8. f.prev = Top.prev /\ f.ns = Top.ns /\ f.kept.local = Top.kept.local \cup {}
    BY <2>1, <2>4, <2>5 DEF Frame
  <2> QED BY <1>1, <1>2, <1>4, <2>1, <2>7, <2>8, Quietly DEF f
<1> QED BY <1>3, <1>4, EscapeIs

-----------------------------------------------------------------------------
(* The invariant *)

LEMMA InitInv ==
  ASSUME Init
  PROVE  IInv
<1>1. Stacked
  BY DEF Init, Stacked, FramesOK, Balanced, Linked
<1>2. ProcsOK
  BY ProcCallAssumption DEF Init, ProcsOK, Statics
<1>3. PoolOK
  BY ProcCallAssumption DEF Init, PoolOK
<1>4. LocalsOwned
  BY DEF Init, LocalsOwned
<1> QED BY <1>1, <1>2, <1>3, <1>4 DEF Init, IInv

LEMMA NextInv ==
  ASSUME IInv, [Next]_vars
  PROVE  IInv'
<1>1. CASE UNCHANGED vars
  <2>1. Stacked'
    BY <1>1 DEF IInv, Stacked, FramesOK, Linked, Balanced, Top, vars
  <2>2. LocalsOwned'
    BY <1>1 DEF IInv, LocalsOwned, OnlyFull, Without, vars
  <2> QED BY <1>1, <2>1, <2>2 DEF IInv, ProcsOK, PoolOK, vars
<1>2. ASSUME NEW k \in Procs \cup {Builtin}, NEW spelling \in {"own", "simple", "absolute"},
             \/ \E engine \in {"full", "direct"} : Enter(k, spelling, engine)
             \/ Tailcall(k, spelling)
      PROVE  IInv'
  BY <1>2, EnterInv, TailcallInv DEF Engines
<1>3. ASSUME NEW k \in Procs, ArityError(k) \/ DefineLocal(k) \/ Redefine(k)
      PROVE  IInv'
  BY <1>3, ArityErrorInv, DefineLocalInv, RedefineInv
<1>4. ASSUME NEW v \in Vals, Assign(v)
      PROVE  IInv'
  BY <1>4, AssignInv
<1>5. ASSUME NEW s \in Scripts, Defer(s)
      PROVE  IInv'
  BY <1>5, DeferInv
<1>6. CASE BodyEnds \/ TailToProc \/ TailToEval \/ TailDirect \/ Redispatch
  BY <1>6, BodyEndsInv, TailToProcInv, TailToEvalInv, TailDirectInv, RedispatchInv
<1>7. CASE EvalEnds \/ WriteBack \/ RunDeferred \/ ScriptEnds \/ Exit \/ Escape
  BY <1>7, EvalEndsInv, WriteBackInv, RunDeferredInv, ScriptEndsInv, ExitInv, EscapeInv
<1> QED BY <1>1, <1>2, <1>3, <1>4, <1>5, <1>6, <1>7 DEF Next

LEMMA InvImplies ==
  ASSUME IInv
  PROVE  TypeOK /\ Balanced /\ FrameAtHome /\ LocalsOwned
<1>1. TypeOK
  BY DEF IInv, TypeOK, ProcsOK, PoolOK, Stacked, FramesOK, FrameOK, Frame, Phases
<1>2. FrameAtHome
  BY DEF IInv, FrameAtHome, Stacked, FramesOK, FrameOK, OnlyFull, Without
<1> QED BY <1>1, <1>2 DEF IInv, Stacked

LEMMA Invariant == Spec => []IInv
BY InitInv, NextInv, PTL DEF Spec

(* The definitions, frames and pool hold what they are for, however deep   *)
(* the calls and whatever the scripts' habits.                             *)
THEOREM CallTypes == Spec => []TypeOK
BY Invariant, InvImplies, PTL

(* The interpreter is in the namespace of its innermost frame and as deep  *)
(* as its frames.                                                          *)
THEOREM CallsBalance == Spec => []Balanced
BY Invariant, InvImplies, PTL

(* A frame runs in the namespace its proc is registered in.                *)
THEOREM FramesAtHome == Spec => []FrameAtHome
BY Invariant, InvImplies, PTL

(* A local proc there is belongs to a frame there is.                      *)
THEOREM LocalsHaveOwners == Spec => []LocalsOwned
BY Invariant, InvImplies, PTL

-----------------------------------------------------------------------------
(* Armed tail calls *)

LEMMA SetTopLen ==
  ASSUME IInv, frames # <<>>, NEW f, SetTop(f)
  PROVE  Len(frames') = Len(frames)
<1> DEFINE S == Frame \cup {f}
<1>1. frames \in Seq(Frame) /\ Frame \subseteq S /\ f \in S
  BY DEF IInv, Stacked, FramesOK
<1> HIDE DEF S
<1>2. frames \in Seq(S)
  BY <1>1
<1>3. [frames EXCEPT ![Len(frames)] = f] \in Seq(S)
  BY <1>1, <1>2
<1> QED BY <1>2, <1>3 DEF SetTop

(* Only two steps take a frame away. *)
LEMMA ExitsPop ==
  ASSUME IInv, Next, Len(frames') < Len(frames)
  PROVE  TailDirect \/ Exit
<1>1. frames \in Seq(Frame) /\ Len(frames) \in Nat /\ DOMAIN frames = 1 .. Len(frames)
  BY DEF IInv, Stacked, FramesOK
<1>2. ASSUME NEW base, NEW k, NEW spelling, NEW engine, NEW p, NEW S, base \in Seq(S),
             Len(base) = Len(frames), PushFrame(base, k, spelling, engine, p)
      PROVE  FALSE
  <2>1. PICK f : frames' = Append(base, f)
    BY <1>2 DEF PushFrame
  <2> DEFINE T == S \cup {f}
  <2>2. base \in Seq(T) /\ f \in T
    BY <1>2
  <2> HIDE DEF T
  <2>3. Len(frames') = Len(base) + 1
    BY <2>1, <2>2
  <2> QED BY <1>1, <1>2, <2>3
<1>3. ASSUME NEW f, SetTop(f)
      PROVE  FALSE
  <2>1. CASE frames = <<>>
    BY <1>1, <1>3, <2>1 DEF SetTop
  <2>2. CASE frames # <<>>
    BY <1>1, <1>3, <2>2, SetTopLen
  <2> QED BY <2>1, <2>2
<1>4. ~ \E k \in Procs \cup {Builtin}, spelling \in {"own", "simple", "absolute"},
          engine \in {"full", "direct"} : Enter(k, spelling, engine)
  BY <1>1, <1>2 DEF Enter
<1>5. ~ \E k \in Procs \cup {Builtin}, spelling \in {"own", "simple", "absolute"} :
         Tailcall(k, spelling)
  BY <1>3 DEF Tailcall
<1>6. ~ \E k \in Procs : ArityError(k) \/ DefineLocal(k)
  <2>1. ASSUME NEW k \in Procs, ArityError(k) PROVE FALSE
    BY <1>1, <2>1 DEF ArityError
  <2>2. ASSUME NEW k \in Procs, DefineLocal(k) PROVE FALSE
    BY <1>3, <2>2 DEF DefineLocal
  <2> QED BY <2>1, <2>2
<1>7. ~ \E k \in Procs : Redefine(k)
  <2>1. ASSUME NEW k \in Procs, Redefine(k) PROVE FALSE
    <3> DEFINE g(i) == IF frames[i].proc = k THEN [frames[i] EXCEPT !.stale = TRUE] ELSE frames[i]
               S    == {g(i) : i \in DOMAIN frames}
    <3>1. frames' = [i \in 1 .. Len(frames) |-> g(i)]
      BY <1>1, <2>1 DEF Redefine
    <3> HIDE DEF g
    <3>2. \A i \in 1 .. Len(frames) : g(i) \in S
      BY <1>1
    <3> HIDE DEF S
    <3>3. Len(frames') = Len(frames)
      BY <1>1, <3>1, <3>2
    <3> QED BY <1>1, <3>3
  <2> QED BY <2>1
<1>8. ~ \E v \in Vals : Assign(v)
  BY <1>3 DEF Assign
<1>9. ~ \E s \in Scripts : Defer(s)
  BY <1>3 DEF Defer
<1>10. ~ (BodyEnds \/ TailToProc \/ EvalEnds \/ WriteBack \/ RunDeferred \/ ScriptEnds)
  BY <1>3 DEF BodyEnds, TailToProc, EvalEnds, WriteBack, RunDeferred, ScriptEnds
<1>11. ~ Redispatch
  BY <1>1, <1>2 DEF Redispatch
<1>12. ~ TailToEval
  <2>1. ASSUME TailToEval PROVE FALSE
    <3> DEFINE f == [Top EXCEPT !.phase = "done", !.statics = None, !.kept.tail = None]
               base == [frames EXCEPT ![Len(frames)] = f]
               e == [base[Len(frames)] EXCEPT !.phase = "eval"]
               S == Frame \cup {f, e}
    <3>1. frames \in Seq(S) /\ f \in S /\ e \in S
      BY <1>1
    <3>2. \/ PushFrame(base, Top.kept.tail.proc, Top.kept.tail.spelling, "full", Written(Top))
          \/ frames' = base
          \/ frames' = [base EXCEPT ![Len(frames)] = e]
      BY <2>1 DEF TailToEval
    <3> HIDE DEF f, S, e
    <3>3. base \in Seq(S) /\ Len(base) = Len(frames)
      BY <1>1, <3>1
    <3>4. CASE frames' = base
      BY <1>1, <3>3, <3>4
    <3> HIDE DEF base
    <3>5. CASE PushFrame(base, Top.kept.tail.proc, Top.kept.tail.spelling, "full", Written(Top))
      BY <1>2, <3>3, <3>5
    <3>6. CASE frames' = [base EXCEPT ![Len(frames)] = e]
      BY <1>1, <3>1, <3>3, <3>6
    <3> QED BY <3>2, <3>4, <3>5, <3>6
  <2> QED BY <2>1
<1>13. ~ Escape
  BY <1>1, <1>3, EscapeIs
<1> QED BY <1>4, <1>5, <1>6, <1>7, <1>8, <1>9, <1>10, <1>11, <1>12, <1>13 DEF Next

LEMMA MarkersStep ==
  ASSUME IInv, [Next]_vars, Without({"late"}), Len(frames') < Len(frames), Top.engine = "full"
  PROVE  Top.kept.tail = None
<1>1. Len(frames) \in Nat
  BY DEF IInv, Stacked, FramesOK
<1>2. ~UNCHANGED vars
  BY <1>1 DEF vars
<1>3. Exit
  BY <1>2, ExitsPop DEF TailDirect
<1>4. frames # <<>> /\ Top.phase = "exit"
  BY <1>3 DEF Exit, At, Phase
<1>5. FrameOK(mode, Top)
  BY <1>4, TopIs DEF IInv
<1> QED BY <1>4, <1>5 DEF FrameOK, Without

(* No frame of call_proc exits with a tail call armed that did not fire.   *)
THEOREM ArmedCallsFire == Spec => MarkersFire
<1>1. IInv /\ [Next]_vars => [/\ Without({"late"})
                             /\ Len(frames') < Len(frames) /\ Top.engine = "full"
                             => Top.kept.tail = None]_vars
  BY MarkersStep
<1> QED BY <1>1, Invariant, PTL DEF Spec, MarkersFire

-----------------------------------------------------------------------------
(* Statics *)

Careful == Without({"recurse", "redefine", "absolute", "late"})

Holds(f)      == f.statics # None
HeldIn(fs, k) == \E i \in DOMAIN fs : Holds(fs[i]) /\ fs[i].proc = k

(* A frame that holds statics has the value its scripts gave last, and on  *)
(* its way out has written it back; a frame of the direct copy holds none. *)
Keeps(f, p, la) ==
  /\ Holds(f) => /\ f.proc \in StaticProcs /\ f.key = f.proc /\ ~f.stale /\ f.engine = "full"
                 /\ f.kept.var \in Vals /\ f.kept.var = la[f.proc]
                 /\ f.phase \in {"exit", "script"} => p[f.proc] = la[f.proc]
  /\ f.phase \in {"body", "tail"} /\ (f.proc \in StaticProcs \/ f.kept.var # None) => Holds(f)
  /\ f.kept.tail # None => f.kept.tail.spelling # "absolute"
  /\ f.phase = "tail" => f.kept.tail # None

(* Two frames never hold the statics of one proc, and none below a frame   *)
(* holds those of the proc its tail call goes to.                          *)
Alone(fs) == \A i, j \in DOMAIN fs :
               Holds(fs[i]) /\ Holds(fs[j]) /\ fs[i].proc = fs[j].proc => i = j
Armed(fs) == \A i, j \in DOMAIN fs :
               j < i /\ fs[i].kept.tail # None /\ Holds(fs[j]) => fs[j].proc # fs[i].kept.tail.proc

(* Only procs with statics have a value in their definition.               *)
DefsOK(p, la) ==
  /\ StaticProcs \subseteq DOMAIN p
  /\ \A k \in DOMAIN p : IF k \in StaticProcs THEN p[k] \in Vals ELSE p[k] = None
  /\ la \in [StaticProcs -> Vals]

Safe(fs, p, la, r) ==
  /\ DefsOK(p, la)
  /\ \A i \in DOMAIN fs : Keeps(fs[i], p, la)
  /\ Alone(fs) /\ Armed(fs)
  /\ r # None => r.spelling # "absolute" /\ ~HeldIn(fs, r.proc)
  /\ \A k \in StaticProcs : HeldIn(fs, k) \/ p[k] = la[k]

SInv == Safe(frames, procs, last, redo)

LEMMA StackIs ==
  ASSUME NEW fs \in Seq(Frame), fs # <<>>
  PROVE  /\ Len(fs) \in Nat \ {0} /\ DOMAIN fs = 1 .. Len(fs) /\ Len(fs) \in DOMAIN fs
         /\ \A i \in DOMAIN fs : i \in Nat /\ (i = Len(fs) \/ i < Len(fs))
OBVIOUS

(* The innermost frame of fs becomes f, which leaves gs; p and la become q *)
(* and ma: only the statics the frame held move, f and the frames below    *)
(* hold different ones, and those none of them holds are written back.     *)
Becomes(fs, f, gs)      == gs = [fs EXCEPT ![Len(fs)] = f]
Moves(fs, p, la, q, ma) == \A k \in StaticProcs :
                             \/ q[k] = p[k] /\ ma[k] = la[k]
                             \/ k = fs[Len(fs)].proc /\ Holds(fs[Len(fs)])
Apart(fs, f)            == \A j \in DOMAIN fs : j < Len(fs) /\ Holds(fs[j]) =>
                             /\ Holds(f) => fs[j].proc # f.proc
                             /\ f.kept.tail # None => fs[j].proc # f.kept.tail.proc
Covered(fs, f, q, ma)   == \A k \in StaticProcs :
                             \/ Holds(f) /\ f.proc = k
                             \/ \E j \in DOMAIN fs : /\ j < Len(fs)
                                                     /\ Holds(fs[j]) /\ fs[j].proc = k
                             \/ q[k] = ma[k]

(* What the frames below the innermost one hold.                           *)
LEMMA Below ==
  ASSUME NEW fs \in Seq(Frame), fs # <<>>, NEW p, NEW la, NEW r, Safe(fs, p, la, r)
  PROVE  Apart(fs, fs[Len(fs)]) /\ Covered(fs, fs[Len(fs)], p, la)
<1>1. /\ Len(fs) \in DOMAIN fs
      /\ \A i \in DOMAIN fs : i \in Nat /\ (i = Len(fs) \/ i < Len(fs))
  BY StackIs
<1>2. ASSUME NEW j \in DOMAIN fs, j < Len(fs), Holds(fs[j])
      PROVE  /\ Holds(fs[Len(fs)]) => fs[j].proc # fs[Len(fs)].proc
             /\ fs[Len(fs)].kept.tail # None => fs[j].proc # fs[Len(fs)].kept.tail.proc
  BY <1>1, <1>2 DEF Safe, Alone, Armed
<1>3. ASSUME NEW k \in StaticProcs
      PROVE  \/ Holds(fs[Len(fs)]) /\ fs[Len(fs)].proc = k
             \/ \E j \in DOMAIN fs : j < Len(fs) /\ Holds(fs[j]) /\ fs[j].proc = k
             \/ p[k] = la[k]
  BY <1>1 DEF Safe, HeldIn
<1> QED BY <1>2, <1>3 DEF Apart, Covered

LEMMA TopKeeps ==
  ASSUME NEW fs \in Seq(Frame), fs # <<>>, NEW p, NEW la, Safe(fs, p, la, None),
         NEW f \in Frame, NEW gs, Becomes(fs, f, gs),
         NEW q, NEW ma, DefsOK(q, ma), Keeps(f, q, ma),
         Moves(fs, p, la, q, ma), Apart(fs, f), Covered(fs, f, q, ma)
  PROVE  Safe(gs, q, ma, None)
<1>1. /\ Len(fs) \in Nat \ {0} /\ DOMAIN fs = 1 .. Len(fs) /\ Len(fs) \in DOMAIN fs
      /\ \A i \in DOMAIN fs : i \in Nat /\ (i = Len(fs) \/ i < Len(fs))
  BY StackIs
<1>2. /\ DOMAIN gs = DOMAIN fs
      /\ \A i \in DOMAIN fs : gs[i] = IF i = Len(fs) THEN f ELSE fs[i]
  BY DEF Becomes
<1>3. gs[Len(fs)] = f /\ \A i \in DOMAIN fs : i < Len(fs) => gs[i] = fs[i]
  BY <1>1, <1>2
<1>4. ASSUME NEW i \in DOMAIN fs
      PROVE  Keeps(gs[i], q, ma)
  <2>1. CASE i = Len(fs)
    BY <1>2, <2>1
  <2>2. CASE i < Len(fs)
    <3>1. gs[i] = fs[i] /\ Keeps(fs[i], p, la)
      BY <1>3, <2>2 DEF Safe
    <3>2. Holds(fs[i]) => fs[i].proc \in StaticProcs
      BY <3>1 DEF Keeps
    <3>3. Holds(fs[i]) /\ Holds(fs[Len(fs)]) => fs[i].proc # fs[Len(fs)].proc
      BY <2>2, Below DEF Apart
    <3>4. Holds(fs[i]) => q[fs[i].proc] = p[fs[i].proc] /\ ma[fs[i].proc] = la[fs[i].proc]
      BY <3>2, <3>3 DEF Moves
    <3> QED BY <3>1, <3>4 DEF Keeps
  <2> QED BY <1>1, <2>1, <2>2
<1>5. Alone(gs)
  <2>1. ASSUME NEW i \in DOMAIN fs, NEW j \in DOMAIN fs, Holds(gs[i]), Holds(gs[j]),
               gs[i].proc = gs[j].proc
        PROVE  i = j
    BY <1>1, <1>3, <2>1 DEF Safe, Alone, Apart
  <2> QED BY <1>2, <2>1 DEF Alone
<1>6. Armed(gs)
  <2>1. ASSUME NEW i \in DOMAIN fs, NEW j \in DOMAIN fs, j < i, gs[i].kept.tail # None,
               Holds(gs[j])
        PROVE  gs[j].proc # gs[i].kept.tail.proc
    <3>1. j < Len(fs) /\ gs[j] = fs[j]
      BY <1>1, <1>3, <2>1
    <3> QED BY <1>1, <1>3, <2>1, <3>1 DEF Safe, Armed, Apart
  <2> QED BY <1>2, <2>1 DEF Armed
<1>7. ASSUME NEW k \in StaticProcs
      PROVE  HeldIn(gs, k) \/ q[k] = ma[k]
  <2>1. CASE Holds(f) /\ f.proc = k
    BY <1>1, <1>2, <1>3, <2>1 DEF HeldIn
  <2>2. CASE \E j \in DOMAIN fs : j < Len(fs) /\ Holds(fs[j]) /\ fs[j].proc = k
    BY <1>2, <1>3, <2>2 DEF HeldIn
  <2> QED BY <2>1, <2>2 DEF Covered
<1> QED BY <1>2, <1>4, <1>5, <1>6, <1>7 DEF Safe

(* A frame that starts its body is pushed, and no other holds the statics  *)
(* of its proc.                                                            *)
LEMMA PushKeeps ==
  ASSUME NEW fs \in Seq(Frame), NEW p, NEW la, NEW r, Safe(fs, p, la, r),
         NEW f \in Frame, f.kept.tail = None, Keeps(f, p, la),
         Holds(f) => ~HeldIn(fs, f.proc),
         NEW gs, gs = Append(fs, f)
  PROVE  Safe(gs, p, la, None)
<1>1. /\ Len(fs) \in Nat /\ DOMAIN fs = 1 .. Len(fs)
      /\ DOMAIN gs = 1 .. Len(fs) + 1
      /\ gs[Len(fs) + 1] = f /\ \A i \in DOMAIN fs : gs[i] = fs[i]
  OBVIOUS
<1>2. /\ \A i \in DOMAIN gs : i \in DOMAIN fs \/ i = Len(fs) + 1
      /\ \A i \in DOMAIN fs : i \in DOMAIN gs
      /\ Len(fs) + 1 \in DOMAIN gs /\ Len(fs) + 1 \notin DOMAIN fs
  BY <1>1
<1>3. \A i \in DOMAIN gs : Keeps(gs[i], p, la)
  BY <1>1, <1>2 DEF Safe
<1>4. Alone(gs)
  <2>1. ASSUME NEW i \in DOMAIN gs, NEW j \in DOMAIN gs, Holds(gs[i]), Holds(gs[j]),
               gs[i].proc = gs[j].proc
        PROVE  i = j
    BY <1>1, <1>2, <2>1 DEF Safe, Alone, HeldIn
  <2> QED BY <2>1 DEF Alone
<1>5. Armed(gs)
  <2>1. ASSUME NEW i \in DOMAIN gs, NEW j \in DOMAIN gs, j < i, gs[i].kept.tail # None,
               Holds(gs[j])
        PROVE  gs[j].proc # gs[i].kept.tail.proc
    <3>1. i \in DOMAIN fs /\ j \in DOMAIN fs
      BY <1>1, <1>2, <2>1
    <3> QED BY <1>1, <2>1, <3>1 DEF Safe, Armed
  <2> QED BY <2>1 DEF Armed
<1>6. \A k \in StaticProcs : HeldIn(gs, k) \/ p[k] = la[k]
  BY <1>1, <1>2 DEF Safe, HeldIn
<1> QED BY <1>3, <1>4, <1>5, <1>6 DEF Safe

(* The innermost frame is popped, and no statics go with it.               *)
LEMMA PopKeeps ==
  ASSUME NEW fs \in Seq(Frame), fs # <<>>, NEW p, NEW la, Safe(fs, p, la, None),
         NEW q, DefsOK(q, la), \A k \in StaticProcs : q[k] = p[k],
         Holds(fs[Len(fs)]) => p[fs[Len(fs)].proc] = la[fs[Len(fs)].proc],
         NEW r, NEW gs, gs = Front(fs),
         r # None => r.spelling # "absolute" /\ ~HeldIn(gs, r.proc)
  PROVE  Safe(gs, q, la, r)
<1>1. /\ Len(fs) \in Nat \ {0} /\ DOMAIN fs = 1 .. Len(fs) /\ Len(fs) \in DOMAIN fs
      /\ \A i \in DOMAIN fs : i \in Nat /\ (i = Len(fs) \/ i < Len(fs))
  BY StackIs
<1>2. gs \in Seq(Frame) /\ Len(gs) = Len(fs) - 1 /\ \A i \in 1 .. Len(fs) - 1 : gs[i] = fs[i]
  BY FrontSeq
<1>3. DOMAIN gs = 1 .. Len(fs) - 1
  BY <1>2
<1>4. /\ \A i \in DOMAIN gs : i \in DOMAIN fs /\ gs[i] = fs[i]
      /\ \A i \in DOMAIN fs : i < Len(fs) => i \in DOMAIN gs
  BY <1>1, <1>2, <1>3
<1>5. ASSUME NEW i \in DOMAIN gs
      PROVE  Keeps(gs[i], q, la)
  <2>1. gs[i] = fs[i] /\ Keeps(fs[i], p, la)
    BY <1>4 DEF Safe
  <2>2. Holds(fs[i]) => q[fs[i].proc] = p[fs[i].proc]
    BY <2>1 DEF Keeps
  <2> QED BY <2>1, <2>2 DEF Keeps
<1>6. Alone(gs) /\ Armed(gs)
  BY <1>4 DEF Safe, Alone, Armed
<1>7. ASSUME NEW k \in StaticProcs
      PROVE  HeldIn(gs, k) \/ q[k] = la[k]
  BY <1>4, Below DEF HeldIn, Covered
<1> QED BY <1>5, <1>6, <1>7 DEF Safe

LEMMA TopSafe ==
  ASSUME IInv, SInv, frames # <<>>
  PROVE  /\ frames \in Seq(Frame) /\ Top = frames[Len(frames)] /\ Top \in Frame
         /\ Top.kept \in Kept
         /\ Keeps(Top, procs, last) /\ DefsOK(procs, last)
<1>1. Len(frames) \in DOMAIN frames /\ Top = frames[Len(frames)] /\ Top \in Frame
  BY TopIs DEF IInv
<1>2. Top.kept \in Kept
  BY <1>1 DEF Frame
<1> QED BY <1>1, <1>2 DEF SInv, Safe, IInv, Stacked, FramesOK

(* A step of the innermost frame that moves no statics.                    *)
LEMMA QuietKeeps ==
  ASSUME IInv, SInv, frames # <<>>, redo = None, redo' = None,
         NEW f \in Frame, SetTop(f),
         DefsOK(procs', last), last' = last, \A k \in StaticProcs : procs'[k] = procs[k],
         f.proc = Top.proc, f.key = Top.key, f.statics = Top.statics, f.stale = Top.stale,
         f.engine = Top.engine, f.kept.var = Top.kept.var, f.kept.tail = Top.kept.tail,
         f.phase \in {"body", "tail"} => Top.phase \in {"body", "tail"},
         f.phase \in {"exit", "script"} => Top.phase \in {"exit", "script"},
         f.phase = "tail" => f.kept.tail # None
  PROVE  SInv'
<1>1. /\ frames \in Seq(Frame) /\ Top = frames[Len(frames)] /\ Keeps(Top, procs, last)
  BY TopSafe
<1>2. Holds(f) = Holds(Top)
  BY DEF Holds
<1>3. Holds(Top) => procs'[Top.proc] = procs[Top.proc]
  BY <1>1 DEF Keeps
<1>4. Keeps(f, procs', last)
  BY <1>1, <1>2, <1>3 DEF Keeps
<1>5. Safe(frames, procs, last, None)
  BY DEF SInv
<1>6. Apart(frames, f)
  BY <1>1, <1>2, <1>5, Below DEF Apart
<1>7. Covered(frames, f, procs', last)
  BY <1>1, <1>2, <1>5, Below DEF Covered
<1>8. Moves(frames, procs, last, procs', last)
  BY DEF Moves
<1>9. Becomes(frames, f, frames')
  BY DEF SetTop, Becomes
<1>10. Safe(frames', procs', last, None)
  BY <1>1, <1>4, <1>5, <1>6, <1>7, <1>8, <1>9, TopKeeps
<1> QED BY <1>10 DEF SInv

LEMMA AssignSafe ==
  ASSUME IInv, Careful, SInv, NEW v \in Vals, Assign(v)
  PROVE  SInv'
<1> DEFINE kept == [Top.kept EXCEPT !.var = v]
           f    == [Top EXCEPT !.kept = kept]
<1>1. /\ frames # <<>> /\ redo = None /\ UNCHANGED <<procs, redo>> /\ Top.kept.var # None
      /\ last' = IF Top.stale THEN last ELSE [last EXCEPT ![Top.proc] = v]
  BY DEF Assign, Free, Calm
<1>2. Top.phase = "body"
  BY <1>1, ScriptPhase DEF Assign, Late, Phase, Careful, Without
<1>3. /\ frames \in Seq(Frame) /\ Top = frames[Len(frames)] /\ Top \in Frame
      /\ Keeps(Top, procs, last) /\ DefsOK(procs, last) /\ Top.kept \in Kept
      /\ Holds(Top)
  BY <1>1, <1>2, TopSafe DEF Keeps
<1>4. /\ Top.proc \in StaticProcs /\ last' = [last EXCEPT ![Top.proc] = v]
      /\ Top.key = Top.proc /\ ~Top.stale /\ Top.engine = "full"
  BY <1>1, <1>3 DEF Keeps
<1>5. DefsOK(procs, last') /\ last'[Top.proc] = v
  BY <1>3, <1>4 DEF DefsOK
<1>6. SetTop(f)
  BY <1>3 DEF Assign, Frame
<1>7. /\ f \in Frame /\ f.proc = Top.proc /\ f.key = Top.key /\ f.statics = Top.statics
      /\ f.stale = Top.stale /\ f.engine = Top.engine /\ f.phase = Top.phase
      /\ f.kept.var = v /\ f.kept.tail = Top.kept.tail
  BY <1>3 DEF Frame, Kept, Statics
<1> HIDE DEF f
<1>8. Holds(f)
  BY <1>3, <1>7 DEF Holds
<1>9. Keeps(f, procs, last')
  BY <1>2, <1>3, <1>4, <1>5, <1>7, <1>8 DEF Keeps
<1>10. Safe(frames, procs, last, None)
  BY <1>1 DEF SInv
<1>11. Apart(frames, f)
  BY <1>1, <1>3, <1>7, <1>10, Below DEF Apart
<1>12. \A k \in StaticProcs : k # Top.proc => last'[k] = last[k]
  BY <1>3, <1>4 DEF DefsOK
<1>13. Covered(frames, f, procs, last')
  BY <1>1, <1>3, <1>7, <1>8, <1>10, <1>12, Below DEF Covered
<1>14. Moves(frames, procs, last, procs, last')
  BY <1>1, <1>3, <1>12 DEF Moves
<1>15. Becomes(frames, f, frames')
  BY <1>6 DEF SetTop, Becomes
<1>16. Safe(frames', procs, last', None)
  BY <1>1, <1>3, <1>5, <1>7, <1>9, <1>10, <1>11, <1>13, <1>14, <1>15, TopKeeps
<1> QED BY <1>1, <1>16 DEF SInv

LEMMA DeferSafe ==
  ASSUME IInv, Careful, SInv, NEW s \in Scripts, Defer(s)
  PROVE  SInv'
<1> DEFINE kept == [Top.kept EXCEPT !.deferred = Append(@, s)]
           f    == [Top EXCEPT !.kept = kept]
<1>1. frames # <<>> /\ redo = None /\ UNCHANGED <<procs, last, redo>>
  BY DEF Defer, Free, Calm
<1>2. Top \in Frame /\ Keeps(Top, procs, last) /\ DefsOK(procs, last) /\ Top.kept \in Kept
  BY <1>1, TopSafe
<1>3. SetTop(f)
  BY <1>2 DEF Defer, Frame, Kept
<1>4. kept \in Kept /\ kept.var = Top.kept.var /\ kept.tail = Top.kept.tail
  <2>1. Append(Top.kept.deferred, s) \in Seq(Scripts)
    BY <1>2 DEF Kept
  <2> QED BY <1>2, <2>1 DEF Kept
<1> HIDE DEF kept
<1>5. /\ f \in Frame /\ f.proc = Top.proc /\ f.key = Top.key /\ f.statics = Top.statics
      /\ f.stale = Top.stale /\ f.engine = Top.engine /\ f.phase = Top.phase /\ f.kept = kept
  BY <1>2, <1>4 DEF Frame
<1> HIDE DEF f
<1> QED BY <1>1, <1>2, <1>3, <1>4, <1>5, QuietKeeps DEF Keeps

LEMMA DefineLocalSafe ==
  ASSUME IInv, Careful, SInv, NEW k \in Procs, DefineLocal(k)
  PROVE  SInv'
<1> DEFINE kept == [Top.kept EXCEPT !.local = @ \cup {k}]
           f    == [Top EXCEPT !.kept = kept]
<1>1. /\ frames # <<>> /\ redo = None /\ UNCHANGED <<last, redo>>
      /\ k \in LocalProcs /\ procs' = Put(procs, k, None)
  BY DEF DefineLocal, Free, Calm
<1>2. Top \in Frame /\ Keeps(Top, procs, last) /\ DefsOK(procs, last) /\ Top.kept \in Kept
  BY <1>1, TopSafe
<1>3. SetTop(f)
  BY <1>2 DEF DefineLocal, Frame, Kept
<1>4. kept \in Kept /\ kept.var = Top.kept.var /\ kept.tail = Top.kept.tail
  BY <1>1, <1>2 DEF Kept
<1> HIDE DEF kept
<1>5. /\ f \in Frame /\ f.proc = Top.proc /\ f.key = Top.key /\ f.statics = Top.statics
      /\ f.stale = Top.stale /\ f.engine = Top.engine /\ f.phase = Top.phase /\ f.kept = kept
  BY <1>2, <1>4 DEF Frame
<1> HIDE DEF f
<1>6. k \notin StaticProcs
  BY <1>1, ProcCallAssumption
<1>7. DefsOK(procs', last) /\ \A j \in StaticProcs : procs'[j] = procs[j]
  BY <1>1, <1>2, <1>6 DEF DefsOK, Put
<1> QED BY <1>1, <1>2, <1>3, <1>4, <1>5, <1>7, QuietKeeps DEF Keeps

(* A step that only moves the innermost frame on in its phases.            *)
LEMMA PhaseSafe ==
  ASSUME IInv, SInv, frames # <<>>, redo = None, UNCHANGED <<procs, last, redo>>,
         NEW phase \in Phases, NEW queue \in Seq(Scripts),
         SetTop([Top EXCEPT !.phase = phase, !.queue = queue]),
         phase \in {"body", "tail"} => Top.phase \in {"body", "tail"},
         phase \in {"exit", "script"} => Top.phase \in {"exit", "script"},
         phase = "tail" => Top.kept.tail # None
  PROVE  SInv'
<1> DEFINE f == [Top EXCEPT !.phase = phase, !.queue = queue]
<1>1. Top \in Frame /\ DefsOK(procs, last)
  BY TopSafe
<1>2. /\ f \in Frame /\ f.proc = Top.proc /\ f.key = Top.key /\ f.statics = Top.statics
      /\ f.stale = Top.stale /\ f.engine = Top.engine /\ f.phase = phase /\ f.kept = Top.kept
  BY <1>1 DEF Frame
<1>3. SetTop(f)
  OBVIOUS
<1> HIDE DEF f
<1> QED BY <1>1, <1>2, <1>3, QuietKeeps

LEMMA BodyEndsSafe ==
  ASSUME IInv, SInv, BodyEnds
  PROVE  SInv'
<1> DEFINE phase == IF Top.engine = "full" /\ Top.kept.tail # None THEN "tail" ELSE "done"
<1>1. /\ frames # <<>> /\ redo = None /\ UNCHANGED <<procs, last, redo>> /\ Top.phase = "body"
      /\ SetTop([Top EXCEPT !.phase = phase])
  BY DEF BodyEnds, At, Calm, Phase
<1>2. Top \in Frame
  BY <1>1, TopSafe
<1>3. [Top EXCEPT !.phase = phase] = [Top EXCEPT !.phase = phase, !.queue = Top.queue]
  BY <1>2 DEF Frame
<1>4. Top.queue \in Seq(Scripts)
  BY <1>2 DEF Frame
<1>5. /\ phase \in Phases /\ phase \notin {"exit", "script"}
      /\ phase = "tail" => Top.kept.tail # None
  BY DEF Phases
<1> HIDE DEF phase
<1> QED BY <1>1, <1>3, <1>4, <1>5, PhaseSafe

LEMMA RunDeferredSafe ==
  ASSUME IInv, SInv, RunDeferred
  PROVE  SInv'
<1>1. /\ frames # <<>> /\ redo = None /\ UNCHANGED <<procs, last, redo>> /\ Top.phase = "exit"
      /\ Top.queue # <<>>
  BY DEF RunDeferred, At, Calm, Phase
<1>2. Top \in Frame
  BY <1>1, TopSafe
<1>3. Top.queue \in Seq(Scripts)
  BY <1>2 DEF Frame
<1>4. Front(Top.queue) \in Seq(Scripts)
  BY <1>1, <1>3, FrontSeq
<1>5. SetTop([Top EXCEPT !.phase = "script", !.queue = Front(Top.queue)])
  BY <1>2 DEF RunDeferred, Frame
<1>6. "script" \in Phases
  BY DEF Phases
<1> QED BY <1>1, <1>4, <1>5, <1>6, PhaseSafe

LEMMA ScriptEndsSafe ==
  ASSUME IInv, SInv, ScriptEnds
  PROVE  SInv'
<1>1. /\ frames # <<>> /\ redo = None /\ UNCHANGED <<procs, last, redo>> /\ Top.phase = "script"
      /\ SetTop([Top EXCEPT !.phase = "exit"])
  BY DEF ScriptEnds, At, Calm, Phase
<1>2. Top \in Frame
  BY <1>1, TopSafe
<1>3. [Top EXCEPT !.phase = "exit"] = [Top EXCEPT !.phase = "exit", !.queue = Top.queue]
  BY <1>2 DEF Frame
<1>4. Top.queue \in Seq(Scripts) /\ "exit" \in Phases
  BY <1>2 DEF Frame, Phases
<1> QED BY <1>1, <1>3, <1>4, PhaseSafe

LEMMA EvalEndsSafe ==
  ASSUME IInv, SInv, EvalEnds
  PROVE  SInv'
<1>1. /\ frames # <<>> /\ redo = None /\ UNCHANGED <<procs, last, redo>> /\ Top.phase = "eval"
      /\ SetTop([Top EXCEPT !.phase = "done"])
  BY DEF EvalEnds, At, Calm, Phase
<1>2. Top \in Frame
  BY <1>1, TopSafe
<1>3. [Top EXCEPT !.phase = "done"] = [Top EXCEPT !.phase = "done", !.queue = Top.queue]
  BY <1>2 DEF Frame
<1>4. Top.queue \in Seq(Scripts) /\ "done" \in Phases
  BY <1>2 DEF Frame, Phases
<1> QED BY <1>1, <1>3, <1>4, PhaseSafe

LEMMA TailcallSafe ==
  ASSUME IInv, Careful, SInv, NEW k \in Procs \cup {Builtin},
         NEW spelling \in {"own", "simple", "absolute"}, Tailcall(k, spelling)
  PROVE  SInv'
<1> DEFINE t    == [proc |-> k, spelling |-> spelling]
           kept == [Top.kept EXCEPT !.tail = t]
           f(caught) == TailedFrame(Top, t, caught)
<1>1. /\ frames # <<>> /\ redo = None /\ UNCHANGED <<procs, last, redo>>
      /\ spelling \in Spellings(k) \/ spelling = "own"
      /\ Keeping(k) => Top.proc = k
  BY DEF Tailcall, Free, Calm, Careful, Without
<1>2. Top.phase = "body"
  BY <1>1, ScriptPhase DEF Tailcall, Late, Phase, Careful, Without
<1>3. spelling # "absolute"
  BY <1>1 DEF Spellings, Careful, Without
<1>4. /\ frames \in Seq(Frame) /\ Top = frames[Len(frames)] /\ Top \in Frame
      /\ Keeps(Top, procs, last) /\ DefsOK(procs, last) /\ Top.kept \in Kept
  BY <1>1, TopSafe
<1>5. PICK caught \in BOOLEAN : SetTop(f(caught))
  BY TailcallIs
<1>6. t \in TailCalls /\ t.proc = k /\ t.spelling = spelling /\ t # None
  <2>1. t \in TailCalls /\ t.proc = k /\ t.spelling = spelling
    BY DEF TailCalls
  <2> QED BY <2>1, ProcCallAssumption
<1> HIDE DEF t
<1>7. kept \in Kept /\ kept.var = Top.kept.var /\ kept.tail = t
  BY <1>4, <1>6 DEF Kept
<1> HIDE DEF kept
<1> DEFINE g == f(caught)
<1>8. /\ g \in Frame /\ g.proc = Top.proc /\ g.key = Top.key /\ g.statics = Top.statics
      /\ g.stale = Top.stale /\ g.engine = Top.engine /\ g.kept = kept
      /\ g.phase \in {"body", "tail"}
  <2>1. ASSUME caught
        PROVE  g = [Top EXCEPT !.kept = kept, !.phase = "body"]
    BY <1>2, <1>4, <2>1 DEF Frame, TailedFrame, kept
  <2>2. ASSUME ~caught
        PROVE  g = [Top EXCEPT !.kept = kept, !.phase = "tail"]
    BY <1>2, <1>4, <2>2 DEF Frame, TailedFrame, Ended, kept
  <2>3. PICK phase \in {"body", "tail"} : g = [Top EXCEPT !.kept = kept, !.phase = phase]
    BY <2>1, <2>2
  <2> HIDE DEF g
  <2> QED BY <1>4, <1>7, <2>3 DEF Frame, Phases
<1> HIDE DEF g
<1>9. Holds(g) = Holds(Top)
  BY <1>8 DEF Holds
<1>10. Keeps(g, procs, last)
  BY <1>2, <1>3, <1>4, <1>6, <1>7, <1>8, <1>9 DEF Keeps
<1>11. Safe(frames, procs, last, None)
  BY <1>1 DEF SInv
<1>12. Apart(frames, g)
  <2> SUFFICES ASSUME NEW j \in DOMAIN frames, j < Len(frames), Holds(frames[j])
               PROVE  (Holds(g) => frames[j].proc # g.proc) /\ frames[j].proc # k
    BY <1>6, <1>7, <1>8 DEF Apart
  <2>1. Holds(Top) => frames[j].proc # Top.proc
    BY <1>1, <1>4, <1>11, Below DEF Apart
  <2>2. frames[j].proc \in StaticProcs
    BY <1>11 DEF Safe, Keeps
  <2>3. ASSUME frames[j].proc = k
        PROVE  FALSE
    <3>1. Keeping(k)
      BY <2>3 DEF Keeping, Holds
    <3>2. Top.proc = k /\ Holds(Top)
      BY <1>1, <1>2, <1>4, <2>2, <2>3, <3>1 DEF Keeps
    <3> QED BY <2>1, <2>3, <3>2
  <2> QED BY <1>8, <1>9, <2>1, <2>3
<1>13. Covered(frames, g, procs, last)
  BY <1>1, <1>4, <1>8, <1>9, <1>11, Below DEF Covered
<1>14. Moves(frames, procs, last, procs, last)
  BY DEF Moves
<1>15. Becomes(frames, g, frames')
  BY <1>5 DEF SetTop, Becomes, g
<1>16. Safe(frames', procs, last, None)
  BY <1>1, <1>4, <1>8, <1>10, <1>11, <1>12, <1>13, <1>14, <1>15, TopKeeps
<1> QED BY <1>1, <1>16 DEF SInv

(* What the write-back of the innermost frame leaves.                      *)
LEMMA WrittenIs ==
  ASSUME IInv, SInv, frames # <<>>
  PROVE  /\ DefsOK(Written(Top), last) /\ DOMAIN Written(Top) = DOMAIN procs
         /\ Moves(frames, procs, last, Written(Top), last)
         /\ Holds(Top) => Written(Top)[Top.proc] = last[Top.proc]
         /\ \A k \in StaticProcs :
              \/ \E j \in DOMAIN frames : /\ j < Len(frames)
                                        /\ Holds(frames[j]) /\ frames[j].proc = k
              \/ Written(Top)[k] = last[k]
<1>1. /\ frames \in Seq(Frame) /\ Top = frames[Len(frames)]
      /\ Keeps(Top, procs, last) /\ DefsOK(procs, last)
  BY TopSafe
<1> DEFINE w == Written(Top)
<1>2. CASE Holds(Top)
  <2>1. /\ Top.proc \in StaticProcs /\ Top.key = Top.proc
        /\ Top.kept.var \in Vals /\ Top.kept.var = last[Top.proc]
    BY <1>1, <1>2 DEF Keeps
  <2>2. w = [procs EXCEPT ![Top.proc] = Top.kept.var]
    BY <1>1, <1>2, <2>1 DEF Written, Holds, DefsOK
  <2> HIDE DEF w
  <2>3. /\ DOMAIN w = DOMAIN procs /\ w[Top.proc] = last[Top.proc]
        /\ \A k \in DOMAIN procs : w[k] = IF k = Top.proc THEN Top.kept.var ELSE procs[k]
    BY <1>1, <2>1, <2>2 DEF DefsOK
  <2>4. DefsOK(w, last)
    BY <1>1, <2>1, <2>3 DEF DefsOK
  <2>5. Moves(frames, procs, last, w, last)
    BY <1>1, <1>2, <2>3 DEF Moves, DefsOK
  <2>6. Covered(frames, Top, procs, last)
    BY <1>1, Below DEF SInv
  <2>7. ASSUME NEW k \in StaticProcs
        PROVE  \/ \E j \in DOMAIN frames : /\ j < Len(frames)
                                        /\ Holds(frames[j]) /\ frames[j].proc = k
               \/ w[k] = last[k]
    <3>1. k # Top.proc => w[k] = procs[k]
      BY <1>1, <2>3 DEF DefsOK
    <3> QED BY <2>3, <2>6, <3>1 DEF Covered
  <2> QED BY <2>3, <2>4, <2>5, <2>7 DEF w
<1>3. CASE ~Holds(Top)
  <2>1. w = procs
    BY <1>3 DEF Written, Holds
  <2>2. Covered(frames, Top, procs, last)
    BY <1>1, Below DEF SInv
  <2>3. Moves(frames, procs, last, procs, last)
    BY DEF Moves
  <2> QED BY <1>1, <1>3, <2>1, <2>2, <2>3 DEF Covered
<1> QED BY <1>2, <1>3

LEMMA WriteBackSafe ==
  ASSUME IInv, Careful, SInv, WriteBack
  PROVE  SInv'
<1> DEFINE kept == [Top.kept EXCEPT !.deferred = <<>>]
           f == [Top EXCEPT !.phase = "exit", !.queue = Queue(Top),
                            !.doomed = Top.kept.local, !.kept = kept]
<1>1. /\ frames # <<>> /\ redo = None /\ UNCHANGED <<last, redo>> /\ Top.phase = "done"
      /\ procs' = Written(Top)
  BY DEF WriteBack, At, Calm, Phase
<1>2. /\ frames \in Seq(Frame) /\ Top = frames[Len(frames)] /\ Top \in Frame
      /\ Keeps(Top, procs, last) /\ DefsOK(procs, last) /\ Top.kept \in Kept
  BY <1>1, TopSafe
<1>3. SetTop(f)
  BY <1>2 DEF WriteBack, Frame, Kept
<1>4. kept \in Kept /\ kept.var = Top.kept.var /\ kept.tail = Top.kept.tail
  <2>1. <<>> \in Seq(Scripts)
    OBVIOUS
  <2> QED BY <1>2, <2>1 DEF Kept
<1> HIDE DEF kept
<1>5. Queue(Top) \in Seq(Scripts) /\ Top.kept.local \in SUBSET LocalProcs
  BY <1>2 DEF Kept, Queue
<1>6. /\ f \in Frame /\ f.proc = Top.proc /\ f.key = Top.key /\ f.statics = Top.statics
      /\ f.stale = Top.stale /\ f.engine = Top.engine /\ f.phase = "exit" /\ f.kept = kept
  BY <1>2, <1>4, <1>5 DEF Frame, Phases
<1> HIDE DEF f
<1>7. Holds(f) = Holds(Top)
  BY <1>6 DEF Holds
<1>8. /\ DefsOK(procs', last) /\ Moves(frames, procs, last, procs', last)
      /\ Holds(Top) => procs'[Top.proc] = last[Top.proc]
      /\ Covered(frames, f, procs', last)
  BY <1>1, WrittenIs DEF Covered
<1>9. Keeps(f, procs', last)
  BY <1>2, <1>4, <1>6, <1>7, <1>8 DEF Keeps
<1>10. Safe(frames, procs, last, None)
  BY <1>1 DEF SInv
<1>11. Apart(frames, f)
  BY <1>1, <1>2, <1>4, <1>6, <1>7, <1>10, Below DEF Apart
<1>12. Becomes(frames, f, frames')
  BY <1>3 DEF SetTop, Becomes
<1>13. Safe(frames', procs', last, None)
  BY <1>1, <1>2, <1>6, <1>8, <1>9, <1>10, <1>11, <1>12, TopKeeps
<1> QED BY <1>1, <1>13 DEF SInv

LEMMA TailToProcSafe ==
  ASSUME IInv, Careful, SInv, TailToProc
  PROVE  SInv'
<1> DEFINE t == Top.kept.tail
           p == Written(Top)
           kept == [Top.kept EXCEPT !.var = p[t.proc], !.tail = None]
           f == [Top EXCEPT !.proc = t.proc, !.key = t.proc, !.ns = Home[t.proc],
                   !.statics = p[t.proc], !.phase = "body", !.stale = FALSE, !.kept = kept]
<1>1. /\ frames # <<>> /\ redo = None /\ UNCHANGED <<last, redo>> /\ Top.phase = "tail"
      /\ Top.engine = "full" /\ procs' = p /\ t.proc \in DOMAIN procs
      /\ SetTop(TakenOver(Top, t.proc, p))
  BY DEF TailToProc, At, Calm, Phase
<1>2. /\ frames \in Seq(Frame) /\ Top = frames[Len(frames)] /\ Top \in Frame
      /\ Keeps(Top, procs, last) /\ DefsOK(procs, last) /\ Top.kept \in Kept
  BY <1>1, TopSafe
<1>3. t # None
  BY <1>1, <1>2 DEF Keeps
<1>4. /\ DefsOK(p, last) /\ DOMAIN p = DOMAIN procs /\ Moves(frames, procs, last, p, last)
      /\ Holds(Top) => p[Top.proc] = last[Top.proc]
      /\ \A k \in StaticProcs :
           \/ \E j \in DOMAIN frames : /\ j < Len(frames)
                                     /\ Holds(frames[j]) /\ frames[j].proc = k
           \/ p[k] = last[k]
  BY <1>1, WrittenIs
<1>5. t.proc \in Procs /\ p[t.proc] \in Statics
  <2>1. DOMAIN procs \subseteq Procs
    BY DEF IInv, ProcsOK
  <2> HIDE DEF p
  <2> QED BY <1>1, <1>4, <2>1 DEF DefsOK, Statics
<1>6. SetTop(f)
  BY <1>1, <1>2 DEF TakenOver, Frame
<1> HIDE DEF p, t
<1>7. kept \in Kept /\ kept.var = p[t.proc] /\ kept.tail = None
  BY <1>2, <1>5 DEF Kept
<1> HIDE DEF kept
<1>8. /\ f \in Frame /\ f.proc = t.proc /\ f.key = t.proc /\ f.statics = p[t.proc]
      /\ ~f.stale /\ f.engine = "full" /\ f.phase = "body" /\ f.kept = kept
  <2>1. Home[t.proc] \in Spaces
    BY <1>5 DEF Spaces
  <2> QED BY <1>1, <1>2, <1>5, <1>7, <2>1 DEF Frame, Phases
<1> HIDE DEF f
<1>9. Safe(frames, procs, last, None)
  BY <1>1 DEF SInv
<1>10. \A j \in DOMAIN frames : j < Len(frames) /\ Holds(frames[j]) => frames[j].proc # t.proc
  BY <1>1, <1>2, <1>3, <1>9, Below DEF Apart, t
<1>11. Keeps(f, p, last)
  <2>1. CASE t.proc \in StaticProcs
    <3>1. p[t.proc] \in Vals /\ p[t.proc] # None
      BY <1>4, <2>1, ProcCallAssumption DEF DefsOK
    <3>2. p[t.proc] = last[t.proc]
      BY <1>4, <1>10, <2>1
    <3> QED BY <1>7, <1>8, <2>1, <3>1, <3>2 DEF Keeps, Holds
  <2>2. CASE t.proc \notin StaticProcs
    <3>1. p[t.proc] = None
      BY <1>1, <1>4, <2>2 DEF DefsOK
    <3> QED BY <1>7, <1>8, <2>2, <3>1 DEF Keeps, Holds
  <2> QED BY <2>1, <2>2
<1>12. Apart(frames, f)
  BY <1>7, <1>8, <1>10 DEF Apart
<1>13. Covered(frames, f, p, last)
  BY <1>4 DEF Covered
<1>14. Becomes(frames, f, frames')
  BY <1>6 DEF SetTop, Becomes
<1>15. Safe(frames', p, last, None)
  BY <1>1, <1>2, <1>4, <1>8, <1>9, <1>11, <1>12, <1>13, <1>14, TopKeeps
<1> QED BY <1>1, <1>15 DEF SInv, p

(* The frame a call pushes keeps its proc's statics.                       *)
LEMMA CallSafe ==
  ASSUME IInv, NEW base \in Seq(Frame), NEW p, NEW r, Safe(base, p, last, r),
         NEW k \in Procs, k \in DOMAIN p, NEW spelling, spelling # "absolute",
         NEW engine \in Engines,
         engine = "full" \/ (spelling \in Spellings(k) /\ p[k] = None),
         mode.engines = {"full"} => engine = "full",
         PushFrame(base, k, spelling, engine, p), ~HeldIn(base, k)
  PROVE  Safe(frames', p, last, None)
<1>1. DefsOK(p, last) /\ p[k] \in Statics
  BY DEF Safe, DefsOK, Statics
<1>2. PICK f \in Frame : PushedFrame(f, base, k, spelling, engine, p)
  BY <1>1, PushedIs
<1>3. /\ frames' = Append(base, f)
      /\ f.proc = k /\ f.key = KeyFor(k, spelling) /\ f.engine = engine
      /\ f.statics = (IF engine = "full" THEN p[k] ELSE None)
      /\ f.phase = "body" /\ ~f.stale
      /\ f.kept.var = f.statics /\ f.kept.tail = None
  BY <1>2 DEF PushedFrame
<1>4. f.key = k
  BY <1>3 DEF KeyFor
<1>5. Keeps(f, p, last)
  <2>1. CASE k \in StaticProcs
    <3>1. p[k] \in Vals /\ p[k] # None /\ p[k] = last[k]
      BY <1>1, <2>1, ProcCallAssumption DEF Safe, DefsOK
    <3> QED BY <1>3, <1>4, <2>1, <3>1 DEF Keeps, Holds
  <2>2. CASE k \notin StaticProcs
    <3>1. p[k] = None
      BY <1>1, <2>2 DEF DefsOK
    <3> QED BY <1>3, <2>2, <3>1 DEF Keeps, Holds
  <2> QED BY <2>1, <2>2
<1> QED BY <1>3, <1>5, PushKeeps

LEMMA EnterSafe ==
  ASSUME IInv, Careful, SInv, NEW k, NEW spelling, NEW engine \in Engines,
         Enter(k, spelling, engine)
  PROVE  SInv'
<1> k \in Procs
  BY DEF Enter, IInv, ProcsOK
<1>1. /\ redo = None /\ UNCHANGED <<procs, last, redo>> /\ k \in DOMAIN procs
      /\ spelling \in Spellings(k) /\ ~Keeping(k) /\ engine \in mode.engines
      /\ engine = "direct" => procs[k] = None
      /\ PushFrame(frames, k, spelling, engine, procs)
  BY DEF Enter, Free, Calm, Gate, Careful, Without
<1>2. spelling # "absolute"
  BY <1>1 DEF Spellings, Careful, Without
<1>3. ~HeldIn(frames, k) /\ frames \in Seq(Frame) /\ Safe(frames, procs, last, None)
  BY <1>1 DEF Keeping, HeldIn, Holds, IInv, Stacked, FramesOK, SInv
<1>4. engine = "full" \/ (spelling \in Spellings(k) /\ procs[k] = None)
  BY <1>1 DEF Engines
<1>5. mode.engines = {"full"} => engine = "full"
  BY <1>1
<1>6. Safe(frames', procs, last, None)
  BY <1>1, <1>2, <1>3, <1>4, <1>5, CallSafe
<1> QED BY <1>1, <1>6 DEF SInv

LEMMA RedispatchSafe ==
  ASSUME IInv, Careful, SInv, Redispatch
  PROVE  SInv'
<1>1. /\ redo # None /\ redo' = None /\ UNCHANGED <<procs, last>>
      /\ Safe(frames, procs, last, redo) /\ frames \in Seq(Frame)
  BY DEF Redispatch, IInv, Stacked, FramesOK, SInv
<1>2. redo.spelling # "absolute" /\ ~HeldIn(frames, redo.proc)
  BY <1>1 DEF Safe
<1>3. CASE UNCHANGED frames
  <2>1. Safe(frames, procs, last, None)
    BY <1>1 DEF Safe
  <2> QED BY <1>1, <1>3, <2>1 DEF SInv
<1>4. CASE Reached(redo) /\ PushFrame(frames, redo.proc, redo.spelling, "full", procs)
  <2>1. redo.proc \in DOMAIN procs /\ redo.proc \in Procs
    BY <1>4 DEF Reached, IInv, ProcsOK
  <2>2. "full" \in Engines
    BY DEF Engines
  <2>3. Safe(frames', procs, last, None)
    BY <1>1, <1>2, <1>4, <2>1, <2>2, CallSafe
  <2> QED BY <1>1, <2>3 DEF SInv
<1> QED BY <1>3, <1>4 DEF Redispatch

LEMMA TailToEvalSafe ==
  ASSUME IInv, Careful, SInv, TailToEval
  PROVE  SInv'
<1> DEFINE t == Top.kept.tail
           p == Written(Top)
           kept == [Top.kept EXCEPT !.tail = None]
           f == [Top EXCEPT !.phase = "done", !.statics = None, !.kept = kept]
           base == [frames EXCEPT ![Len(frames)] = f]
           e == [f EXCEPT !.phase = "eval"]
<1>1. /\ frames # <<>> /\ redo = None /\ UNCHANGED <<last, redo>> /\ Top.phase = "tail"
      /\ Top.engine = "full" /\ procs' = p
  BY DEF TailToEval, At, Calm, Phase
<1>2. /\ frames \in Seq(Frame) /\ Top = frames[Len(frames)] /\ Top \in Frame
      /\ Keeps(Top, procs, last) /\ DefsOK(procs, last) /\ Top.kept \in Kept
  BY <1>1, TopSafe
<1>3. t # None /\ t.spelling # "absolute"
  BY <1>1, <1>2 DEF Keeps
<1>4. /\ DefsOK(p, last) /\ DOMAIN p = DOMAIN procs /\ Moves(frames, procs, last, p, last)
      /\ \A k \in StaticProcs :
           \/ \E j \in DOMAIN frames : /\ j < Len(frames)
                                     /\ Holds(frames[j]) /\ frames[j].proc = k
           \/ p[k] = last[k]
  BY <1>1, WrittenIs
<1>5. \/ t.proc \in DOMAIN procs /\ PushFrame(base, t.proc, t.spelling, "full", p)
      \/ frames' = base
      \/ frames' = [frames EXCEPT ![Len(frames)] = e]
  <2> DEFINE g == [Top EXCEPT !.phase = "done", !.statics = None, !.kept.tail = None]
             b == [frames EXCEPT ![Len(frames)] = g]
  <2>1. g = f
    BY <1>2 DEF Frame
  <2>2. Len(frames) \in DOMAIN frames
    BY <1>1, <1>2
  <2>3. \/ t.proc \in DOMAIN procs /\ PushFrame(b, t.proc, t.spelling, "full", p)
        \/ frames' = b
        \/ frames' = [b EXCEPT ![Len(frames)].phase = "eval"]
    BY DEF TailToEval
  <2> HIDE DEF g, f, p, t
  <2>4. b = base
    BY <2>1
  <2>5. [base EXCEPT ![Len(frames)].phase = "eval"] = [frames EXCEPT ![Len(frames)] = e]
    BY <2>2
  <2> HIDE DEF b, base, e
  <2> QED BY <2>3, <2>4, <2>5
<1> HIDE DEF p, t
<1>6. kept \in Kept /\ kept.tail = None
  BY <1>2 DEF Kept
<1> HIDE DEF kept
<1>7. /\ f \in Frame /\ f.statics = None /\ f.phase = "done" /\ f.kept = kept
  BY <1>1, <1>2, <1>6 DEF Frame, Phases, Statics
<1> HIDE DEF f
<1>8. ~Holds(f)
  BY <1>7 DEF Holds
<1>9. Safe(frames, procs, last, None)
  BY <1>1 DEF SInv
<1>10. Keeps(f, p, last)
  BY <1>6, <1>7, <1>8 DEF Keeps
<1>11. Apart(frames, f) /\ Covered(frames, f, p, last) /\ Becomes(frames, f, base)
  BY <1>4, <1>6, <1>7, <1>8 DEF Apart, Covered, Becomes
<1>12. /\ base \in Seq(Frame) /\ DOMAIN base = DOMAIN frames
       /\ \A i \in DOMAIN frames : /\ i = Len(frames) \/ i < Len(frames)
                                 /\ base[i] = IF i = Len(frames) THEN f ELSE frames[i]
  BY <1>1, <1>2, <1>7
<1> HIDE DEF base
<1>13. Safe(base, p, last, None)
  BY <1>1, <1>2, <1>4, <1>7, <1>9, <1>10, <1>11, TopKeeps
<1>14. CASE frames' = base
  BY <1>1, <1>13, <1>14 DEF SInv, p
<1>15. CASE t.proc \in DOMAIN procs /\ PushFrame(base, t.proc, t.spelling, "full", p)
  <2>1. ~HeldIn(base, t.proc)
    <3>1. Apart(frames, Top)
      BY <1>1, <1>2, <1>9, Below
    <3> QED BY <1>2, <1>3, <1>8, <1>12, <3>1 DEF HeldIn, Apart, t
  <2>2. t.proc \in Procs /\ t.proc \in DOMAIN p
    BY <1>4, <1>15 DEF IInv, ProcsOK
  <2>3. "full" \in Engines
    BY DEF Engines
  <2>4. Safe(frames', p, last, None)
    BY <1>3, <1>12, <1>13, <1>15, <2>1, <2>2, <2>3, CallSafe
  <2> QED BY <1>1, <2>4 DEF SInv, p
<1>16. CASE frames' = [frames EXCEPT ![Len(frames)] = e]
  <2>1. e \in Frame /\ e.statics = None /\ e.phase = "eval" /\ e.kept = kept
    BY <1>7 DEF Frame, Phases
  <2> HIDE DEF e
  <2>2. ~Holds(e)
    BY <2>1 DEF Holds
  <2>3. Keeps(e, p, last)
    BY <1>6, <2>1, <2>2 DEF Keeps
  <2>4. Apart(frames, e) /\ Covered(frames, e, p, last) /\ Becomes(frames, e, frames')
    BY <1>4, <1>6, <1>16, <2>1, <2>2 DEF Apart, Covered, Becomes
  <2>5. Safe(frames', p, last, None)
    BY <1>1, <1>2, <1>4, <1>9, <2>1, <2>3, <2>4, TopKeeps
  <2> QED BY <1>1, <2>5 DEF SInv, p
<1> QED BY <1>5, <1>14, <1>15, <1>16

LEMMA TailDirectSafe ==
  ASSUME IInv, Careful, SInv, TailDirect
  PROVE  SInv'
<1>1. /\ frames # <<>> /\ redo = None /\ UNCHANGED <<procs, last>> /\ Top.phase = "tail"
      /\ Top.engine = "direct" /\ frames' = Front(frames) /\ redo' = Top.kept.tail
  BY DEF TailDirect, At, Calm, Phase, PopFrame
<1>2. /\ frames \in Seq(Frame) /\ Top = frames[Len(frames)]
      /\ Keeps(Top, procs, last) /\ DefsOK(procs, last)
  BY <1>1, TopSafe
<1>3. /\ ~Holds(Top) /\ redo' # None /\ redo'.spelling # "absolute"
  BY <1>1, <1>2 DEF Keeps
<1>4. Safe(frames, procs, last, None)
  BY <1>1 DEF SInv
<1>5. Apart(frames, Top)
  BY <1>1, <1>2, <1>4, Below
<1>6. /\ frames' \in Seq(Frame) /\ Len(frames') = Len(frames) - 1
      /\ \A i \in 1 .. Len(frames) - 1 : frames'[i] = frames[i]
  BY <1>1, <1>2, FrontSeq
<1>7. ~HeldIn(frames', redo'.proc)
  <2>1. /\ DOMAIN frames' = 1 .. Len(frames) - 1 /\ DOMAIN frames = 1 .. Len(frames)
        /\ Len(frames) \in Nat
    BY <1>2, <1>6
  <2>2. \A i \in DOMAIN frames' : i \in DOMAIN frames /\ i < Len(frames) /\ frames'[i] = frames[i]
    BY <1>6, <2>1
  <2> QED BY <1>1, <1>3, <1>5, <2>2 DEF HeldIn, Apart
<1>8. Safe(frames', procs, last, redo')
  BY <1>1, <1>2, <1>3, <1>4, <1>7, PopKeeps
<1> QED BY <1>1, <1>8 DEF SInv

LEMMA ExitSafe ==
  ASSUME IInv, Careful, SInv, Exit
  PROVE  SInv'
<1>1. /\ frames # <<>> /\ redo = None /\ UNCHANGED <<last, redo>> /\ Top.phase = "exit"
      /\ frames' = Front(frames)
      /\ procs' = [k \in DOMAIN procs \ Doomed(Top) |-> procs[k]]
  BY DEF Exit, At, Calm, Phase, PopFrame
<1>2. /\ frames \in Seq(Frame) /\ Top = frames[Len(frames)] /\ Top \in Frame /\ Top.kept \in Kept
      /\ Keeps(Top, procs, last) /\ DefsOK(procs, last)
  BY <1>1, TopSafe
<1>3. Doomed(Top) \cap StaticProcs = {}
  BY <1>2, ProcCallAssumption DEF Doomed, Frame, Kept
<1>4. DefsOK(procs', last) /\ \A k \in StaticProcs : procs'[k] = procs[k]
  BY <1>1, <1>2, <1>3 DEF DefsOK
<1>5. Holds(Top) => procs[Top.proc] = last[Top.proc]
  BY <1>1, <1>2 DEF Keeps
<1>6. Safe(frames, procs, last, None)
  BY <1>1 DEF SInv
<1>7. Safe(frames', procs', last, None)
  BY <1>1, <1>2, <1>4, <1>5, <1>6, PopKeeps
<1> QED BY <1>1, <1>7 DEF SInv

LEMMA InitSafe ==
  ASSUME Init
  PROVE  SInv
<1>1. /\ procs = [k \in Procs \ LocalProcs |-> IF k \in StaticProcs THEN Initial ELSE None]
      /\ last = [k \in StaticProcs |-> Initial] /\ frames = <<>> /\ redo = None
  BY DEF Init
<1>2. DefsOK(procs, last) /\ \A k \in StaticProcs : procs[k] = last[k]
  BY <1>1, ProcCallAssumption DEF DefsOK
<1>3. DOMAIN frames = {}
  BY <1>1
<1> QED BY <1>1, <1>2, <1>3 DEF SInv, Safe, Alone, Armed

LEMMA ModeStays ==
  ASSUME [Next]_vars
  PROVE  mode' = mode
BY DEF Next, vars, Enter, Tailcall, ArityError, DefineLocal, Redefine, Assign, Defer, BodyEnds,
       TailToProc, TailToEval, TailDirect, Redispatch, EvalEnds, WriteBack, RunDeferred, ScriptEnds,
       Exit, Escape

LEMMA NextSafe ==
  ASSUME IInv, Careful, SInv, [Next]_vars
  PROVE  SInv'
<1>1. CASE UNCHANGED vars
  BY <1>1 DEF vars, SInv
<1>2. CASE Next
  <2>1. ASSUME NEW k \in Procs \cup {Builtin}, NEW spelling \in {"own", "simple", "absolute"},
               NEW engine \in {"full", "direct"}, Enter(k, spelling, engine)
        PROVE  SInv'
    BY <2>1, EnterSafe DEF Engines
  <2>2. ASSUME NEW k \in Procs \cup {Builtin}, NEW spelling \in {"own", "simple", "absolute"},
               Tailcall(k, spelling)
        PROVE  SInv'
    BY <2>2, TailcallSafe
  <2>3. ASSUME NEW k \in Procs, ArityError(k)
        PROVE  SInv'
    BY <2>3 DEF ArityError, SInv
  <2>4. ASSUME NEW k \in Procs, DefineLocal(k)
        PROVE  SInv'
    BY <2>4, DefineLocalSafe
  <2>5. ASSUME NEW k \in Procs, Redefine(k)
        PROVE  SInv'
    BY <2>5 DEF Redefine, Careful, Without
  <2>6. ASSUME NEW v \in Vals, Assign(v)
        PROVE  SInv'
    BY <2>6, AssignSafe
  <2>7. ASSUME NEW s \in Scripts, Defer(s)
        PROVE  SInv'
    BY <2>7, DeferSafe
  <2>8. ~Escape
    BY DEF Escape, IInv, Careful, Without
  <2> QED BY <1>2, <2>1, <2>2, <2>3, <2>4, <2>5, <2>6, <2>7, <2>8, BodyEndsSafe,
             TailToProcSafe, TailToEvalSafe, TailDirectSafe, RedispatchSafe, EvalEndsSafe,
             WriteBackSafe, RunDeferredSafe, ScriptEndsSafe, ExitSafe DEF Next
<1> QED BY <1>1, <1>2

(* When no call of a proc is in progress its definition holds the value a  *)
(* script gave its static last, in every mode the property speaks of:      *)
(* whatever calls, tail calls, deferred scripts and exits came before,     *)
(* through both copies of the call machinery.                              *)
THEOREM StaticsSurvive == Spec => []StaticsPersist
<1>1. Init => (Careful => SInv)
  BY InitSafe
<1>2. IInv /\ (Careful => SInv) /\ [Next]_vars => (Careful => SInv)'
  <2>1. ASSUME IInv, Careful => SInv, [Next]_vars, Careful'
        PROVE  SInv'
    <3>1. mode' = mode
      BY <2>1, ModeStays
    <3>2. Careful
      BY <2>1, <3>1 DEF Careful, Without
    <3> QED BY <2>1, <3>2, NextSafe
  <2> QED BY <2>1
<1>3. (Careful => SInv) => StaticsPersist
  <2>1. ASSUME SInv
        PROVE  StaticsKept
    BY <2>1 DEF SInv, Safe, StaticsKept, HeldIn, Keeping, Holds
  <2> QED BY <2>1 DEF StaticsPersist, Careful
<1> QED BY <1>1, <1>2, <1>3, Invariant, PTL DEF Spec

-----------------------------------------------------------------------------
(* Deferred scripts *)

(* The modes whose frames run what was deferred in them: no script defers  *)
(* more while they run, and none makes a tail call from the direct copy.   *)
Deferring(m) == "defer" \in m.habits => /\ "nested" \notin m.habits
                                        /\ "tail" \in m.habits => m.engines = {"full"}

(* What a frame has left to run is in one place: in the frame until it is  *)
(* written back, then in the queue.                                        *)
OnePlace(m, f) ==
  /\ "defer" \notin m.habits => f.queue = <<>> /\ f.kept.deferred = <<>>
  /\ f.phase \in {"body", "tail", "eval", "done"} => f.queue = <<>>
  /\ f.phase \in {"exit", "script"} => f.kept.deferred = <<>>

QInv == \A i \in DOMAIN frames : OnePlace(mode, frames[i])

ActOf(f)   == [todo |-> f.queue \o f.kept.deferred, stage |-> Stage(f)]
ActsOf(fs) == [i \in DOMAIN fs |-> ActOf(fs[i])]
Acts       == ActsOf(frames)
Act        == [todo : Seq(Scripts), stage : {"running", "leaving"}]

LEMMA NoneQueued ==
  ASSUME NEW s \in Seq(Scripts)
  PROVE  <<>> \o s = s /\ s \o <<>> = s
BY ConcatEmptySeq

LEMMA ActIs ==
  ASSUME NEW f \in Frame
  PROVE  ActOf(f) \in Act
<1>1. f.queue \o f.kept.deferred \in Seq(Scripts)
  BY DEF Frame, Kept
<1>2. Stage(f) \in {"running", "leaving"}
  BY DEF Stage
<1> QED BY <1>1, <1>2 DEF ActOf, Act

LEMMA ActsAre ==
  ASSUME NEW fs \in Seq(Frame)
  PROVE  /\ ActsOf(fs) \in Seq(Act) /\ Len(ActsOf(fs)) = Len(fs) /\ DOMAIN ActsOf(fs) = 1 .. Len(fs)
         /\ \A i \in 1 .. Len(fs) : ActsOf(fs)[i] = ActOf(fs[i])
<1> DEFINE A == ActsOf(fs)
<1>1. Len(fs) \in Nat /\ DOMAIN fs = 1 .. Len(fs) /\ \A i \in 1 .. Len(fs) : fs[i] \in Frame
  OBVIOUS
<1>2. DOMAIN A = 1 .. Len(fs) /\ \A i \in 1 .. Len(fs) : A[i] = ActOf(fs[i])
  BY <1>1 DEF ActsOf
<1>3. A = [i \in 1 .. Len(fs) |-> A[i]] /\ \A i \in 1 .. Len(fs) : A[i] \in Act
  BY <1>1, <1>2, ActIs DEF ActsOf
<1> HIDE DEF A
<1>4. A \in Seq(Act) /\ Len(A) = Len(fs)
  BY <1>1, <1>3
<1> QED BY <1>2, <1>4 DEF A

(* The frames' activations follow the three ways the stack changes.        *)
LEMMA ActsSet ==
  ASSUME NEW fs \in Seq(Frame), fs # <<>>, NEW f \in Frame, NEW gs, Becomes(fs, f, gs)
  PROVE  ActsOf(gs) = [ActsOf(fs) EXCEPT ![Len(ActsOf(fs))] = ActOf(f)]
<1>1. Len(fs) \in Nat /\ DOMAIN fs = 1 .. Len(fs)
  OBVIOUS
<1>2. DOMAIN gs = 1 .. Len(fs) /\ \A i \in 1 .. Len(fs) : gs[i] = IF i = Len(fs) THEN f ELSE fs[i]
  BY <1>1 DEF Becomes
<1>3. /\ Len(ActsOf(fs)) = Len(fs) /\ DOMAIN ActsOf(fs) = 1 .. Len(fs)
      /\ \A i \in 1 .. Len(fs) : ActsOf(fs)[i] = ActOf(fs[i])
  BY ActsAre
<1>4. DOMAIN ActsOf(gs) = 1 .. Len(fs) /\ \A i \in 1 .. Len(fs) : ActsOf(gs)[i] = ActOf(gs[i])
  BY <1>2 DEF ActsOf
<1>5. ActsOf(gs) = [i \in 1 .. Len(fs) |-> ActsOf(gs)[i]]
  BY <1>4 DEF ActsOf
<1> HIDE DEF ActOf
<1>6. \A i \in 1 .. Len(fs) :
        ActsOf(gs)[i] = [ActsOf(fs) EXCEPT ![Len(ActsOf(fs))] = ActOf(f)][i]
  BY <1>2, <1>3, <1>4
<1> QED BY <1>3, <1>4, <1>5, <1>6

LEMMA ActsPush ==
  ASSUME NEW fs \in Seq(Frame), NEW f \in Frame
  PROVE  ActsOf(Append(fs, f)) = Append(ActsOf(fs), ActOf(f))
<1> DEFINE gs == Append(fs, f)
<1>1. /\ gs \in Seq(Frame) /\ Len(gs) = Len(fs) + 1 /\ gs[Len(fs) + 1] = f
      /\ Len(fs) \in Nat /\ \A i \in 1 .. Len(fs) : gs[i] = fs[i]
  OBVIOUS
<1> HIDE DEF gs
<1>2. /\ ActsOf(fs) \in Seq(Act) /\ Len(ActsOf(fs)) = Len(fs)
      /\ \A i \in 1 .. Len(fs) : ActsOf(fs)[i] = ActOf(fs[i])
  BY ActsAre
<1>3. /\ ActsOf(gs) \in Seq(Act) /\ Len(ActsOf(gs)) = Len(fs) + 1
      /\ \A i \in 1 .. Len(fs) + 1 : ActsOf(gs)[i] = ActOf(gs[i])
  BY <1>1, ActsAre
<1> DEFINE B == Append(ActsOf(fs), ActOf(f))
<1>4. /\ B \in Seq(Act) /\ Len(B) = Len(fs) + 1 /\ B[Len(fs) + 1] = ActOf(f)
      /\ \A i \in 1 .. Len(fs) : B[i] = ActsOf(fs)[i]
  BY <1>2, ActIs
<1> HIDE DEF B
<1>5. \A i \in 1 .. Len(fs) + 1 : ActsOf(gs)[i] = B[i]
  BY <1>1, <1>2, <1>3, <1>4
<1>6. ActsOf(gs) = B
  BY <1>3, <1>4, <1>5, SeqEqual
<1> QED BY <1>6 DEF B, gs

LEMMA ActsPop ==
  ASSUME NEW fs \in Seq(Frame), fs # <<>>
  PROVE  ActsOf(Front(fs)) = Front(ActsOf(fs)) /\ ActsOf(fs) # <<>>
<1> DEFINE gs == Front(fs)
<1>1. /\ gs \in Seq(Frame) /\ Len(gs) = Len(fs) - 1 /\ Len(fs) \in Nat \ {0}
      /\ \A i \in 1 .. Len(fs) - 1 : gs[i] = fs[i]
  BY FrontSeq
<1> HIDE DEF gs
<1>2. /\ ActsOf(fs) \in Seq(Act) /\ Len(ActsOf(fs)) = Len(fs)
      /\ \A i \in 1 .. Len(fs) : ActsOf(fs)[i] = ActOf(fs[i])
  BY ActsAre
<1>3. /\ ActsOf(gs) \in Seq(Act) /\ Len(ActsOf(gs)) = Len(fs) - 1
      /\ \A i \in 1 .. Len(fs) - 1 : ActsOf(gs)[i] = ActOf(gs[i])
  BY <1>1, ActsAre
<1>4. ActsOf(fs) # <<>>
  BY <1>1, <1>2
<1>5. /\ Front(ActsOf(fs)) \in Seq(Act) /\ Len(Front(ActsOf(fs))) = Len(fs) - 1
      /\ \A i \in 1 .. Len(fs) - 1 : Front(ActsOf(fs))[i] = ActsOf(fs)[i]
  BY <1>2, <1>4, FrontSeq
<1>6. \A i \in 1 .. Len(fs) - 1 : ActsOf(gs)[i] = Front(ActsOf(fs))[i]
  <2> SUFFICES ASSUME NEW i \in 1 .. Len(fs) - 1
               PROVE  ActsOf(gs)[i] = Front(ActsOf(fs))[i]
    OBVIOUS
  <2>1. i \in 1 .. Len(fs)
    BY <1>1
  <2> QED BY <1>1, <1>2, <1>3, <1>5, <2>1
<1>7. ActsOf(gs) = Front(ActsOf(fs))
  BY <1>3, <1>5, <1>6, SeqEqual
<1> QED BY <1>4, <1>7 DEF gs

(* Steps of Deferral, said of the frames' activations.                     *)
LEMMA BeginStep ==
  ASSUME Acts' = Append(Acts, [todo |-> <<>>, stage |-> "running"])
  PROVE  Promise!Next
BY DEF Acts, ActsOf, ActOf, Promise!Next, Promise!Begin

LEMMA DeferStep ==
  ASSUME Acts # <<>>, NEW s \in Scripts,
         Acts' = [Acts EXCEPT ![Len(Acts)] =
                    [Acts[Len(Acts)] EXCEPT !.todo = Append(Acts[Len(Acts)].todo, s)]]
  PROVE  Promise!Next
BY DEF Acts, ActsOf, ActOf, Promise!Next, Promise!Defer, Promise!Alter, Promise!Top

LEMMA LeaveStep ==
  ASSUME Acts # <<>>, Acts[Len(Acts)].stage = "running",
         Acts' = [Acts EXCEPT ![Len(Acts)] = [Acts[Len(Acts)] EXCEPT !.stage = "leaving"]]
  PROVE  Promise!Next
BY DEF Acts, ActsOf, ActOf, Promise!Next, Promise!Leave, Promise!Alter, Promise!Top

LEMMA RunLastStep ==
  ASSUME Acts # <<>>, Acts[Len(Acts)].stage = "leaving", Acts[Len(Acts)].todo # <<>>,
         Acts' = [Acts EXCEPT ![Len(Acts)] =
                    [Acts[Len(Acts)] EXCEPT !.todo = Front(Acts[Len(Acts)].todo)]]
  PROVE  Promise!Next
BY DEF Acts, ActsOf, ActOf, Promise!Next, Promise!RunLast, Promise!Alter, Promise!Top,
       Promise!Front, Front

LEMMA EndStep ==
  ASSUME Acts # <<>>, Acts[Len(Acts)].stage = "leaving", Acts[Len(Acts)].todo = <<>>,
         Acts' = Front(Acts)
  PROVE  Promise!Next
BY DEF Acts, ActsOf, ActOf, Promise!Next, Promise!End, Promise!Top, Promise!Front, Front

KeepsPromise == QInv' /\ (Promise!Next \/ Acts' = Acts)

LEMMA TopTyped ==
  ASSUME IInv, IInv', frames # <<>>, NEW f, SetTop(f)
  PROVE  /\ f \in Frame /\ frames \in Seq(Frame) /\ Becomes(frames, f, frames')
         /\ Len(frames) \in DOMAIN frames /\ Top = frames[Len(frames)]
         /\ Top \in Frame /\ Top.kept \in Kept
<1>1. /\ frames \in Seq(Frame) /\ frames' \in Seq(Frame)
      /\ Len(frames) \in DOMAIN frames /\ Top = frames[Len(frames)] /\ Top \in Frame
  BY TopIs DEF IInv, Stacked, FramesOK
<1>2. /\ frames' = [frames EXCEPT ![Len(frames)] = f]
      /\ Len(frames) \in DOMAIN frames' /\ frames'[Len(frames)] = f
  BY <1>1 DEF SetTop
<1>3. f \in Frame
  BY <1>1, <1>2
<1> QED BY <1>1, <1>2, <1>3 DEF Becomes, Frame

(* What becomes of the activations when the innermost frame becomes f.     *)
LEMMA ActsTop ==
  ASSUME IInv, IInv', QInv, mode' = mode, frames # <<>>, NEW f, SetTop(f), OnePlace(mode, f)
  PROVE  /\ QInv' /\ Acts # <<>> /\ Acts[Len(Acts)] = ActOf(Top)
         /\ Acts' = [Acts EXCEPT ![Len(Acts)] = ActOf(f)]
         /\ ActOf(f) = ActOf(Top) => Acts' = Acts
<1>1. /\ f \in Frame /\ frames \in Seq(Frame) /\ Becomes(frames, f, frames')
      /\ Len(frames) \in DOMAIN frames /\ Top = frames[Len(frames)]
  BY TopTyped
<1>2. /\ Acts \in Seq(Act) /\ Len(Acts) = Len(frames) /\ DOMAIN Acts = 1 .. Len(frames)
      /\ Len(frames) \in 1 .. Len(frames) /\ Acts[Len(frames)] = ActOf(Top)
  <2>1. Len(frames) \in 1 .. Len(frames)
    BY <1>1
  <2> QED BY <1>1, <2>1, ActsAre DEF Acts
<1>3. Acts' = [Acts EXCEPT ![Len(Acts)] = ActOf(f)]
  BY <1>1, ActsSet DEF Acts
<1>4. ActOf(f) = ActOf(Top) => Acts' = Acts
  BY <1>2, <1>3
<1>5. QInv'
  BY <1>1 DEF QInv, Becomes
<1> QED BY <1>2, <1>3, <1>4, <1>5

(* A step that moves none of what the frame has to run.                    *)
LEMMA SameAct ==
  ASSUME IInv, IInv', QInv, mode' = mode, frames # <<>>, NEW f, SetTop(f),
         f.queue = Top.queue, f.kept.deferred = Top.kept.deferred, f.engine = Top.engine,
         Stage(f) = Stage(Top),
         f.phase \in {"body", "tail", "eval", "done"}
           => Top.phase \in {"body", "tail", "eval", "done"},
         f.phase \in {"exit", "script"} => Top.phase \in {"exit", "script"}
  PROVE  KeepsPromise
<1>1. OnePlace(mode, Top)
  BY TopTyped DEF QInv
<1>2. OnePlace(mode, f)
  BY <1>1 DEF OnePlace
<1>3. ActOf(f) = ActOf(Top)
  BY DEF ActOf
<1> QED BY <1>2, <1>3, ActsTop DEF KeepsPromise

LEMMA SamePhase ==
  ASSUME IInv, IInv', QInv, mode' = mode, frames # <<>>, NEW f, SetTop(f),
         f.queue = Top.queue, f.kept.deferred = Top.kept.deferred, f.engine = Top.engine,
         f.phase = Top.phase
  PROVE  KeepsPromise
BY SameAct DEF Stage

LEMMA AssignRuns ==
  ASSUME IInv, IInv', QInv, NEW v \in Vals, Assign(v)
  PROVE  KeepsPromise
<1> DEFINE f == [Top EXCEPT !.kept.var = v]
<1>1. frames # <<>> /\ SetTop(f) /\ mode' = mode
  BY DEF Assign
<1>2. Top \in Frame /\ Top.kept \in Kept
  BY <1>1, TopTyped
<1>3. f.queue = Top.queue /\ f.kept.deferred = Top.kept.deferred /\ f.engine = Top.engine
      /\ f.phase = Top.phase
  BY <1>2 DEF Frame, Kept
<1> QED BY <1>1, <1>3, SamePhase

LEMMA DefineLocalRuns ==
  ASSUME IInv, IInv', QInv, NEW k \in Procs, DefineLocal(k)
  PROVE  KeepsPromise
<1> DEFINE f == [Top EXCEPT !.kept.local = @ \cup {k}]
<1>1. frames # <<>> /\ SetTop(f) /\ mode' = mode
  BY DEF DefineLocal
<1>2. Top \in Frame /\ Top.kept \in Kept
  BY <1>1, TopTyped
<1>3. f.queue = Top.queue /\ f.kept.deferred = Top.kept.deferred /\ f.engine = Top.engine
      /\ f.phase = Top.phase
  BY <1>2 DEF Frame, Kept
<1> QED BY <1>1, <1>3, SamePhase

LEMMA BodyEndsRuns ==
  ASSUME IInv, IInv', QInv, BodyEnds
  PROVE  KeepsPromise
<1> DEFINE phase == IF Top.engine = "full" /\ Top.kept.tail # None THEN "tail" ELSE "done"
           f == [Top EXCEPT !.phase = phase]
<1>1. frames # <<>> /\ SetTop(f) /\ mode' = mode /\ Top.phase = "body"
  BY DEF BodyEnds, At, Phase
<1>2. Top \in Frame
  BY <1>1, TopTyped
<1>3. f.queue = Top.queue /\ f.kept = Top.kept /\ f.engine = Top.engine /\ f.phase = phase
  BY <1>2 DEF Frame
<1>4. Stage(f) = "running" /\ Stage(Top) = "running"
  BY <1>1, <1>3 DEF Stage
<1>5. phase \in {"tail", "done"}
  OBVIOUS
<1> HIDE DEF f, phase
<1> QED BY <1>1, <1>3, <1>4, <1>5, SameAct

LEMMA ScriptEndsRuns ==
  ASSUME IInv, IInv', QInv, ScriptEnds
  PROVE  KeepsPromise
<1> DEFINE f == [Top EXCEPT !.phase = "exit"]
<1>1. frames # <<>> /\ SetTop(f) /\ mode' = mode /\ Top.phase = "script"
  BY DEF ScriptEnds, At, Phase
<1>2. Top \in Frame
  BY <1>1, TopTyped
<1>3. f.queue = Top.queue /\ f.kept = Top.kept /\ f.engine = Top.engine /\ f.phase = "exit"
  BY <1>2 DEF Frame
<1>4. Stage(f) = "leaving" /\ Stage(Top) = "leaving"
  BY <1>1, <1>3 DEF Stage
<1> HIDE DEF f
<1> QED BY <1>1, <1>3, <1>4, SameAct

LEMMA EvalEndsRuns ==
  ASSUME IInv, IInv', QInv, EvalEnds
  PROVE  KeepsPromise
<1> DEFINE f == [Top EXCEPT !.phase = "done"]
<1>1. frames # <<>> /\ SetTop(f) /\ mode' = mode /\ Top.phase = "eval"
  BY DEF EvalEnds, At, Phase
<1>2. Top \in Frame
  BY <1>1, TopTyped
<1>3. f.queue = Top.queue /\ f.kept = Top.kept /\ f.engine = Top.engine /\ f.phase = "done"
  BY <1>2 DEF Frame
<1>4. Stage(f) = "running" /\ Stage(Top) = "running"
  BY <1>1, <1>3 DEF Stage
<1> HIDE DEF f
<1> QED BY <1>1, <1>3, <1>4, SameAct

LEMMA RedefineRuns ==
  ASSUME IInv, IInv', QInv, NEW k \in Procs, Redefine(k)
  PROVE  KeepsPromise
<1>1. /\ mode' = mode
      /\ frames' = [i \in DOMAIN frames |->
                      IF frames[i].proc = k THEN [frames[i] EXCEPT !.stale = TRUE] ELSE frames[i]]
  BY DEF Redefine
<1>2. frames \in Seq(Frame)
  BY DEF IInv, Stacked, FramesOK
<1>3. ASSUME NEW i \in DOMAIN frames
      PROVE  /\ frames'[i].queue = frames[i].queue /\ frames'[i].kept = frames[i].kept
             /\ frames'[i].phase = frames[i].phase /\ frames'[i].engine = frames[i].engine
  <2>1. frames[i] \in Frame
    BY <1>2
  <2> QED BY <1>1, <2>1 DEF Frame
<1>4. DOMAIN frames' = DOMAIN frames
  BY <1>1
<1>5. QInv'
  BY <1>1, <1>3, <1>4 DEF QInv, OnePlace
<1>6. \A i \in DOMAIN frames : ActOf(frames'[i]) = ActOf(frames[i])
  BY <1>3 DEF ActOf, Stage
<1>7. Acts' = Acts
  BY <1>4, <1>6 DEF Acts, ActsOf
<1> QED BY <1>5, <1>7 DEF KeepsPromise

(* Leaving: the direct copy's tail calls, and the write-back.              *)
LEMMA LeaveRuns ==
  ASSUME IInv, IInv', QInv, mode' = mode, frames # <<>>, NEW f, SetTop(f), OnePlace(mode, f),
         Stage(Top) = "running", Stage(f) = "leaving",
         f.queue \o f.kept.deferred = Top.queue \o Top.kept.deferred
  PROVE  KeepsPromise
<1>1. ActOf(f) = [ActOf(Top) EXCEPT !.stage = "leaving"] /\ ActOf(Top).stage = "running"
  <2>1. /\ ActOf(f).todo = ActOf(Top).todo /\ ActOf(f).stage = "leaving"
        /\ ActOf(Top).stage = "running"
    BY DEF ActOf
  <2> QED BY <2>1 DEF ActOf
<1>2. /\ QInv' /\ Acts # <<>> /\ Acts[Len(Acts)] = ActOf(Top)
      /\ Acts' = [Acts EXCEPT ![Len(Acts)] = ActOf(f)]
  BY ActsTop
<1>3. Promise!Next
  BY <1>1, <1>2, LeaveStep
<1> QED BY <1>2, <1>3 DEF KeepsPromise

(* The innermost frame's script is ended, or goes on.                       *)
LEMMA EndedRuns ==
  ASSUME IInv, IInv', QInv, mode' = mode, frames # <<>>, NEW f, SetTop(f),
         f.queue = Top.queue, f.kept.deferred = Top.kept.deferred, f.engine = Top.engine,
         Top.phase \in {"body", "eval", "done", "script"},
         f.phase \in {Top.phase, Ended(Top.phase)}
  PROVE  KeepsPromise
<1>1. OnePlace(mode, Top)
  BY TopTyped DEF QInv
<1>2. /\ f.phase \in {"body", "tail", "eval", "done"}
           => Top.phase \in {"body", "tail", "eval", "done"}
      /\ f.phase \in {"exit", "script"} => Top.phase \in {"exit", "script"}
  BY DEF Ended
<1>3. CASE Top.phase = "body" /\ f.phase = "tail" /\ f.engine = "direct"
  <2>1. Stage(f) = "leaving" /\ Stage(Top) = "running"
    BY <1>3 DEF Stage
  <2>2. OnePlace(mode, f)
    BY <1>1, <1>2 DEF OnePlace
  <2>3. f.queue \o f.kept.deferred = Top.queue \o Top.kept.deferred
    OBVIOUS
  <2> QED BY <2>1, <2>2, <2>3, LeaveRuns
<1>4. CASE ~(Top.phase = "body" /\ f.phase = "tail" /\ f.engine = "direct")
  <2>1. Stage(f) = Stage(Top)
    BY <1>4 DEF Stage, Ended
  <2> QED BY <1>2, <2>1, SameAct
<1> QED BY <1>3, <1>4

LEMMA TailcallRuns ==
  ASSUME IInv, IInv', QInv, NEW k \in Procs \cup {Builtin},
         NEW spelling \in {"own", "simple", "absolute"}, Tailcall(k, spelling)
  PROVE  KeepsPromise
<1> DEFINE t == [proc |-> k, spelling |-> spelling]
<1>1. frames # <<>> /\ mode' = mode /\ Top.phase \in {"body", "eval", "script"}
  BY ScriptPhase DEF Tailcall
<1>2. PICK caught \in BOOLEAN : SetTop(TailedFrame(Top, t, caught))
  BY TailcallIs
<1> DEFINE g == TailedFrame(Top, t, caught)
<1>3. Top \in Frame /\ Top.kept \in Kept
  BY <1>1, <1>2, TopTyped
<1> HIDE DEF t
<1>4. /\ g.queue = Top.queue /\ g.kept.deferred = Top.kept.deferred /\ g.engine = Top.engine
      /\ g.phase \in {Top.phase, Ended(Top.phase)}
  BY <1>3 DEF Frame, Kept, TailedFrame
<1>5. SetTop(g)
  BY <1>2
<1> HIDE DEF g
<1> QED BY <1>1, <1>4, <1>5, EndedRuns

LEMMA EscapeRuns ==
  ASSUME IInv, IInv', QInv, Escape
  PROVE  KeepsPromise
<1>1. mode' = mode
  BY DEF Escape
<1>2. CASE UNCHANGED frames
  BY <1>1, <1>2 DEF QInv, Acts, KeepsPromise
<1>3. CASE /\ frames # <<>> /\ Top.phase \in {"body", "eval", "done", "script"}
           /\ SetTop(MetFrame(Top))
  <2> DEFINE g == MetFrame(Top)
  <2>1. Top \in Frame /\ Top.kept \in Kept
    BY <1>3, TopTyped
  <2>2. /\ g.queue = Top.queue /\ g.kept.deferred = Top.kept.deferred /\ g.engine = Top.engine
        /\ g.phase \in {Top.phase, Ended(Top.phase)}
    BY <2>1 DEF Frame, Kept, MetFrame
  <2>3. SetTop(g)
    BY <1>3
  <2> HIDE DEF g
  <2> QED BY <1>1, <1>3, <2>2, <2>3, EndedRuns
<1> QED BY <1>2, <1>3, EscapeIs

LEMMA WriteBackRuns ==
  ASSUME IInv, IInv', QInv, WriteBack
  PROVE  KeepsPromise
<1> DEFINE f == [Top EXCEPT !.phase = "exit", !.queue = Queue(Top),
                            !.doomed = Top.kept.local, !.kept.deferred = <<>>]
<1>1. frames # <<>> /\ mode' = mode /\ Top.phase = "done" /\ SetTop(f)
  BY DEF WriteBack, At, Phase
<1>2. Top \in Frame /\ Top.kept \in Kept /\ OnePlace(mode, Top)
  BY <1>1, TopTyped DEF QInv
<1>3. f.queue = Top.kept.deferred /\ f.kept.deferred = <<>> /\ f.phase = "exit"
  BY <1>2 DEF Frame, Kept, Queue
<1>4. Top.queue = <<>> /\ Top.kept.deferred \in Seq(Scripts)
  BY <1>1, <1>2 DEF OnePlace, Kept
<1> HIDE DEF f
<1>5. Stage(Top) = "running" /\ Stage(f) = "leaving"
  BY <1>1, <1>3 DEF Stage
<1>6. f.queue \o f.kept.deferred = Top.queue \o Top.kept.deferred
  BY <1>3, <1>4, NoneQueued
<1>7. OnePlace(mode, f)
  BY <1>2, <1>3 DEF OnePlace
<1> QED BY <1>1, <1>5, <1>6, <1>7, LeaveRuns

LEMMA DeferRuns ==
  ASSUME IInv, IInv', QInv, Deferring(mode), NEW s \in Scripts, Defer(s)
  PROVE  KeepsPromise
<1> DEFINE f == [Top EXCEPT !.kept.deferred = Append(@, s)]
<1>1. /\ frames # <<>> /\ mode' = mode /\ SetTop(f) /\ "defer" \in mode.habits
      /\ Top.phase = "script" => "nested" \in mode.habits
  BY DEF Defer
<1>2. Top.phase \in {"body", "eval"}
  BY <1>1, ScriptPhase DEF Deferring, Defer
<1>3. Top \in Frame /\ Top.kept \in Kept /\ OnePlace(mode, Top)
  BY <1>1, TopTyped DEF QInv
<1>4. /\ f.queue = Top.queue /\ f.kept.deferred = Append(Top.kept.deferred, s)
      /\ f.phase = Top.phase
  BY <1>3 DEF Frame, Kept
<1>5. Top.queue = <<>> /\ Top.kept.deferred \in Seq(Scripts)
  BY <1>2, <1>3 DEF OnePlace, Kept
<1> HIDE DEF f
<1>6. Append(Top.kept.deferred, s) \in Seq(Scripts)
  BY <1>5
<1>7. Stage(Top) = "running" /\ Stage(f) = "running"
  BY <1>2, <1>4 DEF Stage
<1>8. ActOf(f) = [ActOf(Top) EXCEPT !.todo = Append(ActOf(Top).todo, s)]
  <2>1. /\ Top.queue \o Top.kept.deferred = Top.kept.deferred
        /\ f.queue \o f.kept.deferred = Append(Top.kept.deferred, s)
    BY <1>4, <1>5, <1>6, NoneQueued
  <2>2. ActOf(f).todo = Append(ActOf(Top).todo, s) /\ ActOf(f).stage = ActOf(Top).stage
    BY <1>7, <2>1 DEF ActOf
  <2> QED BY <2>2 DEF ActOf
<1>9. OnePlace(mode, f)
  BY <1>1, <1>2, <1>4, <1>5 DEF OnePlace
<1>10. /\ QInv' /\ Acts # <<>> /\ Acts[Len(Acts)] = ActOf(Top)
       /\ Acts' = [Acts EXCEPT ![Len(Acts)] = ActOf(f)]
  BY <1>1, <1>9, ActsTop
<1>11. Promise!Next
  BY <1>8, <1>10, DeferStep
<1> QED BY <1>10, <1>11 DEF KeepsPromise

LEMMA RunDeferredRuns ==
  ASSUME IInv, IInv', QInv, RunDeferred
  PROVE  KeepsPromise
<1> DEFINE f == [Top EXCEPT !.phase = "script", !.queue = Front(@)]
<1>1. frames # <<>> /\ mode' = mode /\ Top.phase = "exit" /\ Top.queue # <<>> /\ SetTop(f)
  BY DEF RunDeferred, At, Phase
<1>2. Top \in Frame /\ Top.kept \in Kept /\ OnePlace(mode, Top)
  BY <1>1, TopTyped DEF QInv
<1>3. f.queue = Front(Top.queue) /\ f.kept = Top.kept /\ f.phase = "script"
  BY <1>2 DEF Frame
<1>4. Top.kept.deferred = <<>> /\ Top.queue \in Seq(Scripts) /\ "defer" \in mode.habits
  BY <1>1, <1>2 DEF OnePlace, Frame
<1>5. Front(Top.queue) \in Seq(Scripts)
  BY <1>1, <1>4, FrontSeq
<1> HIDE DEF f
<1>6. Stage(Top) = "leaving" /\ Stage(f) = "leaving"
  BY <1>1, <1>3 DEF Stage
<1>7. /\ ActOf(Top).todo = Top.queue /\ ActOf(Top).stage = "leaving"
      /\ ActOf(f) = [ActOf(Top) EXCEPT !.todo = Front(ActOf(Top).todo)]
  <2>1. /\ Top.queue \o Top.kept.deferred = Top.queue
        /\ f.queue \o f.kept.deferred = Front(Top.queue)
    BY <1>3, <1>4, <1>5, NoneQueued
  <2>2. /\ ActOf(f).todo = Front(ActOf(Top).todo) /\ ActOf(f).stage = ActOf(Top).stage
        /\ ActOf(Top).todo = Top.queue /\ ActOf(Top).stage = "leaving"
    BY <1>6, <2>1 DEF ActOf
  <2> QED BY <2>2 DEF ActOf
<1>8. OnePlace(mode, f)
  BY <1>3, <1>4 DEF OnePlace
<1>9. /\ QInv' /\ Acts # <<>> /\ Acts[Len(Acts)] = ActOf(Top)
      /\ Acts' = [Acts EXCEPT ![Len(Acts)] = ActOf(f)]
  BY <1>1, <1>8, ActsTop
<1>10. Promise!Next
  BY <1>1, <1>7, <1>9, RunLastStep
<1> QED BY <1>9, <1>10 DEF KeepsPromise

(* A call pushes an activation, on frames whose own stay what they were.   *)
LEMMA CallRuns ==
  ASSUME IInv, QInv, mode' = mode, NEW base \in Seq(Frame),
         \A i \in DOMAIN base : OnePlace(mode, base[i]),
         ActsOf(base) = Acts,
         NEW k \in Procs, NEW spelling, NEW engine \in Engines,
         engine = "full" \/ spelling \in Spellings(k),
         mode.engines = {"full"} => engine = "full",
         NEW p, p[k] \in Statics,
         PushFrame(base, k, spelling, engine, p)
  PROVE  KeepsPromise
<1>1. PICK f \in Frame : PushedFrame(f, base, k, spelling, engine, p)
  BY PushedIs
<1>2. /\ frames' = Append(base, f) /\ f.phase = "body" /\ f.queue = <<>> /\ f.kept.deferred = <<>>
  BY <1>1 DEF PushedFrame
<1>3. OnePlace(mode, f)
  BY <1>2 DEF OnePlace
<1>4. QInv'
  <2>1. /\ Len(base) \in Nat /\ DOMAIN base = 1 .. Len(base) /\ DOMAIN frames' = 1 .. Len(base) + 1
        /\ frames'[Len(base) + 1] = f /\ \A i \in DOMAIN base : frames'[i] = base[i]
    BY <1>2
  <2>2. \A i \in DOMAIN frames' : i \in DOMAIN base \/ i = Len(base) + 1
    BY <2>1
  <2> QED BY <1>3, <2>1, <2>2 DEF QInv
<1>5. ActOf(f) = [todo |-> <<>>, stage |-> "running"]
  <2>1. <<>> \o <<>> = <<>>
    OBVIOUS
  <2>2. Stage(f) = "running"
    BY <1>2 DEF Stage
  <2> QED BY <1>2, <2>1, <2>2 DEF ActOf
<1>6. Acts' = Append(Acts, [todo |-> <<>>, stage |-> "running"])
  BY <1>2, <1>5, ActsPush DEF Acts
<1> QED BY <1>4, <1>6, BeginStep DEF KeepsPromise

LEMMA EnterRuns ==
  ASSUME IInv, QInv, NEW k, NEW spelling, NEW engine \in Engines,
         Enter(k, spelling, engine)
  PROVE  KeepsPromise
<1> k \in Procs
  BY DEF Enter, IInv, ProcsOK
<1>1. /\ mode' = mode /\ spelling \in Spellings(k) /\ engine \in mode.engines
      /\ k \in DOMAIN procs /\ PushFrame(frames, k, spelling, engine, procs)
  BY DEF Enter
<1>2. /\ frames \in Seq(Frame) /\ procs[k] \in Statics
      /\ \A i \in DOMAIN frames : OnePlace(mode, frames[i])
  BY <1>1 DEF IInv, Stacked, FramesOK, ProcsOK, QInv
<1>3. ActsOf(frames) = Acts
  BY DEF Acts
<1> QED BY <1>1, <1>2, <1>3, CallRuns

LEMMA RedispatchRuns ==
  ASSUME IInv, QInv, Redispatch
  PROVE  KeepsPromise
<1>1. mode' = mode
  BY DEF Redispatch
<1>2. CASE UNCHANGED frames
  BY <1>1, <1>2 DEF QInv, Acts, KeepsPromise
<1>3. CASE Reached(redo) /\ PushFrame(frames, redo.proc, redo.spelling, "full", procs)
  <2>1. /\ frames \in Seq(Frame) /\ redo.proc \in Procs /\ procs[redo.proc] \in Statics
        /\ \A i \in DOMAIN frames : OnePlace(mode, frames[i])
    BY <1>3 DEF IInv, Stacked, FramesOK, ProcsOK, QInv, Reached
  <2>2. ActsOf(frames) = Acts /\ "full" \in Engines
    BY DEF Acts, Engines
  <2> QED BY <1>1, <1>3, <2>1, <2>2, CallRuns
<1> QED BY <1>2, <1>3 DEF Redispatch

LEMMA TailToProcRuns ==
  ASSUME IInv, IInv', QInv, TailToProc
  PROVE  KeepsPromise
<1> DEFINE p == Written(Top)
           t == Top.kept.tail
           f == TakenOver(Top, t.proc, p)
<1>1. /\ frames # <<>> /\ mode' = mode /\ SetTop(f) /\ Top.phase = "tail" /\ Top.engine = "full"
  BY DEF TailToProc, At, Phase
<1>2. Top \in Frame /\ Top.kept \in Kept
  BY <1>1, TopTyped
<1> HIDE DEF p, t
<1>3. /\ f.queue = Top.queue /\ f.kept.deferred = Top.kept.deferred /\ f.engine = Top.engine
      /\ f.phase = "body"
  BY <1>2 DEF Frame, Kept, TakenOver
<1> HIDE DEF f
<1>4. Stage(f) = "running" /\ Stage(Top) = "running"
  BY <1>1, <1>3 DEF Stage
<1> QED BY <1>1, <1>3, <1>4, SameAct

LEMMA TailToEvalRuns ==
  ASSUME IInv, IInv', QInv, TailToEval
  PROVE  KeepsPromise
<1> DEFINE p == Written(Top)
           t == Top.kept.tail
           f == [Top EXCEPT !.phase = "done", !.statics = None, !.kept.tail = None]
           base == [frames EXCEPT ![Len(frames)] = f]
           e == [f EXCEPT !.phase = "eval"]
<1>1. /\ frames # <<>> /\ mode' = mode /\ Top.phase = "tail" /\ Top.engine = "full"
      /\ procs' = p
      /\ \/ t.proc \in DOMAIN procs /\ PushFrame(base, t.proc, t.spelling, "full", p)
         \/ frames' = base
         \/ frames' = [base EXCEPT ![Len(frames)].phase = "eval"]
  BY DEF TailToEval, At, Phase
<1>2. /\ frames \in Seq(Frame) /\ Len(frames) \in DOMAIN frames /\ Top = frames[Len(frames)]
      /\ Top \in Frame /\ Top.kept \in Kept
  BY <1>1, TopIs DEF IInv, Stacked, FramesOK, Frame
<1>3. /\ f \in Frame /\ f.queue = Top.queue /\ f.kept.deferred = Top.kept.deferred
      /\ f.engine = Top.engine /\ f.phase = "done"
  BY <1>2 DEF Frame, Kept, Phases, Statics
<1>4. OnePlace(mode, Top)
  BY <1>2 DEF QInv
<1> HIDE DEF f, p, t
<1>5. OnePlace(mode, f)
  BY <1>1, <1>3, <1>4 DEF OnePlace
<1>6. ActOf(f) = ActOf(Top)
  <2>1. Stage(f) = "running" /\ Stage(Top) = "running"
    BY <1>1, <1>3 DEF Stage
  <2> QED BY <1>3, <2>1 DEF ActOf
<1>7. Becomes(frames, f, base)
  BY DEF Becomes
<1>8. /\ base \in Seq(Frame) /\ DOMAIN base = DOMAIN frames
      /\ \A i \in DOMAIN frames : base[i] = IF i = Len(frames) THEN f ELSE frames[i]
  BY <1>2, <1>3
<1>13. [base EXCEPT ![Len(frames)].phase = "eval"] = [frames EXCEPT ![Len(frames)] = e]
  <2> HIDE DEF f
  <2> QED BY <1>2
<1> HIDE DEF base
<1>9. \A i \in DOMAIN base : OnePlace(mode, base[i])
  BY <1>5, <1>8 DEF QInv
<1>10. ActsOf(base) = Acts
  <2>1. \A i \in DOMAIN frames : ActOf(base[i]) = ActOf(frames[i])
    BY <1>2, <1>6, <1>8
  <2> QED BY <1>8, <2>1 DEF Acts, ActsOf
<1>11. CASE frames' = base
  BY <1>1, <1>9, <1>10, <1>11 DEF KeepsPromise, QInv, Acts
<1>12. CASE t.proc \in DOMAIN procs /\ PushFrame(base, t.proc, t.spelling, "full", p)
  <2>1. t.proc \in Procs /\ p[t.proc] \in Statics
    <3>1. p[t.proc] \in Statics
      BY <1>1, <1>2, <1>12, WrittenOK DEF p, ProcsOK, IInv, Written
    <3> QED BY <1>12, <3>1 DEF IInv, ProcsOK
  <2>2. "full" \in Engines
    BY DEF Engines
  <2> QED BY <1>1, <1>8, <1>9, <1>10, <1>12, <2>1, <2>2, CallRuns
<1>14. CASE frames' = [frames EXCEPT ![Len(frames)] = e]
  <2>1. /\ e.queue = Top.queue /\ e.kept.deferred = Top.kept.deferred
        /\ e.engine = Top.engine /\ e.phase = "eval"
    BY <1>3 DEF Frame
  <2>2. SetTop(e)
    BY <1>14 DEF SetTop
  <2> HIDE DEF e
  <2>3. Stage(e) = "running" /\ Stage(Top) = "running"
    BY <1>1, <2>1 DEF Stage
  <2> QED BY <1>1, <2>1, <2>2, <2>3, SameAct
<1> QED BY <1>1, <1>11, <1>12, <1>13, <1>14

LEMMA PopRuns ==
  ASSUME IInv, QInv, mode' = mode, frames # <<>>, PopFrame,
         Stage(Top) = "leaving", Top.queue = <<>>, Top.kept.deferred = <<>>
  PROVE  KeepsPromise
<1>1. /\ frames \in Seq(Frame) /\ Len(frames) \in DOMAIN frames /\ Top = frames[Len(frames)]
      /\ Len(frames) \in 1 .. Len(frames) /\ frames' = Front(frames)
  BY TopIs DEF IInv, Stacked, FramesOK, PopFrame
<1>2. QInv'
  <2>1. /\ frames' \in Seq(Frame) /\ Len(frames') = Len(frames) - 1
        /\ \A i \in 1 .. Len(frames) - 1 : frames'[i] = frames[i]
    BY <1>1, FrontSeq
  <2>2. DOMAIN frames' = 1 .. Len(frames) - 1 /\ DOMAIN frames = 1 .. Len(frames)
        /\ Len(frames) \in Nat
    BY <1>1, <2>1
  <2>3. \A i \in DOMAIN frames' : i \in DOMAIN frames /\ frames'[i] = frames[i]
    BY <2>1, <2>2
  <2> QED BY <2>3 DEF QInv
<1>3. /\ Acts' = Front(Acts) /\ Acts # <<>> /\ Len(Acts) = Len(frames)
      /\ Acts[Len(Acts)] = ActOf(Top)
  BY <1>1, ActsPop, ActsAre DEF Acts
<1>4. ActOf(Top).todo = <<>> /\ ActOf(Top).stage = "leaving"
  <2>1. <<>> \o <<>> = <<>>
    OBVIOUS
  <2> QED BY <2>1 DEF ActOf
<1>5. Promise!Next
  BY <1>3, <1>4, EndStep
<1> QED BY <1>2, <1>5 DEF KeepsPromise

LEMMA TailDirectRuns ==
  ASSUME IInv, Deferring(mode), QInv, TailDirect
  PROVE  KeepsPromise
<1>1. /\ mode' = mode /\ frames # <<>> /\ PopFrame /\ Top.phase = "tail" /\ Top.engine = "direct"
  BY DEF TailDirect, At, Phase
<1>2. FrameOK(mode, Top) /\ OnePlace(mode, Top)
  BY <1>1, TopIs DEF IInv, QInv
<1>3. "tail" \in mode.habits /\ mode.engines # {"full"}
  BY <1>1, <1>2 DEF FrameOK
<1>4. Top.queue = <<>> /\ Top.kept.deferred = <<>>
  BY <1>2, <1>3 DEF Deferring, OnePlace
<1>5. Stage(Top) = "leaving"
  BY <1>1 DEF Stage
<1> QED BY <1>1, <1>4, <1>5, PopRuns

LEMMA ExitRuns ==
  ASSUME IInv, QInv, Exit
  PROVE  KeepsPromise
<1>1. /\ mode' = mode /\ frames # <<>> /\ PopFrame /\ Top.phase = "exit" /\ Top.queue = <<>>
  BY DEF Exit, At, Phase
<1>2. OnePlace(mode, Top)
  BY <1>1, TopIs DEF IInv, QInv
<1>3. Top.kept.deferred = <<>> /\ Stage(Top) = "leaving"
  BY <1>1, <1>2 DEF OnePlace, Stage
<1> QED BY <1>1, <1>3, PopRuns

LEMMA NextRuns ==
  ASSUME IInv, IInv', Deferring(mode), QInv, [Next]_vars
  PROVE  KeepsPromise
<1>1. CASE UNCHANGED vars
  BY <1>1 DEF vars, QInv, Acts, KeepsPromise
<1>2. ASSUME NEW k \in Procs \cup {Builtin}, NEW spelling \in {"own", "simple", "absolute"},
             NEW engine \in {"full", "direct"}, Enter(k, spelling, engine)
      PROVE  KeepsPromise
  BY <1>2, EnterRuns DEF Engines
<1>3. ASSUME NEW k \in Procs \cup {Builtin}, NEW spelling \in {"own", "simple", "absolute"},
             Tailcall(k, spelling)
      PROVE  KeepsPromise
  BY <1>3, TailcallRuns
<1>4. ASSUME NEW k \in Procs, ArityError(k)
      PROVE  KeepsPromise
  BY <1>4 DEF ArityError, QInv, Acts, KeepsPromise
<1>5. ASSUME NEW k \in Procs, DefineLocal(k)
      PROVE  KeepsPromise
  BY <1>5, DefineLocalRuns
<1>6. ASSUME NEW k \in Procs, Redefine(k)
      PROVE  KeepsPromise
  BY <1>6, RedefineRuns
<1>7. ASSUME NEW v \in Vals, Assign(v)
      PROVE  KeepsPromise
  BY <1>7, AssignRuns
<1>8. ASSUME NEW s \in Scripts, Defer(s)
      PROVE  KeepsPromise
  BY <1>8, DeferRuns
<1> QED BY <1>1, <1>2, <1>3, <1>4, <1>5, <1>6, <1>7, <1>8, BodyEndsRuns, TailToProcRuns,
           TailToEvalRuns, TailDirectRuns, RedispatchRuns, EvalEndsRuns, WriteBackRuns,
           RunDeferredRuns, ScriptEndsRuns, ExitRuns, EscapeRuns DEF Next

(* Proc calls implement Deferral: a script deferred in a frame runs when   *)
(* the frame exits, the last one first, each exactly once, in every mode   *)
(* in which no deferred script defers more and no direct copy's frame that *)
(* may have deferred makes a tail call.                                    *)
THEOREM DeferredScriptsRun ==
  ASSUME \A m \in Modes : Deferring(m)
  PROVE  Spec => DefersRun
<1>1. Init => QInv /\ Promise!Init
  BY DEF Init, QInv, Promise!Init
<1>2. IInv /\ IInv' /\ QInv /\ [Next]_vars => QInv' /\ (Promise!Next \/ Acts' = Acts)
  BY NextRuns DEF IInv, KeepsPromise
<1>3. IInv /\ IInv' /\ QInv /\ [Next]_vars =>
        [Promise!Next]_([i \in DOMAIN frames |->
             [todo  |-> frames[i].queue \o frames[i].kept.deferred,
              stage |-> Stage(frames[i])]])
  BY <1>2 DEF Acts, ActsOf, ActOf
<1> QED BY <1>1, <1>2, <1>3, Invariant, PTL DEF Spec, DefersRun, Promise!Spec
=============================================================================
