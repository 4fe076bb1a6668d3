------------------------- MODULE CommandTracesProofs -------------------------
(***************************************************************************)
(* Theorems about CommandTraces, for any procs, programs and nesting: what  *)
(* is under way, the stack of contexts and the counter of callbacks go      *)
(* together, whatever a callback does.                                      *)
(*                                                                         *)
(* Every action takes something off the stack of what is under way, puts    *)
(* something on it, or does one after the other; there is one lemma for     *)
(* each of the two.                                                         *)
(***************************************************************************)
EXTENDS CommandTraces, FiniteSetTheorems, SequenceLemmas

IsSeq(s) == s \in Seq(Range(s))

(* The kinds of things under way.                                          *)
CallIs(k, n, s, t)    == [kind |-> "call", key |-> k, now |-> n, stage |-> s, traced |-> t]
StepIs(k, which, c, s) == [kind |-> "step", key |-> k, snap |-> which, cmd |-> c, stage |-> s]
ExecIs(k, o, q, x, i) ==
  [kind |-> "exec", key |-> k, op |-> o, todo |-> q, strict |-> x, inside |-> i]

Shape(e) ==
  \/ \E k, n, s, t : (s = "enter" => n = k) /\ e = CallIs(k, n, s, t)
  \/ \E k, which, c, s : e = StepIs(k, which, c, s)
  \/ \E k, o, q, x, i : IsSeq(q) /\ (i => q # <<>>) /\ e = ExecIs(k, o, q, x, i)
  \/ \E k, o, q : e = CmdOf(k, o, q)
  \/ \E t : e = ScriptOf(t)

HasContext(e) == e.kind = "call" /\ e.traced /\ e.stage = "body"
Runs(e)       == e.kind = "exec" /\ e.inside
Leaves(e)     == e.kind = "exec" /\ e.op = "leavestep"
Pairs(e, below) == below.kind = "step" /\ IdsOf(e.todo) \subseteq below.snap

TracedIn(d) == {i \in DOMAIN d : HasContext(d[i])}
RunsIn(d)   == {i \in DOMAIN d : Runs(d[i])}

Context(d, st) ==
  /\ Len(st) = Cardinality(TracedIn(d))
  /\ \A i \in TracedIn(d) : st[Cardinality({j \in TracedIn(d) : j <= i})] = d[i].now
Paired(d) == \A i \in DOMAIN d : Leaves(d[i]) => i > 1 /\ Pairs(d[i], d[i - 1])

Good(d, st, r) ==
  /\ IsSeq(d) /\ IsSeq(st) /\ \A i \in DOMAIN d : Shape(d[i])
  /\ Context(d, st) /\ r = Cardinality(RunsIn(d)) /\ Paired(d)

Registered(f) == \A k \in DOMAIN f : IsSeq(f[k])

IInv == Good(doing, steps, running) /\ Registered(execTraces)

-----------------------------------------------------------------------------
(* Sequences *)

LEMMA SeqLen ==
  ASSUME NEW s, IsSeq(s)
  PROVE  Len(s) \in Nat /\ DOMAIN s = 1 .. Len(s) /\ (s # <<>> => Len(s) \in 1 .. Len(s))
BY DEF IsSeq

LEMMA AnySeq ==
  ASSUME NEW S, NEW s \in Seq(S)
  PROVE  IsSeq(s)
<1>1. \A i \in 1 .. Len(s) : s[i] \in Range(s)
  BY DEF Range
<1> QED BY <1>1 DEF IsSeq

LEMMA PushSeq ==
  ASSUME NEW s, IsSeq(s), NEW e
  PROVE  /\ IsSeq(Append(s, e)) /\ Len(Append(s, e)) = Len(s) + 1
         /\ DOMAIN Append(s, e) = 1 .. Len(s) + 1
         /\ \A i \in 1 .. Len(s) : Append(s, e)[i] = s[i]
         /\ Append(s, e)[Len(s) + 1] = e
<1> DEFINE S == Range(s) \cup {e}
<1>1. s \in Seq(S) /\ e \in S
  BY SeqMonotonic DEF IsSeq
<1> HIDE DEF S
<1>2. /\ Append(s, e) \in Seq(S) /\ Len(Append(s, e)) = Len(s) + 1
      /\ \A i \in 1 .. Len(s) : Append(s, e)[i] = s[i]
      /\ Append(s, e)[Len(s) + 1] = e
  BY <1>1
<1>3. IsSeq(Append(s, e))
  BY <1>2, AnySeq
<1>4. Len(s) \in Nat /\ DOMAIN Append(s, e) = 1 .. Len(s) + 1
  BY <1>1, <1>2
<1> QED BY <1>2, <1>3, <1>4

LEMMA PopSeq ==
  ASSUME NEW s, IsSeq(s), s # <<>>
  PROVE  /\ IsSeq(Front(s)) /\ Len(Front(s)) = Len(s) - 1 /\ Len(s) - 1 \in Nat
         /\ DOMAIN Front(s) = 1 .. Len(s) - 1
         /\ \A i \in 1 .. Len(s) - 1 : Front(s)[i] = s[i]
<1>1. s \in Seq(Range(s)) /\ Len(s) \in Nat /\ Len(s) # 0
  BY DEF IsSeq
<1>2. /\ Front(s) \in Seq(Range(s)) /\ Len(Front(s)) = Len(s) - 1
      /\ \A i \in 1 .. Len(s) - 1 : Front(s)[i] = s[i]
  BY <1>1, FrontSeq
<1> QED BY <1>1, <1>2, AnySeq

(* To alter the last is to take it off and put another on.                 *)
LEMMA AlterSeq ==
  ASSUME NEW s, IsSeq(s), s # <<>>, NEW e
  PROVE  [s EXCEPT ![Len(s)] = e] = Append(Front(s), e)
<1> DEFINE S == Range(s) \cup {e}
           t == [s EXCEPT ![Len(s)] = e]
           u == Append(Front(s), e)
<1>1. s \in Seq(S) /\ e \in S /\ Len(s) \in 1 .. Len(s)
  BY SeqMonotonic, SeqLen DEF IsSeq
<1> HIDE DEF S
<1>2. /\ Front(s) \in Seq(S) /\ Len(Front(s)) = Len(s) - 1
      /\ \A i \in 1 .. Len(s) - 1 : Front(s)[i] = s[i]
  BY <1>1, FrontSeq
<1>3. /\ t \in Seq(S) /\ Len(t) = Len(s)
      /\ \A i \in 1 .. Len(s) : t[i] = IF i = Len(s) THEN e ELSE s[i]
  BY <1>1, ExceptSeq
<1>4. /\ u \in Seq(S) /\ Len(u) = Len(s)
      /\ \A i \in 1 .. Len(s) : u[i] = IF i = Len(s) THEN e ELSE s[i]
  <2>1. Len(s) \in Nat
    BY <1>1
  <2> QED BY <1>1, <1>2, <2>1
<1>5. t = u
  <2> HIDE DEF t, u
  <2> QED BY <1>3, <1>4, SeqEqual
<1> QED BY <1>5

-----------------------------------------------------------------------------
(* Things under way *)

LEMMA CallFacts ==
  ASSUME NEW k, NEW n, NEW s, NEW t
  PROVE  /\ CallIs(k, n, s, t).kind = "call" /\ CallIs(k, n, s, t).key = k
         /\ CallIs(k, n, s, t).now = n /\ CallIs(k, n, s, t).stage = s
         /\ (CallIs(k, n, s, t).traced <=> t)
         /\ \A x : [CallIs(k, n, s, t) EXCEPT !.stage = x] = CallIs(k, n, x, t)
         /\ \A x : [CallIs(k, n, s, t) EXCEPT !.now = x] = CallIs(k, x, s, t)
BY DEF CallIs

LEMMA StepFacts ==
  ASSUME NEW k, NEW which, NEW c, NEW s
  PROVE  /\ StepIs(k, which, c, s).kind = "step" /\ StepIs(k, which, c, s).key = k
         /\ StepIs(k, which, c, s).snap = which /\ StepIs(k, which, c, s).stage = s
         /\ StepIs(k, which, c, s).cmd = c
         /\ \A x : [StepIs(k, which, c, s) EXCEPT !.stage = x] = StepIs(k, which, c, x)
BY DEF StepIs

LEMMA ExecFacts ==
  ASSUME NEW k, NEW o, NEW q, NEW x, NEW i
  PROVE  /\ ExecIs(k, o, q, x, i).kind = "exec" /\ ExecIs(k, o, q, x, i).key = k
         /\ ExecIs(k, o, q, x, i).op = o /\ ExecIs(k, o, q, x, i).todo = q
         /\ (ExecIs(k, o, q, x, i).inside <=> i)
         /\ \A y : [ExecIs(k, o, q, x, i) EXCEPT !.inside = y] = ExecIs(k, o, q, x, y)
<1>1. /\ ExecIs(k, o, q, x, i).kind = "exec" /\ ExecIs(k, o, q, x, i).key = k
      /\ ExecIs(k, o, q, x, i).op = o /\ ExecIs(k, o, q, x, i).todo = q
  BY DEF ExecIs
<1>2. ExecIs(k, o, q, x, i).inside <=> i
  BY DEF ExecIs
<1>3. \A y : [ExecIs(k, o, q, x, i) EXCEPT !.inside = y] = ExecIs(k, o, q, x, y)
  BY DEF ExecIs
<1> QED BY <1>1, <1>2, <1>3

LEMMA OtherFacts ==
  ASSUME NEW k, NEW o, NEW q, NEW t
  PROVE  /\ CmdOf(k, o, q).kind = "cmd" /\ CmdOf(k, o, q).todo = q
         /\ \A r : [CmdOf(k, o, q) EXCEPT !.todo = r] = CmdOf(k, o, r)
         /\ ScriptOf(t).kind = "script"
<1>1. CmdOf(k, o, q).kind = "cmd" /\ CmdOf(k, o, q).todo = q
  BY DEF CmdOf
<1>2. \A r : [CmdOf(k, o, q) EXCEPT !.todo = r] = CmdOf(k, o, r)
  BY DEF CmdOf
<1>3. ScriptOf(t).kind = "script"
  BY DEF ScriptOf
<1> QED BY <1>1, <1>2, <1>3

-----------------------------------------------------------------------------
(* The sets of indices, as the stack grows and shrinks *)

LEMMA SetPush ==
  ASSUME NEW d, IsSeq(d), NEW e
  PROVE  /\ TracedIn(Append(d, e)) = IF HasContext(e) THEN TracedIn(d) \cup {Len(d) + 1} ELSE TracedIn(d)
         /\ RunsIn(Append(d, e)) = IF Runs(e) THEN RunsIn(d) \cup {Len(d) + 1} ELSE RunsIn(d)
<1>1. /\ Len(d) \in Nat /\ DOMAIN d = 1 .. Len(d) /\ DOMAIN Append(d, e) = 1 .. Len(d) + 1
      /\ \A i \in 1 .. Len(d) : Append(d, e)[i] = d[i]
      /\ Append(d, e)[Len(d) + 1] = e
  BY SeqLen, PushSeq
<1>2. \A i : i \in 1 .. Len(d) + 1 <=> i \in 1 .. Len(d) \/ i = Len(d) + 1
  BY <1>1
<1> QED BY <1>1, <1>2 DEF TracedIn, RunsIn

LEMMA SetPop ==
  ASSUME NEW d, IsSeq(d), d # <<>>
  PROVE  /\ TracedIn(Front(d)) = TracedIn(d) \ {Len(d)}
         /\ RunsIn(Front(d)) = RunsIn(d) \ {Len(d)}
         /\ Len(d) \in TracedIn(d) <=> HasContext(d[Len(d)])
         /\ Len(d) \in RunsIn(d) <=> Runs(d[Len(d)])
<1>1. /\ Len(d) \in 1 .. Len(d) /\ DOMAIN d = 1 .. Len(d) /\ DOMAIN Front(d) = 1 .. Len(d) - 1
      /\ \A i \in 1 .. Len(d) - 1 : Front(d)[i] = d[i]
  BY SeqLen, PopSeq
<1>2. \A i : i \in 1 .. Len(d) - 1 <=> i \in 1 .. Len(d) /\ i # Len(d)
  BY <1>1
<1> QED BY <1>1, <1>2 DEF TracedIn, RunsIn

LEMMA Ranks ==
  ASSUME NEW d, IsSeq(d)
  PROVE  /\ IsFiniteSet(TracedIn(d)) /\ Cardinality(TracedIn(d)) \in Nat
         /\ IsFiniteSet(RunsIn(d)) /\ Cardinality(RunsIn(d)) \in Nat
         /\ TracedIn(d) \subseteq 1 .. Len(d) /\ RunsIn(d) \subseteq 1 .. Len(d)
         /\ \A i \in TracedIn(d) :
              Cardinality({j \in TracedIn(d) : j <= i}) \in 1 .. Cardinality(TracedIn(d))
<1>1. /\ Len(d) \in Nat /\ TracedIn(d) \subseteq 1 .. Len(d) /\ RunsIn(d) \subseteq 1 .. Len(d)
  BY SeqLen DEF TracedIn, RunsIn
<1>2. IsFiniteSet(1 .. Len(d))
  BY <1>1, FS_Interval
<1>3. IsFiniteSet(TracedIn(d)) /\ IsFiniteSet(RunsIn(d))
  BY <1>1, <1>2, FS_Subset
<1>4. Cardinality(TracedIn(d)) \in Nat /\ Cardinality(RunsIn(d)) \in Nat
  BY <1>3, FS_CardinalityType
<1>5. ASSUME NEW i \in TracedIn(d)
      PROVE  Cardinality({j \in TracedIn(d) : j <= i}) \in 1 .. Cardinality(TracedIn(d))
  <2> DEFINE U == {j \in TracedIn(d) : j <= i}
  <2>1. U \subseteq TracedIn(d) /\ i \in U
    BY <1>1
  <2> HIDE DEF U
  <2>2. /\ IsFiniteSet(U) /\ Cardinality(U) \in Nat /\ Cardinality(U) <= Cardinality(TracedIn(d))
    BY <1>3, <2>1, FS_Subset, FS_CardinalityType
  <2>3. Cardinality(U) # 0
    BY <2>1, <2>2, FS_EmptySet
  <2>4. Cardinality(U) \in 1 .. Cardinality(TracedIn(d))
    BY <1>4, <2>2, <2>3
  <2> QED BY <2>4 DEF U
<1> QED BY <1>1, <1>3, <1>4, <1>5

-----------------------------------------------------------------------------
(* Things put on and taken off *)

LEMMA PushContext ==
  ASSUME NEW d, IsSeq(d), NEW st, IsSeq(st), Context(d, st), NEW e
  PROVE  Context(Append(d, e), IF HasContext(e) THEN Append(st, e.now) ELSE st)
<1> DEFINE N == Len(d) + 1
           T == TracedIn(d)
           U == TracedIn(Append(d, e))
<1>1. /\ Len(d) \in Nat /\ IsFiniteSet(T) /\ Cardinality(T) \in Nat /\ T \subseteq 1 .. Len(d)
      /\ \A i \in T : Cardinality({j \in T : j <= i}) \in 1 .. Cardinality(T)
  BY SeqLen, Ranks
<1>2. /\ \A i \in 1 .. Len(d) : Append(d, e)[i] = d[i]
      /\ Append(d, e)[N] = e
  BY PushSeq
<1>3. CASE ~HasContext(e)
  <2>1. U = T
    BY <1>3, SetPush
  <2>2. \A i \in T : Append(d, e)[i].now = d[i].now
    BY <1>1, <1>2
  <2> HIDE DEF U, T
  <2> QED BY <1>3, <2>1, <2>2 DEF Context, U, T
<1>4. CASE HasContext(e)
  <2>1. U = T \cup {N} /\ N \notin T
    BY <1>1, <1>4, SetPush
  <2>2. /\ Len(Append(st, e.now)) = Len(st) + 1
        /\ \A i \in 1 .. Len(st) : Append(st, e.now)[i] = st[i]
        /\ Append(st, e.now)[Len(st) + 1] = e.now
    BY PushSeq
  <2>3. Len(st) = Cardinality(T) /\ \A i \in T : st[Cardinality({j \in T : j <= i})] = d[i].now
    BY DEF Context
  <2>4. Cardinality(T \cup {N}) = Cardinality(T) + 1
    BY <1>1, <2>1, FS_AddElement
  <2>5. \A i \in T : {j \in T \cup {N} : j <= i} = {j \in T : j <= i}
    BY <1>1
  <2>6. {j \in T \cup {N} : j <= N} = T \cup {N}
    BY <1>1
  <2>7. \A i \in T : Append(d, e)[i].now = d[i].now
    BY <1>1, <1>2
  <2> HIDE DEF T, N
  <2>8. ASSUME NEW i \in T
        PROVE  Append(st, e.now)[Cardinality({j \in T \cup {N} : j <= i})] = Append(d, e)[i].now
    BY <1>1, <2>2, <2>3, <2>5, <2>7
  <2>9. Append(st, e.now)[Cardinality({j \in T \cup {N} : j <= N})] = Append(d, e)[N].now
    BY <1>2, <2>2, <2>3, <2>4, <2>6
  <2>10. \A i \in T \cup {N} : Append(st, e.now)[Cardinality({j \in T \cup {N} : j <= i})] = Append(d, e)[i].now
    BY <2>8, <2>9
  <2>11. Len(Append(st, e.now)) = Cardinality(T \cup {N})
    BY <2>2, <2>3, <2>4
  <2>12. Context(Append(d, e), Append(st, e.now))
    BY <2>1, <2>10, <2>11 DEF Context
  <2> QED BY <1>4, <2>12
<1> QED BY <1>3, <1>4

LEMMA PopContext ==
  ASSUME NEW d, IsSeq(d), d # <<>>, NEW st, IsSeq(st), Context(d, st)
  PROVE  /\ HasContext(d[Len(d)]) => st # <<>> /\ st[Len(st)] = d[Len(d)].now
         /\ Context(Front(d), IF HasContext(d[Len(d)]) THEN Front(st) ELSE st)
<1> DEFINE N == Len(d)
           T == TracedIn(d)
           U == TracedIn(Front(d))
<1>1. /\ N \in 1 .. N /\ IsFiniteSet(T) /\ Cardinality(T) \in Nat /\ T \subseteq 1 .. N
      /\ \A i \in T : Cardinality({j \in T : j <= i}) \in 1 .. Cardinality(T)
  BY SeqLen, Ranks
<1>2. U = T \ {N} /\ (N \in T <=> HasContext(d[N]))
  BY SetPop
<1>3. \A i \in U : Front(d)[i].now = d[i].now
  <2>1. \A i \in U : i \in 1 .. Len(d) - 1
    BY <1>1, <1>2
  <2> QED BY <2>1, PopSeq
<1>4. Len(st) = Cardinality(T) /\ \A i \in T : st[Cardinality({j \in T : j <= i})] = d[i].now
  BY DEF Context
<1>5. CASE ~HasContext(d[N])
  <2>1. U = T
    BY <1>2, <1>5
  <2> HIDE DEF N, T, U
  <2>2. Context(Front(d), st)
    BY <1>3, <1>4, <2>1 DEF Context, U
  <2> QED BY <1>5, <2>2 DEF N
<1>6. CASE HasContext(d[N])
  <2>1. N \in T /\ {j \in T : j <= N} = T
    BY <1>1, <1>2, <1>6
  <2>2. Cardinality(T \ {N}) = Cardinality(T) - 1 /\ Cardinality(T) \in 1 .. Cardinality(T)
    <3>1. Cardinality({j \in T : j <= N}) \in 1 .. Cardinality(T)
      BY <1>1, <2>1
    <3>2. Cardinality(T \ {N}) = Cardinality(T) - 1
      BY <1>1, <2>1, FS_RemoveElement
    <3> QED BY <2>1, <3>1, <3>2
  <2>3. st # <<>> /\ st[Len(st)] = d[N].now
    <3>1. Len(st) # 0
      BY <1>4, <2>2
    <3>2. st # <<>>
      BY <3>1
    <3> QED BY <1>4, <2>1, <3>2
  <2>4. /\ Len(Front(st)) = Len(st) - 1
        /\ \A i \in 1 .. Len(st) - 1 : Front(st)[i] = st[i]
    BY <2>3, PopSeq
  <2>5. \A i \in T \ {N} : {j \in T \ {N} : j <= i} = {j \in T : j <= i}
    BY <1>1
  <2>6. ASSUME NEW i \in T \ {N}
        PROVE  Cardinality({j \in T : j <= i}) \in 1 .. Cardinality(T) - 1
    <3> DEFINE V == {j \in T : j <= i}
    <3>1. V \subseteq T \ {N} /\ IsFiniteSet(T \ {N})
      <4>1. i \in 1 .. N /\ i # N
        BY <1>1
      <4>2. V \subseteq T \ {N}
        BY <1>1, <4>1
      <4> QED BY <1>1, <4>2, FS_Subset
    <3>2. Cardinality(V) \in 1 .. Cardinality(T)
      BY <1>1
    <3> HIDE DEF V
    <3>3. Cardinality(V) <= Cardinality(T \ {N})
      BY <3>1, FS_Subset
    <3>4. Cardinality(V) \in 1 .. Cardinality(T) - 1
      BY <1>1, <2>2, <3>2, <3>3
    <3> QED BY <3>4 DEF V
  <2> HIDE DEF T, N, U
  <2>7. ASSUME NEW i \in U
        PROVE  Front(st)[Cardinality({j \in U : j <= i})] = Front(d)[i].now
    <3>1. i \in T \ {N} /\ {j \in U : j <= i} = {j \in T : j <= i}
      BY <1>2, <2>5
    <3>2. Cardinality({j \in T : j <= i}) \in 1 .. Len(st) - 1
      BY <1>4, <2>6, <3>1
    <3> QED BY <1>3, <1>4, <2>4, <3>1, <3>2
  <2>8. Len(Front(st)) = Cardinality(U)
    BY <1>2, <1>4, <2>2, <2>4
  <2>9. Context(Front(d), Front(st))
    BY <2>7, <2>8 DEF Context, U
  <2> QED BY <1>6, <2>3, <2>9 DEF N
<1> QED BY <1>5, <1>6

LEMMA PushGood ==
  ASSUME NEW d, NEW st, NEW r, Good(d, st, r), NEW e, Shape(e),
         Leaves(e) => d # <<>> /\ Pairs(e, d[Len(d)])
  PROVE  Good(Append(d, e), IF HasContext(e) THEN Append(st, e.now) ELSE st,
              IF Runs(e) THEN r + 1 ELSE r)
<1>0. IsSeq(d) /\ IsSeq(st) /\ Context(d, st) /\ r = Cardinality(RunsIn(d)) /\ Paired(d)
  BY DEF Good
<1>1. Context(Append(d, e), IF HasContext(e) THEN Append(st, e.now) ELSE st)
  BY <1>0, PushContext
<1>2. /\ Len(d) \in Nat /\ DOMAIN d = 1 .. Len(d)
      /\ IsSeq(Append(d, e)) /\ DOMAIN Append(d, e) = 1 .. Len(d) + 1
      /\ \A i \in 1 .. Len(d) : Append(d, e)[i] = d[i]
      /\ Append(d, e)[Len(d) + 1] = e
  BY <1>0, SeqLen, PushSeq
<1>3. IsSeq(IF HasContext(e) THEN Append(st, e.now) ELSE st)
  BY <1>0, PushSeq
<1>4. (IF Runs(e) THEN r + 1 ELSE r) = Cardinality(RunsIn(Append(d, e)))
  <2>1. RunsIn(Append(d, e)) = IF Runs(e) THEN RunsIn(d) \cup {Len(d) + 1} ELSE RunsIn(d)
    BY <1>0, SetPush
  <2>2. IsFiniteSet(RunsIn(d)) /\ RunsIn(d) \subseteq 1 .. Len(d)
    BY <1>0, Ranks
  <2>3. Len(d) + 1 \notin RunsIn(d)
    BY <1>2, <2>2
  <2>4. Cardinality(RunsIn(d) \cup {Len(d) + 1}) = Cardinality(RunsIn(d)) + 1
    BY <2>2, <2>3, FS_AddElement
  <2> QED BY <1>0, <2>1, <2>4
<1>5. \A i \in DOMAIN Append(d, e) : i \in 1 .. Len(d) \/ i = Len(d) + 1
  BY <1>2
<1>6. \A i \in DOMAIN Append(d, e) : Shape(Append(d, e)[i])
  BY <1>2, <1>5 DEF Good
<1>7. Paired(Append(d, e))
  <2>1. ASSUME NEW i \in 1 .. Len(d), Leaves(Append(d, e)[i])
        PROVE  i > 1 /\ Pairs(Append(d, e)[i], Append(d, e)[i - 1])
    <3>1. i > 1 /\ Pairs(d[i], d[i - 1])
      BY <1>0, <1>2, <2>1 DEF Paired
    <3>2. i - 1 \in 1 .. Len(d)
      BY <3>1
    <3> QED BY <1>2, <3>1, <3>2
  <2>2. ASSUME Leaves(e)
        PROVE  Len(d) + 1 > 1 /\ Pairs(e, Append(d, e)[(Len(d) + 1) - 1])
    <3>1. d # <<>> /\ Pairs(e, d[Len(d)])
      BY <2>2
    <3>2. Len(d) \in 1 .. Len(d)
      BY <1>0, <3>1, SeqLen
    <3>3. Append(d, e)[(Len(d) + 1) - 1] = d[Len(d)] /\ Len(d) + 1 > 1
      BY <1>2, <3>2
    <3> QED BY <3>1, <3>3
  <2> QED BY <1>2, <1>5, <2>1, <2>2 DEF Paired
<1> QED BY <1>1, <1>2, <1>3, <1>4, <1>6, <1>7 DEF Good

LEMMA PopGood ==
  ASSUME NEW d, d # <<>>, NEW st, NEW r, Good(d, st, r)
  PROVE  LET e == d[Len(d)] IN
         /\ Shape(e)
         /\ HasContext(e) => st # <<>> /\ st[Len(st)] = e.now
         /\ Good(Front(d), IF HasContext(e) THEN Front(st) ELSE st, IF Runs(e) THEN r - 1 ELSE r)
<1> DEFINE e == d[Len(d)]
<1>0. IsSeq(d) /\ IsSeq(st) /\ Context(d, st) /\ r = Cardinality(RunsIn(d)) /\ Paired(d)
  BY DEF Good
<1>1. /\ HasContext(e) => st # <<>> /\ st[Len(st)] = e.now
      /\ Context(Front(d), IF HasContext(e) THEN Front(st) ELSE st)
  BY <1>0, PopContext
<1>2. /\ Len(d) \in 1 .. Len(d) /\ DOMAIN d = 1 .. Len(d)
      /\ IsSeq(Front(d)) /\ DOMAIN Front(d) = 1 .. Len(d) - 1
      /\ \A i \in 1 .. Len(d) - 1 : Front(d)[i] = d[i]
  BY <1>0, SeqLen, PopSeq
<1>3. IsSeq(IF HasContext(e) THEN Front(st) ELSE st)
  BY <1>0, <1>1, PopSeq
<1>4. (IF Runs(e) THEN r - 1 ELSE r) = Cardinality(RunsIn(Front(d)))
  <2>1. RunsIn(Front(d)) = RunsIn(d) \ {Len(d)} /\ (Len(d) \in RunsIn(d) <=> Runs(e))
    BY <1>0, SetPop
  <2>2. IsFiniteSet(RunsIn(d))
    BY <1>0, Ranks
  <2>3. CASE Runs(e)
    <3>1. Cardinality(RunsIn(d) \ {Len(d)}) = Cardinality(RunsIn(d)) - 1
      BY <2>1, <2>2, <2>3, FS_RemoveElement
    <3> QED BY <1>0, <2>1, <2>3, <3>1
  <2>4. CASE ~Runs(e)
    <3>1. RunsIn(d) \ {Len(d)} = RunsIn(d)
      BY <2>1, <2>4
    <3> QED BY <1>0, <2>1, <2>4, <3>1
  <2> QED BY <2>3, <2>4
<1>5. \A i \in DOMAIN Front(d) : Shape(Front(d)[i])
  BY <1>2 DEF Good
<1>6. Paired(Front(d))
  <2>1. ASSUME NEW i \in 1 .. Len(d) - 1, Leaves(Front(d)[i])
        PROVE  i > 1 /\ Pairs(Front(d)[i], Front(d)[i - 1])
    <3>1. i \in DOMAIN d /\ Front(d)[i] = d[i]
      BY <1>2
    <3>2. i > 1 /\ Pairs(d[i], d[i - 1])
      BY <1>0, <2>1, <3>1 DEF Paired
    <3>3. i - 1 \in 1 .. Len(d) - 1
      BY <1>2, <3>2
    <3> QED BY <1>2, <3>1, <3>2, <3>3
  <2> QED BY <1>2, <2>1 DEF Paired
<1>7. Shape(e)
  BY <1>2 DEF Good
<1> HIDE DEF e
<1>8. Good(Front(d), IF HasContext(e) THEN Front(st) ELSE st, IF Runs(e) THEN r - 1 ELSE r)
  BY <1>1, <1>2, <1>3, <1>4, <1>5, <1>6 DEF Good
<1> QED BY <1>1, <1>7, <1>8 DEF e

-----------------------------------------------------------------------------
(* Records *)

LEMMA KeptSeq ==
  ASSUME NEW s, IsSeq(s), NEW gone
  PROVE  /\ IsSeq(Dropped(s, gone))
         /\ \A i \in DOMAIN Dropped(s, gone) : Dropped(s, gone)[i] \in Range(s) \ gone
<1> DEFINE u == Filtered(s, gone)
<1>1. Dropped(s, gone) = u
  BY DEF Dropped, Filtered
<1>2. u \in Seq(Range(s)) /\ Left(u, s, gone, Len(s))
  BY FilteredSeq DEF IsSeq
<1> HIDE DEF u
<1>3. PICK p : Placed(u, s, gone, Len(s), p)
  BY <1>2 DEF Left
<1>4. \A i \in 1 .. Len(u) : u[i] \notin gone
  BY <1>3 DEF Placed
<1>5. DOMAIN u = 1 .. Len(u) /\ \A i \in 1 .. Len(u) : u[i] \in Range(s)
  BY <1>2
<1>6. IsSeq(u)
  BY <1>2, AnySeq
<1> QED BY <1>1, <1>4, <1>5, <1>6

LEMMA ReverseSeq ==
  ASSUME NEW s, IsSeq(s)
  PROVE  IsSeq(Reverse(s)) /\ IdsOf(Reverse(s)) = IdsOf(s)
<1>1. Len(s) \in Nat /\ DOMAIN s = 1 .. Len(s) /\ s \in Seq(Range(s))
  BY SeqLen DEF IsSeq
<1>2. Reverse(s) = [i \in 1 .. Len(s) |-> s[(Len(s) - i) + 1]]
  BY DEF Reverse
<1>3. \A i \in 1 .. Len(s) : (Len(s) - i) + 1 \in 1 .. Len(s)
  BY <1>1
<1>4. \A i \in 1 .. Len(s) : s[(Len(s) - i) + 1] \in Range(s)
  BY <1>1, <1>3
<1>5. Reverse(s) \in Seq(Range(s))
  BY <1>1, <1>2, <1>4
<1>6. /\ DOMAIN Reverse(s) = 1 .. Len(s)
      /\ \A i \in 1 .. Len(s) : Reverse(s)[i] = s[(Len(s) - i) + 1]
  BY <1>2
<1>7. \A i \in 1 .. Len(s) : \E j \in 1 .. Len(s) : Reverse(s)[j] = s[i]
  <2>1. \A i \in 1 .. Len(s) : (Len(s) - ((Len(s) - i) + 1)) + 1 = i
    BY <1>1
  <2> QED BY <1>3, <1>6, <2>1
<1>8. IsSeq(Reverse(s))
  BY <1>5, AnySeq
<1>9. IdsOf(Reverse(s)) \subseteq IdsOf(s)
  BY <1>1, <1>3, <1>6 DEF IdsOf
<1>10. IdsOf(s) \subseteq IdsOf(Reverse(s))
  <2> SUFFICES ASSUME NEW i \in 1 .. Len(s) PROVE s[i].id \in IdsOf(Reverse(s))
    BY <1>1 DEF IdsOf
  <2>1. PICK j \in 1 .. Len(s) : Reverse(s)[j] = s[i]
    BY <1>7
  <2> QED BY <1>6, <2>1 DEF IdsOf
<1> QED BY <1>8, <1>9, <1>10

LEMMA TailIds ==
  ASSUME NEW s, IsSeq(s), s # <<>>
  PROVE  IsSeq(Tail(s)) /\ IdsOf(Tail(s)) \subseteq IdsOf(s)
<1>1. s \in Seq(Range(s)) /\ Len(s) \in Nat /\ Len(s) # 0
  BY DEF IsSeq
<1>2. /\ Tail(s) \in Seq(Range(s)) /\ Len(Tail(s)) = Len(s) - 1
      /\ \A i \in 1 .. Len(s) - 1 : Tail(s)[i] = s[i + 1]
  BY <1>1
<1>3. \A i \in 1 .. Len(s) - 1 : i + 1 \in 1 .. Len(s)
  BY <1>1
<1>4. IsSeq(Tail(s))
  BY <1>2, AnySeq
<1>5. DOMAIN Tail(s) = 1 .. Len(s) - 1 /\ DOMAIN s = 1 .. Len(s)
  BY <1>1, <1>2
<1>6. IdsOf(Tail(s)) \subseteq IdsOf(s)
  BY <1>2, <1>3, <1>5 DEF IdsOf
<1> QED BY <1>4, <1>6

LEMMA OnSeq ==
  ASSUME NEW f, Registered(f), NEW k
  PROVE  IsSeq(On(f, k))
<1>1. IsSeq(<<>>)
  BY DEF IsSeq
<1> QED BY <1>1 DEF On, Registered

(* The records of a batch are of the ids it was made for.                  *)
LEMMA BatchIds ==
  ASSUME Registered(execTraces), NEW key, NEW which, NEW op
  PROVE  \E q : /\ Batch(key, which, op) = ExecOf(key, op, q)
                /\ IsSeq(q) /\ IdsOf(q) \subseteq which
<1> DEFINE here == Recs(On(execTraces, key), op)
           gone == {t \in Range(here) : t.id \notin which}
           kept == Dropped(here, gone)
<1>1. IsSeq(here)
  BY OnSeq, KeptSeq DEF Recs
<1>2. IsSeq(kept) /\ \A i \in DOMAIN kept : kept[i] \in Range(here) \ gone
  <2> HIDE DEF here, gone
  <2> QED BY <1>1, KeptSeq
<1>3. IdsOf(kept) \subseteq which
  <2> HIDE DEF here, kept
  <2> QED BY <1>2 DEF IdsOf
<1>4. IsSeq(Reverse(kept)) /\ IdsOf(Reverse(kept)) = IdsOf(kept)
  <2> HIDE DEF kept
  <2> QED BY <1>2, ReverseSeq
<1>5. Batch(key, which, op) = ExecOf(key, op, Reverse(kept))
  BY DEF Batch
<1> HIDE DEF kept
<1> QED BY <1>3, <1>4, <1>5

-----------------------------------------------------------------------------
(* What is put on the stack *)

Plain(e) == Shape(e) /\ ~HasContext(e) /\ ~Runs(e) /\ ~Leaves(e)

LEMMA CallIsShape ==
  ASSUME NEW k, NEW n, NEW s, NEW t, s = "enter" => n = k
  PROVE  /\ Shape(CallIs(k, n, s, t)) /\ ~Runs(CallIs(k, n, s, t)) /\ ~Leaves(CallIs(k, n, s, t))
         /\ HasContext(CallIs(k, n, s, t)) <=> t /\ s = "body"
<1>1. Shape(CallIs(k, n, s, t))
  BY DEF Shape
<1> QED BY <1>1, CallFacts DEF Runs, Leaves, HasContext

LEMMA StepIsPlain ==
  ASSUME NEW k, NEW which, NEW c, NEW s
  PROVE  Plain(StepIs(k, which, c, s))
<1>1. Shape(StepIs(k, which, c, s))
  BY DEF Shape
<1> QED BY <1>1, StepFacts DEF Plain, Runs, Leaves, HasContext

LEMMA ExecIsShape ==
  ASSUME NEW k, NEW o, NEW q, NEW x, NEW i, IsSeq(q), i => q # <<>>
  PROVE  /\ Shape(ExecIs(k, o, q, x, i)) /\ ~HasContext(ExecIs(k, o, q, x, i))
         /\ Runs(ExecIs(k, o, q, x, i)) <=> i
         /\ Leaves(ExecIs(k, o, q, x, i)) <=> o = "leavestep"
<1>1. Shape(ExecIs(k, o, q, x, i))
  BY DEF Shape
<1> QED BY <1>1, ExecFacts DEF Runs, Leaves, HasContext

LEMMA OthersPlain ==
  ASSUME NEW k, NEW o, NEW q, NEW t
  PROVE  Plain(CmdOf(k, o, q)) /\ Plain(ScriptOf(t))
<1>1. Shape(CmdOf(k, o, q))
  BY DEF Shape
<1>2. Shape(ScriptOf(t))
  BY DEF Shape
<1> QED BY <1>1, <1>2, OtherFacts DEF Plain, Runs, Leaves, HasContext

LEMMA NewThings ==
  ASSUME NEW k, NEW t, NEW which, NEW c, NEW o, NEW q, IsSeq(q)
  PROVE  /\ Plain(CallOf(k, t)) /\ Plain(StepOf(k, which, c))
         /\ Shape(ExecOf(k, o, q)) /\ ~HasContext(ExecOf(k, o, q)) /\ ~Runs(ExecOf(k, o, q))
         /\ Leaves(ExecOf(k, o, q)) <=> o = "leavestep"
         /\ ExecOf(k, o, q).todo = q
<1>1. CallOf(k, t) = CallIs(k, k, "enter", t)
  BY DEF CallOf, CallIs
<1>2. Plain(CallOf(k, t))
  BY <1>1, CallIsShape DEF Plain
<1>3. StepOf(k, which, c) = StepIs(k, which, c, "enter")
  BY DEF StepOf, StepIs
<1>4. ExecOf(k, o, q) = ExecIs(k, o, q, o = "enter", FALSE)
  BY Zenon DEF ExecOf, ExecIs
<1>5. /\ Shape(ExecIs(k, o, q, o = "enter", FALSE)) /\ ~HasContext(ExecIs(k, o, q, o = "enter", FALSE))
      /\ ~Runs(ExecIs(k, o, q, o = "enter", FALSE))
      /\ Leaves(ExecIs(k, o, q, o = "enter", FALSE)) <=> o = "leavestep"
  BY ExecIsShape
<1>6. ExecIs(k, o, q, o = "enter", FALSE).todo = q
  BY Zenon DEF ExecIs
<1> QED BY <1>2, <1>3, <1>4, <1>5, <1>6, StepIsPlain

-----------------------------------------------------------------------------
(* What is on top *)

LEMMA CallOnTop ==
  ASSUME NEW e, Shape(e), e.kind = "call"
  PROVE  /\ ~Runs(e) /\ ~Leaves(e) /\ (HasContext(e) <=> e.traced /\ e.stage = "body")
         /\ e.stage = "enter" => e.now = e.key
<1>1. PICK k, n, s, t : (s = "enter" => n = k) /\ e = CallIs(k, n, s, t)
  BY StepFacts, ExecFacts, OtherFacts DEF Shape
<1>2. (e.traced <=> t) /\ e.stage = s /\ e.now = n /\ e.key = k
  BY <1>1, CallFacts
<1> QED BY <1>1, <1>2, CallIsShape

LEMMA CallStaged ==
  ASSUME NEW e, Shape(e), e.kind = "call", NEW x, x # "enter"
  PROVE  LET b == [e EXCEPT !.stage = x] IN
         Shape(b) /\ ~Runs(b) /\ ~Leaves(b) /\ (HasContext(b) <=> e.traced /\ x = "body") /\ b.now = e.now
<1>1. PICK k, n, s, t : (s = "enter" => n = k) /\ e = CallIs(k, n, s, t)
  BY StepFacts, ExecFacts, OtherFacts DEF Shape
<1>2. /\ [e EXCEPT !.stage = x] = CallIs(k, n, x, t)
      /\ (e.traced <=> t) /\ e.now = n /\ CallIs(k, n, x, t).now = n
  BY <1>1, CallFacts
<1> QED BY <1>2, CallIsShape

LEMMA CallRetargeted ==
  ASSUME NEW e, Shape(e), e.kind = "call", e.stage # "enter", NEW x
  PROVE  LET b == [e EXCEPT !.now = x] IN
         Shape(b) /\ ~Runs(b) /\ ~Leaves(b) /\ (HasContext(b) <=> HasContext(e)) /\ b.now = x
<1>1. PICK k, n, s, t : (s = "enter" => n = k) /\ e = CallIs(k, n, s, t)
  BY StepFacts, ExecFacts, OtherFacts DEF Shape
<1>2. /\ [e EXCEPT !.now = x] = CallIs(k, x, s, t)
      /\ e.stage = s /\ CallIs(k, x, s, t).now = x
  BY <1>1, CallFacts
<1>3. s # "enter"
  BY <1>2
<1> QED BY <1>1, <1>2, <1>3, CallIsShape

LEMMA StepOnTop ==
  ASSUME NEW e, Shape(e), e.kind = "step", NEW x
  PROVE  Plain(e) /\ Plain([e EXCEPT !.stage = x]) /\ [e EXCEPT !.stage = x].kind = "step"
         /\ [e EXCEPT !.stage = x].snap = e.snap
<1>1. PICK k, which, c, s : e = StepIs(k, which, c, s)
  BY CallFacts, ExecFacts, OtherFacts DEF Shape
<1>2. [e EXCEPT !.stage = x] = StepIs(k, which, c, x) /\ e.snap = which
      /\ StepIs(k, which, c, x).kind = "step" /\ StepIs(k, which, c, x).snap = which
  BY <1>1, StepFacts
<1> QED BY <1>1, <1>2, StepIsPlain

LEMMA ExecOnTop ==
  ASSUME NEW e, Shape(e), e.kind = "exec"
  PROVE  /\ ~HasContext(e) /\ (Runs(e) <=> e.inside) /\ IsSeq(e.todo) /\ (e.inside => e.todo # <<>>)
         /\ Leaves(e) <=> e.op = "leavestep"
<1>1. PICK k, o, q, x, i : IsSeq(q) /\ (i => q # <<>>) /\ e = ExecIs(k, o, q, x, i)
  BY CallFacts, StepFacts, OtherFacts DEF Shape
<1>2. ExecIs(k, o, q, x, i).todo = q /\ (ExecIs(k, o, q, x, i).inside <=> i) /\ ExecIs(k, o, q, x, i).op = o
  BY ExecFacts
<1>3. e.todo = q /\ (e.inside <=> i) /\ e.op = o
  BY <1>1, <1>2, Zenon
<1>4. ~HasContext(e) /\ (Runs(e) <=> i) /\ (Leaves(e) <=> o = "leavestep")
  BY <1>1, ExecIsShape
<1> QED BY <1>1, <1>3, <1>4

LEMMA ExecStarted ==
  ASSUME NEW e, Shape(e), e.kind = "exec", e.todo # <<>>
  PROVE  /\ Shape([e EXCEPT !.inside = TRUE]) /\ Runs([e EXCEPT !.inside = TRUE])
         /\ ~HasContext([e EXCEPT !.inside = TRUE])
         /\ (Leaves([e EXCEPT !.inside = TRUE]) <=> Leaves(e))
         /\ [e EXCEPT !.inside = TRUE].todo = e.todo
<1>1. PICK k, o, q, x, i : IsSeq(q) /\ (i => q # <<>>) /\ e = ExecIs(k, o, q, x, i)
  BY CallFacts, StepFacts, OtherFacts DEF Shape
<1>2. [e EXCEPT !.inside = TRUE] = ExecIs(k, o, q, x, TRUE)
  <2> DEFINE yes == TRUE
  <2> HIDE DEF yes
  <2>1. [ExecIs(k, o, q, x, i) EXCEPT !.inside = yes] = ExecIs(k, o, q, x, yes)
    BY ExecFacts
  <2>2. [ExecIs(k, o, q, x, i) EXCEPT !.inside = TRUE] = ExecIs(k, o, q, x, TRUE)
    BY <2>1 DEF yes
  <2> QED BY <1>1, <2>2, Zenon
<1>3. e.todo = q /\ (e.inside <=> i) /\ ExecIs(k, o, q, x, TRUE).todo = q
  <2>1. ExecIs(k, o, q, x, i).todo = q /\ (ExecIs(k, o, q, x, i).inside <=> i)
    BY ExecFacts
  <2>2. ExecIs(k, o, q, x, TRUE).todo = q
    BY Zenon DEF ExecIs
  <2> QED BY <1>1, <2>1, <2>2, Zenon
<1>4. q # <<>>
  BY <1>3
<1>5. /\ Shape(ExecIs(k, o, q, x, TRUE)) /\ ~HasContext(ExecIs(k, o, q, x, TRUE))
      /\ Runs(ExecIs(k, o, q, x, TRUE)) /\ (Leaves(ExecIs(k, o, q, x, TRUE)) <=> o = "leavestep")
  BY <1>1, <1>4, ExecIsShape
<1>6. ~HasContext(e) /\ (Runs(e) <=> i) /\ (Leaves(e) <=> o = "leavestep")
  BY <1>1, ExecIsShape
<1> QED BY <1>2, <1>3, <1>5, <1>6

LEMMA CmdOnTop ==
  ASSUME NEW e, Shape(e), e.kind = "cmd", NEW x
  PROVE  Plain(e) /\ Plain([e EXCEPT !.todo = x])
<1>1. PICK k, o, q : e = CmdOf(k, o, q)
  BY CallFacts, StepFacts, ExecFacts, OtherFacts DEF Shape
<1>2. [e EXCEPT !.todo = x] = CmdOf(k, o, x)
  BY <1>1, OtherFacts
<1> QED BY <1>1, <1>2, OthersPlain

LEMMA ScriptOnTop ==
  ASSUME NEW e, Shape(e), e.kind = "script"
  PROVE  Plain(e)
BY DEF Plain, HasContext, Runs, Leaves

-----------------------------------------------------------------------------
(* What an action does to the stack *)

LEMMA PushPlain ==
  ASSUME NEW d, NEW st, NEW r, Good(d, st, r), NEW e, Plain(e)
  PROVE  Good(Append(d, e), st, r)
BY PushGood DEF Plain

(* A batch, of the records of the step below if it is one of leavestep.    *)
LEMMA PushBatch ==
  ASSUME NEW d, NEW st, NEW r, Good(d, st, r), Registered(execTraces), NEW key, NEW which, NEW op,
         op = "leavestep" => d # <<>> /\ d[Len(d)].kind = "step" /\ which = d[Len(d)].snap
  PROVE  Good(Append(d, Batch(key, which, op)), st, r)
<1>1. PICK q : Batch(key, which, op) = ExecOf(key, op, q) /\ IsSeq(q) /\ IdsOf(q) \subseteq which
  BY BatchIds
<1> DEFINE e == ExecOf(key, op, q)
<1>2. /\ Shape(e) /\ ~HasContext(e) /\ ~Runs(e) /\ (Leaves(e) <=> op = "leavestep") /\ e.todo = q
  BY <1>1, NewThings
<1> HIDE DEF e
<1>3. Leaves(e) => d # <<>> /\ Pairs(e, d[Len(d)])
  BY <1>1, <1>2 DEF Pairs
<1>4. Good(Append(d, e), st, r)
  BY <1>2, <1>3, PushGood
<1> QED BY <1>1, <1>4 DEF e

(* The top taken off, and another put in its place.                        *)
LEMMA TopGood ==
  ASSUME IInv, ~Idle
  PROVE  /\ Shape(Top) /\ IsSeq(doing) /\ IsSeq(steps)
         /\ HasContext(Top) => steps # <<>> /\ Last(steps) = Top.now
         /\ Leaves(Top) => Front(doing) # <<>> /\ Pairs(Top, Front(doing)[Len(Front(doing))])
         /\ Good(Front(doing), IF HasContext(Top) THEN Front(steps) ELSE steps,
                 IF Runs(Top) THEN running - 1 ELSE running)
<1>1. doing # <<>> /\ Good(doing, steps, running) /\ IsSeq(doing) /\ IsSeq(steps) /\ Paired(doing)
  BY DEF Idle, IInv, Good
<1>2. /\ Shape(Top)
      /\ HasContext(Top) => steps # <<>> /\ steps[Len(steps)] = Top.now
      /\ Good(Front(doing), IF HasContext(Top) THEN Front(steps) ELSE steps,
              IF Runs(Top) THEN running - 1 ELSE running)
  BY <1>1, PopGood DEF Top
<1>3. /\ Len(doing) \in 1 .. Len(doing) /\ Len(doing) \in DOMAIN doing
      /\ Len(Front(doing)) = Len(doing) - 1
      /\ \A i \in 1 .. Len(doing) - 1 : Front(doing)[i] = doing[i]
  BY <1>1, SeqLen, PopSeq
<1>4. ASSUME Leaves(Top)
      PROVE  Front(doing) # <<>> /\ Pairs(Top, Front(doing)[Len(Front(doing))])
  <2>1. Len(doing) > 1 /\ Pairs(Top, doing[Len(doing) - 1])
    BY <1>1, <1>3, <1>4 DEF Paired, Top
  <2>2. Len(doing) - 1 \in 1 .. Len(doing) - 1 /\ Len(Front(doing)) # 0
    BY <1>3, <2>1
  <2>3. Front(doing) # <<>>
    BY <2>2
  <2> QED BY <1>3, <2>1, <2>2, <2>3
<1> QED BY <1>1, <1>2, <1>4 DEF Last

LEMMA PlainOff ==
  ASSUME IInv, ~Idle, ~HasContext(Top), ~Runs(Top)
  PROVE  Good(Front(doing), steps, running)
BY TopGood

LEMMA AlterGood ==
  ASSUME IInv, ~Idle, NEW b, Shape(b),
         Leaves(b) => Leaves(Top) /\ IdsOf(b.todo) \subseteq IdsOf(Top.todo)
  PROVE  LET s == IF HasContext(Top) THEN Front(steps) ELSE steps
             n == IF Runs(Top) THEN running - 1 ELSE running
         IN  Good(InTop(b), IF HasContext(b) THEN Append(s, b.now) ELSE s, IF Runs(b) THEN n + 1 ELSE n)
<1> DEFINE s == IF HasContext(Top) THEN Front(steps) ELSE steps
           n == IF Runs(Top) THEN running - 1 ELSE running
           d == Front(doing)
<1>1. /\ IsSeq(doing) /\ doing # <<>> /\ Good(d, s, n)
      /\ Leaves(Top) => d # <<>> /\ Pairs(Top, d[Len(d)])
  BY TopGood DEF Idle
<1>2. Leaves(b) => d # <<>> /\ Pairs(b, d[Len(d)])
  BY <1>1 DEF Pairs
<1>3. InTop(b) = Append(d, b)
  BY <1>1, AlterSeq DEF InTop
<1> HIDE DEF d, s, n
<1>4. Good(Append(d, b), IF HasContext(b) THEN Append(s, b.now) ELSE s, IF Runs(b) THEN n + 1 ELSE n)
  BY <1>1, <1>2, PushGood
<1> QED BY <1>3, <1>4 DEF s, n

(* The top altered to something that is as plain as it was.                *)
LEMMA AlterPlain ==
  ASSUME IInv, ~Idle, ~HasContext(Top), ~Runs(Top), NEW b, Plain(b)
  PROVE  Good(InTop(b), steps, running)
BY AlterGood DEF Plain

LEMMA InTopTop ==
  ASSUME IInv, ~Idle, NEW b
  PROVE  InTop(b) # <<>> /\ InTop(b)[Len(InTop(b))] = b
<1>1. IsSeq(doing) /\ doing # <<>>
  BY TopGood DEF Idle
<1>2. InTop(b) = Append(Front(doing), b)
  BY <1>1, AlterSeq DEF InTop
<1>3. IsSeq(Front(doing))
  BY <1>1, PopSeq
<1>4. /\ Len(Append(Front(doing), b)) = Len(Front(doing)) + 1 /\ Len(Front(doing)) \in Nat
      /\ Append(Front(doing), b)[Len(Front(doing)) + 1] = b
  BY <1>3, PushSeq, SeqLen
<1>5. Append(Front(doing), b) # <<>>
  BY <1>4
<1> QED BY <1>2, <1>4, <1>5

-----------------------------------------------------------------------------
(* The tables *)

LEMMA Registers ==
  ASSUME NEW f, Registered(f), NEW a, NEW b, NEW q, IsSeq(q)
  PROVE  Registered(Drop(f, a)) /\ Registered(Put(f, b, q))
BY DEF Registered, Drop, Put

LEMMA ConcatSeq ==
  ASSUME NEW s, IsSeq(s), NEW t, IsSeq(t)
  PROVE  IsSeq(s \o t)
<1> DEFINE S == Range(s) \cup Range(t)
<1>1. s \in Seq(S) /\ t \in Seq(S)
  BY SeqMonotonic DEF IsSeq
<1> HIDE DEF S
<1>2. s \o t \in Seq(S)
  BY <1>1
<1> QED BY <1>2, AnySeq

LEMMA Moves ==
  ASSUME NEW f, Registered(f), NEW a, NEW b
  PROVE  Registered(Rekeyed(f, a, b))
<1>1. CASE a \notin DOMAIN f
  BY <1>1 DEF Rekeyed, Move
<1>2. CASE a \in DOMAIN f
  <2>1. IsSeq(f[a]) /\ IsSeq(On(f, b))
    BY <1>2, OnSeq DEF Registered
  <2>2. IsSeq(On(f, b) \o f[a])
    BY <2>1, ConcatSeq
  <2>3. Registered(Drop(f, a))
    BY <2>2, Registers
  <2>4. Registered(Put(Drop(f, a), b, On(f, b) \o f[a]))
    BY <2>2, <2>3, Registers
  <2> QED BY <1>2, <2>4 DEF Rekeyed, Move
<1> QED BY <1>1, <1>2

LEMMA Removes ==
  ASSUME NEW f, Registered(f), NEW k \in DOMAIN f, NEW gone
  PROVE  Registered([f EXCEPT ![k] = Dropped(f[k], gone)])
<1>1. IsSeq(Dropped(f[k], gone))
  BY KeptSeq DEF Registered
<1> QED BY <1>1 DEF Registered

-----------------------------------------------------------------------------
(* Commands *)

LEMMA CallProcInv ==
  ASSUME NEW base, Good(base, steps, running), Registered(execTraces), NEW k, CallProc(base, k)
  PROVE  IInv'
<1>1. UNCHANGED <<steps, running, execTraces>>
  BY DEF CallProc, Same, Calm
<1>2. Good(doing', steps, running)
  <2>1. CASE ~(k \in cmds /\ Len(base) < MaxNest)
    BY <2>1 DEF CallProc, Answer
  <2>2. CASE k \in cmds /\ Len(base) < MaxNest
    <3> DEFINE call == Append(base, CallOf(k, DOMAIN execTraces # {}))
    <3>1. doing' = IF Quiet THEN call ELSE Append(call, Batch(k, All(k), "enter"))
      BY <2>2 DEF CallProc, Answer
    <3>2. IsSeq(<<>>)
      BY DEF IsSeq
    <3>3. Plain(CallOf(k, DOMAIN execTraces # {}))
      BY <3>2, NewThings
    <3>4. Good(call, steps, running)
      BY <3>3, PushPlain
    <3> HIDE DEF call
    <3>5. Good(Append(call, Batch(k, All(k), "enter")), steps, running)
      BY <3>4, PushBatch
    <3> QED BY <3>1, <3>4, <3>5
  <2> QED BY <2>1, <2>2
<1> QED BY <1>1, <1>2 DEF IInv

LEMMA RenameInv ==
  ASSUME NEW base, Good(base, steps, running), Registered(execTraces), NEW k, NEW new, Rename(base, k, new)
  PROVE  IInv'
<1>1. UNCHANGED <<steps, running>>
  BY DEF Rename, Calm
<1>2. Good(doing', steps, running)
  <2>1. \A x, q, o : Plain(CmdBatch(x, q, o))
    BY OthersPlain DEF CmdBatch
  <2>2. doing' = base \/ \E x, q, o : doing' = Append(base, CmdBatch(x, q, o))
    BY DEF Rename, Answer
  <2> QED BY <2>1, <2>2, PushPlain
<1>3. execTraces' = execTraces \/ execTraces' = Rekeyed(execTraces, k, new)
  BY DEF Rename, Same
<1>4. Registered(execTraces')
  BY <1>3, Moves
<1> QED BY <1>1, <1>2, <1>4 DEF IInv

LEMMA AddTraceInv ==
  ASSUME NEW base, Good(base, steps, running), Registered(execTraces), NEW t, NEW k, AddTrace(base, t, k)
  PROVE  IInv'
<1>1. UNCHANGED <<steps, running>> /\ doing' = base
  BY DEF AddTrace, Calm, Answer
<1>2. IsSeq(On(execTraces, k))
  BY OnSeq
<1>3. IsSeq(Append(On(execTraces, k), Rec(t)))
  BY <1>2, PushSeq
<1>4. \/ execTraces' = execTraces
      \/ execTraces' = Put(execTraces, k, Append(On(execTraces, k), Rec(t)))
  BY DEF AddTrace, Same
<1>5. Registered(execTraces')
  BY <1>3, <1>4, Registers
<1> QED BY <1>1, <1>5 DEF IInv

LEMMA RemoveTraceInv ==
  ASSUME NEW base, Good(base, steps, running), Registered(execTraces), NEW t, NEW k, RemoveTrace(base, t, k)
  PROVE  IInv'
<1>1. UNCHANGED <<steps, running>> /\ doing' = base
  BY DEF RemoveTrace, Calm, Answer
<1>2. execTraces' = execTraces \/ execTraces' = Without(execTraces, k, t)
  BY DEF RemoveTrace, Same
<1>3. Registered(Without(execTraces, k, t))
  BY Removes DEF Without
<1> QED BY <1>1, <1>2, <1>3 DEF IInv

(* A command keeps the invariant, whatever is under way when it starts.    *)
LEMMA DoInv ==
  ASSUME NEW base, Good(base, steps, running), Registered(execTraces), NEW c, Do(base, c)
  PROVE  IInv'
<1>1. CASE CallProc(base, c.key)
  BY <1>1, CallProcInv
<1>2. CASE Define(base, c.key)
  <2>1. /\ UNCHANGED <<steps, running>> /\ doing' = base
        /\ execTraces' = execTraces \/ execTraces' = Drop(execTraces, c.key)
    BY <1>2 DEF Define, Calm, Answer
  <2>2. IsSeq(<<>>)
    BY DEF IsSeq
  <2> QED BY <2>1, <2>2, Registers DEF IInv
<1>3. CASE Rename(base, c.key, c.new)
  BY <1>3, RenameInv
<1>4. CASE AddTrace(base, c.trace, c.key)
  BY <1>4, AddTraceInv
<1>5. CASE RemoveTrace(base, c.trace, c.key)
  BY <1>5, RemoveTraceInv
<1>6. CASE Answer(base, "error") /\ Same /\ Calm
  BY <1>6 DEF Answer, Same, Calm, IInv
<1> QED BY <1>1, <1>2, <1>3, <1>4, <1>5, <1>6 DEF Do

LEMMA StepBeginsInv ==
  ASSUME NEW base, Good(base, steps, running), Registered(execTraces), NEW c, StepBegins(base, c)
  PROVE  IInv'
<1> DEFINE p == Last(steps)
           d == Append(base, StepOf(p, All(p), c))
<1>1. doing' = Append(d, Batch(p, All(p), "enterstep")) /\ UNCHANGED <<steps, running, execTraces>>
  BY DEF StepBegins, Answer, Same, Calm
<1>2. IsSeq(<<>>)
  BY DEF IsSeq
<1>3. Plain(StepOf(p, All(p), c))
  BY <1>2, NewThings
<1>4. Good(d, steps, running)
  BY <1>3, PushPlain
<1> HIDE DEF d
<1>5. Good(Append(d, Batch(p, All(p), "enterstep")), steps, running)
  BY <1>4, PushBatch
<1> QED BY <1>1, <1>5 DEF IInv

-----------------------------------------------------------------------------
(* The brackets *)

LEMMA StepTop ==
  ASSUME IInv, ~Idle, Top.kind = "step", NEW x
  PROVE  /\ Good(Front(doing), steps, running)
         /\ Good(InTop([Top EXCEPT !.stage = x]), steps, running)
<1>1. Plain(Top) /\ Plain([Top EXCEPT !.stage = x])
  BY TopGood, StepOnTop
<1> QED BY <1>1, PlainOff, AlterPlain DEF Plain

LEMMA StepEndsInv ==
  IInv /\ StepEnds => IInv'
<1> SUFFICES ASSUME IInv, StepEnds PROVE IInv'
  OBVIOUS
<1>1. /\ ~Idle /\ Top.kind = "step" /\ UNCHANGED <<steps, running, execTraces>>
      /\ Registered(execTraces)
  BY DEF StepEnds, Same, Calm, IInv
<1>2. CASE running > 0 \/ ended = "other"
  <2>1. doing' = Front(doing)
    BY <1>2 DEF StepEnds, Finish
  <2> QED BY <1>1, <2>1, StepTop DEF IInv
<1>3. CASE ~(running > 0 \/ ended = "other")
  <2> DEFINE b == [Top EXCEPT !.stage = ended]
             d == InTop(b)
  <2>1. doing' = Append(d, Batch(Top.key, StillThere(Top.snap), "leavestep"))
    BY <1>3 DEF StepEnds
  <2>2. Good(d, steps, running)
    BY <1>1, StepTop
  <2>3. b.kind = "step" /\ b.snap = Top.snap
    BY <1>1, TopGood, StepOnTop
  <2>4. d # <<>> /\ d[Len(d)] = b
    BY <1>1, InTopTop
  <2> HIDE DEF d, b
  <2>5. d # <<>> /\ d[Len(d)].kind = "step" /\ StillThere(Top.snap) = d[Len(d)].snap
    BY <2>3, <2>4 DEF StillThere
  <2>6. Good(Append(d, Batch(Top.key, StillThere(Top.snap), "leavestep")), steps, running)
    BY <1>1, <2>2, <2>5, PushBatch
  <2> QED BY <1>1, <2>1, <2>6 DEF IInv
<1> QED BY <1>2, <1>3

LEMMA BracketInv ==
  IInv /\ (Bracketed \/ StepOver) => IInv'
<1>1. ASSUME IInv, Bracketed
      PROVE  IInv'
  BY <1>1, StepTop, DoInv DEF Bracketed, IInv
<1>2. ASSUME IInv, StepOver
      PROVE  IInv'
  BY <1>2, StepTop DEF StepOver, Finish, Same, Calm, IInv
<1> QED BY <1>1, <1>2

-----------------------------------------------------------------------------
(* Calls *)

LEMMA CallTop ==
  ASSUME IInv, ~Idle, Top.kind = "call"
  PROVE  /\ Shape(Top) /\ ~Runs(Top) /\ (HasContext(Top) <=> Top.traced /\ Top.stage = "body")
         /\ Top.stage = "enter" => Top.now = Top.key
         /\ HasContext(Top) => steps # <<>>
         /\ Good(Front(doing), IF HasContext(Top) THEN Front(steps) ELSE steps, running)
BY TopGood, CallOnTop

LEMMA OutsideInv ==
  IInv /\ (EnterFails \/ CallOver) => IInv'
<1> SUFFICES ASSUME IInv, EnterFails \/ CallOver PROVE IInv'
  OBVIOUS
<1>1. /\ ~Idle /\ Top.kind = "call" /\ Top.stage # "body"
      /\ doing' = Front(doing) /\ UNCHANGED <<steps, running, execTraces>>
  BY DEF EnterFails, CallOver, Finish, Same, Calm
<1>2. Good(Front(doing), steps, running)
  BY <1>1, CallTop
<1> QED BY <1>1, <1>2 DEF IInv

LEMMA EnteredInv ==
  IInv /\ Entered => IInv'
<1> SUFFICES ASSUME IInv, Entered PROVE IInv'
  OBVIOUS
<1> DEFINE b == [Top EXCEPT !.stage = "body"]
<1>1. /\ ~Idle /\ Top.kind = "call" /\ Top.stage = "enter"
      /\ doing' = InTop(b) /\ UNCHANGED <<running, execTraces>>
      /\ steps' = IF Top.traced THEN Append(steps, Top.key) ELSE steps
  BY DEF Entered, Same
<1>2. Shape(Top) /\ ~Runs(Top) /\ ~HasContext(Top) /\ Top.now = Top.key
  BY <1>1, CallTop
<1>3. Shape(b) /\ ~Runs(b) /\ ~Leaves(b) /\ (HasContext(b) <=> Top.traced) /\ b.now = Top.key
  BY <1>1, <1>2, CallStaged
<1> HIDE DEF b
<1>4. Good(InTop(b), IF HasContext(b) THEN Append(steps, b.now) ELSE steps, running)
  BY <1>1, <1>2, <1>3, AlterGood
<1>5. steps' = IF HasContext(b) THEN Append(steps, b.now) ELSE steps
  BY <1>1, <1>3
<1> QED BY <1>1, <1>4, <1>5 DEF IInv

LEMMA TailCallInv ==
  ASSUME IInv, NEW k, TailCall(k)
  PROVE  IInv'
<1> DEFINE b == [Top EXCEPT !.now = k]
<1>1. /\ ~Idle /\ Top.kind = "call" /\ Top.stage = "body"
      /\ doing' = InTop(b) /\ UNCHANGED <<running, execTraces>>
      /\ steps' = IF Retargets /\ steps # <<>> THEN [steps EXCEPT ![Len(steps)] = k] ELSE steps
  BY DEF TailCall, Same
<1>2. /\ Shape(Top) /\ ~Runs(Top) /\ (HasContext(Top) <=> Top.traced)
      /\ HasContext(Top) => steps # <<>>
  BY <1>1, CallTop
<1>3. Shape(b) /\ ~Runs(b) /\ ~Leaves(b) /\ (HasContext(b) <=> HasContext(Top)) /\ b.now = k
  BY <1>1, <1>2, CallRetargeted
<1> HIDE DEF b
<1>4. Good(InTop(b), IF HasContext(Top) THEN Append(Front(steps), k) ELSE steps, running)
  BY <1>1, <1>2, <1>3, AlterGood
<1>5. steps' = IF HasContext(Top) THEN Append(Front(steps), k) ELSE steps
  <2>1. IsSeq(steps)
    BY <1>1, TopGood
  <2>2. steps # <<>> => [steps EXCEPT ![Len(steps)] = k] = Append(Front(steps), k)
    BY <2>1, AlterSeq
  <2> QED BY <1>1, <1>2, <2>2 DEF Retargets
<1> QED BY <1>1, <1>4, <1>5 DEF IInv

LEMMA BodyEndsInv ==
  ASSUME IInv, NEW r \in {"ok", "error", "other"}, BodyEnds(r)
  PROVE  IInv'
<1> DEFINE b == [Top EXCEPT !.stage = r]
           d == InTop(b)
<1>1. /\ ~Idle /\ Top.kind = "call" /\ Top.stage = "body" /\ UNCHANGED <<running, execTraces>>
      /\ steps' = IF Top.traced THEN Front(steps) ELSE steps
      /\ doing' = Front(doing) \/ doing' = Append(d, Batch(Top.key, All(Top.key), "leave"))
  BY DEF BodyEnds, Same, Finish
<1>2. Shape(Top) /\ ~Runs(Top) /\ (HasContext(Top) <=> Top.traced)
  BY <1>1, CallTop
<1>3. steps' = IF HasContext(Top) THEN Front(steps) ELSE steps
  BY <1>1, <1>2
<1>4. Shape(b) /\ ~Runs(b) /\ ~Leaves(b) /\ ~HasContext(b)
  BY <1>1, <1>2, CallStaged
<1> HIDE DEF b
<1>5. Good(d, IF HasContext(Top) THEN Front(steps) ELSE steps, running)
  BY <1>1, <1>2, <1>4, AlterGood
<1>6. Good(Front(doing), IF HasContext(Top) THEN Front(steps) ELSE steps, running)
  BY <1>1, CallTop
<1> HIDE DEF d
<1>7. Registered(execTraces)
  BY DEF IInv
<1>8. Good(d, steps', running) /\ Good(Front(doing), steps', running)
  BY <1>3, <1>5, <1>6
<1>9. Good(Append(d, Batch(Top.key, All(Top.key), "leave")), steps', running)
  BY <1>7, <1>8, PushBatch
<1> QED BY <1>1, <1>7, <1>8, <1>9 DEF IInv

-----------------------------------------------------------------------------
(* Callbacks *)

LEMMA ExecCallbackInv ==
  IInv /\ ExecCallback => IInv'
<1> SUFFICES ASSUME IInv, ExecCallback PROVE IInv'
  OBVIOUS
<1> DEFINE b == [Top EXCEPT !.inside = TRUE]
           d == InTop(b)
<1>1. /\ ~Idle /\ Top.kind = "exec" /\ ~Top.inside /\ Top.todo # <<>>
      /\ running' = running + 1 /\ UNCHANGED <<steps, execTraces>>
      /\ doing' = d \/ doing' = Append(d, ScriptOf(Head(Top.todo)))
  BY DEF ExecCallback, Same
<1>2. Shape(Top) /\ ~HasContext(Top) /\ ~Runs(Top)
  BY <1>1, TopGood, ExecOnTop
<1>3. Shape(b) /\ Runs(b) /\ ~HasContext(b) /\ (Leaves(b) <=> Leaves(Top)) /\ b.todo = Top.todo
  BY <1>1, <1>2, ExecStarted
<1> HIDE DEF b
<1>4. Good(d, steps, running + 1)
  BY <1>1, <1>2, <1>3, AlterGood
<1> HIDE DEF d
<1>5. Good(Append(d, ScriptOf(Head(Top.todo))), steps, running + 1)
  BY <1>4, OthersPlain, PushPlain
<1> QED BY <1>1, <1>4, <1>5 DEF IInv

LEMMA ExecReturnsInv ==
  IInv /\ ExecReturns => IInv'
<1> SUFFICES ASSUME IInv, ExecReturns PROVE IInv'
  OBVIOUS
<1> DEFINE b == ExecOf(Top.key, Top.op, Tail(Top.todo))
           gone == {t \in Range(execTraces[Top.key]) : t.id = Head(Top.todo).id}
<1>1. /\ ~Idle /\ Top.kind = "exec" /\ Top.inside
      /\ running' = running - 1 /\ UNCHANGED steps
      /\ doing' = Front(doing) \/ doing' = InTop(b)
  BY DEF ExecReturns, Fewer, Finish
<1>2. /\ Shape(Top) /\ ~HasContext(Top) /\ Runs(Top) /\ IsSeq(Top.todo) /\ Top.todo # <<>>
      /\ Leaves(Top) <=> Top.op = "leavestep"
  BY <1>1, TopGood, ExecOnTop
<1>3. IsSeq(Tail(Top.todo)) /\ IdsOf(Tail(Top.todo)) \subseteq IdsOf(Top.todo)
  BY <1>2, TailIds
<1>4. /\ Shape(b) /\ ~Runs(b) /\ ~HasContext(b)
      /\ (Leaves(b) <=> Top.op = "leavestep") /\ b.todo = Tail(Top.todo)
  BY <1>3, NewThings
<1> HIDE DEF b
<1>5. Good(InTop(b), steps, running - 1)
  BY <1>1, <1>2, <1>3, <1>4, AlterGood
<1>6. Good(Front(doing), steps, running - 1)
  BY <1>1, <1>2, TopGood
<1>7. Registered(execTraces')
  <2>1. \/ execTraces' = execTraces
        \/ /\ Top.key \in DOMAIN execTraces
           /\ execTraces' = [execTraces EXCEPT ![Top.key] = Dropped(execTraces[Top.key], gone)]
    BY DEF ExecReturns
  <2> HIDE DEF gone
  <2> QED BY <2>1, Removes DEF IInv
<1> QED BY <1>1, <1>5, <1>6, <1>7 DEF IInv

LEMMA CmdCallbackInv ==
  IInv /\ (CmdCallback \/ CmdOver \/ ExecOver) => IInv'
<1> SUFFICES ASSUME IInv, CmdCallback \/ CmdOver \/ ExecOver PROVE IInv'
  OBVIOUS
<1>0. UNCHANGED <<steps, running, execTraces>> /\ Registered(execTraces)
  BY DEF CmdCallback, CmdOver, ExecOver, Same, Calm, IInv
<1>1. CASE CmdCallback
  <2> DEFINE b == [Top EXCEPT !.todo = Tail(Top.todo)]
             d == InTop(b)
  <2>1. ~Idle /\ Top.kind = "cmd" /\ (doing' = d \/ doing' = Append(d, ScriptOf(Head(Top.todo))))
    BY <1>1 DEF CmdCallback, Answer
  <2>2. Plain(Top) /\ Plain(b)
    BY <2>1, TopGood, CmdOnTop
  <2> HIDE DEF b
  <2>3. Good(d, steps, running)
    BY <2>1, <2>2, AlterPlain DEF Plain
  <2> HIDE DEF d
  <2>4. Good(Append(d, ScriptOf(Head(Top.todo))), steps, running)
    BY <2>3, OthersPlain, PushPlain
  <2> QED BY <1>0, <2>1, <2>3, <2>4 DEF IInv
<1>2. CASE CmdOver \/ ExecOver
  <2>1. /\ ~Idle /\ doing' = Front(doing)
        /\ Top.kind = "cmd" \/ (Top.kind = "exec" /\ ~Top.inside)
    BY <1>2 DEF CmdOver, ExecOver, Finish
  <2>2. ~HasContext(Top) /\ ~Runs(Top)
    BY <2>1, TopGood, CmdOnTop, ExecOnTop DEF Plain
  <2>3. Good(Front(doing), steps, running)
    BY <2>1, <2>2, PlainOff
  <2> QED BY <1>0, <2>1, <2>3 DEF IInv
<1> QED BY <1>1, <1>2

LEMMA CallbackInv ==
  IInv /\ Callback => IInv'
<1> SUFFICES ASSUME IInv, Callback PROVE IInv'
  OBVIOUS
<1>1. ~Idle /\ Top.kind = "script" /\ Registered(execTraces)
  BY DEF Callback, IInv
<1>2. ~HasContext(Top) /\ ~Runs(Top)
  BY <1>1, TopGood, ScriptOnTop DEF Plain
<1>3. Good(Front(doing), steps, running)
  BY <1>1, <1>2, PlainOff
<1> QED BY <1>1, <1>3, DoInv, StepBeginsInv DEF Callback

-----------------------------------------------------------------------------
LEMMA FreshInv ==
  Fresh => IInv
<1> SUFFICES ASSUME Fresh PROVE IInv
  OBVIOUS
<1>1. doing = <<>> /\ steps = <<>> /\ running = 0 /\ execTraces = <<>>
  BY DEF Fresh
<1>2. IsSeq(<<>>) /\ DOMAIN doing = {} /\ DOMAIN execTraces = {} /\ Len(steps) = 0
  BY <1>1 DEF IsSeq
<1>3. TracedIn(doing) = {} /\ RunsIn(doing) = {}
  BY <1>2 DEF TracedIn, RunsIn
<1>4. Cardinality({}) = 0
  BY FS_EmptySet
<1> QED BY <1>1, <1>2, <1>3, <1>4 DEF IInv, Good, Context, Paired, Registered

LEMMA StepInv ==
  IInv /\ [Next]_vars => IInv'
<1> SUFFICES ASSUME IInv, [Next]_vars PROVE IInv'
  OBVIOUS
<1>1. CASE UNCHANGED vars
  BY <1>1 DEF vars, IInv
<1>2. CASE Command
  <2>1. Good(doing, steps, running) /\ Registered(execTraces)
    BY DEF IInv
  <2> QED BY <1>2, <2>1, DoInv, StepBeginsInv DEF Command
<1>3. CASE Continue
  BY <1>3, BracketInv, StepEndsInv, OutsideInv, EnteredInv, ExecCallbackInv, ExecReturnsInv,
     CmdCallbackInv, CallbackInv DEF Continue
<1>4. CASE \E k \in Keys : TailCall(k)
  BY <1>4, TailCallInv
<1>5. CASE \E r \in {"ok", "error", "other"} : BodyEnds(r)
  BY <1>5, BodyEndsInv
<1> QED BY <1>1, <1>2, <1>3, <1>4, <1>5 DEF Next, Ends

LEMMA InvContext == IInv => StepContext
<1>1. Traced = TracedIn(doing)
  BY DEF Traced, TracedIn, HasContext
<1> QED BY <1>1 DEF IInv, Good, Context, StepContext

LEMMA InvPairs == IInv => LeaveStepPairs
BY DEF IInv, Good, Paired, Leaves, Pairs, LeaveStepPairs

(* The stack, the contexts and the counter go together at every step.      *)
THEOREM Invariant == Spec => []IInv
BY FreshInv, StepInv, PTL DEF Spec, Init

(* The stack of contexts is the traced calls under way, in order, each     *)
(* with the proc it has come to through tail calls, whatever traces are    *)
(* added, removed, renamed or fail meanwhile (exec_step_stack).            *)
THEOREM ContextsMatchCalls == Spec => []StepContext
BY Invariant, InvContext, PTL

(* A leavestep callback is of a record that was there when the command     *)
(* began, whatever the scripts in between did (exec_step_end).             *)
THEOREM LeaveStepsArePaired == Spec => []LeaveStepPairs
BY Invariant, InvPairs, PTL

(* exec_step_running comes back to zero exactly when no callback of an     *)
(* execution trace runs, whichever way callbacks and batches end.          *)
THEOREM CallbacksAreCounted == Spec => []RunningCounts
<1>1. IInv => RunningCounts
  <2>1. Inside = RunsIn(doing)
    BY DEF Inside, RunsIn, Runs
  <2> QED BY <2>1 DEF IInv, Good, RunningCounts
<1> QED BY <1>1, Invariant, PTL
=============================================================================
