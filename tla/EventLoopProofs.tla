-------------------------- MODULE EventLoopProofs ---------------------------
(***************************************************************************)
(* Events run once, and update, vwait and its sleeping keep what they      *)
(* promise, for any events, delays, loops inside loops and commands.       *)
(***************************************************************************)
EXTENDS EventLoop, SequenceLemmas

-----------------------------------------------------------------------------
(* The inductive invariant *)

Pending(q) == /\ q \in Seq(Event)
              /\ \A i, j \in DOMAIN q : q[i].id = q[j].id => i = j

(* What a loop knows of the events and of the variable: update was owed    *)
(* events that are due still, all of them reached by the round it is in    *)
(* until the round runs one; the variable of vwait has the value it began  *)
(* with until it is touched.                                               *)
Knows(l, q, v) ==
  /\ l.reached \cup l.owed \subseteq IdsOf(q)
  /\ l.kind \in {"update", "pump"} => l.owed \subseteq Due(q)
  /\ l.kind \in {"update", "pump"} /\ ~l.fired => l.owed \subseteq l.reached
  /\ l.kind = "idletasks" => l.owed \subseteq Idle(q)
  /\ ~l.touched => v = l.initial

(* The loops below the top one are inside scripts of their own.            *)
Nested(ls) ==
  /\ \A i \in DOMAIN ls : i < Len(ls) => ls[i].running # None
  /\ \A i, j \in DOMAIN ls : i # j /\ ls[i].running # None => ls[i].running # ls[j].running

LoopsOK(ls, q, v) ==
  /\ ls \in Seq(Loop) /\ Nested(ls)
  /\ \A i \in DOMAIN ls : Knows(ls[i], q, v) /\ ls[i].running \notin IdsOf(q)

IInv == /\ Pending(queue) /\ LoopsOK(loops, queue, var)
        /\ var \in Vals \cup {Unset} /\ work \in Nat /\ canSleep \in BOOLEAN

-----------------------------------------------------------------------------
(* What is left is the elements that are not gone, in their order.         *)
LEMMA DroppedSeq ==
  ASSUME NEW S, NEW s \in Seq(S), NEW gone
  PROVE  Dropped(s, gone) \in Seq(S) /\ Left(Dropped(s, gone), s, gone, Len(s))
<1>1. Dropped(s, gone) = Filtered(s, gone)
  BY DEF Dropped, Filtered
<1> QED BY <1>1, FilteredSeq

-----------------------------------------------------------------------------
(* Queues *)

(* r is q without the events in gone.                                      *)
Shrinks(q, r, gone) ==
  /\ Pending(r) /\ IdsOf(r) = IdsOf(q) \ gone
  /\ Due(r) = Due(q) \ gone /\ Idle(r) = Idle(q) \ gone

(* r is q later, with the events in new.                                   *)
Grows(q, r, new) ==
  /\ Pending(r) /\ IdsOf(r) = IdsOf(q) \cup new
  /\ Due(q) \subseteq Due(r) /\ Idle(q) \subseteq Idle(r)

LEMMA QueueIds ==
  ASSUME NEW q, Pending(q)
  PROVE  /\ Len(q) \in Nat /\ DOMAIN q = 1 .. Len(q)
         /\ \A i \in 1 .. Len(q) : q[i] \in Event /\ q[i].id \in Ids
                                   /\ q[i].left \in 0 .. MaxDelay /\ q[i].idle \in BOOLEAN
         /\ IdsOf(q) \subseteq Ids /\ Due(q) \subseteq IdsOf(q) /\ Idle(q) \subseteq IdsOf(q)
<1>1. Len(q) \in Nat /\ DOMAIN q = 1 .. Len(q) /\ \A i \in 1 .. Len(q) : q[i] \in Event
  BY DEF Pending
<1>2. \A i \in 1 .. Len(q) : q[i].id \in Ids /\ q[i].left \in 0 .. MaxDelay /\ q[i].idle \in BOOLEAN
  BY <1>1 DEF Event
<1> QED BY <1>1, <1>2 DEF IdsOf, Due, Idle

LEMMA Appended ==
  ASSUME NEW q, Pending(q), NEW e \in Event, e.id \notin IdsOf(q)
  PROVE  Grows(q, Append(q, e), {e.id}) /\ Len(Append(q, e)) = Len(q) + 1
<1> DEFINE r == Append(q, e)
<1>1. q \in Seq(Event) /\ Len(q) \in Nat /\ DOMAIN q = 1 .. Len(q)
  BY QueueIds DEF Pending
<1>2. /\ r \in Seq(Event) /\ Len(r) = Len(q) + 1 /\ DOMAIN r = 1 .. Len(q) + 1
      /\ \A i \in 1 .. Len(q) : r[i] = q[i]
      /\ r[Len(q) + 1] = e
  BY <1>1
<1> HIDE DEF r
<1>3. \A i, j \in DOMAIN r : r[i].id = r[j].id => i = j
  <2>1. \A i \in 1 .. Len(q) : r[i].id # r[Len(q) + 1].id
    BY <1>1, <1>2 DEF IdsOf
  <2>2. \A i, j \in 1 .. Len(q) : r[i].id = r[j].id => i = j
    BY <1>1, <1>2 DEF Pending
  <2>3. \A i \in DOMAIN r : i \in 1 .. Len(q) \/ i = Len(q) + 1
    BY <1>1, <1>2
  <2> QED BY <2>1, <2>2, <2>3
<1>4. IdsOf(r) = IdsOf(q) \cup {e.id}
  <2>1. \A i \in DOMAIN r : i \in 1 .. Len(q) \/ i = Len(q) + 1
    BY <1>1, <1>2
  <2> QED BY <1>1, <1>2, <2>1 DEF IdsOf
<1>5. Due(q) \subseteq Due(r) /\ Idle(q) \subseteq Idle(r)
  BY <1>1, <1>2 DEF Due, Idle
<1> QED BY <1>2, <1>3, <1>4, <1>5 DEF Grows, Pending, r

(* r is made of the elements of q that are not in gone, each in a place p. *)
Thinned(q, r, gone, p) ==
  /\ p \in [1 .. Len(r) -> 1 .. Len(q)]
  /\ \A i, j \in 1 .. Len(r) : p[i] = p[j] => i = j
  /\ \A i \in 1 .. Len(r) : r[i] = q[p[i]] /\ q[p[i]].id \notin gone
  /\ \A j \in 1 .. Len(q) : q[j].id \notin gone => \E i \in 1 .. Len(r) : p[i] = j

LEMMA Lacking ==
  ASSUME NEW q, Pending(q), NEW r \in Seq(Event), NEW gone, NEW p, Thinned(q, r, gone, p)
  PROVE  Shrinks(q, r, gone)
<1>1. DOMAIN q = 1 .. Len(q) /\ DOMAIN r = 1 .. Len(r)
  BY QueueIds
<1>2. \A i \in 1 .. Len(r) : /\ p[i] \in 1 .. Len(q)
                             /\ r[i] = q[p[i]] /\ q[p[i]].id \notin gone
  BY DEF Thinned
<1>3. \A j \in 1 .. Len(q) : q[j].id \notin gone => \E i \in 1 .. Len(r) : p[i] = j
  BY DEF Thinned
<1>4. Pending(r)
  <2>1. ASSUME NEW i \in 1 .. Len(r), NEW j \in 1 .. Len(r), r[i].id = r[j].id
        PROVE  i = j
    <3>1. p[i] = p[j]
      BY <1>1, <1>2, <2>1 DEF Pending
    <3> QED BY <3>1 DEF Thinned
  <2> QED BY <1>1, <2>1 DEF Pending
<1>5. IdsOf(r) = IdsOf(q) \ gone
  <2>1. IdsOf(r) \subseteq IdsOf(q) \ gone
    BY <1>1, <1>2 DEF IdsOf
  <2>2. IdsOf(q) \ gone \subseteq IdsOf(r)
    BY <1>1, <1>2, <1>3 DEF IdsOf
  <2> QED BY <2>1, <2>2
<1>6. Due(r) = Due(q) \ gone
  <2>1. Due(r) \subseteq Due(q) \ gone
    BY <1>1, <1>2 DEF Due
  <2>2. ASSUME NEW x \in Due(q) \ gone
        PROVE  x \in Due(r)
    <3>1. PICK j \in 1 .. Len(q) : q[j].left = 0 /\ q[j].id = x
      BY <1>1 DEF Due
    <3>2. PICK i \in 1 .. Len(r) : p[i] = j
      BY <1>3, <3>1
    <3>3. r[i] = q[j]
      BY <1>2, <3>2
    <3> QED BY <1>1, <3>1, <3>3 DEF Due
  <2> QED BY <2>1, <2>2
<1>7. Idle(r) = Idle(q) \ gone
  <2>1. Idle(r) \subseteq Idle(q) \ gone
    BY <1>1, <1>2 DEF Idle
  <2>2. ASSUME NEW x \in Idle(q) \ gone
        PROVE  x \in Idle(r)
    <3>1. PICK j \in 1 .. Len(q) : q[j].idle /\ q[j].id = x
      BY <1>1 DEF Idle
    <3>2. PICK i \in 1 .. Len(r) : p[i] = j
      BY <1>3, <3>1
    <3>3. r[i] = q[j]
      BY <1>2, <3>2
    <3> QED BY <1>1, <3>1, <3>3 DEF Idle
  <2> QED BY <2>1, <2>2
<1> QED BY <1>4, <1>5, <1>6, <1>7 DEF Shrinks

LEMMA Cancelled ==
  ASSUME NEW q, Pending(q), NEW gone,
         NEW r, r = Dropped(q, {q[i] : i \in {j \in DOMAIN q : q[j].id \in gone}})
  PROVE  /\ Shrinks(q, r, gone)
         /\ gone \cap IdsOf(q) # {} => Len(r) < Len(q)
<1> DEFINE out == {q[i] : i \in {j \in DOMAIN q : q[j].id \in gone}}
<1>1. q \in Seq(Event) /\ DOMAIN q = 1 .. Len(q)
  BY QueueIds DEF Pending
<1>2. \A i \in 1 .. Len(q) : q[i] \in out <=> q[i].id \in gone
  BY <1>1
<1>3. r \in Seq(Event) /\ Left(r, q, out, Len(q))
  <2> HIDE DEF out
  <2>1. r = Dropped(q, out)
    BY DEF out
  <2> QED BY <1>1, <2>1, DroppedSeq
<1> HIDE DEF out
<1>4. PICK p : Placed(r, q, out, Len(q), p)
  BY <1>3 DEF Left
<1>5. Len(r) \in Nat
  BY <1>3
<1>6. /\ p \in [1 .. Len(r) -> 1 .. Len(q)]
      /\ \A i, j \in 1 .. Len(r) : p[i] = p[j] => i = j
  <2>1. p \in [1 .. Len(r) -> 1 .. Len(q)] /\ \A i, j \in 1 .. Len(r) : i < j => p[i] < p[j]
    BY <1>4 DEF Placed
  <2>2. ASSUME NEW i \in 1 .. Len(r), NEW j \in 1 .. Len(r), p[i] = p[j]
        PROVE  i = j
    <3>1. p[i] \in Int /\ ~ (p[i] < p[j]) /\ ~ (p[j] < p[i])
      BY <2>1, <2>2
    <3>2. ~ (i < j) /\ ~ (j < i)
      BY <2>1, <3>1
    <3> QED BY <3>2
  <2> QED BY <2>1, <2>2
<1>7. /\ \A i \in 1 .. Len(r) : r[i] = q[p[i]] /\ q[p[i]].id \notin gone
      /\ \A j \in 1 .. Len(q) : q[j].id \notin gone => \E i \in 1 .. Len(r) : p[i] = j
  BY <1>2, <1>4, <1>6 DEF Placed
<1>8. gone \cap IdsOf(q) # {} => Len(r) < Len(q)
  BY <1>1, <1>2, <1>3 DEF Left, IdsOf
<1>9. Thinned(q, r, gone, p)
  BY <1>6, <1>7 DEF Thinned
<1> QED BY <1>3, <1>8, <1>9, Lacking

LEMMA Removed ==
  ASSUME NEW q, Pending(q), NEW i \in DOMAIN q
  PROVE  Shrinks(q, RemoveAt(q, i), {q[i].id}) /\ Len(RemoveAt(q, i)) < Len(q)
<1> DEFINE r == RemoveAt(q, i)
           p == [k \in 1 .. Len(r) |-> IF k < i THEN k ELSE k + 1]
<1>1. q \in Seq(Event) /\ Len(q) \in Nat /\ i \in 1 .. Len(q)
  BY QueueIds DEF Pending
<1>2. /\ r \in Seq(Event) /\ Len(r) = Len(q) - 1
      /\ \A k \in 1 .. Len(q) - 1 : r[k] = IF k < i THEN q[k] ELSE q[k + 1]
  BY <1>1, RemoveAtSeq
<1> HIDE DEF r
<1>3. /\ p \in [1 .. Len(r) -> 1 .. Len(q)]
      /\ \A k \in 1 .. Len(r) : r[k] = q[p[k]] /\ p[k] # i
      /\ \A k, m \in 1 .. Len(r) : p[k] = p[m] => k = m
  BY <1>1, <1>2
<1>4. \A j \in 1 .. Len(q) : j # i => \E k \in 1 .. Len(r) : p[k] = j
  <2>1. ASSUME NEW j \in 1 .. Len(q), j # i
        PROVE  \E k \in 1 .. Len(r) : p[k] = j
    <3>1. CASE j < i
      <4>1. j \in 1 .. Len(r) /\ p[j] = j
        BY <1>1, <1>2, <3>1
      <4> QED BY <4>1
    <3>2. CASE ~ (j < i)
      <4>1. j - 1 \in 1 .. Len(r) /\ ~ (j - 1 < i)
        BY <1>1, <1>2, <2>1, <3>2
      <4>2. p[j - 1] = j
        BY <4>1
      <4> QED BY <4>1, <4>2
    <3> QED BY <3>1, <3>2
  <2> QED BY <2>1
<1> HIDE DEF p
<1>5. \A j \in 1 .. Len(q) : q[j].id \notin {q[i].id} <=> j # i
  BY <1>1 DEF Pending
<1>6. /\ \A k \in 1 .. Len(r) : r[k] = q[p[k]] /\ q[p[k]].id \notin {q[i].id}
      /\ \A j \in 1 .. Len(q) : q[j].id \notin {q[i].id} => \E k \in 1 .. Len(r) : p[k] = j
  BY <1>3, <1>4, <1>5
<1>7. Shrinks(q, r, {q[i].id})
  <2>1. Thinned(q, r, {q[i].id}, p)
    BY <1>3, <1>6 DEF Thinned
  <2> QED BY <1>2, <2>1, Lacking
<1> QED BY <1>1, <1>2, <1>7 DEF r

LEMMA Later ==
  ASSUME NEW q, Pending(q), NEW n \in Nat
  PROVE  Grows(q, Passed(q, n), {}) /\ Len(Passed(q, n)) = Len(q)
<1> DEFINE r == Passed(q, n)
<1>1. Len(q) \in Nat /\ DOMAIN q = 1 .. Len(q) /\ \A i \in 1 .. Len(q) : q[i] \in Event
  BY QueueIds
<1>2. \A i \in 1 .. Len(q) : r[i] = [q[i] EXCEPT !.left = IF @ <= n THEN 0 ELSE @ - n]
  BY <1>1 DEF Passed
<1> HIDE DEF r
<1>3. ASSUME NEW i \in 1 .. Len(q)
      PROVE  /\ r[i] \in Event /\ r[i].id = q[i].id /\ r[i].idle = q[i].idle
             /\ q[i].left = 0 => r[i].left = 0
  <2> DEFINE left == IF q[i].left <= n THEN 0 ELSE q[i].left - n
  <2>1. q[i] \in Event /\ q[i].left \in 0 .. MaxDelay /\ MaxDelay \in Nat
    BY <1>1, EventLoopAssumption DEF Event
  <2>2. left \in 0 .. MaxDelay /\ (q[i].left = 0 => left = 0)
    BY <2>1
  <2>3. r[i] = [q[i] EXCEPT !.left = left]
    BY <1>2
  <2> HIDE DEF left
  <2> QED BY <2>1, <2>2, <2>3 DEF Event
<1>4. DOMAIN r = 1 .. Len(q) /\ r = [i \in 1 .. Len(q) |-> r[i]]
  BY <1>1 DEF Passed, r
<1>5. r \in Seq(Event) /\ Len(r) = Len(q)
  BY <1>1, <1>3, <1>4
<1>6. IdsOf(r) = IdsOf(q) /\ Due(q) \subseteq Due(r) /\ Idle(q) \subseteq Idle(r)
  <2> HIDE DEF r
  <2>1. IdsOf(r) = IdsOf(q)
    BY <1>1, <1>3, <1>4 DEF IdsOf
  <2>2. Due(q) \subseteq Due(r)
    BY <1>1, <1>3, <1>4 DEF Due
  <2>3. Idle(q) \subseteq Idle(r)
    <3>1. ASSUME NEW x \in Idle(q)
          PROVE  x \in Idle(r)
      <4>1. PICK i \in 1 .. Len(q) : q[i].idle /\ q[i].id = x
        BY <1>1 DEF Idle
      <4>2. r[i].idle /\ r[i].id = x /\ i \in DOMAIN r
        BY <1>3, <1>4, <4>1
      <4> QED BY <4>2 DEF Idle
    <3> QED BY <3>1
  <2> QED BY <2>1, <2>2, <2>3
<1>7. Pending(r)
  BY <1>1, <1>3, <1>4, <1>5 DEF Pending
<1> QED BY <1>5, <1>6, <1>7 DEF Grows, r

-----------------------------------------------------------------------------
(* Loops *)

LEMMA LoopFields ==
  ASSUME NEW l \in Loop
  PROVE  /\ l.kind \in Kinds /\ l.initial \in Vals \cup {Unset} /\ l.running \in Ids \cup {None}
         /\ l.fired \in BOOLEAN /\ l.fresh \in BOOLEAN /\ l.touched \in BOOLEAN
         /\ l.reached \subseteq Ids /\ l.owed \subseteq Ids
BY DEF Loop

LEMMA LoopsAre ==
  ASSUME NEW ls, NEW q, NEW v, LoopsOK(ls, q, v)
  PROVE  /\ Len(ls) \in Nat /\ DOMAIN ls = 1 .. Len(ls)
         /\ ls # <<>> => Len(ls) \in 1 .. Len(ls)
         /\ \A i \in 1 .. Len(ls) : ls[i] \in Loop /\ Knows(ls[i], q, v) /\ ls[i].running \notin IdsOf(q)
BY DEF LoopsOK

(* Loops that change in place.                                             *)
LEMMA InPlace ==
  ASSUME NEW ls, NEW q, NEW v, LoopsOK(ls, q, v), NEW ms, NEW r, NEW w,
         ms = [i \in 1 .. Len(ls) |-> ms[i]],
         \A i \in 1 .. Len(ls) : ms[i] \in Loop /\ Knows(ms[i], r, w) /\ ms[i].running \notin IdsOf(r),
         \A i \in 1 .. Len(ls) : i < Len(ls) => ms[i].running = ls[i].running,
         \/ ls = <<>>
         \/ ms[Len(ls)].running \in {None, ls[Len(ls)].running}
         \/ \A i \in 1 .. Len(ls) : ls[i].running # ms[Len(ls)].running
  PROVE  LoopsOK(ms, r, w) /\ Len(ms) = Len(ls)
<1>1. Len(ls) \in Nat /\ DOMAIN ls = 1 .. Len(ls) /\ Nested(ls)
  BY LoopsAre DEF LoopsOK
<1>2. ms \in Seq(Loop) /\ Len(ms) = Len(ls) /\ DOMAIN ms = 1 .. Len(ls)
  BY <1>1
<1>3. Nested(ms)
  <2>1. \A i \in DOMAIN ms : i < Len(ms) => ms[i].running # None
    BY <1>1, <1>2 DEF Nested
  <2>2. ASSUME NEW i \in 1 .. Len(ls), NEW j \in 1 .. Len(ls), i # j, ms[i].running # None
        PROVE  ms[i].running # ms[j].running
    <3>1. ls[i].running # None => ls[i].running # ls[j].running
      BY <1>1, <2>2 DEF Nested
    <3>2. ls[j].running # None => ls[j].running # ls[i].running
      BY <1>1, <2>2 DEF Nested
    <3>3. i < Len(ls) => ls[i].running # None /\ ms[i].running = ls[i].running
      BY <1>1 DEF Nested
    <3>4. j < Len(ls) => ls[j].running # None /\ ms[j].running = ls[j].running
      BY <1>1 DEF Nested
    <3>5. CASE i < Len(ls) /\ j < Len(ls)
      BY <3>1, <3>3, <3>4, <3>5
    <3>6. CASE i < Len(ls) /\ j = Len(ls)
      BY <3>1, <3>3, <3>6, <2>2
    <3>7. CASE i = Len(ls) /\ j < Len(ls)
      BY <3>2, <3>4, <3>7, <2>2
    <3>8. ls # <<>>
      BY <1>1
    <3> QED BY <1>1, <2>2, <3>5, <3>6, <3>7, <3>8
  <2> QED BY <1>2, <2>1, <2>2 DEF Nested
<1> QED BY <1>2, <1>3 DEF LoopsOK

(* What a loop knows stays true.                                           *)
LEMMA KnowsMore ==
  ASSUME NEW l \in Loop, NEW q, NEW r, NEW new, NEW v, Knows(l, q, v), Grows(q, r, new)
  PROVE  Knows(l, r, v)
BY DEF Knows, Grows

Unaware(l, gone) == [l EXCEPT !.owed = @ \ gone, !.reached = @ \ gone]

LEMMA KnowsLess ==
  ASSUME NEW l \in Loop, NEW q, NEW r, NEW gone, NEW v, Knows(l, q, v), Shrinks(q, r, gone)
  PROVE  /\ Unaware(l, gone) \in Loop /\ Knows(Unaware(l, gone), r, v)
         /\ Unaware(l, gone).running = l.running
<1> DEFINE m == Unaware(l, gone)
<1>1. /\ m \in Loop /\ m.owed = l.owed \ gone /\ m.reached = l.reached \ gone
      /\ m.kind = l.kind /\ m.fired = l.fired /\ m.touched = l.touched /\ m.initial = l.initial
      /\ m.running = l.running
  BY DEF Loop, Unaware
<1> HIDE DEF m
<1>2. Knows(m, r, v)
  BY <1>1 DEF Knows, Shrinks
<1> QED BY <1>1, <1>2 DEF m

LEMMA NewRound ==
  ASSUME NEW l \in Loop, NEW q, Pending(q), NEW v, Knows(l, q, v)
  PROVE  Round(l, q) \in Loop /\ Knows(Round(l, q), q, v) /\ Round(l, q).running = l.running
<1> DEFINE m == [l EXCEPT !.fired = FALSE, !.fresh = TRUE, !.reached = Due(q)]
<1>1. Due(q) \subseteq Ids /\ Due(q) \subseteq IdsOf(q)
  BY QueueIds
<1>2. /\ m \in Loop /\ m.owed = l.owed /\ m.reached = Due(q)
      /\ m.kind = l.kind /\ m.touched = l.touched /\ m.initial = l.initial
      /\ m.running = l.running
  BY <1>1 DEF Loop
<1> HIDE DEF m
<1>3. Knows(m, q, v)
  BY <1>1, <1>2 DEF Knows
<1> QED BY <1>2, <1>3 DEF m, Round

-----------------------------------------------------------------------------
(* The steps *)

LEMMA FreshId ==
  ASSUME IInv, Ids \ (IdsOf(queue) \cup Running) # {}
  PROVE  NextId \in Ids /\ NextId \notin IdsOf(queue) /\ NextId \notin Running
<1> DEFINE unused == Ids \ (IdsOf(queue) \cup Running)
<1>1. \E n \in unused : \A m \in unused : n <= m
  <2>1. unused \subseteq Nat
    BY EventLoopAssumption
  <2> HIDE DEF unused
  <2> QED BY <2>1, LeastNatural DEF unused
<1>2. NextId \in unused
  <2>1. NextId = CHOOSE i \in unused : \A j \in unused : i <= j
    BY DEF NextId
  <2> HIDE DEF unused
  <2> QED BY <1>1, <2>1
<1> QED BY <1>2

LEMMA ScheduleInv ==
  ASSUME IInv, NEW delay \in 0 .. MaxDelay, NEW script \in Scripts, NEW idle \in BOOLEAN,
         Schedule(delay, script, idle), UNCHANGED <<var, canSleep>>, work' \in Nat
  PROVE  IInv' /\ Len(queue') # Len(queue) /\ Len(loops') = Len(loops)
<1> DEFINE e == [id |-> NextId, script |-> script, idle |-> idle, left |-> delay]
<1>1. NextId \in Ids /\ NextId \notin IdsOf(queue) /\ NextId \notin Running
  BY FreshId DEF Schedule
<1>2. e \in Event /\ e.id = NextId /\ queue' = Append(queue, e) /\ (delay = 0 => e.left = 0)
  BY <1>1 DEF Event, Schedule
<1> HIDE DEF e
<1>3. Grows(queue, queue', {NextId}) /\ Len(queue') = Len(queue) + 1
  BY <1>1, <1>2, Appended DEF IInv
<1>4. LoopsOK(loops, queue, var)
  BY DEF IInv
<1>5. loops' = [i \in 1 .. Len(loops) |-> loops'[i]]
  BY <1>4, LoopsAre DEF Schedule
<1>6. ASSUME NEW i \in 1 .. Len(loops)
      PROVE  /\ loops'[i] \in Loop /\ Knows(loops'[i], queue', var)
             /\ loops'[i].running = loops[i].running
             /\ loops'[i].running \notin IdsOf(queue')
  <2>1. loops[i] \in Loop /\ Knows(loops[i], queue, var) /\ loops[i].running \notin IdsOf(queue)
    BY <1>4, LoopsAre
  <2>2. loops[i].running # NextId
    BY <1>1, <1>4, LoopsAre, EventLoopAssumption DEF Running
  <2>3. Knows(loops[i], queue', var)
    BY <1>3, <2>1, KnowsMore
  <2>4. loops[i].running \notin IdsOf(queue')
    BY <1>3, <2>1, <2>2 DEF Grows
  <2>5. \/ loops'[i] = loops[i]
        \/ loops'[i] = [loops[i] EXCEPT !.reached = @ \cup {NextId}]
    BY <1>4, LoopsAre DEF Schedule
  <2>6. CASE loops'[i] = loops[i]
    BY <2>1, <2>3, <2>4, <2>6
  <2>7. CASE loops'[i] = [loops[i] EXCEPT !.reached = @ \cup {NextId}]
    <3> DEFINE m == loops'[i]
               l == loops[i]
    <3>1. /\ m \in Loop /\ m.owed = l.owed /\ m.reached = l.reached \cup {NextId}
          /\ m.kind = l.kind /\ m.fired = l.fired /\ m.touched = l.touched
          /\ m.initial = l.initial /\ m.running = l.running
      BY <1>1, <2>1, <2>7 DEF Loop
    <3>2. NextId \in IdsOf(queue')
      BY <1>3 DEF Grows
    <3>3. Knows(l, queue', var)
      BY <2>3
    <3> HIDE DEF m, l
    <3>4. Knows(m, queue', var)
      BY <3>1, <3>2, <3>3 DEF Knows
    <3> QED BY <2>4, <3>1, <3>4 DEF m, l
  <2> QED BY <2>5, <2>6, <2>7
<1>7. LoopsOK(loops', queue', var) /\ Len(loops') = Len(loops)
  <2>1. loops = <<>> \/ loops'[Len(loops)].running \in {None, loops[Len(loops)].running}
    BY <1>4, <1>6, LoopsAre
  <2> QED BY <1>4, <1>5, <1>6, <2>1, InPlace
<1>8. Len(queue) \in Nat
  BY QueueIds DEF IInv
<1> QED BY <1>3, <1>7, <1>8 DEF IInv, Grows

LEMMA ForgetOK ==
  ASSUME NEW ls, NEW q, NEW v, LoopsOK(ls, q, v), NEW r, NEW gone, Shrinks(q, r, gone)
  PROVE  LoopsOK(Forget(ls, gone), r, v) /\ Len(Forget(ls, gone)) = Len(ls)
<1> DEFINE ms == Forget(ls, gone)
<1>1. ms = [i \in 1 .. Len(ls) |-> Unaware(ls[i], gone)]
  BY LoopsAre DEF Forget, Unaware
<1>2. ASSUME NEW i \in 1 .. Len(ls)
      PROVE  /\ ms[i] \in Loop /\ Knows(ms[i], r, v) /\ ms[i].running = ls[i].running
             /\ ms[i].running \notin IdsOf(r)
  <2>1. ls[i] \in Loop /\ Knows(ls[i], q, v) /\ ls[i].running \notin IdsOf(q)
    BY LoopsAre
  <2>2. ms[i] = Unaware(ls[i], gone)
    BY <1>1
  <2> HIDE DEF ms
  <2>3. ms[i] \in Loop /\ Knows(ms[i], r, v) /\ ms[i].running = ls[i].running
    BY <2>1, <2>2, KnowsLess
  <2> QED BY <2>1, <2>3 DEF Shrinks
<1>3. ms = [i \in 1 .. Len(ls) |-> ms[i]]
  BY <1>1
<1> HIDE DEF ms
<1>4. ls = <<>> \/ ms[Len(ls)].running \in {None, ls[Len(ls)].running}
  BY <1>2, LoopsAre
<1>5. LoopsOK(ms, r, v) /\ Len(ms) = Len(ls)
  BY <1>2, <1>3, <1>4, InPlace
<1> QED BY <1>5 DEF ms

LEMMA CancelInv ==
  ASSUME IInv, NEW doomed, CancelAll(doomed), doomed \subseteq IdsOf(queue)
  PROVE  IInv' /\ Len(queue') # Len(queue) /\ Len(loops') = Len(loops)
<1>1. Pending(queue) /\ LoopsOK(loops, queue, var)
  BY DEF IInv
<1>2. Shrinks(queue, queue', doomed) /\ (doomed \cap IdsOf(queue) # {} => Len(queue') < Len(queue))
  <2>1. queue' = Dropped(queue, {queue[i] : i \in {j \in DOMAIN queue : queue[j].id \in doomed}})
    BY DEF CancelAll
  <2> QED BY <1>1, <2>1, Cancelled
<1>3. LoopsOK(loops', queue', var) /\ Len(loops') = Len(loops)
  BY <1>1, <1>2, ForgetOK DEF CancelAll
<1>4. doomed \cap IdsOf(queue) # {} /\ Len(queue) \in Nat
  BY <1>1, QueueIds DEF CancelAll
<1>5. work' \in Nat /\ UNCHANGED <<var, canSleep>>
  BY DEF IInv, CancelAll, May
<1>6. Len(queue') \in Nat
  BY <1>2 DEF Shrinks, Pending
<1> QED BY <1>2, <1>3, <1>4, <1>5, <1>6 DEF IInv, Shrinks

LEMMA CancelsInv ==
  ASSUME IInv, Cancel
  PROVE  IInv' /\ Len(queue') # Len(queue) /\ Len(loops') = Len(loops)
<1>1. CASE \E id \in IdsOf(queue) : CancelAll({id})
  BY <1>1, CancelInv
<1>2. CASE \E s \in Scripts :
             CancelAll({queue[i].id : i \in {j \in DOMAIN queue : queue[j].script = s}})
  <2>1. PICK s \in Scripts :
          CancelAll({queue[i].id : i \in {j \in DOMAIN queue : queue[j].script = s}})
    BY <1>2
  <2>2. {queue[i].id : i \in {j \in DOMAIN queue : queue[j].script = s}} \subseteq IdsOf(queue)
    BY DEF IdsOf
  <2> QED BY <2>1, <2>2, CancelInv
<1> QED BY <1>1, <1>2 DEF Cancel

(* A loop that differs only in whether it is fresh or touched.             *)
LEMMA SetVarInv ==
  ASSUME IInv, NEW v \in Vals \cup {Unset}, SetVar(v)
  PROVE  IInv' /\ queue' = queue /\ Len(loops') = Len(loops)
<1>1. Pending(queue) /\ LoopsOK(loops, queue, var)
  BY DEF IInv
<1>2. loops' = [i \in 1 .. Len(loops) |-> [loops[i] EXCEPT !.touched = TRUE]]
  BY <1>1, LoopsAre DEF SetVar
<1>3. ASSUME NEW i \in 1 .. Len(loops)
      PROVE  /\ loops'[i] \in Loop /\ Knows(loops'[i], queue, v)
             /\ loops'[i].running = loops[i].running /\ loops'[i].running \notin IdsOf(queue)
  <2>1. loops[i] \in Loop /\ Knows(loops[i], queue, var) /\ loops[i].running \notin IdsOf(queue)
    BY <1>1, LoopsAre
  <2>2. loops'[i] = [loops[i] EXCEPT !.touched = TRUE]
    BY <1>2
  <2> QED BY <2>1, <2>2 DEF Knows, Loop
<1>4. loops' = [i \in 1 .. Len(loops) |-> loops'[i]]
  BY <1>2
<1>5. loops = <<>> \/ loops'[Len(loops)].running \in {None, loops[Len(loops)].running}
  BY <1>1, <1>3, LoopsAre
<1>6. LoopsOK(loops', queue, v) /\ Len(loops') = Len(loops)
  BY <1>1, <1>3, <1>4, <1>5, InPlace
<1> QED BY <1>6 DEF IInv, SetVar, May

LEMMA TickInv ==
  ASSUME IInv, Tick
  PROVE  IInv' /\ Len(loops') = Len(loops)
         /\ (loops' # <<>> => ~loops'[Len(loops')].fresh)
<1>1. Pending(queue) /\ LoopsOK(loops, queue, var)
  BY DEF IInv
<1>2. loops' = [i \in 1 .. Len(loops) |-> [loops[i] EXCEPT !.fresh = FALSE]]
  BY <1>1, LoopsAre DEF Tick
<1>3. Grows(queue, queue', {})
  BY <1>1, Later DEF Tick
<1>4. ASSUME NEW i \in 1 .. Len(loops)
      PROVE  /\ loops'[i] \in Loop /\ Knows(loops'[i], queue', var) /\ ~loops'[i].fresh
             /\ loops'[i].running = loops[i].running /\ loops'[i].running \notin IdsOf(queue')
  <2>1. loops[i] \in Loop /\ Knows(loops[i], queue, var) /\ loops[i].running \notin IdsOf(queue)
    BY <1>1, LoopsAre
  <2>2. Knows(loops[i], queue', var) /\ IdsOf(queue') = IdsOf(queue)
    BY <1>3, <2>1, KnowsMore DEF Grows
  <2>3. loops'[i] = [loops[i] EXCEPT !.fresh = FALSE]
    BY <1>2
  <2> QED BY <2>1, <2>2, <2>3 DEF Knows, Loop
<1>5. loops' = [i \in 1 .. Len(loops) |-> loops'[i]]
  BY <1>2
<1>6. loops = <<>> \/ loops'[Len(loops)].running \in {None, loops[Len(loops)].running}
  BY <1>1, <1>4, LoopsAre
<1>7. LoopsOK(loops', queue', var) /\ Len(loops') = Len(loops)
  BY <1>1, <1>4, <1>5, <1>6, InPlace
<1>8. loops' # <<>> => ~loops'[Len(loops')].fresh
  <2>1. loops' # <<>> => Len(loops') \in 1 .. Len(loops')
    BY <1>7, LoopsAre
  <2> QED BY <1>4, <1>7, <2>1
<1> QED BY <1>3, <1>7, <1>8 DEF IInv, Tick, Grows

-----------------------------------------------------------------------------
(* The top loop *)

LEMMA TopIs ==
  ASSUME IInv, loops # <<>>
  PROVE  /\ Len(loops) \in 1 .. Len(loops) /\ Top \in Loop /\ Top = loops[Len(loops)]
         /\ Knows(Top, queue, var) /\ Top.running \notin IdsOf(queue)
BY LoopsAre DEF IInv, Top

(* The top loop becomes l.                                                 *)
LEMMA SetTopOK ==
  ASSUME IInv, loops # <<>>, NEW l \in Loop, NEW q, Grows(queue, q, {}),
         Knows(l, q, var), l.running \in {None, Top.running}
  PROVE  LoopsOK(SetTop(l), q, var) /\ Len(SetTop(l)) = Len(loops) /\ SetTop(l)[Len(loops)] = l
<1> DEFINE ms == SetTop(l)
<1>1. LoopsOK(loops, queue, var) /\ Len(loops) \in 1 .. Len(loops) /\ Top = loops[Len(loops)]
  BY TopIs DEF IInv
<1>2. DOMAIN loops = 1 .. Len(loops)
  BY <1>1, LoopsAre
<1>3. /\ ms = [i \in 1 .. Len(loops) |-> ms[i]]
      /\ \A i \in 1 .. Len(loops) : ms[i] = IF i = Len(loops) THEN l ELSE loops[i]
  BY <1>2 DEF SetTop
<1> HIDE DEF ms
<1>4. None \notin IdsOf(q) /\ IdsOf(q) = IdsOf(queue)
  BY QueueIds, EventLoopAssumption DEF Grows
<1>5. ASSUME NEW i \in 1 .. Len(loops)
      PROVE  ms[i] \in Loop /\ Knows(ms[i], q, var) /\ ms[i].running \notin IdsOf(q)
  <2>1. loops[i] \in Loop /\ Knows(loops[i], queue, var) /\ loops[i].running \notin IdsOf(queue)
    BY <1>1, LoopsAre
  <2>2. Knows(loops[i], q, var)
    BY <2>1, KnowsMore
  <2>3. l.running \notin IdsOf(q)
    BY <1>4, TopIs
  <2> QED BY <1>3, <1>4, <2>1, <2>2, <2>3
<1>6. \A i \in 1 .. Len(loops) : i < Len(loops) => ms[i].running = loops[i].running
  BY <1>3
<1>7. ms[Len(loops)].running \in {None, loops[Len(loops)].running}
  BY <1>1, <1>3
<1>8. LoopsOK(ms, q, var) /\ Len(ms) = Len(loops)
  BY <1>1, <1>3, <1>5, <1>6, <1>7, InPlace
<1> QED BY <1>1, <1>3, <1>8 DEF ms

LEMMA SameQueue ==
  ASSUME NEW q, Pending(q)
  PROVE  Grows(q, q, {})
BY DEF Grows

LEMMA ScriptEndsInv ==
  ASSUME IInv, ScriptEnds
  PROVE  IInv' /\ queue' = queue /\ Len(loops') = Len(loops)
<1> DEFINE l == [Top EXCEPT !.running = None]
<1>1. loops # <<>> /\ loops' = SetTop(l) /\ UNCHANGED <<queue, var, work, canSleep>>
  BY DEF ScriptEnds
<1>2. Top \in Loop /\ Knows(Top, queue, var)
  BY <1>1, TopIs
<1>3. l \in Loop /\ Knows(l, queue, var) /\ l.running = None
  BY <1>2 DEF Loop, Knows
<1> HIDE DEF l
<1>4. LoopsOK(loops', queue, var) /\ Len(loops') = Len(loops)
  BY <1>1, <1>3, SetTopOK, SameQueue DEF IInv
<1> QED BY <1>1, <1>4 DEF IInv

LEMMA AgainInv ==
  ASSUME IInv, loops # <<>>, NEW q, Grows(queue, q, {}), queue' = q, Again(q),
         UNCHANGED <<var, work, canSleep>>
  PROVE  IInv' /\ Len(loops') = Len(loops)
<1>1. Top \in Loop /\ Knows(Top, q, var) /\ Pending(q)
  BY TopIs, KnowsMore DEF Grows
<1>2. Round(Top, q) \in Loop /\ Knows(Round(Top, q), q, var) /\ Round(Top, q).running = Top.running
  BY <1>1, NewRound
<1>3. LoopsOK(loops', q, var) /\ Len(loops') = Len(loops)
  BY <1>2, SetTopOK DEF Again
<1> QED BY <1>1, <1>3 DEF IInv

LEMMA LeaveInv ==
  ASSUME IInv, loops # <<>>, Leave, UNCHANGED <<queue, var, work, canSleep>>
  PROVE  IInv' /\ Len(loops') = Len(loops) - 1
<1>1. LoopsOK(loops, queue, var) /\ loops \in Seq(Loop)
  BY DEF IInv, LoopsOK
<1>2. /\ loops' \in Seq(Loop) /\ Len(loops') = Len(loops) - 1
      /\ \A i \in 1 .. Len(loops) - 1 : loops'[i] = loops[i]
  BY <1>1, FrontSeq DEF Leave
<1>3. DOMAIN loops' = 1 .. Len(loops) - 1 /\ Len(loops) \in Nat
  BY <1>1, <1>2
<1>4. Nested(loops')
  <2>1. \A i \in DOMAIN loops' : i \in 1 .. Len(loops) - 1 /\ i \in DOMAIN loops
    BY <1>1, <1>3, LoopsAre
  <2>2. Nested(loops) /\ Len(loops') = Len(loops) - 1
    BY <1>1, <1>2 DEF LoopsOK
  <2> QED BY <1>2, <1>3, <2>1, <2>2 DEF Nested
<1>5. \A i \in DOMAIN loops' : Knows(loops'[i], queue, var) /\ loops'[i].running \notin IdsOf(queue)
  BY <1>1, <1>2, <1>3, LoopsAre
<1>6. LoopsOK(loops', queue, var)
  BY <1>2, <1>4, <1>5 DEF LoopsOK
<1> QED BY <1>2, <1>6 DEF IInv

LEMMA EnterInv ==
  ASSUME IInv, NEW kind \in Kinds, Enter(kind)
  PROVE  IInv' /\ queue' = queue /\ Len(loops') = Len(loops) + 1
<1> DEFINE bare == [kind |-> kind, initial |-> var, running |-> None, fired |-> FALSE,
                    fresh |-> TRUE, reached |-> {}, touched |-> FALSE,
                    owed |-> IF kind = "idletasks" THEN Idle(queue) ELSE Due(queue)]
           l == Round(bare, queue)
<1>1. Pending(queue) /\ LoopsOK(loops, queue, var) /\ var \in Vals \cup {Unset}
  BY DEF IInv
<1>2. Due(queue) \subseteq IdsOf(queue) /\ Idle(queue) \subseteq IdsOf(queue) /\ IdsOf(queue) \subseteq Ids
  BY <1>1, QueueIds
<1>3. /\ l \in Loop /\ l.running = None /\ l.reached = Due(queue) /\ l.kind = kind /\ l.initial = var
      /\ l.owed = IF kind = "idletasks" THEN Idle(queue) ELSE Due(queue)
  BY <1>1, <1>2 DEF Loop, Round
<1>4. loops' = Append(loops, l) /\ UNCHANGED <<queue, var, canSleep>> /\ work' \in Nat
  BY DEF Enter, May, IInv
<1> HIDE DEF l
<1>5. Knows(l, queue, var)
  BY <1>2, <1>3 DEF Knows
<1>6. None \notin IdsOf(queue)
  BY <1>2, EventLoopAssumption
<1>7. /\ Len(loops) \in Nat /\ Len(loops') = Len(loops) + 1 /\ loops' \in Seq(Loop)
      /\ DOMAIN loops' = 1 .. Len(loops) + 1
      /\ \A i \in 1 .. Len(loops) : loops'[i] = loops[i]
      /\ loops'[Len(loops) + 1] = l
  BY <1>1, <1>3, <1>4 DEF LoopsOK
<1>8. \A i \in 1 .. Len(loops) : loops[i].running # None
  <2>1. CASE loops = <<>>
    BY <2>1
  <2>2. CASE loops # <<>>
    <3>1. loops[Len(loops)].running # None
      BY <2>2 DEF Enter, May, Free, Top
    <3> QED BY <1>1, <1>7, <3>1, LoopsAre DEF LoopsOK, Nested
  <2> QED BY <2>1, <2>2
<1>9. Nested(loops')
  <2>1. \A i \in DOMAIN loops' : i \in 1 .. Len(loops) \/ i = Len(loops) + 1
    BY <1>7
  <2>2. \A i, j \in 1 .. Len(loops) : i # j => loops[i].running # loops[j].running
    BY <1>1, <1>7, <1>8, LoopsAre DEF LoopsOK, Nested
  <2> QED BY <1>3, <1>7, <1>8, <2>1, <2>2 DEF Nested
<1>10. \A i \in DOMAIN loops' : Knows(loops'[i], queue, var) /\ loops'[i].running \notin IdsOf(queue)
  <2>1. \A i \in DOMAIN loops' : i \in 1 .. Len(loops) \/ i = Len(loops) + 1
    BY <1>7
  <2> QED BY <1>1, <1>3, <1>5, <1>6, <1>7, <2>1, LoopsAre
<1> QED BY <1>1, <1>4, <1>7, <1>9, <1>10 DEF IInv, LoopsOK

LEMMA FireInv ==
  ASSUME IInv, Fire
  PROVE  IInv' /\ Len(queue') # Len(queue) /\ Len(loops') = Len(loops)
<1> DEFINE first == CHOOSE i \in Ready(Top) : \A j \in Ready(Top) : i <= j
           id == queue[first].id
           l  == [Top EXCEPT !.running = id, !.fired = TRUE]
           ls == SetTop(l)
           m  == Unaware(l, {id})
           ms == Forget(ls, {id})
<1>1. Pending(queue) /\ LoopsOK(loops, queue, var) /\ loops # <<>> /\ Top.running = None
  BY DEF IInv, Fire, Looping, Free
<1>2. Top \in Loop /\ Top = loops[Len(loops)] /\ Len(loops) \in 1 .. Len(loops)
      /\ Knows(Top, queue, var)
  BY <1>1, TopIs
<1>3. first \in DOMAIN queue
  <2>1. Ready(Top) \subseteq Nat /\ Ready(Top) # {} /\ Ready(Top) \subseteq DOMAIN queue
    <3>1. Ready(Top) # {}
      BY DEF Fire
    <3>2. Ready(Top) \subseteq DOMAIN queue
      BY DEF Ready
    <3>3. DOMAIN queue = 1 .. Len(queue) /\ Len(queue) \in Nat
      BY <1>1, QueueIds
    <3> QED BY <3>1, <3>2, <3>3
  <2>2. \E i \in Ready(Top) : \A j \in Ready(Top) : i <= j
    BY <2>1, LeastNatural
  <2> QED BY <2>1, <2>2
<1>4. queue' = RemoveAt(queue, first) /\ loops' = ms /\ UNCHANGED <<var, canSleep>>
      /\ work' \in Nat
  BY EventLoopAssumption DEF Fire, IInv
<1> HIDE DEF first
<1>5. id \in Ids /\ id \in IdsOf(queue) /\ id # None
  BY <1>1, <1>3, QueueIds, EventLoopAssumption DEF IdsOf
<1>6. Shrinks(queue, queue', {id}) /\ Len(queue') < Len(queue)
  BY <1>1, <1>3, <1>4, Removed
<1> HIDE DEF id
<1>7. \A i \in 1 .. Len(loops) :
        /\ loops[i] \in Loop /\ Knows(loops[i], queue, var)
        /\ loops[i].running \notin IdsOf(queue) /\ loops[i].running # id
  BY <1>1, <1>5, LoopsAre
<1>8. \A i \in 1 .. Len(loops) : ls[i] = IF i = Len(loops) THEN l ELSE loops[i]
  BY <1>1, LoopsAre DEF SetTop
<1>9. DOMAIN ls = 1 .. Len(loops)
  BY <1>1, LoopsAre DEF SetTop
<1> HIDE DEF ls
<1>10. /\ ms = [i \in 1 .. Len(loops) |-> ms[i]]
       /\ \A i \in 1 .. Len(loops) : ms[i] = Unaware(ls[i], {id})
  BY <1>9 DEF Forget, Unaware
<1>11. ASSUME NEW i \in 1 .. Len(loops), i # Len(loops)
       PROVE  /\ ms[i] \in Loop /\ Knows(ms[i], queue', var) /\ ms[i].running = loops[i].running
              /\ ms[i].running \notin IdsOf(queue')
  <2>1. ms[i] = Unaware(loops[i], {id})
    BY <1>8, <1>10, <1>11
  <2> HIDE DEF ms
  <2>2. ms[i] \in Loop /\ Knows(ms[i], queue', var) /\ ms[i].running = loops[i].running
    <3>1. loops[i] \in Loop /\ Knows(loops[i], queue, var) /\ loops[i].running # id
      BY <1>7
    <3> QED BY <1>6, <2>1, <3>1, KnowsLess
  <2> QED BY <1>6, <1>7, <2>2 DEF Shrinks
<1>12. /\ ms[Len(loops)] \in Loop /\ Knows(ms[Len(loops)], queue', var)
       /\ ms[Len(loops)].running = id /\ id \notin IdsOf(queue')
  <2>1. ms[Len(loops)] = m
    BY <1>2, <1>8, <1>10
  <2>2. /\ m \in Loop /\ m.owed = Top.owed \ {id} /\ m.reached = Top.reached \ {id}
        /\ m.kind = Top.kind /\ m.fired = TRUE /\ m.touched = Top.touched
        /\ m.initial = Top.initial /\ m.running = id
    BY <1>2, <1>5 DEF Loop, Unaware
  <2> HIDE DEF m, ms
  <2>3. Knows(m, queue', var)
    BY <1>2, <1>6, <2>2 DEF Knows, Shrinks
  <2> QED BY <1>6, <2>1, <2>2, <2>3 DEF Shrinks
<1> HIDE DEF ms
<1>13. \A i \in 1 .. Len(loops) :
         /\ ms[i] \in Loop /\ Knows(ms[i], queue', var) /\ ms[i].running \notin IdsOf(queue')
         /\ i < Len(loops) => ms[i].running = loops[i].running
  BY <1>2, <1>11, <1>12
<1>14. \A i \in 1 .. Len(loops) : loops[i].running # ms[Len(loops)].running
  BY <1>7, <1>12
<1>15. LoopsOK(ms, queue', var) /\ Len(ms) = Len(loops)
  BY <1>1, <1>10, <1>13, <1>14, InPlace
<1>16. Len(queue) \in Nat /\ Len(queue') \in Nat /\ Pending(queue')
  BY <1>1, <1>6 DEF Shrinks, Pending
<1> QED BY <1>4, <1>6, <1>15, <1>16 DEF IInv

-----------------------------------------------------------------------------
(* What vwait does when nothing is ready *)

LEMMA SoonestEvent ==
  ASSUME IInv, queue # <<>>
  PROVE  NextFire \in 0 .. MaxDelay /\ \A i \in DOMAIN queue : NextFire <= queue[i].left
<1> DEFINE S == {queue[i].left : i \in DOMAIN queue}
<1>1. /\ DOMAIN queue = 1 .. Len(queue) /\ Len(queue) \in Nat
      /\ \A i \in 1 .. Len(queue) : queue[i].left \in 0 .. MaxDelay
  BY QueueIds DEF IInv
<1>2. MaxDelay \in Nat
  BY EventLoopAssumption
<1>3. \A n \in S : n \in 0 .. MaxDelay
  BY <1>1
<1>4. S \subseteq Nat /\ S # {}
  <2>1. 1 \in DOMAIN queue
    BY <1>1
  <2> QED BY <1>2, <1>3, <2>1
<1>5. \E n \in S : \A m \in S : n <= m
  <2> HIDE DEF S
  <2> QED BY <1>4, LeastNatural
<1>6. \E n \in S : \A i \in DOMAIN queue : n <= queue[i].left
  BY <1>5
<1>7. NextFire \in S /\ \A i \in DOMAIN queue : NextFire <= queue[i].left
  BY <1>6 DEF NextFire
<1> QED BY <1>3, <1>7

LEMMA SleepsInv ==
  ASSUME IInv, VwaitSleeps
  PROVE  /\ IInv' /\ Len(loops') = Len(loops)
         /\ queue' # queue => Due(queue) \cup Idle(queue) = {}
<1>1. PICK n \in Sleeps : queue' = Passed(queue, n) /\ Again(queue')
  BY DEF VwaitSleeps
<1>2. Quiet /\ queue # <<>> /\ loops # <<>> /\ UNCHANGED <<var, work, canSleep>>
  BY DEF VwaitSleeps, Quiet, RoundOver, Looping
<1>3. n \in Nat /\ NextFire \in 0 .. MaxDelay /\ (NextFire = 0 => n = 0)
  BY <1>2, SoonestEvent, EventLoopAssumption DEF Sleeps
<1>4. Pending(queue) /\ Grows(queue, queue', {})
  BY <1>1, <1>3, Later DEF IInv
<1>5. IInv' /\ Len(loops') = Len(loops)
  BY <1>1, <1>2, <1>4, AgainInv
<1>6. ASSUME queue' # queue
      PROVE  Due(queue) \cup Idle(queue) = {}
  <2>1. NextFire # 0
    <3>1. ASSUME n = 0 PROVE Passed(queue, n) = queue
      <4>1. Len(queue) \in Nat /\ DOMAIN queue = 1 .. Len(queue)
            /\ \A i \in 1 .. Len(queue) : queue[i] \in Event /\ queue[i].left \in 0 .. MaxDelay
        BY <1>4, QueueIds
      <4>2. queue = [i \in 1 .. Len(queue) |-> queue[i]]
        BY <1>4, <4>1 DEF Pending
      <4>3. ASSUME NEW i \in 1 .. Len(queue)
            PROVE  [queue[i] EXCEPT !.left = IF @ <= 0 THEN 0 ELSE @ - 0] = queue[i]
        <5>1. queue[i].left \in Nat
          BY <4>1, EventLoopAssumption
        <5>2. (IF queue[i].left <= 0 THEN 0 ELSE queue[i].left - 0) = queue[i].left
          BY <5>1
        <5> QED BY <4>1, <5>2 DEF Event
      <4> QED BY <3>1, <4>1, <4>2, <4>3 DEF Passed
    <3> QED BY <1>1, <1>3, <1>6, <3>1
  <2>2. Due(queue) = {}
    BY <1>2, <1>3, <2>1, SoonestEvent DEF Due
  <2>3. Idle(queue) = {}
    BY <1>2 DEF Quiet, RoundOver, Ready, Idle
  <2> QED BY <2>2, <2>3
<1> QED BY <1>5, <1>6

-----------------------------------------------------------------------------
(* The invariant *)

LEMMA InitInv ==
  ASSUME Init
  PROVE  IInv
<1>1. queue = <<>> /\ loops = <<>> /\ var = Unset /\ work \in Nat /\ canSleep \in BOOLEAN
  BY EventLoopAssumption DEF Init
<1>2. Pending(queue)
  BY <1>1 DEF Pending
<1>3. LoopsOK(loops, queue, var)
  BY <1>1 DEF LoopsOK, Nested
<1> QED BY <1>1, <1>2, <1>3 DEF IInv

(* Each step, and what the properties below ask of it: whether a loop is   *)
(* left, and whether the queue changes with no event more or less.         *)
Leaving == UpdateReturns \/ VwaitReturns \/ VwaitGivesUp \/ VwaitCannotSleep
Staying == Len(loops') < Len(loops) => Leaving

LEMMA SpeakingInv ==
  ASSUME IInv, NEW s \in Scripts, AfterIdle(s) \/ Post(s) \/ \E d \in 0 .. MaxDelay : After(d, s)
  PROVE  IInv' /\ Len(queue') # Len(queue) /\ Len(loops') = Len(loops)
<1>1. 0 \in 0 .. MaxDelay
  BY EventLoopAssumption
<1>2. May("after") \/ May("idle") \/ May("post") => work' \in Nat
  BY DEF May, IInv
<1>3. CASE AfterIdle(s)
  BY <1>1, <1>2, <1>3, ScheduleInv DEF AfterIdle
<1>4. CASE Post(s)
  BY <1>1, <1>2, <1>4, ScheduleInv DEF Post
<1>5. CASE \E d \in 0 .. MaxDelay : After(d, s)
  BY <1>2, <1>5, ScheduleInv DEF After
<1> QED BY <1>3, <1>4, <1>5

LEMMA OtherSize ==
  ASSUME NEW m \in Nat, NEW n \in Nat, m # n
  PROVE  1 .. m # 1 .. n
<1>1. CASE m < n
  <2>1. n \in 1 .. n /\ n \notin 1 .. m
    BY <1>1
  <2> QED BY <2>1
<1>2. CASE n < m
  <2>1. m \in 1 .. m /\ m \notin 1 .. n
    BY <1>2
  <2> QED BY <2>1
<1> QED BY <1>1, <1>2

LEMMA StepInv ==
  ASSUME IInv, Step
  PROVE  IInv' /\ Staying
<1>1. Pending(queue) /\ Len(loops) \in Nat /\ (loops # <<>> => Len(loops) > 0)
  BY LoopsAre DEF IInv
<1>2. Grows(queue, queue, {})
  BY <1>1, SameQueue
<1>3. CASE UpdateAgain \/ VwaitAgain
  <2>1. Again(queue) /\ loops # <<>> /\ UNCHANGED <<queue, var, work, canSleep>>
    BY <1>3 DEF UpdateAgain, VwaitAgain, RoundOver, Looping
  <2> QED BY <1>1, <1>2, <2>1, AgainInv DEF Staying
<1>4. CASE Leaving
  <2>1. Leave /\ loops # <<>> /\ UNCHANGED <<queue, var, work, canSleep>>
    BY <1>4 DEF Leaving, UpdateReturns, VwaitReturns, VwaitGivesUp, VwaitCannotSleep,
                Quiet, RoundOver, Looping
  <2> QED BY <1>4, <2>1, LeaveInv DEF Staying
<1>5. CASE VwaitSleeps
  BY <1>1, <1>5, SleepsInv DEF Staying
<1>6. CASE Fire
  <2>1. DOMAIN queue = 1 .. Len(queue) /\ DOMAIN queue' = 1 .. Len(queue')
        /\ Len(queue) \in Nat /\ Len(queue') \in Nat
    BY <1>6, FireInv, QueueIds DEF IInv
  <2>2. DOMAIN queue' # DOMAIN queue
    BY <1>6, <2>1, FireInv, OtherSize
  <2> QED BY <1>1, <1>6, <2>2, FireInv DEF Staying
<1> QED BY <1>3, <1>4, <1>5, <1>6 DEF Step, Leaving

LEMMA NextInv ==
  ASSUME IInv, [Next]_vars
  PROVE  IInv' /\ Staying
<1>1. /\ DOMAIN queue = 1 .. Len(queue) /\ Len(queue) \in Nat
      /\ Len(loops) \in Nat /\ (loops # <<>> => Len(loops) > 0)
  BY QueueIds, LoopsAre DEF IInv
<1>2. IInv' => DOMAIN queue' = 1 .. Len(queue') /\ Len(queue') \in Nat
  BY QueueIds DEF IInv
<1>3. IInv' /\ Len(queue') # Len(queue) => DOMAIN queue' # DOMAIN queue
  BY <1>1, <1>2, OtherSize
<1>4. CASE \E s \in Scripts : AfterIdle(s) \/ Post(s) \/ \E d \in 0 .. MaxDelay : After(d, s)
  BY <1>1, <1>3, <1>4, SpeakingInv DEF Staying
<1>5. CASE Cancel
  BY <1>1, <1>3, <1>5, CancelsInv DEF Staying
<1>6. CASE \E v \in Vals \cup {Unset} : SetVar(v)
  BY <1>1, <1>6, SetVarInv DEF Staying
<1>7. CASE \E kind \in {"vwait", "update", "idletasks", "pump"} : Enter(kind)
  BY <1>1, <1>7, EnterInv DEF Kinds, Staying
<1>8. CASE ScriptEnds
  BY <1>1, <1>8, ScriptEndsInv DEF Staying
<1>9. CASE Step
  BY <1>9, StepInv
<1>10. CASE Tick
  BY <1>1, <1>10, TickInv DEF Staying
<1>11. CASE UNCHANGED vars
  BY <1>1, <1>11 DEF vars, IInv, Staying
<1> QED BY <1>4, <1>5, <1>6, <1>7, <1>8, <1>9, <1>10, <1>11 DEF Next

LEMMA InvImplies ==
  ASSUME IInv
  PROVE  TypeOK /\ RunsOnce
<1>1. TypeOK
  BY LoopsAre DEF IInv, TypeOK, Pending, LoopsOK, Nested, Knows
<1>2. Running \cap IdsOf(queue) = {}
  BY LoopsAre DEF IInv, Running
<1>3. \A i, j \in DOMAIN loops : i # j /\ loops[i].running # None
        => loops[i].running # loops[j].running
  BY DEF IInv, LoopsOK, Nested
<1> QED BY <1>1, <1>2, <1>3 DEF RunsOnce

LEMMA Invariant == Spec => []IInv
BY InitInv, NextInv, PTL DEF Spec

-----------------------------------------------------------------------------
(* The theorems *)

(* The queue, the loops and the variable hold what they are for, every     *)
(* event has a number of its own and no round knows of an event that is    *)
(* not pending.                                                            *)
THEOREM LoopTypes == Spec => []TypeOK
BY Invariant, InvImplies, PTL

(* No event is pending while it runs, nor runs inside itself.              *)
THEOREM EventsRunOnce == Spec => []RunsOnce
BY Invariant, InvImplies, PTL

LEMMA DrainsStep ==
  ASSUME IInv, [Next]_vars, Returns({"update", "idletasks", "pump"})
  PROVE  Top.owed = {}
<1>1. UpdateReturns
  BY NextInv DEF Returns, Staying, Leaving, VwaitReturns, VwaitGivesUp, VwaitCannotSleep, Quiet
<1>2. loops # <<>> /\ Ready(Top) = {} /\ ~Top.fired /\ Top.kind \in {"update", "idletasks", "pump"}
  BY <1>1 DEF UpdateReturns, RoundOver, Looping, Returns
<1>3. Knows(Top, queue, var) /\ Top \in Loop
  BY <1>2, TopIs
<1>4. CASE Top.kind = "idletasks"
  BY <1>2, <1>3, <1>4 DEF Knows, Ready, Idle
<1>5. CASE Top.kind \in {"update", "pump"}
  <2>1. Top.owed \subseteq Top.reached \cap IdsOf(queue)
    BY <1>2, <1>3, <1>5 DEF Knows
  <2>2. Top.reached \cap IdsOf(queue) = {}
    BY <1>2, <1>5 DEF Ready, IdsOf
  <2> QED BY <2>1, <2>2
<1> QED BY <1>2, <1>4, <1>5

(* update and pump_events return with everything run, or cancelled, that   *)
(* was ready when they began.                                              *)
THEOREM UpdatesDrain == Spec => UpdateDrains
<1>1. IInv /\ [Next]_vars =>
        [Returns({"update", "idletasks", "pump"}) => Top.owed = {}]_vars
  BY DrainsStep
<1> QED BY <1>1, Invariant, PTL DEF Spec, UpdateDrains

LEMMA HoldsOutStep ==
  ASSUME IInv, [Next]_vars, canSleep, Returns({"vwait"}), ~Top.touched
  PROVE  queue = <<>>
<1>1. Leaving /\ Top.kind = "vwait" /\ loops # <<>>
  BY NextInv DEF Returns, Staying, Looping
<1>2. Knows(Top, queue, var)
  BY <1>1, TopIs
<1>3. ~Changed
  BY <1>2 DEF Knows, Changed
<1> QED BY <1>1, <1>3 DEF Leaving, UpdateReturns, VwaitReturns, VwaitGivesUp, VwaitCannotSleep

(* Where the host can sleep, vwait on a variable nobody set goes on as     *)
(* long as an event is pending.                                            *)
THEOREM VwaitsHoldOut == Spec => VwaitHoldsOut
<1>1. IInv /\ [Next]_vars =>
        [canSleep /\ Returns({"vwait"}) /\ ~Top.touched => queue = <<>>]_vars
  BY HoldsOutStep
<1> QED BY <1>1, Invariant, PTL DEF Spec, VwaitHoldsOut
=============================================================================
