--------------------------- MODULE SequenceLemmas ---------------------------
(***************************************************************************)
(* What the proofs of several components need of sequences.  Induction is  *)
(* by a least counterexample: a nonempty set of naturals has a least       *)
(* element.                                                                *)
(***************************************************************************)
EXTENDS Integers, SequencesExt, SequenceTheorems, WellFoundedInduction, TLAPS

LEMMA LessIsWellFounded ==
  IsWellFoundedOn({p \in Nat \X Nat : p[1] < p[2]}, Nat)
BY NatLessThanWellFounded DEF OpToRel

LEMMA LeastNatural ==
  ASSUME NEW T, T \subseteq Nat, T # {}
  PROVE  \E n \in T : \A m \in T : n <= m
<1> DEFINE R == {p \in Nat \X Nat : p[1] < p[2]}
<1>1. PICK n \in T : \A m \in T : <<m, n>> \notin R
  <2>1. IsWellFoundedOn(R, Nat)
    BY LessIsWellFounded
  <2> HIDE DEF R
  <2> QED BY <2>1, WFMin
<1>2. \A m \in T : ~ (m < n)
  BY <1>1
<1> QED BY <1>2

(* A set of the naturals up to n that has 0 and with each its successor    *)
(* has them all.                                                           *)
LEMMA Steps ==
  ASSUME NEW n \in Nat, NEW P, 0 \in P, \A k \in 0 .. n : k \in P /\ k < n => k + 1 \in P
  PROVE  \A k \in 0 .. n : k \in P
<1> DEFINE T == {k \in 0 .. n : k \notin P}
<1>1. CASE T = {}
  BY <1>1
<1>2. CASE T # {}
  <2>1. PICK k \in T : \A m \in T : k <= m
    <3>1. T \subseteq Nat
      OBVIOUS
    <3> HIDE DEF T
    <3> QED BY <1>2, <3>1, LeastNatural
  <2>2. k # 0 /\ k - 1 \in 0 .. n /\ k - 1 \notin T /\ k - 1 < n
    BY <2>1
  <2>3. k - 1 \in P
    BY <2>2
  <2>4. (k - 1) + 1 \in P
    BY <2>2, <2>3
  <2> QED BY <2>1, <2>4
<1> QED BY <1>1, <1>2

-----------------------------------------------------------------------------
(* Front and RemoveAt *)

LEMMA FrontSeq ==
  ASSUME NEW S, NEW s \in Seq(S), s # <<>>
  PROVE  /\ Front(s) \in Seq(S)
         /\ Len(Front(s)) = Len(s) - 1
         /\ \A i \in 1 .. Len(s) - 1 : Front(s)[i] = s[i]
<1>1. Len(s) \in Nat /\ Len(s) # 0 /\ \A i \in 1 .. Len(s) - 1 : s[i] \in S
  OBVIOUS
<1> DEFINE n == Len(s) - 1
<1>2. n \in Nat /\ n \in Int /\ 1 \in Int /\ \A i \in 1 .. n : s[i] \in S
  BY <1>1
<1>3. /\ SubSeq(s, 1, n) \in Seq(S)
      /\ Len(SubSeq(s, 1, n)) = IF 1 <= n THEN n - 1 + 1 ELSE 0
      /\ \A i \in 1 .. n - 1 + 1 : SubSeq(s, 1, n)[i] = s[1 + i - 1]
  <2> HIDE DEF n
  <2> QED BY <1>2, SubSeqProperties
<1>4. Front(s) = SubSeq(s, 1, n) /\ n = Len(s) - 1
  BY DEF Front
<1> HIDE DEF n
<1>5. IF 1 <= n THEN n - 1 + 1 = n ELSE n = 0
  BY <1>2
<1>6. Len(Front(s)) = n /\ 1 .. n - 1 + 1 = 1 .. n
  BY <1>2, <1>3, <1>4, <1>5
<1>7. \A i \in 1 .. n : Front(s)[i] = s[i]
  BY <1>2, <1>3, <1>4, <1>6
<1> QED BY <1>3, <1>4, <1>6, <1>7

LEMMA RemoveAtSeq ==
  ASSUME NEW S, NEW s \in Seq(S), NEW i \in 1 .. Len(s)
  PROVE  /\ RemoveAt(s, i) \in Seq(S)
         /\ Len(RemoveAt(s, i)) = Len(s) - 1
         /\ \A k \in 1 .. Len(s) - 1 : RemoveAt(s, i)[k] = IF k < i THEN s[k] ELSE s[k + 1]
<1>1. Len(s) \in Nat /\ \A k \in 1 .. Len(s) : s[k] \in S
  OBVIOUS
<1> DEFINE a == SubSeq(s, 1, i - 1)
           b == SubSeq(s, i + 1, Len(s))
<1>2. /\ a \in Seq(S) /\ Len(a) = i - 1
      /\ \A k \in 1 .. i - 1 : a[k] = s[k]
  <2> DEFINE n == i - 1
  <2>1. n \in Nat /\ n \in Int /\ 1 \in Int /\ \A k \in 1 .. n : s[k] \in S
    BY <1>1
  <2>2. /\ SubSeq(s, 1, n) \in Seq(S)
        /\ Len(SubSeq(s, 1, n)) = IF 1 <= n THEN n - 1 + 1 ELSE 0
        /\ \A k \in 1 .. n - 1 + 1 : SubSeq(s, 1, n)[k] = s[1 + k - 1]
    <3> HIDE DEF n
    <3> QED BY <2>1, SubSeqProperties
  <2> QED BY <2>1, <2>2
<1>3. /\ b \in Seq(S) /\ Len(b) = Len(s) - i
      /\ \A k \in 1 .. Len(s) - i : b[k] = s[i + k]
  <2> DEFINE n == Len(s)
             m == i + 1
  <2>1. n \in Int /\ m \in Int /\ \A k \in m .. n : s[k] \in S
    BY <1>1
  <2>2. /\ SubSeq(s, m, n) \in Seq(S)
        /\ Len(SubSeq(s, m, n)) = IF m <= n THEN n - m + 1 ELSE 0
        /\ \A k \in 1 .. n - m + 1 : SubSeq(s, m, n)[k] = s[m + k - 1]
    <3> HIDE DEF n, m
    <3> QED BY <2>1, SubSeqProperties
  <2> QED BY <1>1, <2>2
<1>4. /\ a \o b \in Seq(S) /\ Len(a \o b) = Len(a) + Len(b)
      /\ \A k \in 1 .. Len(a) + Len(b) : (a \o b)[k] = IF k <= Len(a) THEN a[k] ELSE b[k - Len(a)]
  <2> HIDE DEF a, b
  <2> QED BY <1>2, <1>3, ConcatProperties
<1>5. RemoveAt(s, i) = a \o b
  BY DEF RemoveAt
<1> HIDE DEF a, b
<1>6. Len(a \o b) = Len(s) - 1
  BY <1>1, <1>2, <1>3, <1>4
<1>7. ASSUME NEW k \in 1 .. Len(s) - 1
      PROVE  (a \o b)[k] = IF k < i THEN s[k] ELSE s[k + 1]
  <2>1. k \in 1 .. Len(a) + Len(b)
    BY <1>1, <1>2, <1>3
  <2>2. CASE k < i
    <3>1. k <= Len(a) /\ k \in 1 .. i - 1
      BY <1>2, <2>2
    <3> QED BY <1>2, <1>4, <2>1, <2>2, <3>1
  <2>3. CASE ~ (k < i)
    <3>1. ~ (k <= Len(a)) /\ k - Len(a) = k - i + 1 /\ k - i + 1 \in 1 .. Len(s) - i
      BY <1>1, <1>2, <2>3
    <3>2. b[k - i + 1] = s[i + (k - i + 1)]
      BY <1>3, <3>1
    <3>3. i + (k - i + 1) = k + 1
      OBVIOUS
    <3> QED BY <1>4, <2>1, <2>3, <3>1, <3>2, <3>3
  <2> QED BY <2>2, <2>3
<1> QED BY <1>4, <1>5, <1>6, <1>7

-----------------------------------------------------------------------------
(* Filtered *)

(* A sequence without the elements of a set, in order.                     *)
Filtered(s, gone) ==
  LET kept[k \in 0 .. Len(s)] ==
        IF k = 0 THEN <<>>
        ELSE IF s[k] \in gone THEN kept[k - 1] ELSE Append(kept[k - 1], s[k])
  IN  kept[Len(s)]

Trimmed(kept, s, gone, k) == IF s[k] \in gone THEN kept[k - 1] ELSE Append(kept[k - 1], s[k])
Unrolled(kept, s, gone, n) ==
  kept = [k \in 0 .. n |-> IF k = 0 THEN <<>> ELSE Trimmed(kept, s, gone, k)]

(* The recursive function that Filtered is made of exists.                 *)
LEMMA Unrolls ==
  ASSUME NEW s, Len(s) \in Nat, NEW gone
  PROVE  \E kept : Unrolled(kept, s, gone, Len(s))
<1> DEFINE N == Len(s)
           P == {n \in 0 .. N : \E kept : Unrolled(kept, s, gone, n)}
<1>1. 0 \in P
  <2> DEFINE F == [k \in 0 .. 0 |-> <<>>]
  <2>1. F = [k \in 0 .. 0 |-> IF k = 0 THEN <<>> ELSE Trimmed(F, s, gone, k)]
    OBVIOUS
  <2>2. Unrolled(F, s, gone, 0)
    BY <2>1 DEF Unrolled
  <2> HIDE DEF F
  <2> QED BY <2>2
<1>2. ASSUME NEW n \in 0 .. N, n \in P, n < N
      PROVE  n + 1 \in P
  <2>1. PICK F : Unrolled(F, s, gone, n)
    BY <1>2
  <2> DEFINE G == [k \in 0 .. n + 1 |-> IF k = n + 1 THEN Trimmed(F, s, gone, n + 1) ELSE F[k]]
  <2>2. \A k \in 0 .. n : G[k] = F[k] /\ F[k] = IF k = 0 THEN <<>> ELSE Trimmed(F, s, gone, k)
    BY <2>1 DEF Unrolled
  <2>3. G[n + 1] = Trimmed(F, s, gone, n + 1) /\ DOMAIN G = 0 .. n + 1
    OBVIOUS
  <2>4. G = [k \in 0 .. n + 1 |-> G[k]]
    OBVIOUS
  <2> HIDE DEF G
  <2>5. ASSUME NEW k \in 1 .. n + 1
        PROVE  Trimmed(G, s, gone, k) = Trimmed(F, s, gone, k)
    <3>1. k - 1 \in 0 .. n
      OBVIOUS
    <3> QED BY <2>2, <3>1 DEF Trimmed
  <2>6. \A k \in 0 .. n + 1 : G[k] = IF k = 0 THEN <<>> ELSE Trimmed(G, s, gone, k)
    BY <2>2, <2>3, <2>5
  <2>7. Unrolled(G, s, gone, n + 1)
    BY <2>4, <2>6 DEF Unrolled
  <2> QED BY <1>2, <2>7
<1>3. N \in P
  <2>1. N \in Nat
    OBVIOUS
  <2>2. \A k \in 0 .. N : k \in P /\ k < N => k + 1 \in P
    BY <1>2
  <2> HIDE DEF P
  <2>3. \A k \in 0 .. N : k \in P
    BY <1>1, <2>1, <2>2, Steps
  <2> QED BY <2>1, <2>3
<1> QED BY <1>3

LEMMA FilteredUnrolls ==
  ASSUME NEW S, NEW s \in Seq(S), NEW gone
  PROVE  \E kept : /\ Filtered(s, gone) = kept[Len(s)]
                   /\ kept[0] = <<>>
                   /\ \A k \in 1 .. Len(s) : kept[k] = Trimmed(kept, s, gone, k)
<1> DEFINE F == CHOOSE kept : Unrolled(kept, s, gone, Len(s))
<1>1. Unrolled(F, s, gone, Len(s))
  BY Unrolls
<1>2. Filtered(s, gone) = F[Len(s)]
  BY DEF Filtered, Unrolled, Trimmed
<1> HIDE DEF F
<1>3. F[0] = <<>> /\ \A k \in 1 .. Len(s) : F[k] = Trimmed(F, s, gone, k)
  BY <1>1 DEF Unrolled
<1> QED BY <1>2, <1>3

(* t is what is left of the first k elements, each in its place p.         *)
Placed(t, s, gone, k, p) ==
  /\ p \in [1 .. Len(t) -> 1 .. k]
  /\ \A i, j \in 1 .. Len(t) : i < j => p[i] < p[j]
  /\ \A i \in 1 .. Len(t) : t[i] = s[p[i]] /\ s[p[i]] \notin gone
  /\ \A j \in 1 .. k : s[j] \notin gone => \E i \in 1 .. Len(t) : p[i] = j
Left(t, s, gone, k) ==
  /\ \E p : Placed(t, s, gone, k, p)
  /\ Len(t) <= k
  /\ (\E j \in 1 .. k : s[j] \in gone) => Len(t) < k

LEMMA LeftStep ==
  ASSUME NEW S, NEW s \in Seq(S), NEW gone, NEW k \in Nat, k < Len(s),
         NEW t \in Seq(S), Left(t, s, gone, k),
         NEW u, u = IF s[k + 1] \in gone THEN t ELSE Append(t, s[k + 1])
  PROVE  u \in Seq(S) /\ Left(u, s, gone, k + 1)
<1>1. PICK p : Placed(t, s, gone, k, p)
  BY DEF Left
<1>2. Len(t) \in Nat /\ s[k + 1] \in S /\ Len(t) <= k
      /\ ((\E j \in 1 .. k : s[j] \in gone) => Len(t) < k)
  BY DEF Left
<1>3. CASE s[k + 1] \in gone
  <2>1. u = t
    BY <1>3
  <2>2. Placed(u, s, gone, k + 1, p)
    BY <1>1, <1>2, <1>3, <2>1 DEF Placed
  <2> QED BY <1>2, <2>1, <2>2 DEF Left
<1>4. CASE s[k + 1] \notin gone
  <2>1. /\ u \in Seq(S) /\ Len(u) = Len(t) + 1
        /\ \A i \in 1 .. Len(t) : u[i] = t[i]
        /\ u[Len(t) + 1] = s[k + 1]
    BY <1>2, <1>4
  <2> DEFINE q == [i \in 1 .. Len(u) |-> IF i = Len(u) THEN k + 1 ELSE p[i]]
  <2>2. \A i \in 1 .. Len(t) : p[i] \in 1 .. k
    BY <1>1 DEF Placed
  <2>3. /\ q \in [1 .. Len(u) -> 1 .. k + 1]
        /\ q[Len(u)] = k + 1
        /\ \A i \in 1 .. Len(t) : q[i] = p[i]
    BY <1>2, <2>1, <2>2
  <2> HIDE DEF q
  <2>4. \A i, j \in 1 .. Len(u) : i < j => q[i] < q[j]
    BY <1>1, <1>2, <2>1, <2>2, <2>3 DEF Placed
  <2>5. \A i \in 1 .. Len(u) : u[i] = s[q[i]] /\ s[q[i]] \notin gone
    <3>1. ASSUME NEW i \in 1 .. Len(t)
          PROVE  u[i] = s[q[i]] /\ s[q[i]] \notin gone
      BY <1>1, <2>1, <2>3 DEF Placed
    <3>2. u[Len(u)] = s[q[Len(u)]] /\ s[q[Len(u)]] \notin gone
      BY <1>4, <2>1, <2>3
    <3> QED BY <1>2, <2>1, <3>1, <3>2
  <2>6. \A j \in 1 .. k + 1 : s[j] \notin gone => \E i \in 1 .. Len(u) : q[i] = j
    <3>1. ASSUME NEW j \in 1 .. k, s[j] \notin gone
          PROVE  \E i \in 1 .. Len(u) : q[i] = j
      <4>1. PICK i \in 1 .. Len(t) : p[i] = j
        BY <1>1, <3>1 DEF Placed
      <4> QED BY <1>2, <2>1, <2>3, <4>1
    <3>2. Len(u) \in 1 .. Len(u) /\ q[Len(u)] = k + 1
      BY <1>2, <2>1, <2>3
    <3> QED BY <3>1, <3>2
  <2>7. Placed(u, s, gone, k + 1, q)
    BY <2>3, <2>4, <2>5, <2>6 DEF Placed
  <2>8. Len(u) <= k + 1 /\ ((\E j \in 1 .. k + 1 : s[j] \in gone) => Len(u) < k + 1)
    BY <1>2, <1>4, <2>1
  <2> QED BY <2>1, <2>7, <2>8 DEF Left
<1> QED BY <1>3, <1>4

(* What is left is the elements that are not gone, in their order.         *)
LEMMA FilteredSeq ==
  ASSUME NEW S, NEW s \in Seq(S), NEW gone
  PROVE  Filtered(s, gone) \in Seq(S) /\ Left(Filtered(s, gone), s, gone, Len(s))
<1>1. PICK kept : /\ Filtered(s, gone) = kept[Len(s)]
                  /\ kept[0] = <<>>
                  /\ \A k \in 1 .. Len(s) : kept[k] = Trimmed(kept, s, gone, k)
  BY FilteredUnrolls
<1> DEFINE P == {k \in 0 .. Len(s) : kept[k] \in Seq(S) /\ Left(kept[k], s, gone, k)}
<1>2. 0 \in P
  <2> DEFINE p == [i \in 1 .. 0 |-> 0]
  <2>1. Len(kept[0]) = 0 /\ kept[0] \in Seq(S)
    BY <1>1
  <2>2. Placed(kept[0], s, gone, 0, p)
    BY <2>1 DEF Placed
  <2> HIDE DEF p
  <2>3. Left(kept[0], s, gone, 0)
    BY <2>1, <2>2 DEF Left
  <2> QED BY <2>1, <2>3
<1>3. ASSUME NEW k \in 0 .. Len(s), k \in P, k < Len(s)
      PROVE  k + 1 \in P
  <2>1. k + 1 \in 1 .. Len(s) /\ (k + 1) - 1 = k
    BY <1>3
  <2>2. kept[k + 1] = IF s[k + 1] \in gone THEN kept[k] ELSE Append(kept[k], s[k + 1])
    BY <1>1, <2>1 DEF Trimmed
  <2>3. k \in Nat /\ kept[k] \in Seq(S) /\ Left(kept[k], s, gone, k)
    BY <1>3
  <2>4. kept[k + 1] \in Seq(S) /\ Left(kept[k + 1], s, gone, k + 1)
    BY <1>3, <2>2, <2>3, LeftStep
  <2> QED BY <2>1, <2>4
<1>4. Len(s) \in P
  <2>1. Len(s) \in Nat
    OBVIOUS
  <2>2. \A k \in 0 .. Len(s) : k \in P /\ k < Len(s) => k + 1 \in P
    BY <1>3
  <2> HIDE DEF P
  <2>3. \A k \in 0 .. Len(s) : k \in P
    BY <1>2, <2>1, <2>2, Steps
  <2> QED BY <2>1, <2>3
<1> QED BY <1>1, <1>4
=============================================================================
