-------------------------- MODULE FrameVarsProofs ---------------------------
(***************************************************************************)
(* Variables in slots, for any names, keys, bodies and depth.              *)
(*                                                                         *)
(* First, a variable of a frame with slots has one home, and what can be   *)
(* reached from outside its frame is kept by name.                         *)
(*                                                                         *)
(* Then, slots keep their promise: the program with slots implements the   *)
(* walked program, in which every frame keeps its variables by name.  Both *)
(* are compared through the stack by names, Flat(frames): an operation on  *)
(* the one is the same operation on the other, or one of the exceptions    *)
(* that SlotPromise names.                                                 *)
(***************************************************************************)
EXTENDS SlotPromise, SequenceLemmas

-----------------------------------------------------------------------------
(* The inductive invariant *)

(* What a slot and its name agree on: either the name is a link, marked    *)
(* so, the slot is empty and its key is that of the link; or it is none,   *)
(* and nothing is kept under the name unless upvar was tried over it.      *)
HomeOf(f, n) ==
  IF f.links[n] = None
  THEN ~BlockedLinks => f.locals[n] = NoVar /\ n \notin f.aliased /\ f.linkKeys[n] = None
  ELSE /\ n \in f.aliased /\ f.slots[n] = Unset
       /\ f.linkKeys[n] # None => f.links[n].to = Global(f.linkKeys[n])
Homes(f) == \A n \in DOMAIN f.slots : HomeOf(f, n)

(* A link leads to a frame below or to its own; the dead were global.      *)
LinkOK(i, l) == l.to.frame <= i /\ (l.dead => l.to.frame = 0)
Linked(i, f) == \A n \in Names : f.links[n] # None => LinkOK(i, f.links[n])

Kept(fs, l) == l.frame # 0 => l.frame \in DOMAIN fs /\ l.name \notin DOMAIN fs[l.frame].slots

Listed(s) == Len(s) \in Nat /\ s = [i \in 1 .. Len(s) |-> s[i]]

FramesInv(fs) ==
  /\ Listed(fs) /\ Len(fs) <= MaxFrames
  /\ \A i \in 1 .. Len(fs) :
       /\ FrameOK(fs[i]) /\ Homes(fs[i]) /\ Linked(i, fs[i])
       /\ \A n \in Names : fs[i].links[n] # None => Kept(fs, fs[i].links[n].to)

TracedInv(fs, tr) == tr \subseteq Location /\ \A l \in tr : Kept(fs, l)

OutOK == out \in [res : Replies, val : Vals \cup {Unset, Marker}, fired : BOOLEAN]

IInv == /\ FramesInv(frames) /\ TracedInv(frames, traced)
        /\ globals \in [Keys -> Var] /\ live \in BOOLEAN
        /\ OutOK

-----------------------------------------------------------------------------
(* Values, links and frames *)

LEMMA Values ==
  /\ Vals \subseteq Nat /\ Unset \notin Vals /\ Marker \notin Vals /\ Unset # Marker
  /\ 0 \in Vals /\ NoVar \in Var /\ \A v \in Vals : Scalar(v) \in Var
BY FrameVarsAssumption DEF Vals, Unset, Marker, NoVar, Var, Scalar

LEMMA LinkIsNotNone ==
  ASSUME NEW l \in LinkType
  PROVE  l # None
<1>1. LinkType \subseteq [to : [frame : Nat, name : Names \cup Keys], dead : BOOLEAN]
  <2>1. 0 .. MaxFrames \subseteq Nat
    BY FrameVarsAssumption
  <2> QED BY <2>1 DEF LinkType, Location
<1> QED BY <1>1, FrameVarsAssumption

LEMMA LinkFields ==
  ASSUME NEW l \in LinkType
  PROVE  /\ l.to \in Location /\ l.dead \in BOOLEAN
         /\ l.to.frame \in 0 .. MaxFrames
         /\ l.to.frame = 0 => l.to.name \in Keys /\ l.to = Global(l.to.name)
         /\ l.to.frame # 0 => l.to.name \in Names /\ l.to = Local(l.to.frame, l.to.name)
BY DEF LinkType, Location, Global, Local

LEMMA Locations ==
  /\ \A k \in Keys : Global(k) \in Location /\ Global(k).frame = 0 /\ Global(k).name = k
  /\ \A i \in 1 .. MaxFrames, n \in Names :
       Local(i, n) \in Location /\ Local(i, n).frame = i /\ Local(i, n).name = n
BY FrameVarsAssumption DEF Global, Local, Location

LEMMA FrameFields ==
  ASSUME NEW f, FrameOK(f)
  PROVE  /\ DOMAIN f = {"locals", "links", "slots", "aliased", "linkKeys"}
         /\ f.locals \in [Names -> Var] /\ f.links \in [Names -> LinkType \cup {None}]
         /\ DOMAIN f.slots \subseteq Names
         /\ f.slots \in [DOMAIN f.slots -> Vals \cup {Unset}]
         /\ f.linkKeys \in [DOMAIN f.slots -> Keys \cup {None}]
         /\ f.aliased \subseteq DOMAIN f.slots
BY DEF FrameOK

LEMMA FramesAre ==
  ASSUME NEW fs, FramesInv(fs)
  PROVE  /\ Len(fs) \in 0 .. MaxFrames /\ DOMAIN fs = 1 .. Len(fs)
         /\ fs # <<>> => Len(fs) \in 1 .. Len(fs)
         /\ \A i \in 1 .. Len(fs) : FrameOK(fs[i]) /\ Homes(fs[i]) /\ Linked(i, fs[i])
         /\ \A i \in 1 .. Len(fs), n \in Names : fs[i].links[n] # None =>
              fs[i].links[n] \in LinkType /\ LinkOK(i, fs[i].links[n]) /\ Kept(fs, fs[i].links[n].to)
<1>1. Len(fs) \in Nat /\ fs = [i \in 1 .. Len(fs) |-> fs[i]] /\ MaxFrames \in Nat
  BY FrameVarsAssumption DEF FramesInv, Listed
<1>2. DOMAIN fs = 1 .. Len(fs) /\ Len(fs) \in 0 .. MaxFrames
  BY <1>1 DEF FramesInv
<1>3. fs # <<>> => Len(fs) \in 1 .. Len(fs)
  BY <1>1
<1>4. \A i \in 1 .. Len(fs), n \in Names : fs[i].links[n] # None =>
              fs[i].links[n] \in LinkType /\ LinkOK(i, fs[i].links[n]) /\ Kept(fs, fs[i].links[n].to)
  BY FrameFields DEF FramesInv, Linked
<1> QED BY <1>2, <1>3, <1>4 DEF FramesInv

-----------------------------------------------------------------------------
(* One frame changes *)

With(fs, i, g) == [fs EXCEPT ![i] = g]

LEMMA WithIs ==
  ASSUME NEW fs, FramesInv(fs), NEW i \in 1 .. Len(fs), NEW g
  PROVE  /\ Listed(With(fs, i, g)) /\ Len(With(fs, i, g)) = Len(fs)
         /\ \A j \in 1 .. Len(fs) : With(fs, i, g)[j] = IF j = i THEN g ELSE fs[j]
         /\ With(fs, i, g)[i] = g
<1> DEFINE gs == With(fs, i, g)
           S  == {gs[j] : j \in 1 .. Len(fs)}
<1>1. Len(fs) \in Nat /\ DOMAIN fs = 1 .. Len(fs)
  BY FramesAre DEF FramesInv, Listed
<1>2. gs = [j \in 1 .. Len(fs) |-> gs[j]] /\ \A j \in 1 .. Len(fs) : gs[j] = IF j = i THEN g ELSE fs[j]
  BY <1>1 DEF With
<1>3. \A j \in 1 .. Len(fs) : gs[j] \in S
  OBVIOUS
<1> HIDE DEF gs, S
<1>4. Len(gs) = Len(fs)
  BY <1>1, <1>2, <1>3
<1> QED BY <1>1, <1>2, <1>4 DEF gs, Listed

(* The frame has the slots it had, or fewer.                               *)
LEMMA KeptStill ==
  ASSUME NEW fs, FramesInv(fs), NEW i \in 1 .. Len(fs), NEW g,
         DOMAIN g.slots \subseteq DOMAIN fs[i].slots, NEW l, Kept(fs, l)
  PROVE  Kept(With(fs, i, g), l)
<1>1. DOMAIN With(fs, i, g) = 1 .. Len(fs) /\ DOMAIN fs = 1 .. Len(fs)
  BY FramesAre, WithIs DEF Listed
<1> QED BY <1>1, WithIs DEF Kept

LEMMA OneFrame ==
  ASSUME NEW fs, FramesInv(fs), NEW i \in 1 .. Len(fs), NEW g,
         FrameOK(g), Homes(g), Linked(i, g), DOMAIN g.slots \subseteq DOMAIN fs[i].slots,
         \A n \in Names : g.links[n] # None => Kept(With(fs, i, g), g.links[n].to)
  PROVE  FramesInv(With(fs, i, g))
<1> DEFINE gs == With(fs, i, g)
<1>1. /\ Listed(gs) /\ Len(gs) = Len(fs) /\ Len(fs) <= MaxFrames
      /\ \A j \in 1 .. Len(fs) : gs[j] = IF j = i THEN g ELSE fs[j]
  BY WithIs DEF FramesInv
<1>2. ASSUME NEW j \in 1 .. Len(fs)
      PROVE  /\ FrameOK(gs[j]) /\ Homes(gs[j]) /\ Linked(j, gs[j])
             /\ \A n \in Names : gs[j].links[n] # None => Kept(gs, gs[j].links[n].to)
  <2>1. CASE j = i
    BY <1>1, <2>1
  <2>2. CASE j # i
    <3>1. gs[j] = fs[j]
      BY <1>1, <2>2
    <3> HIDE DEF gs
    <3>2. \A n \in Names : fs[j].links[n] # None => Kept(gs, fs[j].links[n].to)
      BY FramesAre, KeptStill DEF gs
    <3> QED BY <3>1, <3>2, FramesAre
  <2> QED BY <2>1, <2>2
<1> QED BY <1>1, <1>2 DEF FramesInv

(* A frame that keeps its links.                                           *)
LEMMA SameLinks ==
  ASSUME NEW fs, FramesInv(fs), NEW i \in 1 .. Len(fs), NEW g,
         FrameOK(g), Homes(g), DOMAIN g.slots \subseteq DOMAIN fs[i].slots, g.links = fs[i].links
  PROVE  FramesInv(With(fs, i, g))
<1>1. Linked(i, g)
  BY FramesAre DEF Linked
<1>2. \A n \in Names : g.links[n] # None => Kept(With(fs, i, g), g.links[n].to)
  BY FramesAre, KeptStill
<1> QED BY <1>1, <1>2, OneFrame

LEMMA TracedStill ==
  ASSUME NEW fs, FramesInv(fs), NEW i \in 1 .. Len(fs), NEW g,
         DOMAIN g.slots \subseteq DOMAIN fs[i].slots, NEW tr, TracedInv(fs, tr)
  PROVE  TracedInv(With(fs, i, g), tr)
BY KeptStill DEF TracedInv

(* Both invariants go on with the new frames.                              *)
Onward(fs, gs) == FramesInv(gs) /\ \A tr : TracedInv(fs, tr) => TracedInv(gs, tr)

(* What most operations do to a frame: its links stay.                     *)
Similar(f, g) == /\ FrameOK(g) /\ Homes(g)
                 /\ DOMAIN g.slots \subseteq DOMAIN f.slots /\ g.links = f.links

LEMMA SimilarOnward ==
  ASSUME NEW fs, FramesInv(fs), NEW i \in 1 .. Len(fs), NEW g, Similar(fs[i], g)
  PROVE  Onward(fs, With(fs, i, g))
<1>1. FramesInv(With(fs, i, g))
  BY SameLinks DEF Similar
<1>2. ASSUME NEW tr, TracedInv(fs, tr)
      PROVE  TracedInv(With(fs, i, g), tr)
  BY <1>2, TracedStill DEF Similar
<1> QED BY <1>1, <1>2 DEF Onward

LEMMA OnwardSame ==
  ASSUME NEW fs, FramesInv(fs)
  PROVE  Onward(fs, fs)
BY DEF Onward

-----------------------------------------------------------------------------
(* What the operations do to a frame *)

Held3 == Vals \cup {Unset, Marker}

PutName(f, n, w)  == [f EXCEPT !.locals[n] = w]
PutValue(f, n, v) == [f EXCEPT !.locals[n].val = v]
PutSlot(f, n, v)  == [f EXCEPT !.slots[n] = v]

LEMMA NameStored ==
  ASSUME NEW f, FrameOK(f), Homes(f), NEW n \in Names, NEW w \in Var,
         n \in DOMAIN f.slots => f.links[n] # None \/ w = NoVar
  PROVE  Similar(f, PutName(f, n, w))
<1> DEFINE g == PutName(f, n, w)
<1>1. /\ DOMAIN g = DOMAIN f /\ g.locals = [f.locals EXCEPT ![n] = w] /\ g.links = f.links
      /\ g.slots = f.slots /\ g.aliased = f.aliased /\ g.linkKeys = f.linkKeys
  BY FrameFields DEF PutName
<1> HIDE DEF g
<1>2. FrameOK(g)
  BY <1>1, FrameFields DEF FrameOK
<1>3. Homes(g)
  BY <1>1, FrameFields DEF Homes, HomeOf
<1> QED BY <1>1, <1>2, <1>3 DEF Similar, g

LEMMA ValueStored ==
  ASSUME NEW f, FrameOK(f), Homes(f), NEW n \in Names, NEW v \in Held3,
         n \in DOMAIN f.slots => f.links[n] # None
  PROVE  Similar(f, PutValue(f, n, v))
<1> DEFINE w == [f.locals[n] EXCEPT !.val = v]
<1>1. w \in Var
  BY FrameFields DEF Var, Held3
<1>2. PutValue(f, n, v) = PutName(f, n, w)
  BY FrameFields DEF PutValue, PutName
<1> HIDE DEF w
<1> QED BY <1>1, <1>2, NameStored

LEMMA SlotStored ==
  ASSUME NEW f, FrameOK(f), Homes(f), NEW n \in DOMAIN f.slots, NEW v \in Vals \cup {Unset},
         f.links[n] = None
  PROVE  Similar(f, PutSlot(f, n, v))
<1> DEFINE g == PutSlot(f, n, v)
<1>1. /\ DOMAIN g = DOMAIN f /\ g.slots = [f.slots EXCEPT ![n] = v] /\ g.links = f.links
      /\ g.locals = f.locals /\ g.aliased = f.aliased /\ g.linkKeys = f.linkKeys
  BY FrameFields DEF PutSlot
<1> HIDE DEF g
<1>2. FrameOK(g)
  BY <1>1, FrameFields DEF FrameOK
<1>3. Homes(g)
  BY <1>1, FrameFields DEF Homes, HomeOf
<1> QED BY <1>1, <1>2, <1>3, FrameFields DEF Similar, g

LEMMA DegradedSimilar ==
  ASSUME NEW f, FrameOK(f), NEW n
  PROVE  /\ Similar(f, Degraded(f)) /\ DOMAIN Degraded(f).slots = {}
         /\ Homes(f) => Similar(f, DegradedFor(f, n))
         /\ n \notin DOMAIN DegradedFor(f, n).slots
<1> DEFINE g == Degraded(f)
           M == [m \in Names |-> IF m \in DOMAIN f.slots /\ f.slots[m] # Unset
                                  THEN [f.locals[m] EXCEPT !.val = f.slots[m]] ELSE f.locals[m]]
<1>1. /\ DOMAIN g = DOMAIN f /\ g.slots = NoSlots /\ g.links = f.links
      /\ g.locals = M /\ g.aliased = {} /\ g.linkKeys = NoSlots
  BY FrameFields DEF Degraded
<1>2. M \in [Names -> Var]
  <2>1. ASSUME NEW m \in Names
        PROVE  M[m] \in Var
    <3>1. CASE m \in DOMAIN f.slots /\ f.slots[m] # Unset
      <4>1. f.locals[m] \in Var /\ f.slots[m] \in Vals
        BY <3>1, FrameFields
      <4>2. [f.locals[m] EXCEPT !.val = f.slots[m]] \in Var
        BY <4>1 DEF Var
      <4> QED BY <3>1, <4>2
    <3>2. CASE ~(m \in DOMAIN f.slots /\ f.slots[m] # Unset)
      BY <3>2, FrameFields
    <3> QED BY <3>1, <3>2
  <2> QED BY <2>1
<1>3. DOMAIN NoSlots = {} /\ NoSlots \in [DOMAIN NoSlots -> Vals \cup {Unset}]
      /\ NoSlots \in [DOMAIN NoSlots -> Keys \cup {None}]
  BY DEF NoSlots
<1> HIDE DEF g, M
<1>4. FrameOK(g)
  BY <1>1, <1>2, <1>3, FrameFields DEF FrameOK
<1>5. Homes(g)
  BY <1>1, <1>3 DEF Homes
<1>6. Similar(f, g) /\ DOMAIN g.slots = {}
  BY <1>1, <1>3, <1>4, <1>5 DEF Similar
<1>7. Homes(f) => Similar(f, f)
  BY DEF Similar
<1> QED BY <1>6, <1>7 DEF g, DegradedFor

Relinked(f, n, link, v) ==
  [DegradedLink(f, n, link) EXCEPT !.links[n] = link, !.locals[n].val = v]

LEMMA DegradedLinkIs ==
  ASSUME NEW f, FrameOK(f), NEW n \in Names, NEW link \in LinkType
  PROVE  LET g == DegradedLink(f, n, link) IN
         /\ DOMAIN g = DOMAIN f /\ DOMAIN g.slots = DOMAIN f.slots
         /\ g.slots \in [DOMAIN f.slots -> Vals \cup {Unset}]
         /\ g.linkKeys \in [DOMAIN f.slots -> Keys \cup {None}]
         /\ g.locals \in [Names -> Var]
         /\ g.links = f.links
         /\ \A m \in Names \ {n} : g.locals[m] = f.locals[m]
         /\ g.locals[n].arr = f.locals[n].arr /\ g.locals[n] \in Var
         /\ n \notin DOMAIN f.slots => g = f
         /\ \A m \in DOMAIN f.slots \ {n} :
              g.slots[m] = f.slots[m] /\ g.linkKeys[m] = f.linkKeys[m]
              /\ (m \in g.aliased <=> m \in f.aliased)
         /\ g.aliased \subseteq f.aliased \cup ({n} \cap DOMAIN f.slots)
         /\ n \in DOMAIN f.slots =>
              /\ n \in g.aliased /\ g.slots[n] = Unset /\ g.linkKeys[n] \in Keys \cup {None}
              /\ g.linkKeys[n] # None => link.to = Global(g.linkKeys[n])
<1> DEFINE g == DegradedLink(f, n, link)
<1>1. CASE n \notin DOMAIN f.slots
  BY <1>1, FrameFields DEF DegradedLink
<1>2. CASE n \in DOMAIN f.slots
  <2> DEFINE w == [f.locals[n] EXCEPT !.val = First(f.slots[n], f.locals[n].val)]
             key == IF link.to.frame = 0 /\ ~link.dead THEN link.to.name ELSE None
  <2>1. /\ DOMAIN g = DOMAIN f /\ g.links = f.links
        /\ g.locals = [f.locals EXCEPT ![n] = w] /\ g.slots = [f.slots EXCEPT ![n] = Unset]
        /\ g.aliased = f.aliased \cup {n} /\ g.linkKeys = [f.linkKeys EXCEPT ![n] = key]
    BY <1>2, FrameFields DEF DegradedLink
  <2>2. w \in Var /\ w.arr = f.locals[n].arr
    BY <1>2, FrameFields DEF Var, First
  <2>3. key \in Keys \cup {None} /\ (key # None => link.to = Global(key))
    BY LinkFields
  <2> HIDE DEF g, w, key
  <2>4. /\ DOMAIN f.linkKeys = DOMAIN f.slots /\ DOMAIN f.locals = Names
        /\ g.slots \in [DOMAIN f.slots -> Vals \cup {Unset}]
        /\ g.linkKeys \in [DOMAIN f.slots -> Keys \cup {None}]
        /\ g.locals \in [Names -> Var]
    BY <1>2, <2>1, <2>2, <2>3, FrameFields
  <2> QED BY <1>2, <2>1, <2>2, <2>3, <2>4 DEF g
<1> QED BY <1>1, <1>2

LEMMA RelinkedIs ==
  ASSUME NEW f, FrameOK(f), Homes(f), NEW n \in Names, NEW link \in LinkType, NEW v \in Held3
  PROVE  LET g == Relinked(f, n, link, v) IN
         /\ FrameOK(g) /\ Homes(g) /\ DOMAIN g.slots = DOMAIN f.slots
         /\ g.links[n] = link /\ \A m \in Names \ {n} : g.links[m] = f.links[m]
<1> DEFINE d == DegradedLink(f, n, link)
           g == Relinked(f, n, link, v)
           w == [d.locals[n] EXCEPT !.val = v]
<1>1. /\ DOMAIN d = DOMAIN f /\ DOMAIN d.slots = DOMAIN f.slots /\ d.links = f.links
      /\ d.slots \in [DOMAIN f.slots -> Vals \cup {Unset}]
      /\ d.linkKeys \in [DOMAIN f.slots -> Keys \cup {None}]
      /\ d.locals \in [Names -> Var]
      /\ \A m \in Names \ {n} : d.locals[m] = f.locals[m]
      /\ d.locals[n] \in Var
      /\ n \notin DOMAIN f.slots => d = f
      /\ \A m \in DOMAIN f.slots \ {n} :
           d.slots[m] = f.slots[m] /\ d.linkKeys[m] = f.linkKeys[m]
           /\ (m \in d.aliased <=> m \in f.aliased)
      /\ d.aliased \subseteq f.aliased \cup ({n} \cap DOMAIN f.slots)
      /\ n \in DOMAIN f.slots =>
              /\ n \in d.aliased /\ d.slots[n] = Unset /\ d.linkKeys[n] \in Keys \cup {None}
              /\ d.linkKeys[n] # None => link.to = Global(d.linkKeys[n])
  BY DegradedLinkIs
<1> HIDE DEF d
<1>2. /\ DOMAIN g = DOMAIN f /\ g.locals = [d.locals EXCEPT ![n] = w]
      /\ g.links = [f.links EXCEPT ![n] = link]
      /\ g.slots = d.slots /\ g.aliased = d.aliased /\ g.linkKeys = d.linkKeys
  BY <1>1, FrameFields DEF Relinked, d
<1>3. w \in Var
  BY <1>1 DEF Var, Held3
<1>4. link # None
  BY LinkIsNotNone
<1> HIDE DEF g, w
<1>5. FrameOK(g)
  <2>1. g.locals \in [Names -> Var]
    BY <1>1, <1>2, <1>3, FrameFields
  <2>2. g.links \in [Names -> LinkType \cup {None}]
    BY <1>2, FrameFields
  <2>3. DOMAIN g.slots = DOMAIN f.slots /\ g.aliased \subseteq DOMAIN f.slots
    BY <1>1, <1>2, FrameFields
  <2> QED BY <1>1, <1>2, <2>1, <2>2, <2>3, FrameFields DEF FrameOK
<1>6. Homes(g)
  BY <1>1, <1>2, <1>4, FrameFields DEF Homes, HomeOf
<1> QED BY <1>1, <1>2, <1>5, <1>6, FrameFields DEF g

-----------------------------------------------------------------------------
(* Where a link leads in the end *)

Reaching(fs) == {l \in LinkType : LinkOK(Len(fs), l)}

LEMMA FurtherUp ==
  ASSUME NEW l \in LinkType, NEW i \in Nat, NEW j \in Nat, i <= j, LinkOK(i, l)
  PROVE  LinkOK(j, l)
<1>1. l.to.frame \in Nat
  BY LinkFields, FrameVarsAssumption
<1> QED BY <1>1 DEF LinkOK

LEMMA HopReaches ==
  ASSUME NEW fs, FramesInv(fs), NEW l \in Reaching(fs)
  PROVE  Hop(fs, l) \in Reaching(fs)
<1>1. CASE l.dead \/ l.to.frame = 0 \/ fs[l.to.frame].links[l.to.name] = None
  BY <1>1 DEF Hop
<1>2. CASE ~(l.dead \/ l.to.frame = 0 \/ fs[l.to.frame].links[l.to.name] = None)
  <2>1. l.to.frame \in 1 .. Len(fs) /\ l.to.name \in Names
    BY <1>2, LinkFields, FramesAre DEF Reaching, LinkOK
  <2>2. /\ fs[l.to.frame].links[l.to.name] \in LinkType
        /\ LinkOK(l.to.frame, fs[l.to.frame].links[l.to.name])
    BY <1>2, <2>1, FramesAre
  <2>3. l.to.frame <= Len(fs) /\ Len(fs) \in Nat /\ l.to.frame \in Nat
    BY <2>1, FramesAre DEF Reaching, LinkOK
  <2>4. LinkOK(Len(fs), fs[l.to.frame].links[l.to.name])
    BY <2>2, <2>3, FurtherUp
  <2> QED BY <1>2, <2>2, <2>4 DEF Hop, Reaching
<1> QED BY <1>1, <1>2

Hopped(fs, h, link, n) == h = [k \in 0 .. n |-> IF k = 0 THEN link ELSE Hop(fs, h[k - 1])]

(* The recursive function that Ultimate is made of exists.                 *)
LEMMA HopsExist ==
  ASSUME NEW fs, NEW link, NEW N \in Nat
  PROVE  \E h : Hopped(fs, h, link, N)
<1> DEFINE P == {n \in 0 .. N : \E h : Hopped(fs, h, link, n)}
<1>1. 0 \in P
  <2> DEFINE F == [k \in 0 .. 0 |-> link]
  <2>1. F = [k \in 0 .. 0 |-> IF k = 0 THEN link ELSE Hop(fs, F[k - 1])]
    OBVIOUS
  <2>2. Hopped(fs, F, link, 0)
    BY <2>1 DEF Hopped
  <2> HIDE DEF F
  <2> QED BY <2>2
<1>2. ASSUME NEW n \in 0 .. N, n \in P, n < N
      PROVE  n + 1 \in P
  <2>1. PICK F : Hopped(fs, F, link, n)
    BY <1>2
  <2> DEFINE G == [k \in 0 .. n + 1 |-> IF k = n + 1 THEN Hop(fs, F[n]) ELSE F[k]]
  <2>2. \A k \in 0 .. n : G[k] = F[k] /\ F[k] = IF k = 0 THEN link ELSE Hop(fs, F[k - 1])
    BY <2>1 DEF Hopped
  <2>3. G[n + 1] = Hop(fs, F[n]) /\ DOMAIN G = 0 .. n + 1
    OBVIOUS
  <2>4. G = [k \in 0 .. n + 1 |-> G[k]]
    OBVIOUS
  <2> HIDE DEF G
  <2>5. \A k \in 0 .. n + 1 : G[k] = IF k = 0 THEN link ELSE Hop(fs, G[k - 1])
    <3>1. ASSUME NEW k \in 0 .. n
          PROVE  G[k] = IF k = 0 THEN link ELSE Hop(fs, G[k - 1])
      <4>1. k # 0 => k - 1 \in 0 .. n
        OBVIOUS
      <4> QED BY <2>2, <4>1
    <3>2. G[n + 1] = Hop(fs, G[n]) /\ (n + 1) - 1 = n /\ n + 1 # 0
      BY <2>2, <2>3
    <3>3. \A k \in 0 .. n + 1 : k \in 0 .. n \/ k = n + 1
      OBVIOUS
    <3> QED BY <3>1, <3>2, <3>3
  <2>6. Hopped(fs, G, link, n + 1)
    BY <2>4, <2>5 DEF Hopped
  <2> QED BY <1>2, <2>6
<1>3. N \in P
  <2>1. \A k \in 0 .. N : k \in P /\ k < N => k + 1 \in P
    BY <1>2
  <2> HIDE DEF P
  <2>2. \A k \in 0 .. N : k \in P
    BY <1>1, <2>1, Steps
  <2> QED BY <2>2
<1> QED BY <1>3

LEMMA UltimateHops ==
  ASSUME NEW fs, NEW link, Len(fs) \in Nat
  PROVE  \E h : Ultimate(fs, link) = h[Len(fs) + 1] /\ Hopped(fs, h, link, Len(fs) + 1)
<1> DEFINE F == CHOOSE h : Hopped(fs, h, link, Len(fs) + 1)
<1>1. Hopped(fs, F, link, Len(fs) + 1)
  BY HopsExist
<1>2. Ultimate(fs, link) = F[Len(fs) + 1]
  BY DEF Ultimate, Hopped
<1> HIDE DEF F
<1> QED BY <1>1, <1>2

(* Every hop from a link that reaches a location reaches one.              *)
LEMMA HopsReach ==
  ASSUME NEW fs, FramesInv(fs), NEW link \in Reaching(fs), NEW N \in Nat, NEW h,
         Hopped(fs, h, link, N)
  PROVE  \A k \in 0 .. N : h[k] \in Reaching(fs)
<1> DEFINE P == {k \in 0 .. N : h[k] \in Reaching(fs)}
<1>1. h[0] = link /\ \A k \in 1 .. N : h[k] = Hop(fs, h[k - 1])
  BY DEF Hopped
<1>2. 0 \in P
  BY <1>1
<1>3. \A k \in 0 .. N : k \in P /\ k < N => k + 1 \in P
  <2>1. ASSUME NEW k \in 0 .. N, h[k] \in Reaching(fs), k < N
        PROVE  h[k + 1] \in Reaching(fs)
    <3>1. k + 1 \in 1 .. N /\ (k + 1) - 1 = k
      BY <2>1
    <3> QED BY <1>1, <2>1, <3>1, HopReaches
  <2> QED BY <2>1
<1>4. P \subseteq {k \in 0 .. N : h[k] \in Reaching(fs)}
  OBVIOUS
<1> HIDE DEF P
<1>5. \A k \in 0 .. N : k \in P
  BY <1>2, <1>3, Steps
<1> QED BY <1>4, <1>5

LEMMA UltimateReaches ==
  ASSUME NEW fs, FramesInv(fs), NEW link \in Reaching(fs)
  PROVE  Ultimate(fs, link) \in Reaching(fs)
<1> DEFINE N == Len(fs) + 1
<1>1. Len(fs) \in Nat /\ N \in Nat
  BY FramesAre
<1>2. PICK h : Ultimate(fs, link) = h[N] /\ Hopped(fs, h, link, N)
  BY <1>1, UltimateHops
<1> HIDE DEF N
<1>3. \A k \in 0 .. N : h[k] \in Reaching(fs)
  BY <1>1, <1>2, HopsReach
<1>4. N \in 0 .. N
  BY <1>1
<1> QED BY <1>2, <1>3, <1>4

-----------------------------------------------------------------------------
(* Names and locations of the running frame *)

LEMMA Here ==
  ASSUME FramesInv(frames), frames # <<>>
  PROVE  /\ Depth \in 1 .. Len(frames) /\ Depth = Len(frames) /\ Depth \in 1 .. MaxFrames
         /\ Top = frames[Depth] /\ FrameOK(Top) /\ Homes(Top)
         /\ \A n \in Names : LinkOf(n) # None =>
              /\ LinkOf(n) \in LinkType /\ LinkOK(Depth, LinkOf(n)) /\ Kept(frames, LinkOf(n).to)
BY FramesAre DEF Depth, Top, LinkOf

(* A location that is there, with nothing in a slot over it.               *)
There(l) == /\ l \in Location /\ l.frame \in 0 .. Len(frames)
            /\ l.frame = 0 => l.name \in Keys
            /\ l.frame # 0 => l.frame \in 1 .. Len(frames) /\ l.name \in Names
Bare(l)  == l.frame # 0 => \/ l.name \notin DOMAIN frames[l.frame].slots
                           \/ frames[l.frame].links[l.name] # None

LEMMA LinkThere ==
  ASSUME FramesInv(frames), frames # <<>>, NEW n \in Names, LinkOf(n) # None
  PROVE  There(LinkOf(n).to) /\ Bare(LinkOf(n).to)
<1>1. /\ LinkOf(n) \in LinkType /\ LinkOK(Depth, LinkOf(n)) /\ Kept(frames, LinkOf(n).to)
      /\ Depth = Len(frames) /\ Depth \in Nat
  BY Here
<1>2. /\ LinkOf(n).to \in Location /\ LinkOf(n).to.frame \in 0 .. MaxFrames
      /\ LinkOf(n).to.frame = 0 => LinkOf(n).to.name \in Keys
      /\ LinkOf(n).to.frame # 0 => LinkOf(n).to.name \in Names
  BY <1>1, LinkFields
<1>3. LinkOf(n).to.frame <= Depth
  BY <1>1 DEF LinkOK
<1>4. DOMAIN frames = 1 .. Len(frames)
  BY FramesAre
<1> HIDE DEF LinkOf
<1>5. Bare(LinkOf(n).to)
  BY <1>1 DEF Bare, Kept
<1>6. There(LinkOf(n).to)
  BY <1>1, <1>2, <1>3, <1>4 DEF There, Kept
<1> QED BY <1>5, <1>6

LEMMA OwnThere ==
  ASSUME FramesInv(frames), frames # <<>>, NEW n \in Names
  PROVE  /\ There(Local(Depth, n)) /\ Local(Depth, n).frame = Depth /\ Local(Depth, n).name = n
         /\ Depth # 0
         /\ n \notin DOMAIN Top.slots \/ LinkOf(n) # None => Bare(Local(Depth, n))
<1>1. /\ Depth \in 1 .. Len(frames) /\ Depth = Len(frames) /\ Depth \in 1 .. MaxFrames
      /\ Top = frames[Depth]
  BY Here
<1>2. /\ Local(Depth, n) \in Location /\ Local(Depth, n).frame = Depth /\ Local(Depth, n).name = n
  BY <1>1, Locations
<1> QED BY <1>1, <1>2 DEF There, Bare, LinkOf

LEMMA LocOfThere ==
  ASSUME FramesInv(frames), frames # <<>>, NEW n \in Names
  PROVE  /\ There(LocOf(n)) /\ (n \notin DOMAIN Top.slots \/ LinkOf(n) # None => Bare(LocOf(n)))
         /\ n \notin DOMAIN Top.slots => Kept(frames, LocOf(n))
         /\ \/ LocOf(n) = Local(Depth, n)
            \/ LinkOf(n) # None /\ LocOf(n) = LinkOf(n).to /\ Kept(frames, LocOf(n))
<1>1. CASE LinkOf(n) = None \/ LinkOf(n).dead
  <2>1. LocOf(n) = Local(Depth, n)
    BY <1>1 DEF LocOf
  <2>2. n \notin DOMAIN Top.slots => Kept(frames, Local(Depth, n))
    <3>1. Depth \in DOMAIN frames /\ Top = frames[Depth]
      BY Here, FramesAre
    <3>2. Local(Depth, n).frame = Depth /\ Local(Depth, n).name = n
      BY OwnThere
    <3> QED BY <3>1, <3>2 DEF Kept
  <2> QED BY <2>1, <2>2, OwnThere
<1>2. CASE LinkOf(n) # None /\ ~LinkOf(n).dead
  BY <1>2, LinkThere, Here DEF LocOf
<1> QED BY <1>1, <1>2

LEMMA VarAtIs ==
  ASSUME FramesInv(frames), globals \in [Keys -> Var], NEW l, There(l)
  PROVE  VarAt(l) \in Var /\ VarAt(l).val \in Held3 /\ VarAt(l).arr \in BOOLEAN
<1>1. VarAt(l) \in Var
  <2>1. CASE l.frame = 0
    BY <2>1 DEF There, VarAt
  <2>2. CASE l.frame # 0
    <3>1. l.frame \in 1 .. Len(frames) /\ l.name \in Names
      BY <2>2 DEF There
    <3>2. frames[l.frame].locals \in [Names -> Var]
      BY <3>1, FramesAre, FrameFields
    <3> QED BY <2>2, <3>1, <3>2 DEF VarAt
  <2> QED BY <2>1, <2>2
<1> QED BY <1>1 DEF Var, Held3

LEMMA SlotValueIs ==
  ASSUME NEW f, FrameOK(f), NEW n
  PROVE  SlotValue(f, n) \in Vals \cup {Unset}
BY FrameFields DEF SlotValue

LEMMA FirstIs ==
  ASSUME NEW v \in Held3, NEW w \in Held3
  PROVE  First(v, w) \in Held3
BY DEF First

LEMMA ResolvedIs ==
  ASSUME FramesInv(frames), globals \in [Keys -> Var], frames # <<>>, NEW n \in Names
  PROVE  Resolved(n) \in Held3
<1>1. Top.locals[n].val \in Held3
  BY Here, FrameFields DEF Var, Held3
<1>2. SlotValue(Top, n) \in Held3
  BY Here, SlotValueIs DEF Held3
<1>3. CASE LinkOf(n) = None
  BY <1>1, <1>2, <1>3, FirstIs DEF Resolved
<1>4. CASE LinkOf(n) # None
  <2>1. There(LinkOf(n).to)
    BY <1>4, LinkThere
  <2>2. CASE LinkOf(n).to.frame = 0
    <3>1. globals[LinkOf(n).to.name].val \in Held3
      BY <2>1, <2>2 DEF There, Var, Held3
    <3> QED BY <1>1, <1>4, <2>2, <3>1, FirstIs DEF Resolved
  <2>3. CASE LinkOf(n).to.frame # 0
    <3>1. SlotValue(frames[LinkOf(n).to.frame], LinkOf(n).to.name) \in Held3
      BY <2>1, <2>3, FramesAre, SlotValueIs DEF There, Held3
    <3>2. VarAt(LinkOf(n).to).val \in Held3
      BY <2>1, VarAtIs
    <3> QED BY <1>4, <2>3, <3>1, <3>2, FirstIs DEF Resolved
  <2> QED BY <2>2, <2>3
<1> QED BY <1>3, <1>4

LEMMA GetVarIs ==
  ASSUME FramesInv(frames), globals \in [Keys -> Var], frames # <<>>, NEW n \in Names
  PROVE  GetVar(n).res \in Replies /\ GetVar(n).val \in Held3
<1>1. Slotted(n) => Top.slots[n] \in Held3
  BY Here, FrameFields DEF Slotted, Held3
<1>2. Resolved(n) \in Held3 /\ Unset \in Held3
  BY ResolvedIs DEF Held3
<1>3. CASE LinkOf(n) = None /\ Slotted(n)
  BY <1>1, <1>3 DEF GetVar, Replies
<1>4. CASE ~(LinkOf(n) = None /\ Slotted(n)) /\ VarAt(LocOf(n)).arr
  BY <1>2, <1>4 DEF GetVar, Replies
<1>5. CASE ~(LinkOf(n) = None /\ Slotted(n)) /\ ~VarAt(LocOf(n)).arr
  BY <1>2, <1>5 DEF GetVar, Replies
<1> QED BY <1>3, <1>4, <1>5

-----------------------------------------------------------------------------
(* What is stored *)

Moves == Onward(frames, frames') /\ globals' \in [Keys -> Var]

LEMMA PutMoves ==
  ASSUME FramesInv(frames), globals \in [Keys -> Var], NEW l, There(l), Bare(l),
         NEW v \in Held3, Put(l, v)
  PROVE  Moves
<1>1. CASE l.frame = 0
  <2>1. globals' = [globals EXCEPT ![l.name].val = v] /\ frames' = frames
    BY <1>1 DEF Put
  <2>2. globals[l.name] \in Var
    BY <1>1 DEF There
  <2>3. [globals[l.name] EXCEPT !.val = v] \in Var
    BY <2>2 DEF Var, Held3
  <2> QED BY <2>1, <2>3, OnwardSame DEF Moves
<1>2. CASE l.frame # 0
  <2> DEFINE f == frames[l.frame]
  <2>1. frames' = [frames EXCEPT ![l.frame].locals[l.name].val = v] /\ globals' = globals
    BY <1>2 DEF Put
  <2>2. frames' = With(frames, l.frame, PutValue(f, l.name, v))
    BY <2>1 DEF With, PutValue
  <2>3. l.frame \in 1 .. Len(frames) /\ l.name \in Names
    BY <1>2 DEF There
  <2>4. FrameOK(f) /\ Homes(f) /\ (l.name \in DOMAIN f.slots => f.links[l.name] # None)
    BY <1>2, <2>3, FramesAre DEF Bare
  <2> HIDE DEF f
  <2>5. Similar(f, PutValue(f, l.name, v))
    BY <2>3, <2>4, ValueStored
  <2>6. Onward(frames, With(frames, l.frame, PutValue(f, l.name, v)))
    BY <2>3, <2>5, SimilarOnward DEF f
  <2> QED BY <2>1, <2>2, <2>6 DEF Moves
<1> QED BY <1>1, <1>2

LEMMA TopMoves ==
  ASSUME FramesInv(frames), globals \in [Keys -> Var], frames # <<>>, NEW g, SetTop(g),
         Similar(Top, g), UNCHANGED globals
  PROVE  Moves
<1>1. frames' = With(frames, Depth, g)
  BY DEF SetTop, With
<1> QED BY <1>1, Here, SimilarOnward DEF Moves

LEMMA StoreMoves ==
  ASSUME FramesInv(frames), globals \in [Keys -> Var], frames # <<>>, NEW n \in Names,
         NEW v \in Vals, Store(n, v)
  PROVE  Moves
<1>1. v \in Held3
  BY DEF Held3
<1>2. CASE LinkOf(n) # None
  BY <1>1, <1>2, LinkThere, PutMoves DEF Store
<1>3. CASE LinkOf(n) = None /\ Slotted(n)
  <2>1. SetTop(PutSlot(Top, n, v)) /\ UNCHANGED globals
    BY <1>3 DEF Store, PutSlot
  <2>2. Similar(Top, PutSlot(Top, n, v))
    BY <1>3, Here, SlotStored DEF Slotted, LinkOf
  <2> QED BY <2>1, <2>2, TopMoves
<1>4. CASE LinkOf(n) = None /\ ~Slotted(n)
  BY <1>1, <1>4, OwnThere, PutMoves DEF Store, Slotted
<1> QED BY <1>2, <1>3, <1>4

LEMMA Still ==
  ASSUME FramesInv(frames), globals \in [Keys -> Var], UNCHANGED <<frames, globals>>
  PROVE  Moves
BY OnwardSame DEF Moves

LEMMA Answered ==
  ASSUME NEW res \in Replies, NEW val \in Held3
  PROVE  /\ Answer(res, val, FALSE) => OutOK'
         /\ \A l : Answer(res, val, l \in traced) => OutOK'
<1>1. ASSUME NEW fired \in BOOLEAN, Answer(res, val, fired)
      PROVE  OutOK'
  BY <1>1 DEF Answer, OutOK, Held3
<1>2. ASSUME NEW l, Answer(res, val, l \in traced)
      PROVE  OutOK'
  <2>1. CASE l \in traced
    <3>1. Answer(res, val, TRUE)
      BY <1>2, <2>1
    <3> QED BY <1>1, <3>1
  <2>2. CASE l \notin traced
    <3>1. (l \in traced) = FALSE
      BY <2>2
    <3>2. Answer(res, val, FALSE)
      BY <1>2, <3>1
    <3> QED BY <1>1, <3>2
  <2> QED BY <2>1, <2>2
<1> QED BY <1>1, <1>2

LEMMA Said ==
  ASSUME NEW res \in Replies, Say(res)
  PROVE  OutOK'
BY Answered DEF Say, Held3

(* What ends the case of an action.                                        *)
LEMMA Ends ==
  ASSUME IInv, Moves, traced' \subseteq traced, UNCHANGED live, OutOK'
  PROVE  IInv'
<1>1. TracedInv(frames, traced')
  BY DEF IInv, TracedInv
<1>2. TracedInv(frames', traced')
  BY <1>1 DEF Moves, Onward
<1> QED BY <1>2 DEF IInv, Moves, Onward

-----------------------------------------------------------------------------
(* The operations by name *)

LEMMA ReadSafe ==
  ASSUME IInv, frames # <<>>, NEW n \in Names, ReadVar(n)
  PROVE  IInv'
<1>1. GetVar(n).res \in Replies /\ GetVar(n).val \in Held3
  BY GetVarIs DEF IInv
<1>2. /\ Answer(GetVar(n).res, GetVar(n).val, LocOf(n) \in traced)
      /\ UNCHANGED <<frames, globals, traced, live>>
  BY DEF ReadVar
<1>3. OutOK'
  BY <1>1, <1>2, Answered
<1> QED BY <1>2, <1>3, Still, Ends DEF IInv

LEMMA SetMoves ==
  ASSUME IInv, frames # <<>>, NEW n \in Names, NEW v \in Vals, SetVar(n, v)
  PROVE  Moves /\ OutOK'
<1>1. CASE Refusal(n) = "ok"
  <2>1. Store(n, v) /\ Answer("ok", v, LocOf(n) \in traced)
    BY <1>1 DEF SetVar, WriteOr
  <2>2. OutOK'
    BY <2>1, Answered DEF Held3, Replies
  <2> QED BY <2>1, <2>2, StoreMoves DEF IInv
<1>2. CASE Refusal(n) # "ok"
  <2>1. UNCHANGED <<frames, globals>> /\ Say(Refusal(n))
    BY <1>2 DEF SetVar, WriteOr
  <2>2. Refusal(n) \in Replies
    BY DEF Refusal, Replies
  <2> QED BY <2>1, <2>2, Still, Said DEF IInv
<1> QED BY <1>1, <1>2

LEMMA WriteSafe ==
  ASSUME IInv, frames # <<>>, NEW n \in Names, NEW v \in Vals, WriteVar(n, v)
  PROVE  IInv'
<1>1. SetVar(n, v) /\ UNCHANGED <<traced, live>>
  BY DEF WriteVar
<1> QED BY <1>1, SetMoves, Ends

LEMMA IncrSafe ==
  ASSUME IInv, frames # <<>>, NEW n \in Names, IncrVar(n)
  PROVE  IInv'
<1> DEFINE cur == IF GetVar(n).res = "missing" THEN 0 ELSE GetVar(n).val
<1>1. cur \in Held3
  BY GetVarIs, Values DEF IInv, Held3
<1>2. UNCHANGED <<traced, live>>
  BY DEF IncrVar
<1>3. CASE GetVar(n).res = "array" \/ cur = Marker
  <2>1. UNCHANGED <<frames, globals>> /\ Say(IF cur = Marker THEN "notint" ELSE "array")
    BY <1>3 DEF IncrVar
  <2>2. OutOK'
    BY <2>1, Said DEF Replies
  <2> QED BY <1>2, <2>1, <2>2, Still, Ends DEF IInv
<1>4. CASE ~(GetVar(n).res = "array" \/ cur = Marker)
  <2>1. cur < MaxVal /\ SetVar(n, cur + 1)
    BY <1>4 DEF IncrVar
  <2> HIDE DEF cur
  <2>2. cur + 1 \in Vals
    BY <1>1, <1>4, <2>1, FrameVarsAssumption DEF Held3, Vals, Unset
  <2>3. Moves /\ OutOK'
    BY <2>1, <2>2, SetMoves
  <2> QED BY <1>2, <2>3, Ends
<1> QED BY <1>3, <1>4

LEMMA InfoSafe ==
  ASSUME IInv, InfoVars
  PROVE  IInv'
<1>1. frames # <<>> /\ SetTop(Degraded(Top)) /\ Say("ok") /\ UNCHANGED <<globals, traced, live>>
  BY DEF InfoVars
<1>2. Similar(Top, Degraded(Top))
  BY <1>1, Here, DegradedSimilar DEF IInv
<1>3. Moves
  BY <1>1, <1>2, TopMoves DEF IInv
<1> QED BY <1>1, <1>3, Said, Ends DEF Replies

LEMMA TraceSafe ==
  ASSUME IInv, frames # <<>>, NEW n \in Names, TraceVar(n)
  PROVE  IInv'
<1> DEFINE g == DegradedFor(Top, n)
<1>1. /\ SetTop(g) /\ traced' = traced \cup {LocOf(n)} /\ Say("ok") /\ UNCHANGED <<globals, live>>
  BY DEF TraceVar
<1>2. Similar(Top, g) /\ n \notin DOMAIN g.slots
  BY Here, DegradedSimilar DEF IInv
<1> HIDE DEF g
<1>3. Moves /\ frames' = With(frames, Depth, g)
  BY <1>1, <1>2, TopMoves DEF IInv, SetTop, With
<1>4. /\ Depth \in 1 .. Len(frames) /\ DOMAIN frames' = 1 .. Len(frames)
      /\ frames'[Depth] = g
  BY <1>3, Here, WithIs DEF IInv, Listed
<1>5. Kept(frames', LocOf(n))
  <2>1. CASE LocOf(n) = Local(Depth, n)
    <3>1. Local(Depth, n).frame = Depth /\ Local(Depth, n).name = n
      BY OwnThere DEF IInv
    <3> QED BY <1>2, <1>4, <2>1, <3>1 DEF Kept
  <2>2. CASE LinkOf(n) # None /\ LocOf(n) = LinkOf(n).to /\ Kept(frames, LocOf(n))
    <3>1. DOMAIN g.slots \subseteq DOMAIN frames[Depth].slots
      BY <1>2, Here DEF IInv, Similar
    <3> QED BY <1>3, <1>4, <2>2, <3>1, KeptStill DEF IInv
  <2> QED BY <2>1, <2>2, LocOfThere DEF IInv
<1>6. LocOf(n) \in Location
  BY LocOfThere DEF IInv, There
<1>7. TracedInv(frames', traced)
  BY <1>3 DEF Moves, Onward, IInv
<1>8. TracedInv(frames', traced')
  BY <1>1, <1>5, <1>6, <1>7 DEF TracedInv
<1>9. OutOK'
  BY <1>1, Said DEF Replies
<1> QED BY <1>1, <1>3, <1>8, <1>9 DEF IInv, Moves, Onward

LEMMA ElementSafe ==
  ASSUME IInv, frames # <<>>, NEW n \in Names, WriteElement(n)
  PROVE  IInv'
<1> DEFINE g  == DegradedFor(Top, n)
           fs == [frames EXCEPT ![Depth] = DegradedFor(@, n)]
           l  == LocOf(n)
           w  == [val |-> Marker, arr |-> TRUE]
<1>1. UNCHANGED <<traced, live>>
  BY DEF WriteElement
<1>2. CASE IsDead(n)
  <2>1. UNCHANGED <<frames, globals>> /\ Say("dead")
    BY <1>2 DEF WriteElement
  <2> QED BY <1>1, <2>1, Still, Said, Ends DEF IInv, Replies
<1>3. CASE ~IsDead(n)
  <2>1. fs = With(frames, Depth, g) /\ Depth \in 1 .. Len(frames) /\ Top = frames[Depth]
    BY Here DEF With, IInv
  <2>2. Similar(Top, g) /\ n \notin DOMAIN g.slots
    BY Here, DegradedSimilar DEF IInv
  <2>3. \/ /\ frames' = fs /\ UNCHANGED globals
           /\ Answer("ok", Unset, l \in traced) \/ Say("notarray")
        \/ /\ l.frame = 0 /\ globals' = [globals EXCEPT ![l.name] = w] /\ frames' = fs
           /\ Answer("ok", Unset, l \in traced)
        \/ /\ l.frame # 0 /\ frames' = [fs EXCEPT ![l.frame].locals[l.name] = w]
           /\ UNCHANGED globals /\ Answer("ok", Unset, l \in traced)
    BY <1>3 DEF WriteElement
  <2>4. OutOK'
    BY <2>3, Said, Answered DEF Held3, Replies
  <2>5. w \in Var
    BY DEF Var
  <2>6. There(l)
    BY LocOfThere DEF IInv
  <2> HIDE DEF fs, g, l, w
  <2>7. Onward(frames, fs)
    BY <2>1, <2>2, SimilarOnward DEF IInv
  <2>8. CASE frames' = fs /\ globals' \in [Keys -> Var]
    BY <1>1, <2>4, <2>7, <2>8, Ends DEF Moves
  <2>9. CASE /\ l.frame # 0 /\ frames' = [fs EXCEPT ![l.frame].locals[l.name] = w]
             /\ UNCHANGED globals
    <3>1. /\ l.frame \in 1 .. Len(fs) /\ l.name \in Names /\ DOMAIN fs = 1 .. Len(fs)
          /\ DOMAIN frames = 1 .. Len(frames) /\ fs[Depth] = g
      BY <2>1, <2>6, <2>9, WithIs, FramesAre DEF There, IInv, Listed
    <3>2. l.name \notin DOMAIN fs[l.frame].slots
      <4>1. CASE l = Local(Depth, n)
        <5>1. l.frame = Depth /\ l.name = n
          BY <4>1, OwnThere DEF IInv
        <5> QED BY <2>2, <3>1, <5>1
      <4>2. CASE LinkOf(n) # None /\ l = LinkOf(n).to /\ Kept(frames, l)
        <5>1. DOMAIN g.slots \subseteq DOMAIN frames[Depth].slots
          BY <2>1, <2>2 DEF Similar
        <5>2. Kept(fs, l)
          BY <2>1, <4>2, <5>1, KeptStill DEF IInv
        <5> QED BY <2>9, <5>2 DEF Kept
      <4> QED BY <4>1, <4>2, LocOfThere DEF l, IInv
    <3>3. FramesInv(fs)
      BY <2>7 DEF Onward
    <3>4. Similar(fs[l.frame], PutName(fs[l.frame], l.name, w))
      BY <2>5, <3>1, <3>2, <3>3, FramesAre, NameStored
    <3>5. frames' = With(fs, l.frame, PutName(fs[l.frame], l.name, w))
      BY <2>9 DEF With, PutName
    <3>6. Onward(fs, frames')
      BY <3>1, <3>3, <3>4, <3>5, SimilarOnward
    <3>7. Onward(frames, frames')
      BY <2>7, <3>6 DEF Onward
    <3>8. Moves
      BY <2>9, <3>7 DEF Moves, IInv
    <3> QED BY <1>1, <2>4, <3>8, Ends
  <2>10. l.frame = 0 => [globals EXCEPT ![l.name] = w] \in [Keys -> Var]
    BY <2>5, <2>6 DEF There, IInv
  <2> QED BY <2>3, <2>8, <2>9, <2>10 DEF IInv
<1> QED BY <1>2, <1>3

-----------------------------------------------------------------------------
(* Every frame changes *)

LEMMA MappedFrames ==
  ASSUME NEW fs, FramesInv(fs), NEW gs, gs = [i \in DOMAIN fs |-> gs[i]],
         \A i \in 1 .. Len(fs) :
           /\ FrameOK(gs[i]) /\ Homes(gs[i]) /\ DOMAIN gs[i].slots \subseteq DOMAIN fs[i].slots
           /\ \A n \in Names : gs[i].links[n] # None =>
                /\ fs[i].links[n] # None /\ gs[i].links[n].to = fs[i].links[n].to
                /\ gs[i].links[n].dead => gs[i].links[n].to.frame = 0
  PROVE  Onward(fs, gs)
<1>1. Len(fs) \in Nat /\ DOMAIN fs = 1 .. Len(fs) /\ Len(fs) <= MaxFrames
  BY FramesAre DEF FramesInv, Listed
<1>2. Len(gs) = Len(fs) /\ Listed(gs) /\ DOMAIN gs = 1 .. Len(fs)
  <2> DEFINE S == {gs[j] : j \in 1 .. Len(fs)}
  <2>1. \A j \in 1 .. Len(fs) : gs[j] \in S
    OBVIOUS
  <2>2. gs = [i \in 1 .. Len(fs) |-> gs[i]]
    BY <1>1
  <2> HIDE DEF S
  <2>3. Len(gs) = Len(fs)
    BY <1>1, <2>1, <2>2
  <2> QED BY <1>1, <2>2, <2>3 DEF Listed
<1>3. ASSUME NEW l, Kept(fs, l)
      PROVE  Kept(gs, l)
  BY <1>1, <1>2, <1>3 DEF Kept
<1>4. ASSUME NEW i \in 1 .. Len(fs)
      PROVE  /\ FrameOK(gs[i]) /\ Homes(gs[i]) /\ Linked(i, gs[i])
             /\ \A n \in Names : gs[i].links[n] # None => Kept(gs, gs[i].links[n].to)
  <2>1. \A n \in Names : gs[i].links[n] # None =>
          LinkOK(i, fs[i].links[n]) /\ Kept(fs, fs[i].links[n].to)
    BY FramesAre
  <2>2. Linked(i, gs[i])
    BY <2>1 DEF Linked, LinkOK
  <2>3. \A n \in Names : gs[i].links[n] # None => Kept(gs, gs[i].links[n].to)
    BY <1>3, <2>1
  <2> QED BY <2>2, <2>3
<1>5. FramesInv(gs)
  BY <1>1, <1>2, <1>4 DEF FramesInv
<1> QED BY <1>3, <1>5 DEF Onward, TracedInv

LEMMA WithoutSeedsOnward ==
  ASSUME NEW fs, FramesInv(fs), NEW k \in Keys
  PROVE  Onward(fs, WithoutSeeds(fs, k))
<1> DEFINE gs == WithoutSeeds(fs, k)
           seed == [to |-> Global(k), dead |-> FALSE]
           L(f) == [n \in Names |-> IF f.links[n] = seed THEN NoVar ELSE f.locals[n]]
<1>1. gs = [i \in DOMAIN fs |-> gs[i]] /\ DOMAIN fs = 1 .. Len(fs)
  BY FramesAre DEF WithoutSeeds
<1>2. ASSUME NEW i \in 1 .. Len(fs)
      PROVE  /\ FrameOK(gs[i]) /\ Homes(gs[i]) /\ DOMAIN gs[i].slots \subseteq DOMAIN fs[i].slots
             /\ gs[i].links = fs[i].links
  <2> DEFINE f == fs[i]
  <2>1. FrameOK(f) /\ Homes(f)
    BY FramesAre
  <2>2. gs[i] = [f EXCEPT !.locals = L(f)]
    BY <1>1 DEF WithoutSeeds
  <2> HIDE DEF f
  <2>3. L(f) \in [Names -> Var]
    BY <2>1, Values, FrameFields
  <2>4. \A n \in Names : f.locals[n] = NoVar => L(f)[n] = NoVar
    OBVIOUS
  <2> HIDE DEF L, gs
  <2>5. /\ DOMAIN gs[i] = DOMAIN f /\ gs[i].locals = L(f) /\ gs[i].links = f.links
        /\ gs[i].slots = f.slots /\ gs[i].aliased = f.aliased /\ gs[i].linkKeys = f.linkKeys
    BY <2>1, <2>2, FrameFields
  <2>6. FrameOK(gs[i])
    BY <2>1, <2>3, <2>5, FrameFields DEF FrameOK
  <2>7. Homes(gs[i])
    BY <2>1, <2>4, <2>5, FrameFields DEF Homes, HomeOf
  <2> QED BY <2>5, <2>6, <2>7 DEF f
<1>3. \A i \in 1 .. Len(fs), n \in Names : fs[i].links[n] # None =>
        (fs[i].links[n].dead => fs[i].links[n].to.frame = 0)
  BY FramesAre DEF LinkOK
<1> HIDE DEF gs
<1> QED BY <1>1, <1>2, <1>3, MappedFrames DEF gs

LEMMA RemovedMoves ==
  ASSUME FramesInv(frames), globals \in [Keys -> Var], frames # <<>>, NEW n \in Names, Removed(n)
  PROVE  Moves
<1> DEFINE l == LocOf(n)
<1>1. There(l) /\ (n \notin DOMAIN Top.slots \/ LinkOf(n) # None => Bare(l))
  BY LocOfThere
<1>2. NoVar \in Var /\ Unset \in Held3
  BY Values DEF Held3
<1>3. CASE VarAt(l).arr /\ l.frame = 0
  <2>1. globals' = [globals EXCEPT ![l.name] = NoVar] /\ UNCHANGED frames
    BY <1>3 DEF Removed
  <2> QED BY <1>1, <1>2, <1>3, <2>1, OnwardSame DEF There, Moves
<1>4. CASE VarAt(l).arr /\ l.frame # 0
  <2>1. frames' = [frames EXCEPT ![l.frame].locals[l.name] = NoVar] /\ UNCHANGED globals
    BY <1>4 DEF Removed
  <2> HIDE DEF l
  <2>2. l.frame \in 1 .. Len(frames) /\ l.name \in Names
    BY <1>1, <1>4 DEF There
  <2>3. frames' = With(frames, l.frame, PutName(frames[l.frame], l.name, NoVar))
    BY <2>1 DEF With, PutName
  <2>4. Similar(frames[l.frame], PutName(frames[l.frame], l.name, NoVar))
    BY <1>2, <2>2, FramesAre, NameStored
  <2>5. Onward(frames, With(frames, l.frame, PutName(frames[l.frame], l.name, NoVar)))
    BY <2>2, <2>4, SimilarOnward
  <2> QED BY <2>1, <2>3, <2>5 DEF Moves
<1>5. CASE ~VarAt(l).arr /\ l.frame = 0
  <2>1. globals' = [globals EXCEPT ![l.name].val = Unset] /\ frames' = WithoutSeeds(frames, l.name)
    BY <1>5 DEF Removed
  <2> HIDE DEF l
  <2>2. l.name \in Keys
    BY <1>1, <1>5 DEF There
  <2>3. [globals[l.name] EXCEPT !.val = Unset] \in Var
    BY <2>2 DEF Var
  <2>4. globals' \in [Keys -> Var]
    BY <2>1, <2>2, <2>3
  <2> QED BY <2>1, <2>2, <2>4, WithoutSeedsOnward DEF Moves
<1>6. CASE ~VarAt(l).arr /\ l.frame # 0
  <2>1. CASE LinkOf(n) = None /\ Slotted(n)
    <3>1. SetTop(PutSlot(Top, n, Unset)) /\ UNCHANGED globals
      BY <1>6, <2>1 DEF Removed, PutSlot
    <3>2. Similar(Top, PutSlot(Top, n, Unset))
      BY <2>1, Here, SlotStored DEF Slotted, LinkOf
    <3> QED BY <3>1, <3>2, TopMoves
  <2>2. CASE ~(LinkOf(n) = None /\ Slotted(n))
    <3>1. Put(l, Unset)
      BY <1>6, <2>2 DEF Removed
    <3> HIDE DEF l
    <3> QED BY <1>1, <1>2, <2>2, <3>1, PutMoves DEF Slotted
  <2> QED BY <2>1, <2>2
<1> QED BY <1>3, <1>4, <1>5, <1>6

LEMMA UnsetSafe ==
  ASSUME IInv, frames # <<>>, NEW n \in Names, UnsetVar(n)
  PROVE  IInv'
<1>1. traced' \subseteq traced /\ UNCHANGED live
  BY DEF UnsetVar
<1>2. CASE Exists(LocOf(n)) \/ VarAt(LocOf(n)).arr
  <2>1. Removed(n) /\ Answer("ok", Unset, LocOf(n) \in traced)
    BY <1>2 DEF UnsetVar
  <2>2. OutOK'
    BY <2>1, Answered DEF Held3, Replies
  <2> QED BY <1>1, <2>1, <2>2, RemovedMoves, Ends DEF IInv
<1>3. CASE ~(Exists(LocOf(n)) \/ VarAt(LocOf(n)).arr)
  <2>1. UNCHANGED <<frames, globals>> /\ Say("missing")
    BY <1>3 DEF UnsetVar
  <2> QED BY <1>1, <2>1, Still, Said, Ends DEF IInv, Replies
<1> QED BY <1>2, <1>3

-----------------------------------------------------------------------------
(* Links *)

LEMMA LinkOnward ==
  ASSUME NEW fs, FramesInv(fs), NEW i \in 1 .. Len(fs), NEW n \in Names, NEW link \in LinkType,
         NEW v \in Held3, LinkOK(i, link), Kept(fs, link.to)
  PROVE  Onward(fs, With(fs, i, Relinked(fs[i], n, link, v)))
<1> DEFINE g == Relinked(fs[i], n, link, v)
<1>1. FrameOK(fs[i]) /\ Homes(fs[i]) /\ Linked(i, fs[i])
  BY FramesAre
<1>2. /\ FrameOK(g) /\ Homes(g) /\ DOMAIN g.slots = DOMAIN fs[i].slots
      /\ g.links[n] = link /\ \A m \in Names \ {n} : g.links[m] = fs[i].links[m]
  BY <1>1, RelinkedIs
<1> HIDE DEF g
<1>3. Linked(i, g)
  BY <1>1, <1>2 DEF Linked
<1>4. \A m \in Names : g.links[m] # None => Kept(With(fs, i, g), g.links[m].to)
  <2>1. \A m \in Names : g.links[m] # None => Kept(fs, g.links[m].to)
    BY <1>2, FramesAre
  <2>2. DOMAIN g.slots \subseteq DOMAIN fs[i].slots
    BY <1>2
  <2> QED BY <2>1, <2>2, KeptStill
<1>5. FramesInv(With(fs, i, g))
  BY <1>2, <1>3, <1>4, OneFrame
<1>6. ASSUME NEW tr, TracedInv(fs, tr)
      PROVE  TracedInv(With(fs, i, g), tr)
  BY <1>2, <1>6, TracedStill
<1> QED BY <1>5, <1>6 DEF Onward, g

LEMMA GlobalLinks ==
  ASSUME NEW k \in Keys
  PROVE  LET link == [to |-> Global(k), dead |-> FALSE] IN
         /\ link \in LinkType /\ \A i \in Nat : LinkOK(i, link)
         /\ \A fs : Kept(fs, link.to)
BY Locations DEF LinkType, LinkOK, Kept

(* One name of the running frame becomes a link to a global variable.      *)
LEMMA GlobalOnward ==
  ASSUME FramesInv(frames), frames # <<>>, NEW n \in Names, NEW k \in Keys, NEW v \in Held3
  PROVE  LET link == [to |-> Global(k), dead |-> FALSE]
             d    == DegradedLink(Top, n, link)
         IN  Onward(frames,
                    [frames EXCEPT ![Depth] = [d EXCEPT !.links[n] = link,
                                                        !.locals[n].val = First(v, @)]])
<1> DEFINE link == [to |-> Global(k), dead |-> FALSE]
           d    == DegradedLink(Top, n, link)
           w    == First(v, d.locals[n].val)
<1>1. /\ Depth \in 1 .. Len(frames) /\ Top = frames[Depth] /\ FrameOK(Top)
  BY Here
<1>2. link \in LinkType /\ LinkOK(Depth, link) /\ Kept(frames, link.to)
  BY <1>1, GlobalLinks
<1> HIDE DEF link
<1>3. d.locals[n] \in Var
  BY <1>1, <1>2, DegradedLinkIs
<1>4. w \in Held3
  BY <1>3, FirstIs DEF Var, Held3
<1>5. [d EXCEPT !.links[n] = link, !.locals[n].val = First(v, @)] = Relinked(Top, n, link, w)
  <2>1. DOMAIN d = {"locals", "links", "slots", "aliased", "linkKeys"}
    BY <1>1, <1>2, DegradedLinkIs, FrameFields
  <2> QED BY <2>1 DEF Relinked
<1> HIDE DEF w, d
<1>6. Onward(frames, With(frames, Depth, Relinked(Top, n, link, w)))
  BY <1>1, <1>2, <1>4, LinkOnward
<1> QED BY <1>5, <1>6 DEF With, link, d

LEMMA GlobalSafe ==
  ASSUME IInv, frames # <<>>, NEW n \in DOMAIN GlobalKey, GlobalCmd(n)
  PROVE  IInv'
<1>1. n \in Names /\ GlobalKey[n] \in Keys
  BY FrameVarsAssumption
<1>2. globals[GlobalKey[n]].val \in Held3
  BY <1>1 DEF IInv, Var, Held3
<1> DEFINE link == [to |-> Global(GlobalKey[n]), dead |-> FALSE]
           d    == DegradedLink(Top, n, link)
<1>3. /\ frames' = [frames EXCEPT ![Depth] = [d EXCEPT !.links[n] = link,
                                    !.locals[n].val = First(globals[GlobalKey[n]].val, @)]]
      /\ Say("ok") /\ UNCHANGED <<globals, traced, live>>
  BY DEF GlobalCmd, SetTop
<1>4. Onward(frames, frames')
  BY <1>1, <1>2, <1>3, GlobalOnward DEF IInv
<1>5. OutOK'
  BY <1>3, Said DEF Replies
<1> QED BY <1>3, <1>4, <1>5, Ends DEF Moves, IInv

LEMMA VariableSafe ==
  ASSUME IInv, frames # <<>>, NEW n \in DOMAIN VariableKey, NEW v \in Vals \cup {Unset},
         VariableCmd(n, v)
  PROVE  IInv'
<1> DEFINE k    == VariableKey[n]
           link == [to |-> Global(k), dead |-> FALSE]
           d    == DegradedLink(Top, n, link)
<1>1. n \in Names /\ k \in Keys
  BY FrameVarsAssumption
<1>2. UNCHANGED <<traced, live>>
  BY DEF VariableCmd
<1>3. CASE ~live
  <2>1. UNCHANGED <<frames, globals>> /\ Say("nons")
    BY <1>3 DEF VariableCmd
  <2> QED BY <1>2, <2>1, Still, Said, Ends DEF IInv, Replies
<1>4. CASE live
  <2>1. /\ globals' = [globals EXCEPT ![k].val = First(v, @)] /\ Say("ok")
        /\ frames' = [frames EXCEPT ![Depth] = [d EXCEPT !.links[n] = link,
                                      !.locals[n].val = First(globals'[k].val, @)]]
    BY <1>4 DEF VariableCmd, SetTop
  <2>2. globals[k] \in Var /\ globals[k].val \in Held3 /\ v \in Held3
    BY <1>1 DEF IInv, Var, Held3
  <2>3. First(v, globals[k].val) \in Held3
    BY <2>2, FirstIs
  <2>4. [globals[k] EXCEPT !.val = First(v, @)] \in Var
    BY <2>2, <2>3 DEF Var, Held3
  <2>5. globals' \in [Keys -> Var] /\ globals'[k] \in Var
    BY <1>1, <2>1, <2>4 DEF IInv
  <2>6. globals'[k].val \in Held3
    BY <2>5 DEF Var, Held3
  <2>7. Onward(frames, frames')
    BY <1>1, <2>1, <2>6, GlobalOnward DEF IInv
  <2>8. OutOK'
    BY <2>1, Said DEF Replies
  <2> QED BY <1>2, <2>5, <2>7, <2>8, Ends DEF Moves
<1> QED BY <1>3, <1>4

LEMMA TargetsReach ==
  ASSUME FramesInv(frames), frames # <<>>, NEW t \in UpvarTargets
  PROVE  [to |-> t, dead |-> FALSE] \in Reaching(frames)
<1>1. Depth \in 1 .. MaxFrames /\ MaxFrames \in Nat
  BY Here, FrameVarsAssumption
<1>2. t \in Location /\ t.frame <= Depth
  <2>1. CASE t \in {Global(k) : k \in Keys}
    BY <1>1, <2>1, Locations
  <2>2. CASE t \in {Local(i, n) : i \in {Depth - 1, Depth} \ {0}, n \in Names}
    <3>1. PICK i \in {Depth - 1, Depth} \ {0}, n \in Names : t = Local(i, n)
      BY <2>2
    <3>2. i \in 1 .. MaxFrames /\ i <= Depth
      BY <1>1
    <3> QED BY <3>1, <3>2, Locations
  <2> QED BY <2>1, <2>2 DEF UpvarTargets
<1> QED BY <1>2 DEF Reaching, LinkType, LinkOK, Depth

LEMMA UpvarSafe ==
  ASSUME IInv, frames # <<>>, NEW n \in Names, NEW t \in UpvarTargets, Upvar(t, n)
  PROVE  IInv'
<1> DEFINE link == Ultimate(frames, [to |-> t, dead |-> FALSE])
           fs   == IF link.dead \/ link.to.frame = 0 THEN frames
                   ELSE [frames EXCEPT ![link.to.frame] = DegradedFor(@, link.to.name)]
           f    == DegradedLink(fs[Depth], n, link)
           blocked == f.links[n] = None /\ (f.locals[n].val # Unset \/ f.locals[n].arr)
           copy == IF link.dead THEN Unset
                   ELSE IF link.to.frame = 0 THEN globals[link.to.name].val
                   ELSE fs[link.to.frame].locals[link.to.name].val
<1>1. /\ UNCHANGED <<globals, traced, live>> /\ (blocked /\ n \in DOMAIN f.slots => BlockedLinks)
      /\ \/ frames' = fs /\ (Say("self") \/ Say("traced"))
         \/ blocked /\ frames' = [fs EXCEPT ![Depth] = f] /\ Say("exists")
         \/ /\ frames' = [fs EXCEPT ![Depth] = [f EXCEPT !.links[n] = link, !.locals[n].val = copy]]
            /\ Say("ok")
  BY DEF Upvar
<1>2. link \in Reaching(frames)
  BY TargetsReach, UltimateReaches DEF IInv
<1> HIDE DEF link
<1>3. /\ Depth \in 1 .. Len(frames) /\ Depth = Len(frames) /\ Depth \in Nat
  BY Here DEF IInv
<1>4. /\ link \in LinkType /\ LinkOK(Depth, link) /\ link.to.frame \in 0 .. Depth
      /\ link.to.frame = 0 => link.to.name \in Keys
      /\ link.to.frame # 0 => link.to.name \in Names /\ link.to.frame \in 1 .. Len(frames)
  BY <1>2, <1>3, LinkFields DEF Reaching, LinkOK
<1>5. /\ Onward(frames, fs) /\ Len(fs) = Len(frames) /\ Kept(fs, link.to)
  <2>1. CASE link.dead \/ link.to.frame = 0
    BY <1>4, <2>1, OnwardSame DEF IInv, Kept, LinkOK
  <2>2. CASE ~(link.dead \/ link.to.frame = 0)
    <3> DEFINE j == link.to.frame
               g == DegradedFor(frames[j], link.to.name)
    <3>1. j \in 1 .. Len(frames) /\ fs = With(frames, j, g)
      BY <1>4, <2>2 DEF With
    <3>2. Similar(frames[j], g) /\ link.to.name \notin DOMAIN g.slots
      BY <3>1, FramesAre, DegradedSimilar DEF IInv
    <3> HIDE DEF fs, g
    <3>3. /\ Onward(frames, fs) /\ Len(fs) = Len(frames) /\ fs[j] = g /\ DOMAIN fs = 1 .. Len(frames)
      BY <3>1, <3>2, SimilarOnward, WithIs DEF IInv, Listed
    <3> QED BY <3>1, <3>2, <3>3 DEF Kept
  <2> QED BY <2>1, <2>2
<1> HIDE DEF fs
<1>6. FramesInv(fs) /\ FrameOK(fs[Depth]) /\ Homes(fs[Depth]) /\ Depth \in 1 .. Len(fs)
  BY <1>3, <1>5, FramesAre DEF Onward
<1>7. /\ FrameOK(f) /\ f.links = fs[Depth].links /\ DOMAIN f.slots = DOMAIN fs[Depth].slots
      /\ n \notin DOMAIN fs[Depth].slots => f = fs[Depth]
      /\ DOMAIN f = {"locals", "links", "slots", "aliased", "linkKeys"}
      /\ \A m \in Names \ {n} : f.locals[m] = fs[Depth].locals[m]
      /\ \A m \in DOMAIN fs[Depth].slots \ {n} :
           f.slots[m] = fs[Depth].slots[m] /\ f.linkKeys[m] = fs[Depth].linkKeys[m]
           /\ (m \in f.aliased <=> m \in fs[Depth].aliased)
  <2>1. LET g == f IN
         /\ DOMAIN g = DOMAIN fs[Depth] /\ DOMAIN g.slots = DOMAIN fs[Depth].slots
         /\ g.slots \in [DOMAIN fs[Depth].slots -> Vals \cup {Unset}]
         /\ g.linkKeys \in [DOMAIN fs[Depth].slots -> Keys \cup {None}]
         /\ g.locals \in [Names -> Var]
         /\ g.links = fs[Depth].links
         /\ n \notin DOMAIN fs[Depth].slots => g = fs[Depth]
         /\ \A m \in Names \ {n} : g.locals[m] = fs[Depth].locals[m]
         /\ \A m \in DOMAIN fs[Depth].slots \ {n} :
              g.slots[m] = fs[Depth].slots[m] /\ g.linkKeys[m] = fs[Depth].linkKeys[m]
              /\ (m \in g.aliased <=> m \in fs[Depth].aliased)
         /\ g.aliased \subseteq fs[Depth].aliased \cup ({n} \cap DOMAIN fs[Depth].slots)
    BY <1>4, <1>6, DegradedLinkIs
  <2> HIDE DEF f
  <2> QED BY <1>6, <2>1, FrameFields DEF FrameOK
<1>8. OutOK'
  BY <1>1, Said DEF Replies
<1>9. CASE frames' = fs
  BY <1>1, <1>5, <1>8, <1>9, Ends DEF Moves, IInv
<1>10. CASE blocked /\ frames' = [fs EXCEPT ![Depth] = f]
  <2> HIDE DEF f
  <2>1. Homes(f)
    <3>1. \A m \in DOMAIN f.slots \ {n} : m \in Names
      BY <1>7, FrameFields
    <3>2. \A m \in DOMAIN f.slots \ {n} : HomeOf(f, m)
      BY <1>6, <1>7, <3>1 DEF Homes, HomeOf
    <3>3. n \in DOMAIN f.slots => HomeOf(f, n)
      BY <1>1, <1>10 DEF HomeOf
    <3> QED BY <3>2, <3>3 DEF Homes
  <2>2. Similar(fs[Depth], f)
    BY <1>7, <2>1 DEF Similar
  <2>3. Onward(fs, frames')
    BY <1>6, <1>10, <2>2, SimilarOnward DEF With
  <2>4. Onward(frames, frames')
    BY <1>5, <2>3 DEF Onward
  <2> QED BY <1>1, <1>8, <2>4, Ends DEF Moves, IInv
<1>11. CASE frames' = [fs EXCEPT ![Depth] = [f EXCEPT !.links[n] = link, !.locals[n].val = copy]]
  <2>1. copy \in Held3
    <3>1. CASE link.dead
      BY <3>1 DEF Held3
    <3>2. CASE ~link.dead /\ link.to.frame = 0
      BY <1>4, <3>2 DEF IInv, Var, Held3
    <3>3. CASE ~link.dead /\ link.to.frame # 0
      <4>1. fs[link.to.frame].locals \in [Names -> Var]
        BY <1>4, <1>5, <1>6, <3>3, FramesAre, FrameFields
      <4> QED BY <1>4, <3>3, <4>1 DEF Var, Held3
    <3> QED BY <3>1, <3>2, <3>3
  <2> HIDE DEF copy
  <2>2. frames' = With(fs, Depth, Relinked(fs[Depth], n, link, copy))
    BY <1>11 DEF With, Relinked
  <2>3. Onward(fs, frames')
    BY <1>4, <1>5, <1>6, <2>1, <2>2, LinkOnward
  <2>4. Onward(frames, frames')
    BY <1>5, <2>3 DEF Onward
  <2> QED BY <1>1, <1>8, <2>4, Ends DEF Moves, IInv
<1> QED BY <1>1, <1>9, <1>10, <1>11

-----------------------------------------------------------------------------
(* Compiled operations *)

LEMMA KeyIs ==
  ASSUME FramesInv(frames), globals \in [Keys -> Var], frames # <<>>, NEW n \in Names, Slotted(n)
  PROVE  /\ Key(n) # None => There(Global(Key(n))) /\ Bare(Global(Key(n))) /\ Key(n) \in Keys
         /\ Key(n) # None => globals[Key(n)].val \in Held3
         /\ Top.slots[n] \in Vals \cup {Unset}
         /\ ~Aliased(n) => LinkOf(n) = None
<1>1. FrameOK(Top) /\ Homes(Top) /\ n \in DOMAIN Top.slots /\ Len(frames) \in Nat
  BY Here, FramesAre DEF Slotted
<1>2. Key(n) # None => Key(n) \in Keys
  BY <1>1, FrameFields DEF Key
<1>3. Key(n) # None => globals[Key(n)].val \in Held3
  BY <1>2 DEF Var, Held3
<1>4. Top.slots[n] \in Vals \cup {Unset}
  BY <1>1, FrameFields
<1>5. ~Aliased(n) => LinkOf(n) = None
  BY <1>1 DEF Homes, HomeOf, Aliased, LinkOf
<1> QED BY <1>1, <1>2, <1>3, <1>4, <1>5, Locations DEF There, Bare

LEMMA LoadSafe ==
  ASSUME IInv, frames # <<>>, NEW n \in Names, LoadLocal(n)
  PROVE  IInv'
<1>1. Slotted(n)
  BY DEF LoadLocal
<1>2. CASE Direct(n) \/ Held(n)
  <2> DEFINE v == IF Direct(n) THEN globals[Key(n)].val ELSE Top.slots[n]
  <2>1. Answer("ok", v, FALSE) /\ UNCHANGED <<frames, globals, traced, live>>
    BY <1>2 DEF LoadLocal
  <2>2. v \in Held3
    BY <1>1, KeyIs DEF IInv, Held3, Direct
  <2> HIDE DEF v
  <2>3. OutOK'
    BY <2>1, <2>2, Answered DEF Replies
  <2> QED BY <2>1, <2>3, Still, Ends DEF IInv
<1>3. CASE ~(Direct(n) \/ Held(n))
  BY <1>3, ReadSafe DEF LoadLocal
<1> QED BY <1>2, <1>3

LEMMA SlotMoves ==
  ASSUME IInv, frames # <<>>, NEW n \in Names, NEW v \in Vals, Slotted(n), LinkOf(n) = None,
         SetTop([Top EXCEPT !.slots[n] = v]), UNCHANGED globals
  PROVE  Moves
<1>1. SetTop(PutSlot(Top, n, v))
  BY DEF PutSlot
<1>2. Similar(Top, PutSlot(Top, n, v))
  BY Here, SlotStored DEF Slotted, LinkOf, IInv
<1> QED BY <1>1, <1>2, TopMoves DEF IInv

LEMMA StoreSafe ==
  ASSUME IInv, frames # <<>>, NEW n \in Names, NEW v \in Vals, StoreLocal(n, v)
  PROVE  IInv'
<1>1. Slotted(n) /\ UNCHANGED <<traced, live>> /\ v \in Held3
  BY DEF StoreLocal, Held3
<1>2. CASE Direct(n)
  <2>1. Put(Global(Key(n)), v) /\ Answer("ok", v, FALSE)
    BY <1>2 DEF StoreLocal
  <2>2. Moves
    BY <1>1, <1>2, <2>1, KeyIs, PutMoves DEF Direct, IInv
  <2>3. OutOK'
    BY <1>1, <2>1, Answered DEF Replies
  <2> QED BY <1>1, <2>2, <2>3, Ends
<1>3. CASE ~Direct(n) /\ Key(n) # None
  <2>1. WriteOr(n, v, Answer("ok", v, FALSE))
    BY <1>3 DEF StoreLocal
  <2>2. CASE Refusal(n) = "ok"
    <3>1. Store(n, v) /\ Answer("ok", v, LocOf(n) \in traced)
      BY <2>1, <2>2 DEF WriteOr
    <3>2. OutOK'
      BY <1>1, <3>1, Answered DEF Replies
    <3> QED BY <1>1, <3>1, <3>2, StoreMoves, Ends DEF IInv
  <2>3. CASE Refusal(n) # "ok"
    <3>1. UNCHANGED <<frames, globals>> /\ Answer("ok", v, FALSE)
      BY <2>1, <2>3 DEF WriteOr
    <3>2. OutOK'
      BY <1>1, <3>1, Answered DEF Replies
    <3> QED BY <1>1, <3>1, <3>2, Still, Ends DEF IInv
  <2> QED BY <2>2, <2>3
<1>4. CASE ~Direct(n) /\ Key(n) = None /\ Aliased(n)
  <2>1. SetVar(n, v)
    BY <1>4 DEF StoreLocal
  <2> QED BY <1>1, <2>1, SetMoves, Ends
<1>5. CASE ~Direct(n) /\ Key(n) = None /\ ~Aliased(n)
  <2>1. SetTop([Top EXCEPT !.slots[n] = v]) /\ UNCHANGED globals /\ Answer("ok", v, FALSE)
    BY <1>5 DEF StoreLocal
  <2>2. LinkOf(n) = None
    BY <1>1, <1>5, KeyIs DEF IInv
  <2>3. OutOK'
    BY <1>1, <2>1, Answered DEF Replies
  <2> QED BY <1>1, <2>1, <2>2, <2>3, SlotMoves, Ends
<1> QED BY <1>2, <1>3, <1>4, <1>5

LEMMA IncrLocalSafe ==
  ASSUME IInv, frames # <<>>, NEW n \in Names, IncrLocal(n)
  PROVE  IInv'
<1>1. Slotted(n) /\ UNCHANGED <<traced, live>>
  BY DEF IncrLocal
<1> DEFINE direct == traced = {} /\ Direct(n) /\ globals[Key(n)].val # Marker
           held   == traced = {} /\ Held(n)
<1>2. CASE direct
  <2> DEFINE v == globals[Key(n)].val + 1
  <2>1. v <= MaxVal /\ Put(Global(Key(n)), v) /\ Answer("ok", v, FALSE)
    BY <1>2 DEF IncrLocal
  <2>2. globals[Key(n)].val \in Vals \cup {Unset}
    BY <1>1, <1>2, KeyIs DEF Direct, IInv, Held3
  <2>3. v \in Vals
    BY <2>1, <2>2, FrameVarsAssumption DEF Vals, Unset
  <2> HIDE DEF v
  <2>4. v \in Held3
    BY <2>3 DEF Held3
  <2>5. Moves
    BY <1>1, <1>2, <2>1, <2>4, KeyIs, PutMoves DEF Direct, IInv
  <2>6. OutOK'
    BY <2>1, <2>4, Answered DEF Replies
  <2> QED BY <1>1, <2>5, <2>6, Ends
<1>3. CASE ~direct /\ held
  <2> DEFINE v == Top.slots[n] + 1
  <2>1. /\ v <= MaxVal /\ SetTop([Top EXCEPT !.slots[n] = v]) /\ UNCHANGED globals
        /\ Answer("ok", v, FALSE)
    BY <1>3 DEF IncrLocal
  <2>2. Top.slots[n] \in Vals \cup {Unset} /\ LinkOf(n) = None
    BY <1>1, <1>3, KeyIs DEF Held, IInv
  <2>3. v \in Vals
    BY <2>1, <2>2, FrameVarsAssumption DEF Vals, Unset
  <2> HIDE DEF v
  <2>4. v \in Held3
    BY <2>3 DEF Held3
  <2>5. Moves
    BY <1>1, <2>1, <2>2, <2>3, SlotMoves
  <2>6. OutOK'
    BY <2>1, <2>4, Answered DEF Replies
  <2> QED BY <1>1, <2>5, <2>6, Ends
<1>4. CASE ~direct /\ ~held
  BY <1>4, IncrSafe DEF IncrLocal
<1> QED BY <1>2, <1>3, <1>4

-----------------------------------------------------------------------------
(* Qualified names and the namespace *)

LEMMA WriteKeySafe ==
  ASSUME IInv, NEW k \in Keys, NEW v \in Vals, WriteKey(k, v)
  PROVE  IInv'
<1>1. UNCHANGED <<frames, traced, live>> /\ v \in Held3
  BY DEF WriteKey, Held3
<1>2. CASE Reachable(k) /\ ~globals[k].arr
  <2>1. globals' = [globals EXCEPT ![k].val = v] /\ Answer("ok", v, Global(k) \in traced)
    BY <1>2 DEF WriteKey
  <2>2. [globals[k] EXCEPT !.val = v] \in Var
    BY DEF IInv, Var
  <2>3. OutOK'
    BY <1>1, <2>1, Answered DEF Replies
  <2> QED BY <1>1, <2>1, <2>2, <2>3, OnwardSame, Ends DEF Moves, IInv
<1>3. CASE ~(Reachable(k) /\ ~globals[k].arr)
  <2>1. UNCHANGED globals /\ (Say("nons") \/ Say("array"))
    BY <1>3 DEF WriteKey
  <2> QED BY <1>1, <2>1, Still, Said, Ends DEF IInv, Replies
<1> QED BY <1>2, <1>3

LEMMA WriteKeyElementSafe ==
  ASSUME IInv, NEW k \in Keys, WriteKeyElement(k)
  PROVE  IInv'
<1> DEFINE w == [val |-> Marker, arr |-> TRUE]
<1>1. UNCHANGED <<frames, traced, live>> /\ w \in Var /\ Unset \in Held3
  BY DEF WriteKeyElement, Var, Held3
<1>2. \/ UNCHANGED globals /\ (Say("nons") \/ Say("notarray"))
      \/ globals' = [globals EXCEPT ![k] = w] /\ Answer("ok", Unset, Global(k) \in traced)
  BY DEF WriteKeyElement
<1>3. OutOK'
  BY <1>1, <1>2, Said, Answered DEF Replies
<1>4. globals' \in [Keys -> Var]
  <2> HIDE DEF w
  <2> QED BY <1>1, <1>2 DEF IInv
<1> QED BY <1>1, <1>3, <1>4, OnwardSame, Ends DEF Moves, IInv

LEMMA UnsetKeySafe ==
  ASSUME IInv, NEW k \in Keys, UnsetKey(k)
  PROVE  IInv'
<1>1. traced' \subseteq traced /\ UNCHANGED live
  BY DEF UnsetKey
<1>2. CASE globals[k].val = Unset /\ ~globals[k].arr
  <2>1. UNCHANGED <<frames, globals>> /\ Say("missing")
    BY <1>2 DEF UnsetKey
  <2> QED BY <1>1, <2>1, Still, Said, Ends DEF IInv, Replies
<1>3. CASE ~(globals[k].val = Unset /\ ~globals[k].arr)
  <2>1. /\ globals' = [globals EXCEPT ![k] = NoVar]
        /\ frames' = frames \/ frames' = WithoutSeeds(frames, k)
        /\ Answer("ok", Unset, Global(k) \in traced)
    BY <1>3 DEF UnsetKey
  <2>2. OutOK'
    BY <2>1, Answered DEF Held3, Replies
  <2>3. Onward(frames, frames')
    BY <2>1, OnwardSame, WithoutSeedsOnward DEF IInv
  <2>4. globals' \in [Keys -> Var]
    BY <2>1, Values DEF IInv
  <2> QED BY <1>1, <2>2, <2>3, <2>4, Ends DEF Moves
<1> QED BY <1>2, <1>3

LEMMA TraceKeySafe ==
  ASSUME IInv, NEW k \in Keys, TraceKey(k)
  PROVE  IInv'
<1>1. /\ traced' = traced \cup {Global(k)} /\ Say("ok") /\ UNCHANGED <<frames, globals, live>>
  BY DEF TraceKey
<1>2. Global(k) \in Location /\ Kept(frames, Global(k))
  BY Locations DEF Kept
<1>3. TracedInv(frames', traced')
  BY <1>1, <1>2 DEF TracedInv, IInv
<1>4. OutOK'
  BY <1>1, Said DEF Replies
<1> QED BY <1>1, <1>3, <1>4 DEF IInv

LEMMA DeadenedIs ==
  ASSUME globals \in [Keys -> Var], NEW i \in Nat, NEW f, FrameOK(f), Homes(f), Linked(i, f)
  PROVE  LET g == Deadened(f) IN
         /\ FrameOK(g) /\ Homes(g) /\ g.slots = f.slots
         /\ \A n \in Names : g.links[n] # None =>
              /\ f.links[n] # None /\ g.links[n].to = f.links[n].to
              /\ g.links[n].dead => g.links[n].to.frame = 0
<1> DEFINE g == Deadened(f)
           L == [n \in Names |-> IF Dying(f.links[n])
                  THEN [f.locals[n] EXCEPT !.val = First(@, globals[f.links[n].to.name].val)]
                  ELSE f.locals[n]]
           K == [n \in Names |-> IF Dying(f.links[n]) THEN [f.links[n] EXCEPT !.dead = TRUE]
                                  ELSE f.links[n]]
<1>1. /\ DOMAIN g = DOMAIN f /\ g.locals = L /\ g.links = K
      /\ g.slots = f.slots /\ g.aliased = f.aliased /\ g.linkKeys = f.linkKeys
  BY FrameFields DEF Deadened
<1>2. ASSUME NEW n \in Names
      PROVE  L[n] \in Var /\ (~Dying(f.links[n]) => L[n] = f.locals[n])
  <2>1. CASE Dying(f.links[n])
    <3>1. f.links[n] \in LinkType /\ f.links[n].to.frame = 0
      BY <2>1, FrameFields DEF Dying
    <3>2. f.links[n].to.name \in Keys
      BY <3>1, LinkFields
    <3>3. f.locals[n] \in Var /\ globals[f.links[n].to.name] \in Var
      BY <3>2, FrameFields
    <3>4. First(f.locals[n].val, globals[f.links[n].to.name].val) \in Held3
      BY <3>3, FirstIs DEF Var, Held3
    <3>5. [f.locals[n] EXCEPT !.val = First(@, globals[f.links[n].to.name].val)] \in Var
      BY <3>3, <3>4 DEF Var, Held3
    <3> QED BY <2>1, <3>5
  <2>2. CASE ~Dying(f.links[n])
    BY <2>2, FrameFields
  <2> QED BY <2>1, <2>2
<1>3. ASSUME NEW n \in Names
      PROVE  /\ K[n] \in LinkType \cup {None} /\ (f.links[n] = None => K[n] = None)
             /\ f.links[n] # None => K[n] # None /\ K[n].to = f.links[n].to
             /\ K[n] # None /\ K[n].dead => K[n].to.frame = 0
  <2>1. CASE Dying(f.links[n])
    <3>1. f.links[n] \in LinkType /\ f.links[n].to.frame = 0 /\ f.links[n] # None
      BY <2>1, FrameFields DEF Dying
    <3>2. [f.links[n] EXCEPT !.dead = TRUE] \in LinkType
      BY <3>1 DEF LinkType
    <3>3. [f.links[n] EXCEPT !.dead = TRUE].to = f.links[n].to
      BY <3>1 DEF LinkType
    <3> QED BY <2>1, <3>1, <3>2, <3>3, LinkIsNotNone
  <2>2. CASE ~Dying(f.links[n])
    BY <2>2, FrameFields DEF Linked, LinkOK
  <2> QED BY <2>1, <2>2
<1>4. L \in [Names -> Var] /\ K \in [Names -> LinkType \cup {None}]
  BY <1>2, <1>3
<1>5. \A n \in Names : f.links[n] = None => ~Dying(f.links[n])
  BY DEF Dying
<1> HIDE DEF L, K, g
<1>6. FrameOK(g)
  BY <1>1, <1>4, FrameFields DEF FrameOK
<1>7. Homes(g)
  <2>1. ASSUME NEW n \in DOMAIN f.slots
        PROVE  HomeOf(g, n)
    <3>1. n \in Names /\ HomeOf(f, n)
      BY <2>1, FrameFields DEF Homes
    <3> QED BY <1>1, <1>2, <1>3, <1>5, <3>1 DEF HomeOf
  <2> QED BY <1>1, <2>1 DEF Homes
<1> QED BY <1>1, <1>3, <1>6, <1>7 DEF g

LEMMA NsDeleteSafe ==
  ASSUME IInv, NsDelete
  PROVE  IInv'
<1>1. /\ live' = FALSE /\ frames' = [i \in DOMAIN frames |-> Deadened(frames[i])]
      /\ globals' = [k \in Keys |-> IF k \in NsKeys THEN NoVar ELSE globals[k]]
      /\ traced' \subseteq traced /\ Say("ok")
  BY DEF NsDelete
<1>2. DOMAIN frames = 1 .. Len(frames) /\ Len(frames) \in Nat
  BY FramesAre DEF IInv
<1>3. frames' = [i \in DOMAIN frames |-> frames'[i]]
  BY <1>1
<1>4. ASSUME NEW i \in 1 .. Len(frames)
      PROVE  LET g == frames'[i] IN
             /\ FrameOK(g) /\ Homes(g) /\ g.slots = frames[i].slots
             /\ \A n \in Names : g.links[n] # None =>
                  /\ frames[i].links[n] # None /\ g.links[n].to = frames[i].links[n].to
                  /\ g.links[n].dead => g.links[n].to.frame = 0
  <2>1. frames'[i] = Deadened(frames[i]) /\ i \in Nat
    BY <1>1, <1>2
  <2> QED BY <2>1, FramesAre, DeadenedIs DEF IInv
<1>5. Onward(frames, frames')
  BY <1>3, <1>4, MappedFrames DEF IInv
<1>6. globals' \in [Keys -> Var]
  BY <1>1, Values DEF IInv
<1>7. TracedInv(frames', traced')
  BY <1>1, <1>5 DEF IInv, Onward, TracedInv
<1>8. OutOK'
  BY <1>1, Said DEF Replies
<1> QED BY <1>1, <1>5, <1>6, <1>7, <1>8 DEF IInv, Onward

LEMMA NsCreateSafe ==
  ASSUME IInv, NsCreate
  PROVE  IInv'
<1>1. live' = TRUE /\ Say("ok") /\ UNCHANGED <<frames, globals, traced>>
  BY DEF NsCreate
<1>2. OutOK'
  BY <1>1, Said DEF Replies
<1> QED BY <1>1, <1>2 DEF IInv

-----------------------------------------------------------------------------
(* Calls *)

LEMMA ListedSeq ==
  ASSUME NEW s, Listed(s), NEW S, \A i \in 1 .. Len(s) : s[i] \in S
  PROVE  s \in Seq(S)
BY DEF Listed

LEMMA SeqIsListed ==
  ASSUME NEW S, NEW s \in Seq(S)
  PROVE  Len(s) \in Nat /\ DOMAIN s = 1 .. Len(s) /\ s = [i \in 1 .. Len(s) |-> s[i]]
OBVIOUS

(* A frame more, and a frame less.                                         *)
LEMMA AppendListed ==
  ASSUME NEW s, Listed(s), NEW f
  PROVE  /\ Append(s, f) = [i \in 1 .. Len(s) + 1 |-> Append(s, f)[i]]
         /\ Len(Append(s, f)) = Len(s) + 1
         /\ Append(s, f)[Len(s) + 1] = f
         /\ \A i \in 1 .. Len(s) : Append(s, f)[i] = s[i]
<1> DEFINE N == Len(s)
           S == {s[i] : i \in 1 .. N} \cup {f}
           a == Append(s, f)
<1>1. s \in Seq(S) /\ f \in S /\ N \in Nat
  BY ListedSeq DEF Listed
<1> HIDE DEF S
<1>2. a \in Seq(S) /\ Len(a) = N + 1 /\ a[N + 1] = f /\ \A i \in 1 .. N : a[i] = s[i]
  BY <1>1
<1>3. a = [i \in 1 .. N + 1 |-> a[i]]
  <2> HIDE DEF N, a
  <2> QED BY <1>2, SeqIsListed
<1> QED BY <1>2, <1>3

LEMMA FrontListed ==
  ASSUME NEW s, Listed(s), s # <<>>
  PROVE  /\ Front(s) = [i \in 1 .. Len(s) - 1 |-> Front(s)[i]]
         /\ Len(Front(s)) = Len(s) - 1
         /\ \A i \in 1 .. Len(s) - 1 : Front(s)[i] = s[i]
<1> DEFINE N == Len(s)
           S == {s[i] : i \in 1 .. N}
           a == Front(s)
<1>1. s \in Seq(S)
  BY ListedSeq DEF Listed
<1> HIDE DEF S
<1>2. a \in Seq(S) /\ Len(a) = N - 1 /\ \A i \in 1 .. N - 1 : a[i] = s[i]
  BY <1>1, FrontSeq
<1>3. a = [i \in 1 .. N - 1 |-> a[i]]
  <2> HIDE DEF N, a
  <2> QED BY <1>2, SeqIsListed
<1> QED BY <1>2, <1>3

LEMMA CallSafe ==
  ASSUME IInv, NEW b \in Bodies, NEW v \in Vals, Call(b, v)
  PROVE  IInv'
<1> DEFINE slotted == SlotLocals /\ b.table # {}
           table   == IF slotted THEN b.table ELSE {}
           f == [locals   |-> [n \in Names |-> IF n \in b.params /\ ~slotted THEN Scalar(v) ELSE NoVar],
                 links    |-> [n \in Names |-> None],
                 slots    |-> [n \in table |-> IF n \in b.params THEN v ELSE Unset],
                 aliased  |-> {},
                 linkKeys |-> [n \in table |-> None]]
           gs == Append(frames, f)
           N  == Len(frames)
<1>1. /\ Depth < MaxFrames /\ frames' = gs /\ Say("ok") /\ UNCHANGED <<globals, traced, live>>
  BY DEF Call
<1>2. table \subseteq Names
  BY FrameVarsAssumption
<1>3. FrameOK(f)
  <2>1. \A n \in Names : f.locals[n] \in Var
    BY Values
  <2> QED BY <1>2, <2>1 DEF FrameOK
<1>4. Homes(f)
  <2>1. \A n \in table : f.locals[n] = NoVar
    BY <1>2
  <2> QED BY <1>2, <2>1 DEF Homes, HomeOf
<1>5. \A n \in Names : f.links[n] = None
  OBVIOUS
<1> HIDE DEF f
<1>6. /\ N \in Nat /\ DOMAIN frames = 1 .. N /\ N + 1 <= MaxFrames /\ FramesInv(frames)
  BY <1>1, FramesAre, FrameVarsAssumption DEF IInv, Depth
<1>7. /\ Len(gs) = N + 1 /\ gs = [i \in 1 .. N + 1 |-> gs[i]] /\ DOMAIN gs = 1 .. N + 1
      /\ gs[N + 1] = f /\ \A i \in 1 .. N : gs[i] = frames[i]
  <2>1. Listed(frames)
    BY <1>6 DEF FramesInv
  <2>2. /\ gs = [i \in 1 .. N + 1 |-> gs[i]] /\ Len(gs) = N + 1 /\ gs[N + 1] = f
        /\ \A i \in 1 .. N : gs[i] = frames[i]
    BY <2>1, AppendListed
  <2> HIDE DEF gs
  <2> QED BY <2>2
<1> HIDE DEF gs, N
<1>8. ASSUME NEW l, Kept(frames, l)
      PROVE  Kept(gs, l)
  <2>1. CASE l.frame = 0
    BY <2>1 DEF Kept
  <2>2. CASE l.frame # 0
    <3>1. l.frame \in 1 .. N /\ l.name \notin DOMAIN frames[l.frame].slots
      BY <1>6, <1>8, <2>2 DEF Kept
    <3>2. l.frame \in 1 .. N + 1
      BY <1>6, <3>1
    <3>3. gs[l.frame] = frames[l.frame]
      BY <1>7, <3>1
    <3> QED BY <1>7, <3>1, <3>2, <3>3 DEF Kept
  <2> QED BY <2>1, <2>2
<1>9. ASSUME NEW i \in 1 .. N + 1
      PROVE  /\ FrameOK(gs[i]) /\ Homes(gs[i]) /\ Linked(i, gs[i])
             /\ \A n \in Names : gs[i].links[n] # None => Kept(gs, gs[i].links[n].to)
  <2>1. CASE i = N + 1
    BY <1>3, <1>4, <1>5, <1>7, <2>1 DEF Linked
  <2>2. CASE i \in 1 .. N
    <3>1. gs[i] = frames[i] /\ i \in 1 .. Len(frames)
      BY <1>7, <2>2 DEF N
    <3>2. FrameOK(frames[i]) /\ Homes(frames[i]) /\ Linked(i, frames[i])
      BY <1>6, <3>1, FramesAre
    <3>3. \A n \in Names : frames[i].links[n] # None => Kept(frames, frames[i].links[n].to)
      BY <1>6, <3>1, FramesAre
    <3> QED BY <1>8, <3>1, <3>2, <3>3
  <2> QED BY <1>6, <2>1, <2>2
<1>10. FramesInv(gs)
  BY <1>6, <1>7, <1>9 DEF FramesInv, Listed
<1>11. TracedInv(gs, traced)
  BY <1>8 DEF TracedInv, IInv
<1>12. OutOK'
  BY <1>1, Said DEF Replies
<1> QED BY <1>1, <1>10, <1>11, <1>12 DEF IInv

LEMMA ReturnSafe ==
  ASSUME IInv, Return
  PROVE  IInv'
<1> DEFINE gs == Front(frames)
           N  == Len(frames)
<1>1. /\ frames # <<>> /\ frames' = gs /\ traced' = {l \in traced : l.frame # N}
      /\ Say("ok") /\ UNCHANGED <<globals, live>>
  BY DEF Return, Depth
<1>2. /\ N \in Nat /\ N # 0 /\ DOMAIN frames = 1 .. N /\ N <= MaxFrames /\ FramesInv(frames)
  BY <1>1, FramesAre DEF IInv, FramesInv, Listed
<1>3. Listed(frames)
  BY <1>2 DEF FramesInv
<1>4. gs = [i \in 1 .. N - 1 |-> gs[i]] /\ Len(gs) = N - 1 /\ \A i \in 1 .. N - 1 : gs[i] = frames[i]
  BY <1>1, <1>3, FrontListed
<1> HIDE DEF gs
<1>5. DOMAIN gs = 1 .. N - 1
  BY <1>4
<1> HIDE DEF N
<1>6. ASSUME NEW l, Kept(frames, l), l.frame # N
      PROVE  Kept(gs, l)
  BY <1>2, <1>4, <1>5, <1>6 DEF Kept
<1>7. ASSUME NEW i \in 1 .. N - 1
      PROVE  /\ FrameOK(gs[i]) /\ Homes(gs[i]) /\ Linked(i, gs[i])
             /\ \A n \in Names : gs[i].links[n] # None => Kept(gs, gs[i].links[n].to)
  <2>1. gs[i] = frames[i] /\ i \in 1 .. Len(frames) /\ i < N /\ i \in Nat
    BY <1>2, <1>4 DEF N
  <2>2. FrameOK(frames[i]) /\ Homes(frames[i]) /\ Linked(i, frames[i])
    BY <1>2, <2>1, FramesAre
  <2>3. ASSUME NEW n \in Names, frames[i].links[n] # None
        PROVE  Kept(gs, frames[i].links[n].to)
    <3>1. /\ frames[i].links[n] \in LinkType /\ LinkOK(i, frames[i].links[n])
          /\ Kept(frames, frames[i].links[n].to)
      BY <1>2, <2>1, <2>3, FramesAre
    <3>2. frames[i].links[n].to.frame # N
      BY <1>2, <2>1, <3>1 DEF LinkOK
    <3> QED BY <1>6, <3>1, <3>2
  <2> QED BY <2>1, <2>2, <2>3
<1>8. FramesInv(gs)
  <2>1. N - 1 \in Nat /\ N - 1 <= MaxFrames
    BY <1>2, FrameVarsAssumption
  <2> QED BY <1>4, <1>5, <1>7, <2>1 DEF FramesInv, Listed
<1>9. TracedInv(gs, traced')
  BY <1>1, <1>6 DEF TracedInv, IInv
<1>10. OutOK'
  BY <1>1, Said DEF Replies
<1> QED BY <1>1, <1>8, <1>9, <1>10 DEF IInv

-----------------------------------------------------------------------------
LEMMA Initially == Init => IInv
<1> SUFFICES ASSUME Init PROVE IInv
  OBVIOUS
<1>1. FramesInv(frames)
  BY FrameVarsAssumption DEF Init, FramesInv, Listed
<1>2. TracedInv(frames, traced) /\ globals \in [Keys -> Var] /\ live \in BOOLEAN
  BY Values DEF Init, TracedInv
<1>3. OutOK
  BY DEF Init, OutOK, Replies
<1> QED BY <1>1, <1>2, <1>3 DEF IInv

LEMMA Always ==
  ASSUME IInv, Next
  PROVE  IInv'
<1>1. CASE frames # <<>> /\ Scalars
  BY <1>1, ReadSafe, IncrSafe, UnsetSafe, WriteSafe DEF Scalars
<1>2. CASE frames # <<>> /\ Slots
  BY <1>2, LoadSafe, IncrLocalSafe, StoreSafe DEF Slots
<1>3. CASE frames # <<>> /\ Upvars
  BY <1>3, UpvarSafe DEF Upvars
<1>4. CASE frames # <<>> /\ GlobalCmds
  BY <1>4, GlobalSafe DEF GlobalCmds
<1>5. CASE frames # <<>> /\ Variables
  BY <1>5, VariableSafe DEF Variables
<1>6. CASE Namespaces
  BY <1>6, NsDeleteSafe, NsCreateSafe DEF Namespaces
<1>7. CASE Keyed
  BY <1>7, UnsetKeySafe, WriteKeySafe DEF Keyed
<1>8. CASE Elements
  BY <1>8, ElementSafe, WriteKeyElementSafe DEF Elements
<1>9. CASE Traces
  BY <1>9, TraceSafe, TraceKeySafe DEF Traces
<1>10. CASE Calls
  BY <1>10, CallSafe, ReturnSafe DEF Calls
<1>11. CASE InfoVars
  BY <1>11, InfoSafe
<1> QED BY <1>1, <1>2, <1>3, <1>4, <1>5, <1>6, <1>7, <1>8, <1>9, <1>10, <1>11 DEF Next

LEMMA Quiet ==
  ASSUME IInv, UNCHANGED vars
  PROVE  IInv'
BY DEF IInv, FramesInv, TracedInv, Listed, OutOK, vars

LEMMA Inductive == Spec => []IInv
<1>1. IInv /\ [Next]_vars => IInv'
  BY Always, Quiet
<1> QED BY <1>1, Initially, PTL DEF Spec

-----------------------------------------------------------------------------
(* Every frame, variable, link and answer has its type.                    *)
THEOREM FrameTypes == Spec => []TypeOK
<1>1. IInv => TypeOK
  <2> SUFFICES ASSUME IInv PROVE TypeOK
    OBVIOUS
  <2>1. Len(frames) <= MaxFrames /\ \A i \in DOMAIN frames : FrameOK(frames[i])
    BY FramesAre DEF IInv, FramesInv
  <2> QED BY <2>1 DEF IInv, TypeOK, OutOK, TracedInv
<1> QED BY <1>1, Inductive, PTL

(* A variable of a slotted frame has one home: its slot, its name or the   *)
(* target of its link (store_var, degrade_slots and the links of upvar,    *)
(* global and variable agree), in programs that do not try upvar over a    *)
(* variable whose slot holds a value: such an upvar is refused, and leaves *)
(* the slot marked as linked.                                              *)
THEOREM VariablesHaveOneHome == ASSUME ~BlockedLinks PROVE Spec => []OneHome
<1>1. IInv => OneHome
  <2> SUFFICES ASSUME IInv, NEW i \in DOMAIN frames, NEW n \in DOMAIN frames[i].slots
               PROVE  LET f == frames[i] IN
                      /\ f.slots[n] # Unset => f.locals[n] = NoVar /\ f.links[n] = None
                      /\ n \in f.aliased <=> f.links[n] # None
                      /\ f.linkKeys[n] # None =>
                           f.links[n] # None /\ f.links[n].to = Global(f.linkKeys[n])
    BY DEF OneHome
  <2>1. HomeOf(frames[i], n)
    BY FramesAre DEF IInv, Homes
  <2> QED BY <2>1 DEF HomeOf
<1> QED BY <1>1, Inductive, PTL

(* What another name or a trace can reach is kept by name, whatever        *)
(* programs do.                                                            *)
THEOREM NamesAreReached == Spec => []ReachedByName
<1>1. IInv => ReachedByName
  <2> SUFFICES ASSUME IInv PROVE ReachedByName
    OBVIOUS
  <2>1. \A l : Kept(frames, l) => KeptByName(l)
    BY DEF Kept, KeptByName
  <2>2. \A i \in 1 .. Len(frames), n \in Names :
          frames[i].links[n] # None => Kept(frames, frames[i].links[n].to)
    BY DEF IInv, FramesInv
  <2>3. \A l \in traced : Kept(frames, l)
    BY DEF IInv, TracedInv
  <2>4. DOMAIN frames = 1 .. Len(frames)
    BY FramesAre DEF IInv
  <2> QED BY <2>1, <2>2, <2>3, <2>4 DEF ReachedByName
<1> QED BY <1>1, Inductive, PTL

-----------------------------------------------------------------------------
(* A frame by its names: its variables, wherever they are kept             *)

NamesOf(f) ==
  [m \in Names |-> IF m \in DOMAIN f.slots /\ f.slots[m] # Unset
                   THEN [f.locals[m] EXCEPT !.val = f.slots[m]] ELSE f.locals[m]]

(* A frame without slots, with these variables and links.                  *)
Plain(g, locals, links) ==
  /\ g = [x \in DOMAIN g |-> g[x]] /\ DOMAIN g = {"locals", "links", "slots", "aliased", "linkKeys"}
  /\ g.locals = locals /\ g.links = links
  /\ g.slots = NoSlots /\ g.aliased = {} /\ g.linkKeys = NoSlots

LEMMA SamePlain ==
  ASSUME NEW f, NEW g, NEW locals, NEW links, Plain(f, locals, links), Plain(g, locals, links)
  PROVE  f = g
BY DEF Plain

(* What degrading leaves of a frame: its variables by name, and its links. *)
LEMMA DegradedIs ==
  ASSUME NEW f, FrameOK(f)
  PROVE  Plain(Degraded(f), NamesOf(f), f.links)
BY FrameFields DEF Degraded, NamesOf, Plain

LEMMA SameNames ==
  ASSUME NEW f, FrameOK(f), NEW g, FrameOK(g), f.links = g.links, NamesOf(f) = NamesOf(g)
  PROVE  Degraded(f) = Degraded(g)
BY DegradedIs, SamePlain

LEMMA VarsAre ==
  /\ \A x, y \in Var : x.val = y.val /\ x.arr = y.arr => x = y
  /\ \A x \in Var : \A v \in Held3 :
       /\ [x EXCEPT !.val = v] \in Var
       /\ [x EXCEPT !.val = v].val = v /\ [x EXCEPT !.val = v].arr = x.arr
  /\ NoVar \in Var /\ NoVar.val = Unset /\ NoVar = Scalar(Unset)
  /\ \A v \in Held3 : Scalar(v) \in Var /\ Scalar(v).val = v /\ Scalar(v).arr = NoVar.arr
  /\ ~NoVar.arr
<1>1. \A x, y \in Var : x.val = y.val /\ x.arr = y.arr => x = y
  BY DEF Var
<1>2. \A x \in Var : \A v \in Held3 :
       /\ [x EXCEPT !.val = v] \in Var
       /\ [x EXCEPT !.val = v].val = v /\ [x EXCEPT !.val = v].arr = x.arr
  BY DEF Var, Held3
<1>3. NoVar \in Var /\ NoVar.val = Unset /\ NoVar = Scalar(Unset) /\ ~NoVar.arr
  BY DEF NoVar, Scalar, Var
<1>4. \A v \in Held3 : Scalar(v) \in Var /\ Scalar(v).val = v /\ Scalar(v).arr = NoVar.arr
  BY DEF NoVar, Scalar, Var, Held3
<1> QED BY <1>1, <1>2, <1>3, <1>4

(* A variable by its name, and one that a slot holds.                      *)
LEMMA NamesAre ==
  ASSUME NEW f, FrameOK(f), Homes(f), ~BlockedLinks, NEW n \in Names
  PROVE  /\ n \notin DOMAIN f.slots \/ f.links[n] # None => NamesOf(f)[n] = f.locals[n]
         /\ n \in DOMAIN f.slots /\ f.links[n] = None => NamesOf(f)[n] = Scalar(f.slots[n])
         /\ NamesOf(f)[n] \in Var /\ NamesOf(f)[n].arr = f.locals[n].arr
         /\ NamesOf(f)[n].val = First(SlotValue(f, n), f.locals[n].val)
<1>1. CASE n \notin DOMAIN f.slots
  BY <1>1, FrameFields DEF NamesOf, SlotValue, First
<1>2. CASE n \in DOMAIN f.slots /\ f.links[n] # None
  <2>1. f.slots[n] = Unset /\ n \in f.aliased
    BY <1>2 DEF Homes, HomeOf
  <2> QED BY <1>2, <2>1, FrameFields DEF NamesOf, SlotValue, First
<1>3. CASE n \in DOMAIN f.slots /\ f.links[n] = None
  <2>1. f.locals[n] = NoVar /\ n \notin f.aliased
    BY <1>3 DEF Homes, HomeOf
  <2>2. f.slots[n] \in Vals \cup {Unset} /\ f.slots[n] \in Held3
    BY <1>3, FrameFields DEF Held3
  <2>3. NamesOf(f)[n] = IF f.slots[n] # Unset THEN [NoVar EXCEPT !.val = f.slots[n]] ELSE NoVar
    BY <1>3, <2>1 DEF NamesOf
  <2>4. NamesOf(f)[n] = Scalar(f.slots[n])
    <3> DEFINE v == f.slots[n]
               x == [NoVar EXCEPT !.val = v]
    <3>1. v \in Held3 /\ Scalar(v) \in Var /\ Scalar(v).val = v /\ Scalar(v).arr = NoVar.arr
      BY <2>2, VarsAre
    <3>2. x \in Var /\ x.val = v /\ x.arr = NoVar.arr
      BY <2>2, VarsAre
    <3> HIDE DEF x, v
    <3>3. x = Scalar(v)
      BY <3>1, <3>2, VarsAre
    <3> USE DEF x, v
    <3> QED BY <2>3, <3>3, VarsAre
  <2>5. SlotValue(f, n) = f.slots[n]
    BY <1>3, <2>1 DEF SlotValue
  <2>6. First(SlotValue(f, n), f.locals[n].val) = f.slots[n]
    BY <2>1, <2>5, VarsAre DEF First
  <2> QED BY <1>3, <2>1, <2>2, <2>4, <2>6, VarsAre
<1> QED BY <1>1, <1>2, <1>3

-----------------------------------------------------------------------------
(* What an operation leaves by names *)

(* How frames without slots change.                                        *)
LEMMA PlainName ==
  ASSUME NEW f, NEW locals, NEW links, Plain(f, locals, links), NEW n \in Names, NEW w
  PROVE  Plain(PutName(f, n, w), [locals EXCEPT ![n] = w], links)
BY DEF PutName, Plain

LEMMA PlainValue ==
  ASSUME NEW f, NEW locals, NEW links, Plain(f, locals, links), NEW n \in Names, NEW v
  PROVE  Plain(PutValue(f, n, v), [locals EXCEPT ![n].val = v], links)
BY DEF PutValue, Plain

Linking(f, n, link, v) == [f EXCEPT !.links[n] = link, !.locals[n].val = v]
LEMMA PlainLink ==
  ASSUME NEW f, NEW locals, NEW links, Plain(f, locals, links), NEW n \in Names, NEW v, NEW link
  PROVE  Plain(Linking(f, n, link, v), [locals EXCEPT ![n].val = v], [links EXCEPT ![n] = link])
BY DEF Linking, Plain

(* Writing under a name that no slot holds, into a slot, leaving the       *)
(* slots for a name and linking a name, each seen by names.                *)
LEMMA NameByNames ==
  ASSUME NEW f, FrameOK(f), Homes(f), NEW n \in Names, NEW w \in Var,
         n \in DOMAIN f.slots => f.links[n] # None
  PROVE  Degraded(PutName(f, n, w)) = PutName(Degraded(f), n, w)
<1> DEFINE g == PutName(f, n, w)
<1>1. Similar(f, g)
  BY NameStored
<1>2. FrameOK(g) /\ g.locals = [f.locals EXCEPT ![n] = w] /\ g.links = f.links /\ g.slots = f.slots
  BY <1>1, FrameFields DEF Similar, PutName
<1> HIDE DEF g
<1>3. NamesOf(g) = [NamesOf(f) EXCEPT ![n] = w]
  <2>1. n \in DOMAIN f.slots => f.slots[n] = Unset
    BY DEF Homes, HomeOf
  <2>2. ASSUME NEW m \in Names
        PROVE  NamesOf(g)[m] = IF m = n THEN w ELSE NamesOf(f)[m]
    BY <1>2, <2>1, FrameFields DEF NamesOf
  <2>3. /\ NamesOf(g) = [m \in Names |-> NamesOf(g)[m]]
        /\ NamesOf(f) = [m \in Names |-> NamesOf(f)[m]]
    BY DEF NamesOf
  <2> QED BY <2>2, <2>3
<1>4. Plain(Degraded(g), [NamesOf(f) EXCEPT ![n] = w], f.links)
  BY <1>2, <1>3, DegradedIs
<1>5. Plain(PutName(Degraded(f), n, w), [NamesOf(f) EXCEPT ![n] = w], f.links)
  BY DegradedIs, PlainName
<1> QED BY <1>4, <1>5, SamePlain DEF g

LEMMA ValueByNames ==
  ASSUME NEW f, FrameOK(f), Homes(f), ~BlockedLinks, NEW n \in Names, NEW v \in Held3,
         n \in DOMAIN f.slots => f.links[n] # None
  PROVE  Degraded(PutValue(f, n, v)) = PutValue(Degraded(f), n, v)
<1> DEFINE w == [f.locals[n] EXCEPT !.val = v]
<1>1. w \in Var
  BY FrameFields, VarsAre
<1>2. PutValue(f, n, v) = PutName(f, n, w)
  BY FrameFields DEF PutValue, PutName
<1>3. NamesOf(f)[n] = f.locals[n]
  BY NamesAre
<1>4. Plain(PutValue(Degraded(f), n, v), [NamesOf(f) EXCEPT ![n].val = v], f.links)
  BY DegradedIs, PlainValue
<1>5. [NamesOf(f) EXCEPT ![n].val = v] = [NamesOf(f) EXCEPT ![n] = w]
  BY <1>3
<1>6. Plain(PutName(Degraded(f), n, w), [NamesOf(f) EXCEPT ![n] = w], f.links)
  BY DegradedIs, PlainName
<1> HIDE DEF w
<1>7. PutValue(Degraded(f), n, v) = PutName(Degraded(f), n, w)
  BY <1>4, <1>5, <1>6, SamePlain
<1> QED BY <1>1, <1>2, <1>7, NameByNames

LEMMA SlotByNames ==
  ASSUME NEW f, FrameOK(f), Homes(f), ~BlockedLinks, NEW n \in DOMAIN f.slots,
         f.links[n] = None, NEW v \in Vals \cup {Unset}
  PROVE  Degraded(PutSlot(f, n, v)) = PutValue(Degraded(f), n, v)
<1> DEFINE g == PutSlot(f, n, v)
<1>1. Similar(f, g) /\ n \in Names /\ v \in Held3
  BY SlotStored, FrameFields DEF Held3
<1>2. /\ FrameOK(g) /\ Homes(g) /\ g.locals = f.locals /\ g.links = f.links
      /\ g.slots = [f.slots EXCEPT ![n] = v] /\ DOMAIN g.slots = DOMAIN f.slots /\ g.slots[n] = v
  BY <1>1, FrameFields DEF Similar, PutSlot
<1> HIDE DEF g
<1>3. NamesOf(g) = [NamesOf(f) EXCEPT ![n].val = v]
  <2> DEFINE x == [NamesOf(f)[n] EXCEPT !.val = v]
  <2>1. NamesOf(g)[n] = Scalar(v) /\ NamesOf(f)[n] = Scalar(f.slots[n]) /\ f.slots[n] \in Held3
    BY <1>1, <1>2, NamesAre, FrameFields DEF Held3
  <2>2. /\ Scalar(v) \in Var /\ Scalar(v).val = v /\ Scalar(v).arr = NoVar.arr
        /\ NamesOf(f)[n] \in Var /\ NamesOf(f)[n].arr = NoVar.arr
    BY <1>1, <2>1, VarsAre
  <2>3. x \in Var /\ x.val = v /\ x.arr = NoVar.arr
    BY <1>1, <2>2, VarsAre
  <2> HIDE DEF x
  <2>4. NamesOf(g)[n] = x
    BY <2>1, <2>2, <2>3, VarsAre
  <2>5. ASSUME NEW m \in Names
        PROVE  NamesOf(g)[m] = IF m = n THEN x ELSE NamesOf(f)[m]
    BY <1>2, <2>4 DEF NamesOf
  <2>6. /\ NamesOf(g) = [m \in Names |-> NamesOf(g)[m]]
        /\ NamesOf(f) = [m \in Names |-> NamesOf(f)[m]]
    BY DEF NamesOf
  <2> QED BY <2>5, <2>6 DEF x
<1>4. Plain(PutValue(Degraded(f), n, v), [NamesOf(f) EXCEPT ![n].val = v], f.links)
  BY <1>1, DegradedIs, PlainValue
<1>5. Plain(Degraded(g), NamesOf(g), f.links)
  BY <1>2, DegradedIs
<1> QED BY <1>3, <1>4, <1>5, SamePlain DEF g

LEMMA DegradedAgain ==
  ASSUME NEW f, FrameOK(f), NEW n
  PROVE  Degraded(Degraded(f)) = Degraded(f) /\ Degraded(DegradedFor(f, n)) = Degraded(f)
<1> DEFINE d == Degraded(f)
<1>1. FrameOK(d) /\ DOMAIN d.slots = {} /\ d.links = f.links /\ d.locals = NamesOf(f)
  BY DegradedIs, DegradedSimilar DEF Similar, Plain
<1> HIDE DEF d
<1>2. NamesOf(d) = NamesOf(f)
  BY <1>1 DEF NamesOf
<1>3. Degraded(d) = d
  BY <1>1, <1>2, SameNames DEF d
<1> QED BY <1>3 DEF d, DegradedFor

LEMMA DegradedLinkNames ==
  ASSUME NEW f, FrameOK(f), NEW n \in Names, NEW link \in LinkType
  PROVE  NamesOf(DegradedLink(f, n, link)) = NamesOf(f)
<1> DEFINE g == DegradedLink(f, n, link)
<1>1. CASE n \notin DOMAIN f.slots
  BY <1>1 DEF DegradedLink
<1>2. CASE n \in DOMAIN f.slots
  <2> DEFINE w == [f.locals[n] EXCEPT !.val = First(f.slots[n], f.locals[n].val)]
  <2>1. g.locals = [f.locals EXCEPT ![n] = w] /\ g.slots = [f.slots EXCEPT ![n] = Unset]
    BY <1>2, FrameFields DEF DegradedLink
  <2>2. w = NamesOf(f)[n]
    <3>1. f.locals[n] \in Var /\ [f.locals[n] EXCEPT !.val = f.locals[n].val] = f.locals[n]
      BY FrameFields DEF Var
    <3> QED BY <1>2, <3>1 DEF NamesOf, First
  <2> HIDE DEF w, g
  <2>3. ASSUME NEW m \in Names
        PROVE  NamesOf(g)[m] = NamesOf(f)[m]
    BY <1>2, <2>1, <2>2, FrameFields DEF NamesOf
  <2>4. /\ NamesOf(g) = [m \in Names |-> NamesOf(g)[m]]
        /\ NamesOf(f) = [m \in Names |-> NamesOf(f)[m]]
    BY DEF NamesOf
  <2> QED BY <2>3, <2>4 DEF g
<1> QED BY <1>1, <1>2

LEMMA RelinkedByNames ==
  ASSUME NEW f, FrameOK(f), Homes(f), ~BlockedLinks, NEW n \in Names, NEW link \in LinkType,
         NEW v \in Held3
  PROVE  Degraded(Relinked(f, n, link, v)) = Linking(Degraded(f), n, link, v)
<1> DEFINE d == DegradedLink(f, n, link)
           g == Relinked(f, n, link, v)
<1>1. /\ FrameOK(g) /\ g.slots = d.slots /\ g.links = [f.links EXCEPT ![n] = link]
      /\ g.locals = [d.locals EXCEPT ![n].val = v]
  <2>1. FrameOK(g)
    BY RelinkedIs
  <2>2. DOMAIN d = DOMAIN f /\ d.links = f.links
    BY DegradedLinkIs
  <2>3. g = [d EXCEPT !.links[n] = link, !.locals[n].val = v]
    BY DEF Relinked
  <2> HIDE DEF d, g
  <2>4. /\ g.slots = d.slots /\ g.links = [d.links EXCEPT ![n] = link]
        /\ g.locals = [d.locals EXCEPT ![n].val = v]
    BY <2>2, <2>3, FrameFields
  <2> QED BY <2>1, <2>2, <2>4
<1>2. /\ d.locals \in [Names -> Var] /\ NamesOf(d) = NamesOf(f)
      /\ n \in DOMAIN d.slots => d.slots[n] = Unset
  BY DegradedLinkIs, DegradedLinkNames
<1> HIDE DEF d, g
<1>3. NamesOf(g) = [NamesOf(f) EXCEPT ![n].val = v]
  <2>1. NamesOf(d)[n] = d.locals[n]
    BY <1>2 DEF NamesOf
  <2>2. ASSUME NEW m \in Names
        PROVE  NamesOf(g)[m] = IF m = n THEN [NamesOf(d)[n] EXCEPT !.val = v] ELSE NamesOf(d)[m]
    BY <1>1, <1>2, <2>1 DEF NamesOf
  <2>3. /\ NamesOf(g) = [m \in Names |-> NamesOf(g)[m]]
        /\ NamesOf(f) = [m \in Names |-> NamesOf(f)[m]]
    BY DEF NamesOf
  <2> QED BY <1>2, <2>2, <2>3
<1>4. Plain(Degraded(g), [NamesOf(f) EXCEPT ![n].val = v], [f.links EXCEPT ![n] = link])
  BY <1>1, <1>3, DegradedIs
<1>5. Plain(Linking(Degraded(f), n, link, v), [NamesOf(f) EXCEPT ![n].val = v],
            [f.links EXCEPT ![n] = link])
  BY DegradedIs, PlainLink
<1> QED BY <1>4, <1>5, SamePlain DEF g

-----------------------------------------------------------------------------
(* The stack by names *)

Flat(fs) == [i \in DOMAIN fs |-> Degraded(fs[i])]

LEMMA FlatIs ==
  ASSUME NEW fs, FramesInv(fs)
  PROVE  /\ Listed(Flat(fs)) /\ Len(Flat(fs)) = Len(fs) /\ DOMAIN Flat(fs) = 1 .. Len(fs)
         /\ Flat(fs) = [i \in 1 .. Len(fs) |-> Degraded(fs[i])]
         /\ \A i \in 1 .. Len(fs) : Flat(fs)[i] = Degraded(fs[i])
<1>1. DOMAIN fs = 1 .. Len(fs) /\ Len(fs) \in Nat
  BY FramesAre
<1>2. Flat(fs) = [i \in 1 .. Len(fs) |-> Degraded(fs[i])]
  BY <1>1 DEF Flat
<1>3. Len(Flat(fs)) = Len(fs)
  BY <1>1, <1>2
<1> QED BY <1>1, <1>2, <1>3 DEF Listed

LEMMA FlatWith ==
  ASSUME NEW fs, FramesInv(fs), NEW i \in 1 .. Len(fs), NEW g
  PROVE  Flat(With(fs, i, g)) = With(Flat(fs), i, Degraded(g))
<1>1. /\ DOMAIN With(fs, i, g) = 1 .. Len(fs)
      /\ \A j \in 1 .. Len(fs) : With(fs, i, g)[j] = IF j = i THEN g ELSE fs[j]
  BY FramesAre, WithIs DEF With
<1>2. /\ DOMAIN Flat(fs) = 1 .. Len(fs)
      /\ \A j \in 1 .. Len(fs) : Flat(fs)[j] = Degraded(fs[j])
  BY FlatIs
<1>3. Flat(With(fs, i, g)) = [j \in 1 .. Len(fs) |-> IF j = i THEN Degraded(g) ELSE Degraded(fs[j])]
  BY <1>1 DEF Flat
<1>4. With(Flat(fs), i, Degraded(g))
        = [j \in 1 .. Len(fs) |-> IF j = i THEN Degraded(g) ELSE Degraded(fs[j])]
  BY <1>2 DEF With
<1> QED BY <1>3, <1>4

LEMMA FlatStill ==
  ASSUME NEW fs, FramesInv(fs), NEW i \in 1 .. Len(fs), NEW g, Degraded(g) = Degraded(fs[i])
  PROVE  Flat(With(fs, i, g)) = Flat(fs)
<1>1. /\ DOMAIN Flat(fs) = 1 .. Len(fs) /\ Flat(fs)[i] = Degraded(fs[i])
      /\ Flat(fs) = [j \in 1 .. Len(fs) |-> Degraded(fs[j])]
  BY FlatIs
<1> QED BY <1>1, FlatWith DEF With

(* What the walked program sees of the state: its own frame, links and     *)
(* locations, and the variables there.                                     *)
Sees == IInv /\ ~BlockedLinks /\ frames # <<>>

LEMMA WalkedTop ==
  ASSUME Sees
  PROVE  /\ Walked!Depth = Depth /\ Walked!Top = Degraded(Top) /\ Flat(frames) # <<>>
         /\ Top.links \in [Names -> LinkType \cup {None}]
         /\ \A n \in Names : /\ Walked!LinkOf(n) = LinkOf(n) /\ ~Walked!Slotted(n)
                             /\ ~Walked!Aliased(n) /\ Walked!LocOf(n) = LocOf(n)
                             /\ Walked!IsDead(n) = IsDead(n)
<1>1. /\ Len(Flat(frames)) = Len(frames) /\ Depth \in 1 .. Len(frames) /\ Depth = Len(frames)
      /\ Flat(frames)[Depth] = Degraded(frames[Depth]) /\ Top = frames[Depth] /\ FrameOK(Top)
  BY FlatIs, Here DEF IInv, Sees
<1>2. Walked!Depth = Depth
  BY <1>1 DEF Walked!Depth, Flat, ByNames
<1>3. Walked!Top = Degraded(Top)
  BY <1>1, <1>2 DEF Walked!Top, Flat, ByNames
<1>4. /\ Degraded(Top).links = Top.links /\ Degraded(Top).slots = NoSlots
      /\ Degraded(Top).aliased = {} /\ Top.links \in [Names -> LinkType \cup {None}]
  BY <1>1, DegradedIs, FrameFields DEF Plain
<1>5. Flat(frames) # <<>>
  BY <1>1
<1>6. ASSUME NEW n \in Names
      PROVE  /\ Walked!LinkOf(n) = LinkOf(n) /\ ~Walked!Slotted(n)
             /\ ~Walked!Aliased(n) /\ Walked!LocOf(n) = LocOf(n)
             /\ Walked!IsDead(n) = IsDead(n)
  <2>1. Walked!LinkOf(n) = LinkOf(n)
    BY <1>3, <1>4 DEF Walked!LinkOf, LinkOf
  <2>2. ~Walked!Slotted(n) /\ ~Walked!Aliased(n)
    BY <1>3, <1>4 DEF Walked!Slotted, Walked!Aliased, NoSlots
  <2> QED BY <1>2, <2>1, <2>2 DEF Walked!LocOf, LocOf, Walked!Local, Local, Walked!IsDead, IsDead
<1> QED BY <1>2, <1>3, <1>4, <1>5, <1>6

LEMMA WalkedVarAt ==
  ASSUME Sees, NEW l, There(l)
  PROVE  /\ Walked!VarAt(l) \in Var /\ Walked!VarAt(l).arr = VarAt(l).arr
         /\ Walked!VarAt(l).val = IF l.frame = 0 THEN VarAt(l).val
                                  ELSE First(SlotValue(frames[l.frame], l.name), VarAt(l).val)
         /\ Bare(l) => Walked!VarAt(l) = VarAt(l)
         /\ Walked!Exists(l) = Exists(l)
<1>1. CASE l.frame = 0
  <2>1. Walked!VarAt(l) = VarAt(l) /\ Walked!Exists(l) = Exists(l)
    BY <1>1 DEF Walked!VarAt, VarAt, Walked!Exists, Exists, Walked!Unset, Unset
  <2> QED BY <1>1, <2>1, VarAtIs DEF Sees, IInv
<1>2. CASE l.frame # 0
  <2> DEFINE f == frames[l.frame]
  <2>1. l.frame \in 1 .. Len(frames) /\ l.name \in Names
    BY <1>2 DEF There
  <2>2. FrameOK(f) /\ Homes(f)
    BY <2>1, FramesAre DEF Sees, IInv
  <2>3. Walked!VarAt(l) = NamesOf(f)[l.name] /\ VarAt(l) = f.locals[l.name]
    <3>1. Flat(frames)[l.frame] = Degraded(f)
      BY <2>1, FlatIs DEF Sees, IInv
    <3>2. Degraded(f).locals = NamesOf(f)
      BY <2>2, DegradedIs DEF Plain
    <3> QED BY <1>2, <3>1, <3>2 DEF Walked!VarAt, VarAt, Flat, ByNames
  <2>4. Walked!Exists(l) = (Walked!VarAt(l).val # Unset)
    <3>1. Flat(frames)[l.frame].slots = NoSlots /\ Flat(frames)[l.frame].aliased = {}
      BY <2>1, <2>2, FlatIs, DegradedIs DEF Sees, IInv, Plain
    <3>2. DOMAIN NoSlots = {}
      BY DEF NoSlots
    <3> QED BY <3>1, <3>2 DEF Walked!Exists, Walked!SlotValue, Walked!Unset, Unset, Flat, ByNames
  <2>5. Bare(l) => l.name \notin DOMAIN f.slots \/ f.links[l.name] # None
    BY <1>2 DEF Bare
  <2> HIDE DEF f
  <2>6. /\ Walked!VarAt(l) \in Var /\ Walked!VarAt(l).arr = VarAt(l).arr
        /\ Walked!VarAt(l).val = First(SlotValue(f, l.name), VarAt(l).val)
        /\ Bare(l) => Walked!VarAt(l) = VarAt(l)
    BY <2>1, <2>2, <2>3, <2>5, NamesAre DEF Sees
  <2>7. Exists(l) = (VarAt(l).val # Unset \/ SlotValue(f, l.name) # Unset)
    BY <1>2 DEF Exists, f
  <2> QED BY <1>2, <2>4, <2>6, <2>7 DEF First, f
<1> QED BY <1>1, <1>2

-----------------------------------------------------------------------------
(* What the walked program reads and writes                                *)

(* The walked program has no slots, and it reads what the slots give.      *)
LEMMA WalkedNoSlots ==
  ASSUME Sees, NEW i \in 1 .. Len(frames), NEW n
  PROVE  Walked!SlotValue(Flat(frames)[i], n) = Unset
<1>1. Flat(frames)[i].slots = NoSlots /\ Flat(frames)[i].aliased = {}
  BY FramesAre, FlatIs, DegradedIs DEF Sees, IInv, Plain
<1>2. DOMAIN NoSlots = {}
  BY DEF NoSlots
<1> QED BY <1>1, <1>2 DEF Walked!SlotValue, Walked!Unset, Unset

LEMMA WalkedResolved ==
  ASSUME Sees, NEW n \in Names
  PROVE  Walked!Resolved(n) = Resolved(n)
<1>1. /\ Depth \in 1 .. Len(frames) /\ Top = frames[Depth] /\ FrameOK(Top) /\ Homes(Top)
      /\ LinkOf(n) = Top.links[n]
  BY Here DEF Sees, IInv, LinkOf
<1>2. /\ Walked!Top = Degraded(Top) /\ Walked!LinkOf(n) = LinkOf(n)
      /\ Degraded(Top).locals = NamesOf(Top) /\ Walked!SlotValue(Walked!Top, n) = Unset
  BY <1>1, WalkedTop, DegradedIs, WalkedNoSlots, FlatIs DEF Sees, IInv, Plain
<1>3. Walked!Top.locals[n] = NamesOf(Top)[n] /\ \A v : Walked!First(Unset, v) = v
  BY <1>2 DEF Walked!First, Walked!Unset, Unset
<1>4. CASE LinkOf(n) = None
  <2>1. NamesOf(Top)[n].val = First(SlotValue(Top, n), Top.locals[n].val)
    BY <1>1, NamesAre DEF Sees
  <2>2. Walked!Resolved(n) = Walked!First(Unset, NamesOf(Top)[n].val)
    BY <1>2, <1>3, <1>4 DEF Walked!Resolved
  <2> QED BY <1>3, <1>4, <2>1, <2>2 DEF Resolved
<1>5. CASE LinkOf(n) # None /\ LinkOf(n).to.frame = 0
  <2>1. NamesOf(Top)[n] = Top.locals[n]
    BY <1>1, <1>5, NamesAre DEF Sees
  <2>2. \A v, w : Walked!First(v, w) = First(v, w)
    BY DEF Walked!First, First, Walked!Unset, Unset
  <2>3. Walked!Resolved(n) = Walked!First(globals[LinkOf(n).to.name].val, Top.locals[n].val)
    BY <1>2, <1>3, <1>5, <2>1 DEF Walked!Resolved
  <2> QED BY <1>5, <2>2, <2>3 DEF Resolved
<1>6. CASE LinkOf(n) # None /\ LinkOf(n).to.frame # 0
  <2> DEFINE l == LinkOf(n).to
  <2>1. There(l) /\ l.frame \in 1 .. Len(frames)
    BY <1>6, LinkThere DEF Sees, IInv, There
  <2>2. Walked!SlotValue(Flat(frames)[l.frame], l.name) = Unset
    BY <2>1, WalkedNoSlots
  <2>3. Walked!Resolved(n) = Walked!First(Unset, Walked!VarAt(l).val)
    BY <1>2, <1>6, <2>2 DEF Walked!Resolved, Flat, ByNames
  <2>4. Walked!VarAt(l).val = First(SlotValue(frames[l.frame], l.name), VarAt(l).val)
    BY <1>6, <2>1, WalkedVarAt
  <2>5. Resolved(n) = First(SlotValue(frames[l.frame], l.name), VarAt(l).val)
    BY <1>6 DEF Resolved
  <2> QED BY <1>3, <2>3, <2>4, <2>5
<1> QED BY <1>4, <1>5, <1>6

LEMMA WalkedReads ==
  ASSUME Sees, NEW n \in Names
  PROVE  Walked!GetVar(n) = GetVar(n) /\ Walked!Refusal(n) = Refusal(n)
<1>1. /\ There(LocOf(n)) /\ ~Walked!Slotted(n) /\ Walked!LocOf(n) = LocOf(n)
      /\ Walked!IsDead(n) = IsDead(n)
  BY LocOfThere, WalkedTop DEF Sees, IInv
<1>2. Walked!VarAt(LocOf(n)).arr = VarAt(LocOf(n)).arr
  BY <1>1, WalkedVarAt
<1>3. Walked!Resolved(n) = Resolved(n)
  BY WalkedResolved
<1>4. Walked!GetVar(n) = IF VarAt(LocOf(n)).arr THEN [res |-> "array", val |-> Unset]
                         ELSE [res |-> IF Resolved(n) = Unset THEN "missing" ELSE "ok",
                               val |-> Resolved(n)]
  BY <1>1, <1>2, <1>3 DEF Walked!GetVar, Walked!Unset, Unset
<1>5. Walked!Refusal(n) = Refusal(n)
  BY <1>1, <1>2 DEF Walked!Refusal, Refusal
<1>6. CASE LinkOf(n) = None /\ Slotted(n)
  <2>1. Depth \in 1 .. Len(frames) /\ Top = frames[Depth] /\ FrameOK(Top) /\ Homes(Top)
    BY Here DEF Sees, IInv
  <2>2. Top.locals[n] = NoVar /\ n \notin Top.aliased /\ n \in DOMAIN Top.slots
    BY <1>6, <2>1 DEF Homes, HomeOf, LinkOf, Slotted, Sees
  <2>3. LocOf(n) = Local(Depth, n) /\ Local(Depth, n).frame = Depth /\ Local(Depth, n).name = n
        /\ Depth # 0
    BY <1>6, OwnThere DEF LocOf, Sees, IInv
  <2>4. ~VarAt(LocOf(n)).arr
    BY <2>1, <2>2, <2>3, VarsAre DEF VarAt
  <2>5. Resolved(n) = Top.slots[n]
    BY <1>6, <2>2, VarsAre DEF Resolved, SlotValue, First
  <2>6. GetVar(n) = [res |-> IF Top.slots[n] = Unset THEN "missing" ELSE "ok", val |-> Top.slots[n]]
    BY <1>6 DEF GetVar
  <2> QED BY <1>4, <1>5, <2>4, <2>5, <2>6
<1>7. CASE ~(LinkOf(n) = None /\ Slotted(n))
  BY <1>4, <1>5, <1>7 DEF GetVar
<1> QED BY <1>6, <1>7

(* It writes where the program writes.                                     *)
LEMMA WalkedWith ==
  ASSUME Sees, NEW i \in 1 .. Len(frames), NEW g, frames' = With(frames, i, g)
  PROVE  Flat(frames)' = With(Flat(frames), i, Degraded(g))
<1>1. Flat(frames)' = Flat(With(frames, i, g))
  BY DEF Flat, Degraded, NoSlots
<1> QED BY <1>1, FlatWith DEF Sees, IInv

LEMMA WalkedPut ==
  ASSUME Sees, NEW l, There(l), Bare(l), NEW v \in Held3, Put(l, v)
  PROVE  Walked!Put(l, v)
<1>1. CASE l.frame = 0
  BY <1>1 DEF Put, Walked!Put, Flat
<1>2. CASE l.frame # 0
  <2> DEFINE f == frames[l.frame]
  <2>1. frames' = With(frames, l.frame, PutValue(f, l.name, v)) /\ globals' = globals
    BY <1>2 DEF Put, With, PutValue
  <2>2. l.frame \in 1 .. Len(frames) /\ l.name \in Names
    BY <1>2 DEF There
  <2>3. FrameOK(f) /\ Homes(f) /\ (l.name \in DOMAIN f.slots => f.links[l.name] # None)
    BY <1>2, <2>2, FramesAre DEF Bare, Sees, IInv
  <2>4. Flat(frames)[l.frame] = Degraded(f)
    BY <2>2, FlatIs DEF Sees, IInv
  <2> HIDE DEF f
  <2>5. Flat(frames)' = With(Flat(frames), l.frame, Degraded(PutValue(f, l.name, v)))
    BY <2>1, <2>2, WalkedWith
  <2>6. Degraded(PutValue(f, l.name, v)) = PutValue(Flat(frames)[l.frame], l.name, v)
    BY <2>2, <2>3, <2>4, ValueByNames DEF Sees
  <2>7. Flat(frames)' = [Flat(frames) EXCEPT ![l.frame].locals[l.name].val = v]
    BY <2>5, <2>6 DEF With, PutValue
  <2> QED BY <1>2, <2>1, <2>7 DEF Walked!Put, Flat, ByNames
<1> QED BY <1>1, <1>2

-----------------------------------------------------------------------------
(* Scalars by name                                                         *)

LEMMA WalkedStill ==
  ASSUME UNCHANGED frames
  PROVE  Flat(frames)' = Flat(frames)
BY DEF Flat, Degraded, NoSlots

LEMMA WalkedTopWith ==
  ASSUME Sees, NEW g, SetTop(g)
  PROVE  Flat(frames)' = [Flat(frames) EXCEPT ![Walked!Depth] = Degraded(g)]
<1>1. frames' = With(frames, Depth, g) /\ Depth \in 1 .. Len(frames) /\ Walked!Depth = Depth
  BY Here, WalkedTop DEF SetTop, With, Sees, IInv
<1> QED BY <1>1, WalkedWith DEF With

LEMMA WalkedSlot ==
  ASSUME Sees, NEW n \in Names, Slotted(n), LinkOf(n) = None, NEW v \in Vals \cup {Unset},
         SetTop([Top EXCEPT !.slots[n] = v]), UNCHANGED globals
  PROVE  Walked!Put(Local(Depth, n), v)
<1>1. /\ Depth \in 1 .. Len(frames) /\ Top = frames[Depth] /\ FrameOK(Top) /\ Homes(Top)
      /\ n \in DOMAIN Top.slots /\ Top.links[n] = None
  BY Here DEF Sees, IInv, LinkOf, Slotted
<1>2. Degraded(PutSlot(Top, n, v)) = PutValue(Degraded(Top), n, v)
  BY <1>1, SlotByNames DEF Sees
<1>3. Flat(frames)' = [Flat(frames) EXCEPT ![Depth] = PutValue(Flat(frames)[Depth], n, v)]
  <2>1. SetTop(PutSlot(Top, n, v)) /\ Walked!Depth = Depth
    BY WalkedTop DEF PutSlot
  <2>2. Flat(frames)[Depth] = Degraded(Top)
    BY <1>1, FlatIs DEF Sees, IInv
  <2> QED BY <1>2, <2>1, <2>2, WalkedTopWith
<1>4. Local(Depth, n).frame = Depth /\ Local(Depth, n).name = n /\ Depth # 0
  BY OwnThere DEF Sees, IInv
<1> QED BY <1>3, <1>4 DEF Walked!Put, PutValue, Flat, ByNames

(* A store by name, wherever the slots put it.                             *)
LEMMA WalkedStore ==
  ASSUME Sees, NEW n \in Names, NEW v \in Vals, Store(n, v)
  PROVE  Walked!Store(n, v)
<1>1. v \in Held3 /\ Walked!LinkOf(n) = LinkOf(n) /\ ~Walked!Slotted(n) /\ Walked!Depth = Depth
  BY WalkedTop DEF Held3
<1>2. CASE LinkOf(n) # None
  <2>1. Walked!Put(LinkOf(n).to, v)
    BY <1>1, <1>2, LinkThere, WalkedPut DEF Store, Sees, IInv
  <2> QED BY <1>1, <1>2, <2>1 DEF Walked!Store
<1>3. CASE LinkOf(n) = None
  <2>1. Walked!Put(Local(Depth, n), v)
    <3>1. CASE Slotted(n)
      BY <1>3, <3>1, WalkedSlot DEF Store
    <3>2. CASE ~Slotted(n)
      BY <1>1, <1>3, <3>2, OwnThere, WalkedPut DEF Store, Sees, IInv, Slotted
    <3> QED BY <3>1, <3>2
  <2> QED BY <1>1, <1>3, <2>1 DEF Walked!Store, Walked!Local, Local
<1> QED BY <1>2, <1>3

LEMMA WalkedWrites ==
  ASSUME Sees, NEW n \in Names, NEW v \in Vals, Refusal(n) = "ok", Store(n, v),
         Answer("ok", v, LocOf(n) \in traced)
  PROVE  Walked!SetVar(n, v)
<1>1. Walked!Refusal(n) = "ok" /\ Walked!Store(n, v) /\ Walked!LocOf(n) = LocOf(n)
  BY WalkedReads, WalkedStore, WalkedTop
<1> QED BY <1>1 DEF Walked!SetVar, Walked!WriteOr, Walked!Answer, Answer

LEMMA WalkedRefuses ==
  ASSUME Sees, NEW n \in Names, NEW v \in Vals, Refusal(n) # "ok", UNCHANGED <<frames, globals>>,
         Say(Refusal(n))
  PROVE  Walked!SetVar(n, v)
<1>1. Walked!Refusal(n) = Refusal(n) /\ Flat(frames)' = Flat(frames)
  BY WalkedReads, WalkedStill
<1> QED BY <1>1 DEF Walked!SetVar, Walked!WriteOr, Walked!Answer, Answer, Walked!Say, Say,
                    Walked!Unset, Unset, Flat, ByNames

LEMMA WalkedSet ==
  ASSUME Sees, NEW n \in Names, NEW v \in Vals, SetVar(n, v)
  PROVE  Walked!SetVar(n, v)
BY WalkedWrites, WalkedRefuses DEF SetVar, WriteOr

(* A step of the walked program, or an exception.                          *)
Simulated == Walked!Next \/ (frames # <<>> /\ Shortcut)

(* Reading, writing and incrementing by name.                              *)
LEMMA ReadWalks ==
  ASSUME Sees, NEW n \in Names, ReadVar(n)
  PROVE  Simulated
<1>1. /\ Walked!GetVar(n) = GetVar(n) /\ Walked!LocOf(n) = LocOf(n) /\ Flat(frames)' = Flat(frames)
      /\ Flat(frames) # <<>>
  BY WalkedReads, WalkedTop, WalkedStill DEF ReadVar
<1>2. Walked!ReadVar(n)
  BY <1>1 DEF ReadVar, Walked!ReadVar, Answer, Walked!Answer, Flat, ByNames
<1> QED BY <1>1, <1>2 DEF Simulated, Walked!Next, Walked!Scalars, Flat, ByNames

LEMMA WriteWalks ==
  ASSUME Sees, NEW n \in Names, NEW v \in Vals, op' = <<"write", n, v>>, Walked!SetVar(n, v),
         UNCHANGED <<traced, live>>
  PROVE  Simulated
<1>1. Flat(frames) # <<>> /\ v \in Walked!Vals
  BY WalkedTop DEF Walked!Vals, Vals
<1>2. Walked!WriteVar(n, v)
  BY DEF Walked!WriteVar
<1> QED BY <1>1, <1>2 DEF Simulated, Walked!Next, Walked!Scalars, Flat, ByNames

LEMMA IncrWalks ==
  ASSUME Sees, NEW n \in Names, IncrVar(n)
  PROVE  Simulated
<1> DEFINE got == GetVar(n)
           cur == IF got.res = "missing" THEN 0 ELSE got.val
<1>1. Walked!GetVar(n) = got /\ Flat(frames) # <<>>
  BY WalkedReads, WalkedTop
<1>2. CASE got.res = "array" \/ cur = Marker
  <2>1. Flat(frames)' = Flat(frames)
    BY <1>2, WalkedStill DEF IncrVar
  <2>2. Walked!IncrVar(n)
    BY <1>1, <1>2, <2>1 DEF IncrVar, Walked!IncrVar, Say, Answer, Walked!Say, Walked!Answer,
       Walked!Unset, Unset, Walked!Marker, Marker, Flat, ByNames
  <2> QED BY <1>1, <2>2 DEF Simulated, Walked!Next, Walked!Scalars, Flat, ByNames
<1>3. CASE ~(got.res = "array" \/ cur = Marker)
  <2>1. cur < MaxVal /\ SetVar(n, cur + 1) /\ UNCHANGED <<traced, live>> /\ op' = <<"incr", n>>
    BY <1>3 DEF IncrVar
  <2>2. cur + 1 \in Vals
    <3>1. cur \in Held3 \cup {0} /\ cur # Marker /\ MaxVal \in Nat
      BY <1>3, GetVarIs, FrameVarsAssumption DEF Sees, IInv
    <3> HIDE DEF cur
    <3> QED BY <2>1, <3>1 DEF Held3, Vals, Unset, Marker
  <2>3. Walked!SetVar(n, cur + 1)
    BY <2>1, <2>2, WalkedSet
  <2>4. Walked!IncrVar(n)
    BY <1>1, <1>3, <2>1, <2>3 DEF Walked!IncrVar, Walked!Marker, Marker
  <2> QED BY <1>1, <2>4 DEF Simulated, Walked!Next, Walked!Scalars, Flat, ByNames
<1> QED BY <1>2, <1>3

-----------------------------------------------------------------------------
(* Instructions on slots                                                   *)

Shortened(n) == Global(Key(n)) \in traced \/ globals[Key(n)].arr \/ IsDead(n)

(* A slot with a key is linked to the global of that key.                  *)
LEMMA KeyLinks ==
  ASSUME Sees, NEW n \in Names, Slotted(n), Key(n) # None
  PROVE  /\ LinkOf(n) # None /\ LinkOf(n).to = Global(Key(n)) /\ Key(n) \in Keys
         /\ Global(Key(n)).frame = 0 /\ Global(Key(n)).name = Key(n)
         /\ globals[Key(n)] \in Var /\ globals[Key(n)].val \in Held3
<1>1. Homes(Top) /\ n \in DOMAIN Top.slots /\ n \in Top.aliased /\ Key(n) = Top.linkKeys[n]
  BY Here DEF Sees, IInv, Slotted, Key, Aliased
<1>2. Top.links[n] # None /\ Top.links[n].to = Global(Key(n))
  BY <1>1 DEF Homes, HomeOf, Sees
<1>3. Key(n) \in Keys /\ globals[Key(n)].val \in Held3 /\ globals[Key(n)] \in Var
  BY KeyIs DEF Sees, IInv
<1> QED BY <1>2, <1>3, Locations DEF LinkOf

(* Short of the exceptions, the key is what the name stands for.           *)
LEMMA KeyPlain ==
  ASSUME Sees, NEW n \in Names, Slotted(n), Key(n) # None, ~Shortened(n)
  PROVE  /\ LocOf(n) = Global(Key(n)) /\ LocOf(n) \notin traced
         /\ Refusal(n) = "ok"
         /\ Direct(n) => GetVar(n) = [res |-> "ok", val |-> globals[Key(n)].val]
         /\ \A v : Store(n, v) <=> Put(Global(Key(n)), v)
<1>1. /\ LinkOf(n) # None /\ LinkOf(n).to = Global(Key(n)) /\ ~IsDead(n)
      /\ Global(Key(n)).frame = 0 /\ Global(Key(n)).name = Key(n) /\ ~globals[Key(n)].arr
  BY KeyLinks DEF Shortened
<1>2. LocOf(n) = Global(Key(n)) /\ LocOf(n) \notin traced
  BY <1>1 DEF LocOf, IsDead, Shortened
<1>3. VarAt(LocOf(n)) = globals[Key(n)]
  BY <1>1, <1>2 DEF VarAt
<1>4. Refusal(n) = "ok"
  BY <1>1, <1>3 DEF Refusal
<1>5. Direct(n) => GetVar(n) = [res |-> "ok", val |-> globals[Key(n)].val]
  BY <1>1, <1>3 DEF GetVar, Direct, Resolved, First
<1>6. \A v : Store(n, v) <=> Put(Global(Key(n)), v)
  BY <1>1 DEF Store
<1> QED BY <1>2, <1>4, <1>5, <1>6

(* A slot that is not linked is the variable itself.                       *)
LEMMA SlotPlain ==
  ASSUME Sees, NEW n \in Names, Slotted(n), ~Aliased(n)
  PROVE  /\ LinkOf(n) = None /\ LocOf(n) \notin traced /\ Refusal(n) = "ok"
         /\ Held(n) => GetVar(n) = [res |-> "ok", val |-> Top.slots[n]]
         /\ Top.slots[n] \in Vals \cup {Unset}
<1>1. /\ LinkOf(n) = None /\ Top.slots[n] \in Vals \cup {Unset}
      /\ Homes(Top) /\ Top = frames[Depth] /\ Depth \in 1 .. Len(frames)
  BY KeyIs, Here DEF Sees, IInv
<1>2. LocOf(n) = Local(Depth, n) /\ Local(Depth, n).frame = Depth /\ Local(Depth, n).name = n
      /\ Depth # 0
  BY <1>1, OwnThere DEF LocOf, Sees, IInv
<1>3. LocOf(n) \notin traced
  BY <1>1, <1>2 DEF Sees, IInv, TracedInv, Kept, Slotted
<1>4. ~VarAt(LocOf(n)).arr
  <2>1. Top.locals[n] = NoVar
    BY <1>1 DEF Homes, HomeOf, Sees, Slotted, LinkOf
  <2> QED BY <1>1, <1>2, <2>1, VarsAre DEF VarAt
<1>5. Refusal(n) = "ok"
  BY <1>1, <1>4 DEF Refusal, IsDead
<1>6. Held(n) => GetVar(n) = [res |-> "ok", val |-> Top.slots[n]]
  BY <1>1 DEF Held, GetVar
<1> QED BY <1>1, <1>3, <1>5, <1>6

(* The exceptions.                                                         *)
LEMMA ShortcutWalks ==
  ASSUME Sees, NEW n \in Names, Slotted(n), Key(n) # None, Shortened(n),
         op' \in {<<"read", n>>, <<"incr", n>>} \cup {<<"write", n, v>> : v \in Vals},
         NEW a, Answer("ok", a, FALSE), NEW v \in Vals \cup {globals[Key(n)].val},
         globals' = [globals EXCEPT ![Key(n)].val = v], UNCHANGED <<frames, traced, live>>
  PROVE  Simulated
<1>1. out'.res = "ok" /\ ~out'.fired
  BY DEF Answer
<1>2. Shortcut
  BY <1>1 DEF Shortcut, Shortened
<1> QED BY <1>2 DEF Simulated, Sees

LEMMA SameKey ==
  ASSUME globals \in [Keys -> Var], NEW k \in Keys
  PROVE  globals = [globals EXCEPT ![k].val = globals[k].val]
<1>1. globals[k] = [globals[k] EXCEPT !.val = globals[k].val]
  BY DEF Var
<1> QED BY <1>1

(* The instructions.                                                       *)
LEMMA LoadWalks ==
  ASSUME Sees, NEW n \in Names, LoadLocal(n)
  PROVE  Simulated
<1>0. Slotted(n)
  BY DEF LoadLocal
<1>1. CASE Direct(n)
  <2>1. /\ op' = <<"read", n>> /\ Answer("ok", globals[Key(n)].val, FALSE)
        /\ UNCHANGED <<frames, globals, traced, live>> /\ Key(n) # None
    BY <1>1 DEF LoadLocal, Direct
  <2>2. CASE Shortened(n)
    BY <1>0, <2>1, <2>2, KeyLinks, SameKey, ShortcutWalks DEF Sees, IInv
  <2>3. CASE ~Shortened(n)
    <3>1. (LocOf(n) \in traced) = FALSE
      BY <1>0, <2>1, <2>3, KeyPlain
    <3>2. GetVar(n).res = "ok" /\ GetVar(n).val = globals[Key(n)].val
      BY <1>0, <1>1, <2>1, <2>3, KeyPlain
    <3>3. ReadVar(n)
      BY <2>1, <3>1, <3>2 DEF ReadVar
    <3> QED BY <3>3, ReadWalks
  <2> QED BY <2>2, <2>3
<1>2. CASE ~Direct(n) /\ Held(n)
  <2>1. /\ op' = <<"read", n>> /\ Answer("ok", Top.slots[n], FALSE)
        /\ UNCHANGED <<frames, globals, traced, live>> /\ ~Aliased(n)
    BY <1>2 DEF LoadLocal, Held
  <2>2. (LocOf(n) \in traced) = FALSE
    BY <1>0, <2>1, SlotPlain
  <2>3. GetVar(n).res = "ok" /\ GetVar(n).val = Top.slots[n]
    BY <1>0, <1>2, <2>1, SlotPlain
  <2>4. ReadVar(n)
    BY <2>1, <2>2, <2>3 DEF ReadVar
  <2> QED BY <2>4, ReadWalks
<1>3. CASE ~Direct(n) /\ ~Held(n)
  BY <1>3, ReadWalks DEF LoadLocal
<1> QED BY <1>1, <1>2, <1>3

LEMMA StoreWalks ==
  ASSUME Sees, NEW n \in Names, NEW v \in Vals, StoreLocal(n, v)
  PROVE  Simulated
<1>0. Slotted(n) /\ op' = <<"write", n, v>> /\ UNCHANGED <<traced, live>>
  BY DEF StoreLocal
<1>1. CASE Direct(n)
  <2>1. Put(Global(Key(n)), v) /\ Answer("ok", v, FALSE) /\ Key(n) # None
    BY <1>1 DEF StoreLocal, Direct
  <2>2. CASE Shortened(n)
    <3>1. globals' = [globals EXCEPT ![Key(n)].val = v] /\ UNCHANGED frames
      BY <1>0, <2>1, KeyLinks DEF Put
    <3> QED BY <1>0, <2>1, <2>2, <3>1, ShortcutWalks
  <2>3. CASE ~Shortened(n)
    <3>1. (LocOf(n) \in traced) = FALSE
      BY <1>0, <2>1, <2>3, KeyPlain
    <3>2. Refusal(n) = "ok" /\ Store(n, v)
      BY <1>0, <2>1, <2>3, KeyPlain
    <3>3. Walked!SetVar(n, v)
      BY <2>1, <3>1, <3>2, WalkedWrites
    <3> QED BY <1>0, <3>3, WriteWalks
  <2> QED BY <2>2, <2>3
<1>2. CASE ~Direct(n) /\ Key(n) # None
  <2>1. WriteOr(n, v, Answer("ok", v, FALSE))
    BY <1>2 DEF StoreLocal
  <2>2. CASE Refusal(n) = "ok"
    <3>1. Walked!SetVar(n, v)
      BY <2>1, <2>2, WalkedWrites DEF WriteOr
    <3> QED BY <1>0, <3>1, WriteWalks
  <2>3. CASE Refusal(n) # "ok"
    <3>1. UNCHANGED <<frames, globals>> /\ Answer("ok", v, FALSE)
      BY <2>1, <2>3 DEF WriteOr
    <3>2. Shortened(n)
      BY <1>0, <1>2, <2>3, KeyPlain
    <3> QED BY <1>0, <1>2, <3>1, <3>2, KeyLinks, SameKey, ShortcutWalks DEF Sees, IInv
  <2> QED BY <2>2, <2>3
<1>3. CASE Key(n) = None /\ Aliased(n)
  <2>1. SetVar(n, v)
    BY <1>3 DEF StoreLocal, Direct
  <2> QED BY <1>0, <2>1, WalkedSet, WriteWalks
<1>4. CASE Key(n) = None /\ ~Aliased(n)
  <2>1. SetTop([Top EXCEPT !.slots[n] = v]) /\ UNCHANGED globals /\ Answer("ok", v, FALSE)
    BY <1>4 DEF StoreLocal, Direct
  <2>2. (LocOf(n) \in traced) = FALSE
    BY <1>0, <1>4, SlotPlain
  <2>3. Refusal(n) = "ok" /\ Store(n, v)
    BY <1>0, <1>4, <2>1, SlotPlain DEF Store
  <2>4. Walked!SetVar(n, v)
    BY <2>1, <2>2, <2>3, WalkedWrites
  <2> QED BY <1>0, <2>4, WriteWalks
<1> QED BY <1>1, <1>2, <1>3, <1>4

LEMMA IncrLocalWalks ==
  ASSUME Sees, NEW n \in Names, IncrLocal(n)
  PROVE  Simulated
<1>0. Slotted(n) /\ op' = <<"incr", n>> /\ UNCHANGED <<traced, live>>
  BY DEF IncrLocal
<1>1. CASE traced = {} /\ Direct(n) /\ globals[Key(n)].val # Marker
  <2> DEFINE w == globals[Key(n)].val
  <2>1. w + 1 <= MaxVal /\ Put(Global(Key(n)), w + 1) /\ Answer("ok", w + 1, FALSE) /\ Key(n) # None
    BY <1>1 DEF IncrLocal, Direct
  <2>2. w \in Vals /\ w + 1 \in Vals /\ MaxVal \in Nat
    BY <1>0, <1>1, <2>1, KeyLinks, FrameVarsAssumption DEF Direct, Held3, Vals
  <2>3. CASE Shortened(n)
    <3>1. globals' = [globals EXCEPT ![Key(n)].val = w + 1] /\ UNCHANGED frames
      BY <1>0, <2>1, KeyLinks DEF Put
    <3> QED BY <1>0, <2>1, <2>2, <2>3, <3>1, ShortcutWalks
  <2>4. CASE ~Shortened(n)
    <3>1. (LocOf(n) \in traced) = FALSE
      BY <1>0, <2>1, <2>4, KeyPlain
    <3>2. Refusal(n) = "ok" /\ Store(n, w + 1) /\ GetVar(n).res = "ok" /\ GetVar(n).val = w
      BY <1>0, <1>1, <2>1, <2>4, KeyPlain
    <3>3. IncrVar(n)
      <4>1. SetVar(n, w + 1)
        BY <2>1, <3>1, <3>2 DEF SetVar, WriteOr
      <4>2. w < MaxVal /\ w # Marker
        BY <1>1, <2>1, <2>2 DEF Vals
      <4> QED BY <1>0, <3>2, <4>1, <4>2 DEF IncrVar
    <3> QED BY <3>3, IncrWalks
  <2> QED BY <2>3, <2>4
<1>2. CASE ~(traced = {} /\ Direct(n) /\ globals[Key(n)].val # Marker) /\ traced = {} /\ Held(n)
  <2> DEFINE w == Top.slots[n]
  <2>1. /\ w + 1 <= MaxVal /\ SetTop([Top EXCEPT !.slots[n] = w + 1]) /\ UNCHANGED globals
        /\ Answer("ok", w + 1, FALSE) /\ ~Aliased(n)
    BY <1>2 DEF IncrLocal, Held
  <2>2. w \in Vals /\ w + 1 \in Vals /\ MaxVal \in Nat /\ w # Marker
    BY <1>0, <1>2, <2>1, SlotPlain, FrameVarsAssumption DEF Held, Vals, Marker
  <2>3. (LocOf(n) \in traced) = FALSE
    BY <1>0, <2>1, SlotPlain
  <2>4. Refusal(n) = "ok" /\ Store(n, w + 1) /\ GetVar(n).res = "ok" /\ GetVar(n).val = w
    BY <1>0, <1>2, <2>1, SlotPlain DEF Store
  <2>5. IncrVar(n)
    <3>1. SetVar(n, w + 1)
      BY <2>1, <2>3, <2>4 DEF SetVar, WriteOr
    <3>2. w < MaxVal
      BY <2>1, <2>2 DEF Vals
    <3> QED BY <1>0, <2>2, <2>4, <3>1, <3>2 DEF IncrVar
  <2> QED BY <2>5, IncrWalks
<1>3. CASE /\ ~(traced = {} /\ Direct(n) /\ globals[Key(n)].val # Marker)
           /\ ~(traced = {} /\ Held(n))
  <2>1. IncrVar(n)
    BY <1>3 DEF IncrLocal
  <2> QED BY <2>1, IncrWalks
<1> QED BY <1>1, <1>2, <1>3

-----------------------------------------------------------------------------
(* Unset                                                                   *)

Seed(k) == [to |-> Global(k), dead |-> FALSE]
Unseeded(f, k) == [n \in Names |-> IF f.links[n] = Seed(k) THEN NoVar ELSE f.locals[n]]
Seedless(f, k) == [f EXCEPT !.locals = Unseeded(f, k)]

(* Dropping the values that links seeded (unset of a global).              *)
LEMMA SeedlessIs ==
  ASSUME NEW fs, NEW k
  PROVE  /\ WithoutSeeds(fs, k) = [i \in DOMAIN fs |-> Seedless(fs[i], k)]
         /\ Walked!WithoutSeeds(fs, k) = [i \in DOMAIN fs |-> Seedless(fs[i], k)]
<1>1. WithoutSeeds(fs, k) = [i \in DOMAIN fs |-> Seedless(fs[i], k)]
  BY DEF WithoutSeeds, Seedless, Unseeded, Seed
<1>2. Walked!WithoutSeeds(fs, k) = [i \in DOMAIN fs |-> Seedless(fs[i], k)]
  BY DEF Walked!WithoutSeeds, Seedless, Unseeded, Seed, Walked!Global, Global, Walked!NoVar, NoVar,
         Walked!Unset, Unset
<1> QED BY <1>1, <1>2

LEMMA SeedlessByNames ==
  ASSUME NEW f, FrameOK(f), Homes(f), NEW k \in Keys
  PROVE  Degraded(Seedless(f, k)) = Seedless(Degraded(f), k)
<1> DEFINE g == Seedless(f, k)
           d == Degraded(f)
<1>1. /\ DOMAIN g = DOMAIN f /\ g.locals = Unseeded(f, k) /\ g.links = f.links
      /\ g.slots = f.slots /\ g.aliased = f.aliased /\ g.linkKeys = f.linkKeys
  BY FrameFields DEF Seedless
<1> HIDE DEF g
<1>2. Unseeded(f, k) \in [Names -> Var]
  BY FrameFields, Values DEF Unseeded
<1>3. FrameOK(g)
  BY <1>1, <1>2, FrameFields DEF FrameOK
<1>4. /\ Plain(d, NamesOf(f), f.links)
      /\ Plain(Degraded(g), NamesOf(g), f.links)
  BY <1>1, <1>3, DegradedIs
<1>5. NamesOf(g) = Unseeded(d, k)
  <2>1. \A m \in DOMAIN f.slots : f.links[m] = Seed(k) => f.slots[m] = Unset
    <3>1. Seed(k) # None
      BY GlobalLinks, LinkIsNotNone DEF Seed
    <3> QED BY <3>1 DEF Homes, HomeOf
  <2>2. d.links = f.links /\ d.locals = NamesOf(f)
    BY <1>4 DEF Plain
  <2> HIDE DEF d
  <2>3. ASSUME NEW m \in Names
        PROVE  NamesOf(g)[m] = Unseeded(d, k)[m]
    BY <1>1, <2>1, <2>2 DEF NamesOf, Unseeded
  <2>4. /\ NamesOf(g) = [m \in Names |-> NamesOf(g)[m]]
        /\ Unseeded(d, k) = [m \in Names |-> Unseeded(d, k)[m]]
    BY DEF NamesOf, Unseeded
  <2> QED BY <2>3, <2>4
<1>6. Plain(Seedless(d, k), Unseeded(d, k), f.links)
  BY <1>4 DEF Plain, Seedless
<1> QED BY <1>4, <1>5, <1>6, SamePlain DEF g

LEMMA SeedsGo ==
  ASSUME IInv, NEW k \in Keys, frames' = WithoutSeeds(frames, k)
  PROVE  Flat(frames)' = Walked!WithoutSeeds(Flat(frames), k)
<1>1. /\ DOMAIN frames = 1 .. Len(frames) /\ DOMAIN Flat(frames) = 1 .. Len(frames)
      /\ \A i \in 1 .. Len(frames) : Flat(frames)[i] = Degraded(frames[i])
  BY FramesAre, FlatIs DEF IInv
<1>2. frames' = [i \in DOMAIN frames |-> Seedless(frames[i], k)]
  BY SeedlessIs
<1>3. Flat(frames)' = [i \in 1 .. Len(frames) |-> Degraded(Seedless(frames[i], k))]
  BY <1>1, <1>2 DEF Flat, Degraded, NoSlots
<1>4. \A i \in 1 .. Len(frames) : Degraded(Seedless(frames[i], k)) = Seedless(Flat(frames)[i], k)
  BY <1>1, FramesAre, SeedlessByNames DEF IInv
<1>5. Walked!WithoutSeeds(Flat(frames), k)
        = [i \in 1 .. Len(frames) |-> Seedless(Flat(frames)[i], k)]
  BY <1>1, SeedlessIs
<1> QED BY <1>3, <1>4, <1>5

LEMMA NothingWalks ==
  NoVar = Walked!NoVar /\ Unset = Walked!Unset /\ Marker = Walked!Marker
BY DEF Walked!NoVar, NoVar, Walked!Unset, Unset, Walked!Marker, Marker

LEMMA RemovedWalks ==
  ASSUME Sees, NEW n \in Names, Removed(n)
  PROVE  Walked!Removed(n)
<1> DEFINE l == LocOf(n)
<1>1. There(l) /\ (n \notin DOMAIN Top.slots \/ LinkOf(n) # None => Bare(l))
      /\ Walked!LocOf(n) = l /\ Walked!VarAt(l).arr = VarAt(l).arr
      /\ ~Walked!Slotted(n)
  BY LocOfThere, WalkedTop, WalkedVarAt DEF Sees, IInv
<1>2. NoVar \in Var /\ Unset \in Held3
  BY Values DEF Held3
<1>3. CASE VarAt(l).arr /\ l.frame = 0
  <2>1. globals' = [globals EXCEPT ![l.name] = NoVar] /\ UNCHANGED frames
    BY <1>3 DEF Removed
  <2>2. UNCHANGED Flat(frames)
    BY <2>1, WalkedStill
  <2> QED BY <1>1, <1>3, <2>1, <2>2, NothingWalks DEF Walked!Removed, Flat, ByNames
<1>4. CASE VarAt(l).arr /\ l.frame # 0
  <2> DEFINE f == frames[l.frame]
  <2>1. frames' = With(frames, l.frame, PutName(f, l.name, NoVar)) /\ UNCHANGED globals
    BY <1>4 DEF Removed, With, PutName
  <2>2. l.frame \in 1 .. Len(frames) /\ l.name \in Names
    BY <1>1, <1>4 DEF There
  <2>3. FrameOK(f) /\ Homes(f) /\ Flat(frames)[l.frame] = Degraded(f)
    BY <2>2, FramesAre, FlatIs DEF Sees, IInv
  <2>4. l.name \in DOMAIN f.slots => f.links[l.name] # None
    <3>1. f.locals[l.name] # NoVar
      BY <1>4, VarsAre DEF VarAt
    <3> QED BY <2>3, <3>1 DEF Homes, HomeOf, Sees
  <2> HIDE DEF f, l
  <2>5. Degraded(PutName(f, l.name, NoVar)) = PutName(Degraded(f), l.name, NoVar)
    BY <1>2, <2>2, <2>3, <2>4, NameByNames
  <2>6. Flat(frames)' = With(Flat(frames), l.frame, Degraded(PutName(f, l.name, NoVar)))
    BY <2>1, <2>2, WalkedWith
  <2>7. Flat(frames)' = [Flat(frames) EXCEPT ![l.frame].locals[l.name] = NoVar]
    BY <2>3, <2>5, <2>6 DEF With, PutName
  <2> QED BY <1>1, <1>4, <2>1, <2>7, NothingWalks DEF Walked!Removed, Flat, ByNames
<1>5. CASE ~VarAt(l).arr /\ l.frame = 0
  <2>1. globals' = [globals EXCEPT ![l.name].val = Unset] /\ frames' = WithoutSeeds(frames, l.name)
    BY <1>5 DEF Removed
  <2>2. l.name \in Keys
    BY <1>1, <1>5 DEF There
  <2>3. Flat(frames)' = Walked!WithoutSeeds(Flat(frames), l.name)
    BY <2>1, <2>2, SeedsGo DEF Sees
  <2> HIDE DEF l
  <2> QED BY <1>1, <1>5, <2>1, <2>3, NothingWalks DEF Walked!Removed, Flat, ByNames
<1>6. CASE ~VarAt(l).arr /\ l.frame # 0
  <2>1. Walked!Put(l, Unset)
    <3>1. CASE LinkOf(n) = None /\ Slotted(n)
      <4>1. SetTop([Top EXCEPT !.slots[n] = Unset]) /\ UNCHANGED globals
        BY <1>6, <3>1 DEF Removed
      <4>2. l = Local(Depth, n)
        BY <3>1 DEF LocOf
      <4> QED BY <3>1, <4>1, <4>2, WalkedSlot
    <3>2. CASE ~(LinkOf(n) = None /\ Slotted(n))
      <4>1. Put(l, Unset)
        BY <1>6, <3>2 DEF Removed
      <4>2. There(l) /\ Bare(l)
        BY <1>1, <3>2 DEF Slotted
      <4> HIDE DEF l
      <4> QED BY <1>2, <4>1, <4>2, WalkedPut
    <3> QED BY <3>1, <3>2
  <2> HIDE DEF l
  <2> QED BY <1>1, <1>6, <2>1, NothingWalks DEF Walked!Removed
<1> QED BY <1>3, <1>4, <1>5, <1>6

LEMMA UnsetWalks ==
  ASSUME Sees, NEW n \in Names, UnsetVar(n)
  PROVE  Simulated
<1> DEFINE l == LocOf(n)
<1>1. There(l) /\ Walked!LocOf(n) = l /\ Flat(frames) # <<>>
  BY LocOfThere, WalkedTop DEF Sees, IInv
<1>2. Walked!VarAt(l).arr = VarAt(l).arr /\ Walked!Exists(l) = Exists(l)
  BY <1>1, WalkedVarAt
<1>3. op' = <<"unset", n>> /\ traced' = traced \ {l} /\ UNCHANGED live
  BY DEF UnsetVar
<1>4. CASE Exists(l) \/ VarAt(l).arr
  <2>1. Removed(n) /\ Answer("ok", Unset, l \in traced)
    BY <1>4 DEF UnsetVar
  <2>2. Walked!Removed(n)
    BY <2>1, RemovedWalks
  <2> HIDE DEF l
  <2>3. Walked!UnsetVar(n)
    BY <1>1, <1>2, <1>3, <1>4, <2>1, <2>2, NothingWalks DEF Walked!UnsetVar, Walked!Answer, Answer
  <2> QED BY <1>1, <2>3 DEF Simulated, Walked!Next, Walked!Scalars, Flat, ByNames
<1>5. CASE ~(Exists(l) \/ VarAt(l).arr)
  <2>1. UNCHANGED <<frames, globals>> /\ Say("missing")
    BY <1>5 DEF UnsetVar
  <2>2. UNCHANGED Flat(frames)
    BY <2>1, WalkedStill
  <2> HIDE DEF l
  <2>3. Walked!UnsetVar(n)
    BY <1>1, <1>2, <1>3, <1>5, <2>1, <2>2, NothingWalks
       DEF Walked!UnsetVar, Walked!Answer, Answer, Walked!Say, Say, Flat, ByNames
  <2> QED BY <1>1, <2>3 DEF Simulated, Walked!Next, Walked!Scalars, Flat, ByNames
<1> QED BY <1>4, <1>5

-----------------------------------------------------------------------------
(* Operations that leave the slots                                         *)

(* Once the frame has left its slots for n, n is kept by name where it is. *)
LEMMA LeftSlots ==
  ASSUME FramesInv(frames), frames # <<>>, NEW n \in Names
  PROVE  LET fs == With(frames, Depth, DegradedFor(Top, n))
             l  == LocOf(n)
         IN  /\ [frames EXCEPT ![Depth] = DegradedFor(@, n)] = fs
             /\ FramesInv(fs) /\ Len(fs) = Len(frames) /\ Onward(frames, fs)
             /\ l.frame # 0 => /\ l.frame \in 1 .. Len(fs) /\ l.name \in Names
                               /\ l.name \notin DOMAIN fs[l.frame].slots
<1> DEFINE g  == DegradedFor(Top, n)
           fs == With(frames, Depth, g)
           l  == LocOf(n)
<1>1. Depth \in 1 .. Len(frames) /\ Top = frames[Depth] /\ Similar(Top, g) /\ n \notin DOMAIN g.slots
  BY Here, DegradedSimilar
<1>2. [frames EXCEPT ![Depth] = DegradedFor(@, n)] = fs
  BY <1>1 DEF With
<1> HIDE DEF g
<1>3. Onward(frames, fs) /\ FramesInv(fs) /\ Len(fs) = Len(frames) /\ fs[Depth] = g
  BY <1>1, SimilarOnward, WithIs DEF Onward
<1> HIDE DEF fs
<1>4. ASSUME l.frame # 0
      PROVE  /\ l.frame \in 1 .. Len(fs) /\ l.name \in Names
             /\ l.name \notin DOMAIN fs[l.frame].slots
  <2>1. l.frame \in 1 .. Len(fs) /\ l.name \in Names
    BY <1>3, <1>4, LocOfThere DEF There
  <2>2. CASE l = Local(Depth, n)
    <3>1. l.frame = Depth /\ l.name = n
      BY <2>2, OwnThere
    <3> QED BY <1>1, <1>3, <2>1, <3>1
  <2>3. CASE LinkOf(n) # None /\ l = LinkOf(n).to /\ Kept(frames, l)
    <3>1. DOMAIN g.slots \subseteq DOMAIN frames[Depth].slots
      BY <1>1 DEF Similar
    <3>2. Kept(fs, l)
      BY <1>1, <2>3, <3>1, KeptStill DEF fs
    <3> QED BY <1>4, <2>1, <3>2 DEF Kept
  <2> QED BY <2>2, <2>3, LocOfThere
<1> QED BY <1>2, <1>3, <1>4 DEF fs, g

(* The walked frames have no slots to leave.                               *)
LEMMA SlotlessStays ==
  ASSUME Sees, NEW i \in 1 .. Len(frames), NEW n
  PROVE  /\ Walked!DegradedFor(Flat(frames)[i], n) = Flat(frames)[i]
         /\ [Flat(frames) EXCEPT ![i] = Walked!DegradedFor(@, n)] = Flat(frames)
         /\ Walked!Degraded(Flat(frames)[i]) = Flat(frames)[i]
         /\ \A link : Walked!DegradedLink(Flat(frames)[i], n, link) = Flat(frames)[i]
<1>1. /\ Flat(frames)[i] = Degraded(frames[i]) /\ FrameOK(frames[i])
      /\ DOMAIN Flat(frames) = 1 .. Len(frames)
      /\ Flat(frames) = [j \in 1 .. Len(frames) |-> Degraded(frames[j])]
  BY FramesAre, FlatIs DEF Sees, IInv
<1>2. n \notin DOMAIN Flat(frames)[i].slots
  BY <1>1, DegradedSimilar
<1>3. Walked!DegradedFor(Flat(frames)[i], n) = Flat(frames)[i]
  BY <1>2 DEF Walked!DegradedFor
<1>4. [Flat(frames) EXCEPT ![i] = Walked!DegradedFor(@, n)] = Flat(frames)
  BY <1>1, <1>3
<1>5. Walked!Degraded(Flat(frames)[i]) = Flat(frames)[i]
  <2>1. \A f : Walked!Degraded(f) = Degraded(f)
    BY DEF Walked!Degraded, Degraded, Walked!NoSlots, NoSlots, Walked!Unset, Unset
  <2> QED BY <1>1, <2>1, DegradedAgain
<1>6. \A link : Walked!DegradedLink(Flat(frames)[i], n, link) = Flat(frames)[i]
  BY <1>2 DEF Walked!DegradedLink
<1> QED BY <1>3, <1>4, <1>5, <1>6

LEMMA WalkedTo ==
  ASSUME NEW fs, frames' = fs
  PROVE  Flat(frames)' = Flat(fs)
BY DEF Flat, Degraded, NoSlots

LEMMA WalkedHere ==
  ASSUME Sees, NEW n \in Names
  PROVE  /\ Walked!Depth = Depth /\ Walked!Top = Flat(frames)[Depth] /\ Flat(frames) # <<>>
         /\ Walked!DegradedFor(Flat(frames)[Depth], n) = Flat(frames)[Depth]
         /\ Walked!Degraded(Flat(frames)[Depth]) = Flat(frames)[Depth]
         /\ Walked!LocOf(n) = LocOf(n)
         /\ [Flat(frames) EXCEPT ![Depth] = Flat(frames)[Depth]] = Flat(frames)
<1>1. Depth \in 1 .. Len(frames) /\ Top = frames[Depth]
  BY Here DEF Sees, IInv
<1>2. /\ Flat(frames)[Depth] = Degraded(Top)
      /\ [Flat(frames) EXCEPT ![Depth] = Flat(frames)[Depth]] = Flat(frames)
  BY <1>1, FlatIs DEF Sees, IInv
<1>3. Walked!Depth = Depth /\ Walked!Top = Degraded(Top) /\ Flat(frames) # <<>>
      /\ Walked!LocOf(n) = LocOf(n)
  BY WalkedTop
<1> QED BY <1>1, <1>2, <1>3, SlotlessStays

LEMMA LeavingWalks ==
  ASSUME Sees, NEW n \in Names, NEW g \in {Degraded(Top), DegradedFor(Top, n)}
  PROVE  Flat(With(frames, Depth, g)) = Flat(frames)
<1>1. Depth \in 1 .. Len(frames) /\ Top = frames[Depth] /\ FrameOK(Top)
  BY Here DEF Sees, IInv
<1>2. Degraded(g) = Degraded(frames[Depth])
  BY <1>1, DegradedAgain
<1> QED BY <1>1, <1>2, FlatStill DEF Sees, IInv

LEMMA InfoWalks ==
  ASSUME Sees, InfoVars
  PROVE  Simulated
<1>1. frames' = With(frames, Depth, Degraded(Top)) /\ Depth \in 1 .. Len(frames)
  BY Here DEF InfoVars, SetTop, With, Sees, IInv
<1>2. Flat(frames)' = Flat(frames)
  <2>1. Degraded(Degraded(Top)) = Degraded(frames[Depth])
    BY Here, DegradedAgain DEF Sees, IInv
  <2>2. Flat(With(frames, Depth, Degraded(Top))) = Flat(frames)
    BY <1>1, <2>1, FlatStill DEF Sees, IInv
  <2> QED BY <1>1, <2>2, WalkedTo
<1>3. /\ Walked!Depth = Depth /\ Walked!Top = Flat(frames)[Depth] /\ Flat(frames) # <<>>
      /\ Walked!Degraded(Flat(frames)[Depth]) = Flat(frames)[Depth]
  BY <1>1, WalkedTop, SlotlessStays, FlatIs, Here DEF Sees, IInv
<1>4. [Flat(frames) EXCEPT ![Depth] = Flat(frames)[Depth]] = Flat(frames)
  BY FlatIs DEF Sees, IInv, Listed
<1>5. Walked!InfoVars
  BY <1>2, <1>3, <1>4, NothingWalks DEF InfoVars, Walked!InfoVars, Walked!SetTop, Walked!Say, Say,
     Walked!Answer, Answer, Flat, ByNames
<1> QED BY <1>5 DEF Simulated, Walked!Next

LEMMA TraceWalks ==
  ASSUME Sees, NEW n \in Names, TraceVar(n)
  PROVE  Simulated
<1>1. frames' = With(frames, Depth, DegradedFor(Top, n)) /\ Depth \in 1 .. Len(frames)
  BY Here DEF TraceVar, SetTop, With, Sees, IInv
<1>2. Flat(frames)' = Flat(frames)
  <2>1. Flat(With(frames, Depth, DegradedFor(Top, n))) = Flat(frames)
    BY LeavingWalks
  <2> QED BY <1>1, <2>1, WalkedTo
<1>3. /\ Walked!Depth = Depth /\ Walked!Top = Flat(frames)[Depth] /\ Flat(frames) # <<>>
      /\ Walked!DegradedFor(Flat(frames)[Depth], n) = Flat(frames)[Depth]
      /\ Walked!LocOf(n) = LocOf(n)
  BY WalkedHere
<1>4. [Flat(frames) EXCEPT ![Depth] = Flat(frames)[Depth]] = Flat(frames)
  BY WalkedHere
<1>5. Walked!TraceVar(n)
  BY <1>2, <1>3, <1>4, NothingWalks DEF TraceVar, Walked!TraceVar, Walked!SetTop, Walked!Say, Say,
     Walked!Answer, Answer, Flat, ByNames
<1> QED BY <1>3, <1>5 DEF Simulated, Walked!Next, Walked!Traces, Flat, ByNames

LEMMA ElementWalks ==
  ASSUME Sees, NEW n \in Names, WriteElement(n)
  PROVE  Simulated
<1> DEFINE fs == With(frames, Depth, DegradedFor(Top, n))
           l  == LocOf(n)
           w  == [val |-> Marker, arr |-> TRUE]
<1>1. /\ There(l) /\ Walked!LocOf(n) = l /\ Flat(frames) # <<>> /\ Walked!IsDead(n) = IsDead(n)
      /\ Walked!Depth = Depth
      /\ [Flat(frames) EXCEPT ![Depth] = Walked!DegradedFor(@, n)] = Flat(frames)
  BY LocOfThere, WalkedTop, SlotlessStays, Here DEF Sees, IInv
<1>2. Walked!VarAt(l).arr = VarAt(l).arr /\ Walked!Exists(l) = Exists(l)
  BY <1>1, WalkedVarAt
<1>3. /\ [frames EXCEPT ![Depth] = DegradedFor(@, n)] = fs
      /\ FramesInv(fs) /\ Len(fs) = Len(frames)
      /\ l.frame # 0 => /\ l.frame \in 1 .. Len(fs) /\ l.name \in Names
                        /\ l.name \notin DOMAIN fs[l.frame].slots
  BY LeftSlots DEF Sees, IInv
<1>4. Flat(fs) = Flat(frames)
  BY LeavingWalks
<1>5. Walked!WriteElement(n)
  <2>0. op' = <<"element", n>> /\ UNCHANGED <<traced, live>>
    BY DEF WriteElement
  <2>1. CASE IsDead(n)
    <3>1. UNCHANGED <<frames, globals>> /\ Say("dead")
      BY <2>1 DEF WriteElement
    <3>2. UNCHANGED Flat(frames)
      BY <3>1, WalkedStill
    <3> QED BY <1>1, <2>0, <2>1, <3>1, <3>2, NothingWalks
            DEF Walked!WriteElement, Walked!Say, Say, Walked!Answer, Answer, Flat, ByNames
  <2>2. CASE ~IsDead(n) /\ (VarAt(l).arr \/ Exists(l))
    <3>1. /\ frames' = fs /\ UNCHANGED globals
          /\ IF VarAt(l).arr THEN Answer("ok", Unset, l \in traced) ELSE Say("notarray")
      BY <1>3, <2>2 DEF WriteElement
    <3> HIDE DEF fs, l
    <3>2. Flat(frames)' = Flat(frames)
      BY <1>4, <3>1, WalkedTo
    <3> QED BY <1>1, <1>2, <2>0, <2>2, <3>1, <3>2, NothingWalks
            DEF Walked!WriteElement, Walked!Say, Say, Walked!Answer, Answer, Flat, ByNames
  <2>3. CASE ~IsDead(n) /\ ~(VarAt(l).arr \/ Exists(l)) /\ l.frame = 0
    <3>1. /\ globals' = [globals EXCEPT ![l.name] = w] /\ frames' = fs
          /\ Answer("ok", Unset, l \in traced)
      BY <1>3, <2>3 DEF WriteElement
    <3> HIDE DEF fs, l
    <3>2. Flat(frames)' = Flat(frames)
      BY <1>4, <3>1, WalkedTo
    <3> QED BY <1>1, <1>2, <2>0, <2>3, <3>1, <3>2, NothingWalks
            DEF Walked!WriteElement, Walked!Answer, Answer, Flat, ByNames
  <2>4. CASE ~IsDead(n) /\ ~(VarAt(l).arr \/ Exists(l)) /\ l.frame # 0
    <3>1. /\ frames' = [fs EXCEPT ![l.frame].locals[l.name] = w] /\ UNCHANGED globals
          /\ Answer("ok", Unset, l \in traced)
      BY <1>3, <2>4 DEF WriteElement
    <3>2. w \in Var
      BY DEF Var
    <3> DEFINE f == fs[l.frame]
    <3> HIDE DEF fs, l, w
    <3>3. FrameOK(f) /\ Homes(f) /\ Flat(frames)[l.frame] = Degraded(f)
      BY <1>3, <1>4, <2>4, FramesAre, FlatIs
    <3>4. frames' = With(fs, l.frame, PutName(f, l.name, w))
      BY <3>1 DEF With, PutName
    <3>5. l.name \notin DOMAIN f.slots /\ l.name \in Names /\ l.frame \in 1 .. Len(fs)
      BY <1>3, <2>4
    <3> HIDE DEF f
    <3>6. Degraded(PutName(f, l.name, w)) = PutName(Flat(frames)[l.frame], l.name, w)
      BY <3>2, <3>3, <3>5, NameByNames
    <3>7. Flat(With(fs, l.frame, PutName(f, l.name, w)))
            = With(Flat(fs), l.frame, Degraded(PutName(f, l.name, w)))
      BY <1>3, <3>5, FlatWith
    <3>8. Flat(frames)' = Flat(With(fs, l.frame, PutName(f, l.name, w)))
      BY <3>4, WalkedTo
    <3>9. Flat(frames)' = [Flat(frames) EXCEPT ![l.frame].locals[l.name] = w]
      BY <1>4, <3>6, <3>7, <3>8 DEF With, PutName
    <3>10. Walked!Answer("ok", Unset, l \in traced)
      BY <3>1 DEF Walked!Answer, Answer
    <3> QED BY <1>1, <1>2, <2>0, <2>4, <3>1, <3>9, <3>10, NothingWalks, ZenonT(60)
            DEF Walked!WriteElement, Flat, ByNames, w
  <2> QED BY <2>1, <2>2, <2>3, <2>4
<1> QED BY <1>1, <1>5 DEF Simulated, Walked!Next, Walked!Elements, Flat, ByNames

-----------------------------------------------------------------------------
(* Links to globals                                                        *)

(* Linking a name, and seeding it with the value of its global.            *)
LEMMA LinkedName ==
  ASSUME NEW f, FrameOK(f), NEW n \in Names, NEW link \in LinkType
  PROVE  DegradedLink(f, n, link).locals[n] = NamesOf(f)[n]
<1> DEFINE d == DegradedLink(f, n, link)
<1>1. /\ NamesOf(d) = NamesOf(f)
      /\ n \in DOMAIN d.slots => d.slots[n] = Unset
  BY DegradedLinkNames, DegradedLinkIs
<1> HIDE DEF d
<1>2. NamesOf(d)[n] = d.locals[n]
  BY <1>1 DEF NamesOf
<1> QED BY <1>1, <1>2 DEF d

LEMMA RelinkWalks ==
  ASSUME NEW fs, FramesInv(fs), ~BlockedLinks, NEW i \in 1 .. Len(fs), NEW n \in Names,
         NEW link \in LinkType, NEW v \in Held3, frames' = With(fs, i, Relinked(fs[i], n, link, v))
  PROVE  Flat(frames)' = With(Flat(fs), i, Linking(Flat(fs)[i], n, link, v))
<1>1. FrameOK(fs[i]) /\ Homes(fs[i]) /\ Flat(fs)[i] = Degraded(fs[i])
  BY FramesAre, FlatIs
<1>2. Degraded(Relinked(fs[i], n, link, v)) = Linking(Flat(fs)[i], n, link, v)
  BY <1>1, RelinkedByNames
<1>3. Flat(With(fs, i, Relinked(fs[i], n, link, v)))
        = With(Flat(fs), i, Degraded(Relinked(fs[i], n, link, v)))
  BY FlatWith
<1>4. Flat(frames)' = Flat(With(fs, i, Relinked(fs[i], n, link, v)))
  BY WalkedTo
<1> QED BY <1>2, <1>3, <1>4

LEMMA SeedLinks ==
  ASSUME Sees, NEW n \in Names, NEW k \in Keys, NEW v \in Held3,
         SetTop([DegradedLink(Top, n, Seed(k)) EXCEPT !.links[n] = Seed(k),
                                                      !.locals[n].val = First(v, @)])
  PROVE  Walked!SetTop([Walked!DegradedLink(Walked!Top, n, Seed(k)) EXCEPT
                          !.links[n] = Seed(k), !.locals[n].val = Walked!First(v, @)])
<1> DEFINE link == Seed(k)
           d == DegradedLink(Top, n, link)
           t == Flat(frames)[Depth]
           w == First(v, NamesOf(Top)[n].val)
<1>1. /\ Depth \in 1 .. Len(frames) /\ Top = frames[Depth] /\ FrameOK(Top) /\ link \in LinkType
  BY Here, GlobalLinks DEF Sees, IInv, Seed
<1> HIDE DEF link
<1>2. d.locals[n] = NamesOf(Top)[n] /\ DOMAIN d = {"locals", "links", "slots", "aliased", "linkKeys"}
  BY <1>1, LinkedName, DegradedLinkIs, FrameFields
<1>3. [d EXCEPT !.links[n] = link, !.locals[n].val = First(v, @)] = Relinked(Top, n, link, w)
  BY <1>2 DEF Relinked
<1>4. w \in Held3
  <2>1. NamesOf(Top)[n] \in Var
    BY <1>1, Here, NamesAre DEF Sees, IInv
  <2>2. NamesOf(Top)[n].val \in Held3
    BY <2>1 DEF Var, Held3
  <2> QED BY <2>2, FirstIs
<1>5. frames' = With(frames, Depth, Relinked(frames[Depth], n, link, w))
  <2> HIDE DEF d, w
  <2>1. frames' = [frames EXCEPT ![Depth] = Relinked(Top, n, link, w)]
    BY <1>3 DEF SetTop, d, link
  <2> QED BY <1>1, <2>1 DEF With
<1> HIDE DEF w, d
<1>6. Flat(frames)' = With(Flat(frames), Depth, Linking(t, n, link, w))
  BY <1>1, <1>4, <1>5, RelinkWalks DEF Sees, IInv
<1>7. Walked!DegradedLink(Walked!Top, n, link) = t /\ Walked!Depth = Depth
  <2>1. Walked!Top = t /\ Walked!Depth = Depth
    BY WalkedHere
  <2>2. \A lk : Walked!DegradedLink(t, n, lk) = t
    BY <1>1, SlotlessStays
  <2> HIDE DEF t
  <2> QED BY <2>1, <2>2
<1>8. t.locals[n] = NamesOf(Top)[n] /\ DOMAIN t = {"locals", "links", "slots", "aliased", "linkKeys"}
  BY <1>1, FlatIs, DegradedIs DEF Sees, IInv, Plain
<1> HIDE DEF t
<1>9. [t EXCEPT !.links[n] = link, !.locals[n].val = Walked!First(v, @)] = Linking(t, n, link, w)
  <2>1. Walked!First(v, t.locals[n].val) = w
    BY <1>8, NothingWalks DEF w, First, Walked!First
  <2> QED BY <1>8, <2>1 DEF Linking
<1> QED BY <1>6, <1>7, <1>9 DEF Walked!SetTop, With, Flat, ByNames, link

(* The commands global and variable.                                       *)
LEMMA GlobalWalks ==
  ASSUME Sees, NEW n \in DOMAIN GlobalKey, GlobalCmd(n)
  PROVE  Simulated
<1>1. n \in Names /\ GlobalKey[n] \in Keys /\ Flat(frames) # <<>>
  BY FrameVarsAssumption, WalkedTop
<1>2. globals[GlobalKey[n]].val \in Held3
  BY <1>1 DEF Sees, IInv, Var, Held3
<1>3. /\ SetTop([DegradedLink(Top, n, Seed(GlobalKey[n])) EXCEPT
                   !.links[n] = Seed(GlobalKey[n]),
                   !.locals[n].val = First(globals[GlobalKey[n]].val, @)])
      /\ op' = <<"global", n>> /\ Say("ok") /\ UNCHANGED <<globals, traced, live>>
  BY DEF GlobalCmd, Seed
<1>4. Walked!SetTop([Walked!DegradedLink(Walked!Top, n, Seed(GlobalKey[n])) EXCEPT
                       !.links[n] = Seed(GlobalKey[n]),
                       !.locals[n].val = Walked!First(globals[GlobalKey[n]].val, @)])
  BY <1>1, <1>2, <1>3, SeedLinks
<1>5. Walked!GlobalCmd(n)
  BY <1>3, <1>4, NothingWalks
     DEF Walked!GlobalCmd, Seed, Walked!Global, Global, Walked!Say, Say, Walked!Answer, Answer
<1> QED BY <1>1, <1>5 DEF Simulated, Walked!Next, Walked!GlobalCmds, Flat, ByNames

LEMMA VariableWalks ==
  ASSUME Sees, NEW n \in DOMAIN VariableKey, NEW v \in Vals \cup {Unset}, VariableCmd(n, v)
  PROVE  Simulated
<1> DEFINE k == VariableKey[n]
<1>1. n \in Names /\ k \in Keys /\ Flat(frames) # <<>>
  BY FrameVarsAssumption, WalkedTop
<1>2. op' = <<"variable", n, v>> /\ UNCHANGED <<traced, live>>
  BY DEF VariableCmd
<1>3. Walked!VariableCmd(n, v)
  <2>1. CASE ~live
    <3>1. UNCHANGED <<frames, globals>> /\ Say("nons")
      BY <2>1 DEF VariableCmd
    <3>2. UNCHANGED Flat(frames)
      BY <3>1, WalkedStill
    <3> QED BY <1>2, <2>1, <3>1, <3>2, NothingWalks
            DEF Walked!VariableCmd, Walked!Say, Say, Walked!Answer, Answer, Flat, ByNames
  <2>2. CASE live
    <3>1. /\ globals' = [globals EXCEPT ![k].val = First(v, @)] /\ Say("ok")
          /\ SetTop([DegradedLink(Top, n, Seed(k)) EXCEPT
                       !.links[n] = Seed(k), !.locals[n].val = First(globals'[k].val, @)])
      BY <2>2 DEF VariableCmd, Seed
    <3>2. globals'[k].val \in Held3
      <4>1. globals[k] \in Var /\ globals[k].val \in Held3 /\ v \in Held3
        BY <1>1 DEF Sees, IInv, Var, Held3
      <4>2. globals'[k].val = First(v, globals[k].val)
        BY <1>1, <3>1, <4>1 DEF Sees, IInv, Var
      <4> QED BY <4>1, <4>2, FirstIs
    <3>3. Walked!SetTop([Walked!DegradedLink(Walked!Top, n, Seed(k)) EXCEPT
                           !.links[n] = Seed(k), !.locals[n].val = Walked!First(globals'[k].val, @)])
      BY <1>1, <3>1, <3>2, SeedLinks
    <3>4. globals' = [globals EXCEPT ![k].val = Walked!First(v, @)]
      BY <3>1, NothingWalks DEF First, Walked!First
    <3> QED BY <1>2, <2>2, <3>1, <3>3, <3>4, NothingWalks
            DEF Walked!VariableCmd, Seed, Walked!Global, Global, Walked!Say, Say,
                Walked!Answer, Answer
  <2> QED BY <2>1, <2>2
<1>4. v \in Walked!Vals \cup {Walked!Unset}
  BY NothingWalks DEF Walked!Vals, Vals
<1> QED BY <1>1, <1>3, <1>4 DEF Simulated, Walked!Next, Walked!Variables, Flat, ByNames

-----------------------------------------------------------------------------
(* Links of links *)

(* A hop depends on the frames by their names alone.                       *)
LEMMA HopFlat ==
  ASSUME NEW fs, FramesInv(fs), NEW l \in Reaching(fs)
  PROVE  Hop(Flat(fs), l) = Hop(fs, l)
<1>1. CASE l.dead \/ l.to.frame = 0
  BY <1>1 DEF Hop
<1>2. CASE ~(l.dead \/ l.to.frame = 0)
  <2>1. l.to.frame \in 1 .. Len(fs)
    <3>1. l.to.frame \in 0 .. MaxFrames /\ l.to.frame <= Len(fs) /\ Len(fs) \in Nat
      BY LinkFields, FramesAre DEF Reaching, LinkOK
    <3> QED BY <1>2, <3>1, FrameVarsAssumption
  <2>2. Flat(fs)[l.to.frame].links = fs[l.to.frame].links
    BY <2>1, FlatIs, FramesAre, DegradedIs DEF Plain
  <2> QED BY <2>2 DEF Hop
<1> QED BY <1>1, <1>2

(* The hops of a link are determined, so both programs reach the same.     *)
LEMMA OneHops ==
  ASSUME NEW fs, NEW link, NEW N \in Nat, NEW g, Hopped(fs, g, link, N), NEW h,
         Hopped(fs, h, link, N)
  PROVE  g[N] = h[N]
<1> DEFINE P == {k \in 0 .. N : g[k] = h[k]}
<1>1. /\ g[0] = link /\ \A k \in 1 .. N : g[k] = Hop(fs, g[k - 1])
      /\ h[0] = link /\ \A k \in 1 .. N : h[k] = Hop(fs, h[k - 1])
  BY DEF Hopped
<1>2. 0 \in P
  BY <1>1
<1>3. \A k \in 0 .. N : k \in P /\ k < N => k + 1 \in P
  <2>1. ASSUME NEW k \in 0 .. N, g[k] = h[k], k < N
        PROVE  g[k + 1] = h[k + 1]
    <3>1. k + 1 \in 1 .. N /\ (k + 1) - 1 = k
      BY <2>1
    <3> QED BY <1>1, <2>1, <3>1
  <2> QED BY <2>1
<1>4. P \subseteq {k \in 0 .. N : g[k] = h[k]}
  OBVIOUS
<1> HIDE DEF P
<1>5. \A k \in 0 .. N : k \in P
  BY <1>2, <1>3, Steps
<1> QED BY <1>4, <1>5

LEMMA UltimateFlat ==
  ASSUME NEW fs, FramesInv(fs), NEW link \in Reaching(fs)
  PROVE  Walked!Ultimate(Flat(fs), link) = Ultimate(fs, link)
<1> DEFINE N == Len(fs) + 1
<1>1. Len(fs) \in Nat /\ Len(Flat(fs)) = Len(fs) /\ N \in Nat
  BY FramesAre, FlatIs
<1>2. PICK g : Ultimate(fs, link) = g[N] /\ Hopped(fs, g, link, N)
  BY <1>1, UltimateHops
<1>3. PICK h : Ultimate(Flat(fs), link) = h[N] /\ Hopped(Flat(fs), h, link, N)
  BY <1>1, UltimateHops
<1>4. Hopped(Flat(fs), g, link, N)
  <2>1. \A k \in 0 .. N : g[k] \in Reaching(fs)
    BY <1>1, <1>2, HopsReach
  <2>2. \A k \in 0 .. N : k # 0 => k - 1 \in 0 .. N
    BY <1>1
  <2>3. \A k \in 0 .. N : k # 0 => Hop(Flat(fs), g[k - 1]) = Hop(fs, g[k - 1])
    BY <2>1, <2>2, HopFlat
  <2>4. [k \in 0 .. N |-> IF k = 0 THEN link ELSE Hop(fs, g[k - 1])]
          = [k \in 0 .. N |-> IF k = 0 THEN link ELSE Hop(Flat(fs), g[k - 1])]
    BY <2>3
  <2> QED BY <1>2, <2>4 DEF Hopped
<1>5. Ultimate(Flat(fs), link) = Ultimate(fs, link)
  <2> HIDE DEF N
  <2>1. g[N] = h[N]
    BY <1>1, <1>3, <1>4, OneHops
  <2> QED BY <1>2, <1>3, <2>1
<1>6. Walked!Ultimate(Flat(fs), link) = Ultimate(Flat(fs), link)
  BY DEF Walked!Ultimate, Ultimate, Walked!Hop, Hop
<1> QED BY <1>5, <1>6

-----------------------------------------------------------------------------
(* Upvar                                                                   *)

(* The frame a link leads to leaves its slots.                             *)
LeftFor(link) == IF link.dead \/ link.to.frame = 0 THEN frames
                 ELSE [frames EXCEPT ![link.to.frame] = DegradedFor(@, link.to.name)]

(* Nothing changes by names, and the name is kept where the link leads.    *)
LEMMA LeftForIs ==
  ASSUME Sees, NEW link \in Reaching(frames)
  PROVE  /\ FramesInv(LeftFor(link)) /\ Len(LeftFor(link)) = Len(frames)
         /\ Flat(LeftFor(link)) = Flat(frames)
         /\ ~link.dead /\ link.to.frame # 0 =>
              /\ link.to.frame \in 1 .. Len(frames) /\ link.to.name \in Names
              /\ link.to.name \notin DOMAIN LeftFor(link)[link.to.frame].slots
<1>1. CASE link.dead \/ link.to.frame = 0
  BY <1>1 DEF LeftFor, Sees, IInv
<1>2. CASE ~(link.dead \/ link.to.frame = 0)
  <2> DEFINE j == link.to.frame
             g == DegradedFor(frames[j], link.to.name)
  <2>1. j \in 1 .. Len(frames) /\ link.to.name \in Names
    <3>1. j \in 0 .. MaxFrames /\ j <= Len(frames) /\ Len(frames) \in Nat /\ link.to.name \in Names
      BY <1>2, LinkFields, FramesAre DEF Reaching, LinkOK, Sees, IInv
    <3> QED BY <1>2, <3>1, FrameVarsAssumption
  <2>2. LeftFor(link) = With(frames, j, g)
    BY <1>2 DEF LeftFor, With
  <2>3. FrameOK(frames[j]) /\ Similar(frames[j], g) /\ link.to.name \notin DOMAIN g.slots
        /\ Degraded(g) = Degraded(frames[j])
    BY <2>1, FramesAre, DegradedSimilar, DegradedAgain DEF Sees, IInv
  <2> HIDE DEF g
  <2>4. FramesInv(With(frames, j, g)) /\ Len(With(frames, j, g)) = Len(frames)
        /\ With(frames, j, g)[j] = g
    BY <2>1, <2>3, SimilarOnward, WithIs DEF Sees, IInv, Onward
  <2>5. Flat(With(frames, j, g)) = Flat(frames)
    BY <2>1, <2>3, FlatStill DEF Sees, IInv
  <2> QED BY <1>2, <2>1, <2>2, <2>3, <2>4, <2>5
<1> QED BY <1>1, <1>2

LEMMA UpvarWalks ==
  ASSUME Sees, NEW n \in Names, NEW t \in UpvarTargets, Upvar(t, n)
  PROVE  Simulated
<1> DEFINE from == [to |-> t, dead |-> FALSE]
           link == Ultimate(frames, from)
           fs   == LeftFor(link)
           f    == DegradedLink(fs[Depth], n, link)
           blocked == f.links[n] = None /\ (f.locals[n].val # Unset \/ f.locals[n].arr)
           copy == IF link.dead THEN Unset
                   ELSE IF link.to.frame = 0 THEN globals[link.to.name].val
                   ELSE fs[link.to.frame].locals[link.to.name].val
           d    == Flat(frames)[Depth]
           self == ~link.dead /\ link.to = Local(Depth, n)
           kept == Local(Depth, n) \in traced
           F    == Flat(frames)
           named == IF link.dead THEN Unset
                    ELSE IF link.to.frame = 0 THEN globals[link.to.name].val
                    ELSE F[link.to.frame].locals[link.to.name].val
<1>1. /\ op' = <<"upvar", t, n>> /\ UNCHANGED <<globals, traced, live>>
      /\ blocked /\ n \in DOMAIN f.slots => BlockedLinks
      /\ IF self THEN frames' = fs /\ Say("self")
         ELSE IF kept THEN frames' = fs /\ Say("traced")
         ELSE IF blocked THEN frames' = [fs EXCEPT ![Depth] = f] /\ Say("exists")
         ELSE frames' = [fs EXCEPT ![Depth] = [f EXCEPT !.links[n] = link, !.locals[n].val = copy]]
              /\ Say("ok")
  BY DEF Upvar, LeftFor
<1>2. from \in Reaching(frames) /\ link \in Reaching(frames) /\ link \in LinkType
  BY TargetsReach, UltimateReaches DEF Sees, IInv, Reaching
<1>3. Walked!Ultimate(F, from) = link
  BY <1>2, UltimateFlat DEF Sees, IInv
<1> HIDE DEF link, from
<1>4. /\ Walked!Depth = Depth /\ Depth \in 1 .. Len(frames) /\ F # <<>>
      /\ Walked!Local(Depth, n) = Local(Depth, n)
  BY WalkedTop, Here DEF Sees, IInv, Walked!Local, Local
<1>5. /\ FramesInv(fs) /\ Len(fs) = Len(frames) /\ Flat(fs) = F
      /\ ~link.dead /\ link.to.frame # 0 =>
           /\ link.to.frame \in 1 .. Len(frames) /\ link.to.name \in Names
           /\ link.to.name \notin DOMAIN fs[link.to.frame].slots
  BY <1>2, LeftForIs
<1> HIDE DEF fs
<1>6. (IF link.dead \/ link.to.frame = 0 THEN F
       ELSE [F EXCEPT ![link.to.frame] = Walked!DegradedFor(@, link.to.name)]) = F
  BY <1>5, SlotlessStays
<1>7. Walked!DegradedLink(d, n, link) = d
  BY <1>4, SlotlessStays
<1>8. /\ FrameOK(fs[Depth]) /\ Homes(fs[Depth]) /\ d = Degraded(fs[Depth])
      /\ DOMAIN fs = 1 .. Len(fs) /\ Depth \in 1 .. Len(fs)
  BY <1>4, <1>5, FramesAre, FlatIs
<1> HIDE DEF d, F
<1>9. d.links = fs[Depth].links /\ d.locals = NamesOf(fs[Depth])
  BY <1>8, DegradedIs DEF Plain
<1>10. /\ f.links[n] = d.links[n] /\ f.locals[n] = d.locals[n]
       /\ DOMAIN f = {"locals", "links", "slots", "aliased", "linkKeys"}
       /\ DOMAIN f.slots = DOMAIN fs[Depth].slots
  BY <1>2, <1>8, <1>9, LinkedName, DegradedLinkIs, FrameFields
<1>11. copy = named /\ copy \in Held3
  <2>1. CASE link.dead
    BY <2>1 DEF Held3
  <2>2. CASE ~link.dead /\ link.to.frame = 0
    <3>1. globals[link.to.name] \in Var
      BY <1>2, <2>2, LinkFields DEF Sees, IInv
    <3> QED BY <2>2, <3>1 DEF Var, Held3
  <2>3. CASE ~link.dead /\ link.to.frame # 0
    <3> DEFINE h == fs[link.to.frame]
    <3>1. FrameOK(h) /\ F[link.to.frame] = Degraded(h)
      BY <1>5, <2>3, FramesAre, FlatIs
    <3> HIDE DEF h
    <3>2. Degraded(h).locals = NamesOf(h) /\ h.locals \in [Names -> Var]
      BY <3>1, DegradedIs, FrameFields DEF Plain
    <3>3. NamesOf(h)[link.to.name] = h.locals[link.to.name] /\ h.locals[link.to.name] \in Var
      BY <1>5, <2>3, <3>2 DEF NamesOf, h
    <3>4. h.locals[link.to.name].val \in Held3
      BY <3>3 DEF Var, Held3
    <3> QED BY <2>3, <3>1, <3>2, <3>3, <3>4 DEF h
  <2> QED BY <2>1, <2>2, <2>3
<1> DEFINE stuck == d.links[n] = None /\ (d.locals[n].val # Unset \/ d.locals[n].arr)
<1>12. stuck <=> blocked
  <2> HIDE DEF f
  <2> QED BY <1>10
<1>13. n \notin DOMAIN d.slots
  BY <1>8, DegradedSimilar
<1>14. CASE self \/ kept \/ blocked
  <2>1. frames' = fs
    <3>1. CASE self \/ kept
      BY <1>1, <3>1
    <3>2. CASE ~(self \/ kept)
      <4>1. n \notin DOMAIN fs[Depth].slots
        BY <1>1, <1>10, <1>14, <3>2 DEF Sees
      <4>2. f = fs[Depth]
        BY <4>1 DEF DegradedLink
      <4>3. frames' = [fs EXCEPT ![Depth] = fs[Depth]]
        BY <1>1, <1>14, <3>2, <4>2
      <4> QED BY <1>5, <4>3 DEF FramesInv, Listed
    <3> QED BY <3>1, <3>2
  <2>2. Flat(frames)' = F
    BY <1>5, <2>1, WalkedTo
  <2>3. [F EXCEPT ![Depth] = d] = F
    BY FlatIs DEF d, F, Sees, IInv, Listed
  <2>4. IF self THEN Say("self") ELSE IF kept THEN Say("traced") ELSE stuck /\ Say("exists")
    BY <1>1, <1>12, <1>14
  <2> HIDE DEF copy, f
  <2>5. Walked!Upvar(t, n)
    BY <1>1, <1>3, <1>4, <1>6, <1>7, <1>13, <2>2, <2>3, <2>4, NothingWalks, ZenonT(60)
       DEF Walked!Upvar, Walked!Say, Say, Walked!Answer, Answer, from, F, d, Flat, ByNames
  <2> QED BY <1>4, <2>5 DEF Simulated, Walked!Next, Walked!Upvars, Walked!UpvarTargets, UpvarTargets,
         Walked!Local, Local, Walked!Global, Global, F, Flat, ByNames
<1>15. CASE ~(self \/ kept \/ blocked)
  <2> HIDE DEF copy, named
  <2>1. frames' = With(fs, Depth, Relinked(fs[Depth], n, link, copy))
    BY <1>1, <1>15 DEF With, Relinked
  <2>2. Flat(frames)' = With(F, Depth, Linking(d, n, link, copy))
    <3>1. Flat(fs)[Depth] = d
      BY <1>5 DEF d, F
    <3>2. FramesInv(fs) /\ ~BlockedLinks /\ Depth \in 1 .. Len(fs) /\ link \in LinkType
          /\ copy \in Held3
      <4>1. FramesInv(fs) /\ ~BlockedLinks
        BY <1>5 DEF Sees
      <4>2. Depth \in 1 .. Len(fs)
        BY <1>8
      <4>3. link \in LinkType /\ copy \in Held3
        BY <1>2, <1>11
      <4> QED BY <4>1, <4>2, <4>3
    <3>3. Flat(frames)' = With(Flat(fs), Depth, Linking(Flat(fs)[Depth], n, link, copy))
      BY <2>1, <3>2, RelinkWalks
    <3>4. Flat(fs) = F
      BY <1>5
    <3> QED BY <3>1, <3>3, <3>4
  <2>3. Flat(frames)' = [F EXCEPT ![Depth] = [d EXCEPT !.links[n] = link, !.locals[n].val = named]]
    BY <1>11, <2>2 DEF With, Linking
  <2> DEFINE wlink == Walked!Ultimate(F, from)
             wfs == IF wlink.dead \/ wlink.to.frame = 0 THEN F
                    ELSE [F EXCEPT ![wlink.to.frame] = Walked!DegradedFor(@, wlink.to.name)]
             wf  == Walked!DegradedLink(wfs[Walked!Depth], n, wlink)
             wcopy == IF wlink.dead THEN Walked!Unset
                      ELSE IF wlink.to.frame = 0 THEN globals[wlink.to.name].val
                      ELSE wfs[wlink.to.frame].locals[wlink.to.name].val
             walks == Flat(frames)' = [wfs EXCEPT ![Walked!Depth] =
                                         [wf EXCEPT !.links[n] = wlink, !.locals[n].val = wcopy]]
  <2>6. wlink = link
    BY <1>3
  <2> HIDE DEF wlink
  <2>7. wfs = F
    BY <1>6, <2>6
  <2> HIDE DEF wfs
  <2>8. wf = d
    BY <1>4, <1>7, <2>6, <2>7 DEF d, F
  <2>9. wcopy = named
    BY <2>6, <2>7, NothingWalks DEF named
  <2> HIDE DEF wf, wcopy
  <2>10. walks
    BY <1>4, <2>3, <2>6, <2>7, <2>8, <2>9
  <2>4. ~self /\ ~kept /\ Say("ok")
        /\ ~(wf.links[n] = None /\ (wf.locals[n].val # Unset \/ wf.locals[n].arr))
    BY <1>1, <1>12, <1>15, <2>8
  <2> HIDE DEF f
  <2>5. Walked!Upvar(t, n)
    BY <1>1, <1>4, <2>4, <2>6, <2>10, NothingWalks
       DEF wlink, wfs, wf, wcopy, Walked!Upvar, Walked!Say, Say, Walked!Answer, Answer, from, F, d,
           Flat, ByNames
  <2> QED BY <1>4, <2>5 DEF Simulated, Walked!Next, Walked!Upvars, Walked!UpvarTargets, UpvarTargets,
         Walked!Local, Local, Walked!Global, Global, F, Flat, ByNames
<1> QED BY <1>14, <1>15

-----------------------------------------------------------------------------
(* The global table *)

LEMMA KeyStepWalks ==
  ASSUME NEW k \in Keys,
         TraceKey(k) \/ WriteKeyElement(k) \/ \E v \in Vals : WriteKey(k, v)
  PROVE  Walked!Next
<1>1. Flat(frames)' = Flat(frames)
  BY WalkedStill DEF TraceKey, WriteKeyElement, WriteKey
<1>2. CASE TraceKey(k)
  <2>1. Walked!TraceKey(k)
    BY <1>1, <1>2, NothingWalks DEF TraceKey, Walked!TraceKey, Walked!Say, Say, Walked!Answer, Answer,
       Walked!Global, Global, Flat, ByNames
  <2> QED BY <2>1 DEF Walked!Next, Walked!Traces
<1>3. CASE WriteKeyElement(k)
  <2>1. Walked!WriteKeyElement(k)
    BY <1>1, <1>3, NothingWalks DEF WriteKeyElement, Walked!WriteKeyElement, Walked!Say, Say,
       Walked!Answer, Answer, Walked!Global, Global, Walked!Reachable, Reachable, Flat, ByNames
  <2> QED BY <2>1 DEF Walked!Next, Walked!Elements
<1>4. ASSUME NEW v \in Vals, WriteKey(k, v)
      PROVE  Walked!Next
  <2>1. Walked!WriteKey(k, v)
    BY <1>1, <1>4, NothingWalks DEF WriteKey, Walked!WriteKey, Walked!Say, Say,
       Walked!Answer, Answer, Walked!Global, Global, Walked!Reachable, Reachable, Flat, ByNames
  <2>2. v \in Walked!Vals
    BY DEF Walked!Vals, Vals
  <2> QED BY <2>1, <2>2 DEF Walked!Next, Walked!Keyed
<1> QED BY <1>2, <1>3, <1>4

LEMMA UnsetKeyWalks ==
  ASSUME IInv, NEW k \in Keys, UnsetKey(k)
  PROVE  Walked!Next
<1>1. frames' = frames => Flat(frames)' = Flat(frames)
  BY WalkedStill
<1>2. frames' = WithoutSeeds(frames, k) => Flat(frames)' = Walked!WithoutSeeds(Flat(frames), k)
  BY SeedsGo
<1>3. Walked!UnsetKey(k)
  <2>1. op' = <<"unset key", k>> /\ traced' = traced \ {Global(k)} /\ UNCHANGED live
    BY DEF UnsetKey
  <2>2. CASE globals[k].val = Unset /\ ~globals[k].arr
    <3>1. UNCHANGED <<frames, globals>> /\ Say("missing")
      BY <2>2 DEF UnsetKey
    <3> QED BY <1>1, <2>1, <2>2, <3>1, NothingWalks DEF Walked!UnsetKey, Walked!Say, Say,
       Walked!Answer, Answer, Walked!Global, Global, Flat, ByNames
  <2>3. CASE globals[k].arr
    <3>1. /\ UNCHANGED frames /\ globals' = [globals EXCEPT ![k] = NoVar]
          /\ Answer("ok", Unset, Global(k) \in traced)
      BY <2>3 DEF UnsetKey
    <3> QED BY <1>1, <2>1, <2>3, <3>1, NothingWalks DEF Walked!UnsetKey,
       Walked!Answer, Answer, Walked!Global, Global, Flat, ByNames
  <2>4. CASE globals[k].val # Unset /\ ~globals[k].arr
    <3>1. /\ frames' = WithoutSeeds(frames, k) /\ globals' = [globals EXCEPT ![k] = NoVar]
          /\ Answer("ok", Unset, Global(k) \in traced)
      BY <2>4 DEF UnsetKey
    <3> QED BY <1>2, <2>1, <2>4, <3>1, NothingWalks DEF Walked!UnsetKey,
       Walked!Answer, Answer, Walked!Global, Global, Flat, ByNames
  <2> QED BY <2>2, <2>3, <2>4
<1> QED BY <1>3 DEF Walked!Next, Walked!Keyed

DeadLocals(f) ==
  [n \in Names |-> IF Dying(f.links[n])
                   THEN [f.locals[n] EXCEPT !.val = First(@, globals[f.links[n].to.name].val)]
                   ELSE f.locals[n]]
DeadLinks(f) ==
  [n \in Names |-> IF Dying(f.links[n]) THEN [f.links[n] EXCEPT !.dead = TRUE] ELSE f.links[n]]

(* Links into a deleted namespace die the same way.                        *)
LEMMA DeadenedByNames ==
  ASSUME IInv, NEW i \in 1 .. Len(frames)
  PROVE  Degraded(Deadened(frames[i])) = Walked!Deadened(Degraded(frames[i]))
<1> DEFINE f == frames[i]
           g == Deadened(f)
           d == Degraded(f)
<1>1. FrameOK(f) /\ Homes(f) /\ Linked(i, f) /\ i \in Nat /\ globals \in [Keys -> Var]
  BY FramesAre DEF IInv
<1> HIDE DEF f
<1>2. FrameOK(g)
  BY <1>1, DeadenedIs
<1>3. /\ DOMAIN g = DOMAIN f /\ g.locals = DeadLocals(f) /\ g.links = DeadLinks(f) /\ g.slots = f.slots
  BY <1>1, FrameFields DEF Deadened, DeadLocals, DeadLinks
<1> HIDE DEF g
<1>4. /\ Plain(d, NamesOf(f), f.links)
      /\ Plain(Degraded(g), NamesOf(g), DeadLinks(f))
  BY <1>1, <1>2, <1>3, DegradedIs
<1>5. d.links = f.links /\ d.locals = NamesOf(f)
  BY <1>4 DEF Plain
<1> HIDE DEF d
<1>6. NamesOf(g) = DeadLocals(d)
  <2>1. \A m \in DOMAIN f.slots : Dying(f.links[m]) => f.slots[m] = Unset
    BY <1>1 DEF Homes, HomeOf, Dying
  <2>2. ASSUME NEW m \in Names
        PROVE  NamesOf(g)[m] = DeadLocals(d)[m]
    <3>1. CASE Dying(f.links[m])
      <4>1. ~(m \in DOMAIN f.slots /\ f.slots[m] # Unset)
        BY <2>1, <3>1
      <4>2. NamesOf(g)[m] = DeadLocals(f)[m] /\ NamesOf(f)[m] = f.locals[m]
        BY <1>3, <4>1 DEF NamesOf
      <4> QED BY <1>5, <3>1, <4>2 DEF DeadLocals
    <3>2. CASE ~Dying(f.links[m])
      <4>1. DeadLocals(f)[m] = f.locals[m] /\ DeadLocals(d)[m] = NamesOf(f)[m]
        BY <1>5, <3>2 DEF DeadLocals
      <4> QED BY <1>3, <4>1 DEF NamesOf
    <3> QED BY <3>1, <3>2
  <2>3. /\ NamesOf(g) = [m \in Names |-> NamesOf(g)[m]]
        /\ DeadLocals(d) = [m \in Names |-> DeadLocals(d)[m]]
    BY DEF NamesOf, DeadLocals
  <2> QED BY <2>2, <2>3
<1>7. DeadLinks(d) = DeadLinks(f)
  BY <1>5 DEF DeadLinks
<1>8. Plain(Deadened(d), DeadLocals(d), DeadLinks(d))
  <2>1. Deadened(d) = [d EXCEPT !.locals = DeadLocals(d), !.links = DeadLinks(d)]
    BY DEF Deadened, DeadLocals, DeadLinks
  <2> QED BY <1>4, <2>1 DEF Plain
<1>9. Degraded(g) = Deadened(d)
  BY <1>4, <1>6, <1>7, <1>8, SamePlain
<1>10. Walked!Deadened(d) = Deadened(d)
  BY DEF Walked!Deadened, Deadened, Walked!Dying, Dying, Walked!First, First, Walked!Unset, Unset
<1> QED BY <1>9, <1>10 DEF d, g, f

LEMMA NsDeleteWalks ==
  ASSUME IInv, NsDelete
  PROVE  Walked!Next
<1> DEFINE gs == [i \in DOMAIN frames |-> Deadened(frames[i])]
<1>1. /\ DOMAIN frames = 1 .. Len(frames) /\ DOMAIN Flat(frames) = 1 .. Len(frames)
      /\ \A i \in 1 .. Len(frames) : Flat(frames)[i] = Degraded(frames[i])
  BY FramesAre, FlatIs DEF IInv
<1>2. Flat(gs) = [i \in DOMAIN Flat(frames) |-> Walked!Deadened(Flat(frames)[i])]
  BY <1>1, DeadenedByNames DEF Flat
<1>3. frames' = gs
  BY DEF NsDelete
<1> HIDE DEF gs
<1>4. Flat(frames)' = [i \in DOMAIN Flat(frames) |-> Walked!Deadened(Flat(frames)[i])]
  BY <1>2, <1>3, WalkedTo
<1>5. Walked!NsDelete
  BY <1>4, NothingWalks DEF NsDelete, Walked!NsDelete, Walked!Say, Say, Walked!Answer, Answer,
     Flat, ByNames
<1> QED BY <1>5 DEF Walked!Next, Walked!Namespaces

LEMMA NsCreateWalks ==
  ASSUME NsCreate
  PROVE  Walked!Next
<1>1. Flat(frames)' = Flat(frames)
  BY WalkedStill DEF NsCreate
<1>2. Walked!NsCreate
  BY <1>1, NothingWalks DEF NsCreate, Walked!NsCreate, Walked!Say, Say, Walked!Answer, Answer,
     Flat, ByNames
<1> QED BY <1>2 DEF Walked!Next, Walked!Namespaces

-----------------------------------------------------------------------------
(* Calls and returns *)

LEMMA FlatAppend ==
  ASSUME NEW fs, FramesInv(fs), NEW f
  PROVE  Flat(Append(fs, f)) = Append(Flat(fs), Degraded(f))
<1> DEFINE N == Len(fs)
<1>1. Listed(fs) /\ Listed(Flat(fs)) /\ Len(Flat(fs)) = N /\ N \in Nat
      /\ \A i \in 1 .. N : Flat(fs)[i] = Degraded(fs[i])
  BY FlatIs, FramesAre DEF FramesInv
<1>2. DOMAIN Append(fs, f) = 1 .. N + 1
  BY <1>1, AppendListed
<1> HIDE DEF N
<1>3. Flat(Append(fs, f)) = [i \in 1 .. N + 1 |-> Degraded(Append(fs, f)[i])]
  BY <1>2 DEF Flat
<1>4. \A i \in 1 .. N + 1 : i \in 1 .. N \/ i = N + 1
  BY <1>1
<1>5. \A i \in 1 .. N + 1 : Degraded(Append(fs, f)[i]) = Append(Flat(fs), Degraded(f))[i]
  BY <1>1, <1>4, AppendListed DEF N
<1>6. Append(Flat(fs), Degraded(f)) = [i \in 1 .. N + 1 |-> Append(Flat(fs), Degraded(f))[i]]
  BY <1>1, AppendListed
<1> QED BY <1>3, <1>5, <1>6

LEMMA FlatFront ==
  ASSUME NEW fs, FramesInv(fs), fs # <<>>
  PROVE  Flat(Front(fs)) = Front(Flat(fs))
<1> DEFINE N == Len(fs)
<1>1. Listed(fs) /\ Listed(Flat(fs)) /\ Len(Flat(fs)) = N /\ N \in Nat
      /\ \A i \in 1 .. N : Flat(fs)[i] = Degraded(fs[i])
  BY FlatIs, FramesAre DEF FramesInv
<1>2. DOMAIN Front(fs) = 1 .. N - 1 /\ \A i \in 1 .. N - 1 : Front(fs)[i] = fs[i]
  BY <1>1, FrontListed
<1>3. Flat(fs) # <<>>
  BY <1>1, FramesAre
<1> HIDE DEF N
<1>4. Flat(Front(fs)) = [i \in 1 .. N - 1 |-> Degraded(Front(fs)[i])]
  BY <1>2 DEF Flat
<1>5. Front(Flat(fs)) = [i \in 1 .. N - 1 |-> Front(Flat(fs))[i]]
      /\ \A i \in 1 .. N - 1 : Front(Flat(fs))[i] = Flat(fs)[i]
  BY <1>1, <1>3, FrontListed
<1>6. \A i \in 1 .. N - 1 : Degraded(Front(fs)[i]) = Front(Flat(fs))[i]
  BY <1>1, <1>2, <1>5
<1> QED BY <1>4, <1>5, <1>6

LEMMA ReturnWalks ==
  ASSUME IInv, Return
  PROVE  Walked!Next
<1>1. /\ frames # <<>> /\ frames' = Front(frames) /\ FramesInv(frames)
  BY DEF Return, IInv
<1>2. Flat(frames)' = Front(Flat(frames))
  BY <1>1, FlatFront, WalkedTo
<1>3. Flat(frames) # <<>> /\ Walked!Depth = Depth
  <2>1. Len(Flat(frames)) = Len(frames) /\ Flat(frames) # <<>>
    BY <1>1, FlatIs, FramesAre
  <2> QED BY <2>1 DEF Walked!Depth, Depth, Flat, ByNames
<1>4. /\ op' = <<"return">> /\ traced' = {l \in traced : l.frame # Depth}
      /\ Walked!Say("ok") /\ UNCHANGED <<globals, live>>
  BY DEF Return, Say, Answer, Walked!Say, Walked!Answer, Walked!Unset, Unset
<1>5. traced' = {l \in traced : l.frame # Walked!Depth}
  BY <1>3, <1>4
<1>6. Walked!Return
  BY <1>2, <1>3, <1>4, <1>5 DEF Walked!Return, Walked!Front, Front, Flat, ByNames
<1> QED BY <1>6 DEF Walked!Next, Walked!Calls

LEMMA CallWalks ==
  ASSUME IInv, NEW b \in Bodies, NEW v \in Vals, Call(b, v)
  PROVE  Walked!Next
<1> DEFINE slotted == SlotLocals /\ b.table # {}
           table   == IF slotted THEN b.table ELSE {}
           f == [locals   |-> [n \in Names |-> IF n \in b.params /\ ~slotted THEN Scalar(v) ELSE NoVar],
                 links    |-> [n \in Names |-> None],
                 slots    |-> [n \in table |-> IF n \in b.params THEN v ELSE Unset],
                 aliased  |-> {},
                 linkKeys |-> [n \in table |-> None]]
           L == [n \in Names |-> IF n \in b.params THEN Scalar(v) ELSE NoVar]
           g == [locals   |-> L,
                 links    |-> [n \in Names |-> None],
                 slots    |-> [n \in {} |-> IF n \in b.params THEN v ELSE Unset],
                 aliased  |-> {},
                 linkKeys |-> [n \in {} |-> None]]
<1>1. Depth < MaxFrames /\ frames' = Append(frames, f) /\ op' = <<"call", b, v>> /\ Say("ok")
      /\ UNCHANGED <<globals, traced, live>>
  BY DEF Call
<1>2. table \subseteq Names /\ (slotted => b.params \subseteq table)
  BY FrameVarsAssumption
<1>3. FrameOK(f)
  <2>1. \A n \in Names : f.locals[n] \in Var
    BY Values
  <2> QED BY <1>2, <2>1 DEF FrameOK
<1>4. NamesOf(f) = L
  <2>1. v # Unset /\ [NoVar EXCEPT !.val = v] = Scalar(v)
    <3> DEFINE x == [NoVar EXCEPT !.val = v]
    <3>1. v \in Held3 /\ v # Unset
      BY Values DEF Held3
    <3>2. Scalar(v) \in Var /\ Scalar(v).val = v /\ Scalar(v).arr = NoVar.arr
          /\ x \in Var /\ x.val = v /\ x.arr = NoVar.arr
      BY <3>1, VarsAre
    <3> HIDE DEF x
    <3>3. x = Scalar(v)
      BY <3>2, VarsAre
    <3> USE DEF x
    <3> QED BY <3>1, <3>3
  <2>2. ASSUME NEW n \in Names
        PROVE  NamesOf(f)[n] = L[n]
    <3>1. CASE n \in table /\ n \in b.params
      <4>1. f.slots[n] = v /\ n \in DOMAIN f.slots /\ f.locals[n] = NoVar
        BY <3>1
      <4>2. NamesOf(f)[n] = [NoVar EXCEPT !.val = v]
        <5> HIDE DEF f
        <5> QED BY <2>1, <4>1 DEF NamesOf
      <4> QED BY <2>1, <3>1, <4>2
    <3>2. CASE n \in table /\ n \notin b.params
      <4>1. f.slots[n] = Unset /\ f.locals[n] = NoVar
        BY <3>2
      <4>2. NamesOf(f)[n] = NoVar
        <5> HIDE DEF f
        <5> QED BY <4>1 DEF NamesOf
      <4> QED BY <3>2, <4>2
    <3>3. CASE n \notin table
      <4>1. n \notin DOMAIN f.slots /\ f.locals[n] = L[n]
        BY <1>2, <3>3
      <4> HIDE DEF f, L
      <4> QED BY <4>1 DEF NamesOf
    <3> QED BY <3>1, <3>2, <3>3
  <2>3. NamesOf(f) = [n \in Names |-> NamesOf(f)[n]]
    BY DEF NamesOf
  <2> QED BY <2>2, <2>3
<1>5. Plain(Degraded(f), L, [n \in Names |-> None])
  <2>1. f.links = [n \in Names |-> None]
    OBVIOUS
  <2> HIDE DEF f
  <2> QED BY <1>3, <1>4, <2>1, DegradedIs
<1>6. Plain(g, L, [n \in Names |-> None])
  <2>1. /\ [n \in {} |-> IF n \in b.params THEN v ELSE Unset] = NoSlots
        /\ [n \in {} |-> None] = NoSlots
    BY DEF NoSlots
  <2> HIDE DEF L
  <2> QED BY <2>1 DEF Plain
<1> HIDE DEF f, L
<1>7. Degraded(f) = g
  BY <1>5, <1>6, SamePlain
<1>8. Flat(frames)' = Append(Flat(frames), g)
  <2>1. Flat(Append(frames, f)) = Append(Flat(frames), Degraded(f))
    BY FlatAppend DEF IInv
  <2> HIDE DEF g
  <2> QED BY <1>1, <1>7, <2>1, WalkedTo
<1>9. Walked!Depth = Depth
  BY FlatIs DEF IInv, Walked!Depth, Depth, Flat, ByNames
<1>10. Walked!Call(b, v) /\ v \in Walked!Vals
  BY <1>1, <1>8, <1>9, NothingWalks DEF Walked!Call, Walked!Say, Say, Walked!Answer, Answer,
     Walked!Scalar, Scalar, Walked!NoVar, NoVar, Walked!Vals, Vals, Flat, ByNames, g, L
<1> QED BY <1>10 DEF Walked!Next, Walked!Calls

-----------------------------------------------------------------------------
(* Every operation                                                         *)

LEMMA Walks ==
  ASSUME IInv, ~BlockedLinks, Next
  PROVE  Simulated
<1>1. CASE frames # <<>> /\ Scalars
  <2>1. PICK n \in Names : ReadVar(n) \/ IncrVar(n) \/ UnsetVar(n) \/ \E v \in Vals : WriteVar(n, v)
    BY <1>1 DEF Scalars
  <2>2. Sees
    BY <1>1 DEF Sees
  <2>3. CASE \E v \in Vals : WriteVar(n, v)
    BY <2>2, <2>3, WalkedSet, WriteWalks DEF WriteVar
  <2> QED BY <2>1, <2>2, <2>3, ReadWalks, IncrWalks, UnsetWalks
<1>2. CASE frames # <<>> /\ Slots
  BY <1>2, LoadWalks, IncrLocalWalks, StoreWalks DEF Slots, Sees
<1>3. CASE frames # <<>> /\ Upvars
  BY <1>3, UpvarWalks DEF Upvars, Sees
<1>4. CASE frames # <<>> /\ GlobalCmds
  BY <1>4, GlobalWalks DEF GlobalCmds, Sees
<1>5. CASE frames # <<>> /\ Variables
  BY <1>5, VariableWalks DEF Variables, Sees
<1>6. CASE Namespaces
  BY <1>6, NsDeleteWalks, NsCreateWalks DEF Namespaces, Simulated
<1>7. CASE Keyed
  BY <1>7, UnsetKeyWalks, KeyStepWalks DEF Keyed, Simulated
<1>8. CASE Elements
  BY <1>8, ElementWalks, KeyStepWalks DEF Elements, Sees, Simulated
<1>9. CASE Traces
  BY <1>9, TraceWalks, KeyStepWalks DEF Traces, Sees, Simulated
<1>10. CASE Calls
  BY <1>10, CallWalks, ReturnWalks DEF Calls, Simulated
<1>11. CASE InfoVars
  BY <1>11, InfoWalks DEF InfoVars, Sees
<1> QED BY <1>1, <1>2, <1>3, <1>4, <1>5, <1>6, <1>7, <1>8, <1>9, <1>10, <1>11 DEF Next

LEMMA WalkedFirst ==
  ASSUME Init
  PROVE  Walked!Init
<1>1. Flat(frames) = <<>>
  BY DEF Init, Flat
<1> QED BY <1>1, NothingWalks DEF Init, Walked!Init, Flat, ByNames

(* Slots keep their promise.  A program with slots answers every           *)
(* operation as the program whose frames keep their variables by name,     *)
(* and leaves the same variables behind, but for the one exception the     *)
(* code makes: an instruction on a slot linked to a global goes straight   *)
(* to its key (load_local, store_local and incr_local).  As above, no      *)
(* program tries upvar over a variable whose slot holds a value.           *)
THEOREM SlotsKeepTheirPromise == ASSUME ~BlockedLinks PROVE Spec => AnswersAsWalked
<1>1. IInv /\ [Next]_vars => [Simulated]_vars
  BY Walks
<1>2. [][Simulated]_vars <=> [][Walked!Next \/ (frames # <<>> /\ Shortcut)]_vars
  BY PTL DEF Simulated
<1>3. Init => Walked!Init
  BY WalkedFirst
<1> QED BY <1>1, <1>2, <1>3, Inductive, PTL DEF Spec, AnswersAsWalked
=============================================================================
