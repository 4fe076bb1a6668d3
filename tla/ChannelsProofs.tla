---------------------------- MODULE ChannelsProofs ----------------------------
(***************************************************************************)
(* Theorems about Channels, for any names, handlers, programs and bounds:  *)
(* the tables agree between any two steps; and, of programs that are       *)
(* Proper, what is read ahead is the file's and the end of a pipe stays    *)
(* the end.  The programs of MCChannels are Proper.                        *)
(***************************************************************************)
EXTENDS MCChannels, SequenceLemmas, FiniteSetTheorems

(* Names: of channels scripts implement, given out or not, and of handlers *)
(* of transforms.                                                          *)
Rcs == {<<"rc", n>> : n \in Nat}
Rts == {<<"rt", n>> : n \in Nat}
Given(hs) == {<<"rc", n>> : n \in {m \in Nat : m < hs.rc}}
Elder(id, hs) == id \in Rcs => id \in Given(hs)

FrameOK(e, open, refl, fin, hs) ==
  /\ "kind" \in DOMAIN e
  /\ e.kind = "create"     => e.of \in Given(hs) \ (open \cup fin)
  /\ e.kind = "push"       => e.of \in Rts
  /\ e.kind = "draining"   => /\ {"of", "id"} \subseteq DOMAIN e /\ e.of \in Rts
                              /\ e.id \notin refl /\ Elder(e.id, hs)
  /\ e.kind = "finalizing" => e.id \in fin
(* Two creations are of two names, and none is of what is being drained.   *)
Apart(d, e) == d.kind = "create" /\ e.kind = "create" => d.of # e.of
Clear(d, e) == d.kind = "create" /\ e.kind = "draining" => d.of # e.id
StackOK(s, open, refl, fin, hs) ==
  /\ \E S : s \in Seq(S)
  /\ \A i \in 1 .. Len(s) : FrameOK(s[i], open, refl, fin, hs)
  /\ \A i, j \in 1 .. Len(s) : (i # j => Apart(s[i], s[j])) /\ Clear(s[i], s[j])

Listed(s, open) == /\ s \in Seq(open)
                   /\ \A id \in open : \E i \in 1 .. Len(s) : s[i] = id
                   /\ \A i, j \in 1 .. Len(s) : s[i] = s[j] => i = j

HooksOK ==
  /\ handles \in [rc : Nat, rt : Nat]
  /\ DOMAIN reflected \subseteq Given(handles)
  /\ \A id \in Open \cup finalized : Elder(id, handles)
  /\ \A x \in DOMAIN transforms : transforms[x].of \in Rts
TablesOK ==
  /\ DOMAIN reflected \subseteq Open \ finalized
  /\ \A id \in Open : /\ "kind" \in DOMAIN chans[id]
                      /\ chans[id].kind = "reflected" => id \in DOMAIN reflected \cup finalized
ChannelsOK == /\ HooksOK
        /\ Listed(order, Open)
        /\ TablesOK
        /\ StackOK(active, Open, DOMAIN reflected, finalized, handles)

-----------------------------------------------------------------------------
(* The stack *)

Light(e) == "kind" \in DOMAIN e /\ e.kind \notin {"create", "push", "draining", "finalizing"}

LEMMA PlainFrame ==
  ASSUME NEW e, Light(e), NEW open, NEW refl, NEW fin, NEW hs
  PROVE  /\ FrameOK(e, open, refl, fin, hs)
         /\ \A d : Apart(d, e) /\ Apart(e, d) /\ Clear(d, e) /\ Clear(e, d)
BY DEF Light, FrameOK, Apart, Clear

LEMMA MethodPlain == \A of, h, m : Light(Method(of, h, m))
<1> TAKE of, h, m
<1>1. Method(of, h, m).kind = "method" /\ "kind" \in DOMAIN Method(of, h, m)
  BY Zenon DEF Method
<1> QED BY <1>1 DEF Light

LEMMA PushStack ==
  ASSUME NEW s, NEW open, NEW refl, NEW fin, NEW hs, StackOK(s, open, refl, fin, hs),
         NEW e, FrameOK(e, open, refl, fin, hs), Clear(e, e),
         \A i \in 1 .. Len(s) : Apart(s[i], e) /\ Apart(e, s[i]) /\ Clear(s[i], e) /\ Clear(e, s[i])
  PROVE  StackOK(Append(s, e), open, refl, fin, hs)
<1>1. PICK S : s \in Seq(S)
  BY DEF StackOK
<1> DEFINE n == Len(s)
           t == Append(s, e)
<1>2. n \in Nat /\ t \in Seq(S \cup {e}) /\ Len(t) = n + 1 /\ t[n + 1] = e /\ \A i \in 1 .. n : t[i] = s[i]
  <2>1. s \in Seq(S \cup {e})
    BY <1>1
  <2> QED BY <2>1
<1> HIDE DEF t
<1>3. /\ \A i \in 1 .. n : FrameOK(s[i], open, refl, fin, hs)
      /\ \A i, j \in 1 .. n : (i # j => Apart(s[i], s[j])) /\ Clear(s[i], s[j])
      /\ \A i \in 1 .. n : Apart(s[i], e) /\ Apart(e, s[i]) /\ Clear(s[i], e) /\ Clear(e, s[i])
  BY DEF StackOK
<1> HIDE DEF n
<1>4. \A i \in 1 .. Len(t) : FrameOK(t[i], open, refl, fin, hs)
  <2> TAKE i \in 1 .. Len(t)
  <2>1. i \in 1 .. n \/ i = n + 1
    BY <1>2
  <2> QED BY <1>2, <1>3, <2>1
<1>5. \A i, j \in 1 .. Len(t) : (i # j => Apart(t[i], t[j])) /\ Clear(t[i], t[j])
  <2> TAKE i, j \in 1 .. Len(t)
  <2>1. (i \in 1 .. n \/ i = n + 1) /\ (j \in 1 .. n \/ j = n + 1)
    BY <1>2
  <2> QED BY <1>2, <1>3, <2>1
<1> QED BY <1>2, <1>4, <1>5 DEF StackOK, t

LEMMA PopStack ==
  ASSUME NEW s, s # <<>>, NEW open, NEW refl, NEW fin, NEW hs, StackOK(s, open, refl, fin, hs)
  PROVE  /\ StackOK(Front(s), open, refl, fin, hs)
         /\ Len(s) \in 1 .. Len(s) /\ FrameOK(s[Len(s)], open, refl, fin, hs)
         /\ \A i \in 1 .. Len(Front(s)) :
              LET e == s[Len(s)]
                  d == Front(s)[i]
              IN  Apart(d, e) /\ Apart(e, d) /\ Clear(d, e) /\ Clear(e, d)
<1>1. PICK S : s \in Seq(S)
  BY DEF StackOK
<1> DEFINE n == Len(s)
           t == Front(s)
<1>2. n \in Nat /\ n # 0 /\ t \in Seq(S) /\ Len(t) = n - 1 /\ \A i \in 1 .. n - 1 : t[i] = s[i]
  BY <1>1, FrontSeq
<1> HIDE DEF t
<1>3. /\ \A i \in 1 .. n : FrameOK(s[i], open, refl, fin, hs)
      /\ \A i, j \in 1 .. n : (i # j => Apart(s[i], s[j])) /\ Clear(s[i], s[j])
  BY DEF StackOK
<1>4. n \in 1 .. n /\ (\A i \in 1 .. Len(t) : i \in 1 .. n - 1 /\ i \in 1 .. n /\ i # n)
  <2> HIDE DEF n
  <2> QED BY <1>2
<1>5. StackOK(t, open, refl, fin, hs)
  BY <1>2, <1>3, <1>4 DEF StackOK
<1>6. \A i \in 1 .. Len(t) :
         Apart(t[i], s[n]) /\ Apart(s[n], t[i]) /\ Clear(t[i], s[n]) /\ Clear(s[n], t[i])
  <2> TAKE i \in 1 .. Len(t)
  <2>1. t[i] = s[i]
    BY <1>2, <1>4
  <2> QED BY <1>3, <1>4, <2>1
<1> QED BY <1>3, <1>4, <1>5, <1>6 DEF t

(* The innermost frame is replaced by one that is no more than it was.     *)
LEMMA AlterStack ==
  ASSUME NEW s, s # <<>>, NEW open, NEW refl, NEW fin, NEW hs, StackOK(s, open, refl, fin, hs),
         NEW e, Light(e)
  PROVE  StackOK([s EXCEPT ![Len(s)] = e], open, refl, fin, hs)
<1>1. PICK S : s \in Seq(S)
  BY DEF StackOK
<1> DEFINE n == Len(s)
           t == [s EXCEPT ![n] = e]
<1>2. n \in Nat /\ t \in Seq(S \cup {e}) /\ Len(t) = n /\ \A i \in 1 .. n : t[i] = IF i = n THEN e ELSE s[i]
  <2>1. s \in Seq(S \cup {e}) /\ n \in 1 .. n
    BY <1>1
  <2> QED BY <2>1
<1> HIDE DEF t
<1>3. /\ \A i \in 1 .. n : FrameOK(s[i], open, refl, fin, hs)
      /\ \A i, j \in 1 .. n : (i # j => Apart(s[i], s[j])) /\ Clear(s[i], s[j])
  BY DEF StackOK
<1>4. FrameOK(e, open, refl, fin, hs) /\ \A d : Apart(d, e) /\ Apart(e, d) /\ Clear(d, e) /\ Clear(e, d)
  BY PlainFrame
<1> HIDE DEF n
<1>5. \A i \in 1 .. n : FrameOK(t[i], open, refl, fin, hs)
  BY <1>2, <1>3, <1>4
<1>6. \A i, j \in 1 .. n : (i # j => Apart(t[i], t[j])) /\ Clear(t[i], t[j])
  BY <1>2, <1>3, <1>4
<1> QED BY <1>2, <1>5, <1>6 DEF StackOK, t, n

LEMMA BelowStack ==
  ASSUME NEW open, NEW refl, NEW fin, NEW hs, StackOK(active, open, refl, fin, hs),
         ~Idle => Top.kind = "method"
  PROVE  StackOK(Below, open, refl, fin, hs)
<1>1. CASE Idle
  BY <1>1 DEF Below
<1>2. CASE ~Idle
  <2> DEFINE e == [Top EXCEPT !.todo = Tail(@)]
  <2>1. "kind" \in DOMAIN Top
    BY <1>2, PopStack DEF Idle, Top, FrameOK
  <2>2. "kind" \in DOMAIN e /\ e.kind = "method"
    BY <1>2, <2>1
  <2>3. Below = [active EXCEPT ![Len(active)] = e]
    BY <1>2 DEF Below, InTop
  <2> HIDE DEF e
  <2>4. Light(e)
    BY <2>2 DEF Light
  <2> QED BY <1>2, <2>3, <2>4, AlterStack DEF Idle
<1> QED BY <1>1, <1>2

Unlike(s, e) ==
  \A i \in 1 .. Len(s) : Apart(s[i], e) /\ Apart(e, s[i]) /\ Clear(s[i], e) /\ Clear(e, s[i])

LEMMA InvokeStack ==
  ASSUME NEW open, NEW refl, NEW fin, NEW hs, NEW under, StackOK(under, open, refl, fin, hs),
         NEW waits, FrameOK(waits, open, refl, fin, hs), Unlike(under, waits), Clear(waits, waits),
         NEW of, NEW h, NEW m, Invoke(under, waits, of, h, m)
  PROVE  StackOK(active', open, refl, fin, hs)
<1> DEFINE e == Method(of, h, m)
<1>0. Light(e)
  BY MethodPlain
<1>1. active' = under \o <<waits, e>>
  BY DEF Invoke
<1> HIDE DEF e
<1>2. active' = Append(Append(under, waits), e)
  <2>1. PICK S : under \in Seq(S)
    BY DEF StackOK
  <2>2. under \in Seq(S \cup {waits, e})
    BY <2>1
  <2> QED BY <1>1, <2>2
<1>3. StackOK(Append(under, waits), open, refl, fin, hs)
  BY PushStack DEF Unlike
<1> QED BY <1>0, <1>2, <1>3, PushStack, PlainFrame

LEMMA InvokePlain ==
  ASSUME NEW open, NEW refl, NEW fin, NEW hs, NEW under, StackOK(under, open, refl, fin, hs),
         NEW waits, Light(waits), NEW of, NEW h, NEW m, Invoke(under, waits, of, h, m)
  PROVE  StackOK(active', open, refl, fin, hs)
<1>1. FrameOK(waits, open, refl, fin, hs) /\ Unlike(under, waits) /\ Clear(waits, waits)
  BY PlainFrame DEF Unlike
<1> QED BY <1>1, InvokeStack

-----------------------------------------------------------------------------
(* The tables.  Every step but the registration of a new channel of a      *)
(* script is steady: no such channel appears, and one goes from the table  *)
(* of handlers only into the set of those that were finalized.             *)

HandlesSteady == handles' \in [rc : Nat, rt : Nat] /\ handles.rc <= handles'.rc
HandlersSteady ==
  /\ DOMAIN reflected' \subseteq DOMAIN reflected
  /\ DOMAIN reflected \subseteq DOMAIN reflected' \cup finalized'
  /\ finalized \subseteq finalized' /\ finalized' \subseteq finalized \cup Rts \cup DOMAIN reflected
  /\ DOMAIN reflected' \cap finalized' = {}
TransformsSteady == \A x \in DOMAIN transforms' : transforms'[x].of \in Rts
ChansSteady ==
  /\ \A id \in Open' : /\ id \notin Open => id \notin Rcs
                       /\ "kind" \in DOMAIN chans'[id]
                       /\ chans'[id].kind = "reflected" => id \in Open /\ chans[id].kind = "reflected"
  /\ Listed(order', Open')
Steady == HandlesSteady /\ HandlersSteady /\ TransformsSteady /\ ChansSteady /\ DOMAIN reflected' \subseteq Open'

Here(s) == StackOK(s, Open, DOMAIN reflected, finalized, handles)
Then(s) == StackOK(s, Open', DOMAIN reflected', finalized', handles')

LEMMA KindsOfNames ==
  /\ Rts \cap Rcs = {}
  /\ \A n : File(n) \notin Rcs /\ File(n) \notin Rts
  /\ \A hs : Given(hs) \subseteq Rcs
BY DEF Rts, Rcs, File, Given

LEMMA SteadyTables ==
  ASSUME ChannelsOK, Steady
  PROVE  HooksOK' /\ TablesOK' /\ Listed(order', Open')
<1>1. Given(handles) \subseteq Given(handles')
  BY DEF ChannelsOK, HooksOK, Steady, HandlesSteady, Given
<1>2. HooksOK'
  BY <1>1, KindsOfNames DEF ChannelsOK, HooksOK, Steady, HandlesSteady, HandlersSteady, TransformsSteady, ChansSteady, Elder
<1>3. TablesOK'
  BY DEF ChannelsOK, TablesOK, Steady, HandlersSteady, ChansSteady
<1> QED BY <1>2, <1>3 DEF Steady, ChansSteady

LEMMA SteadyStack ==
  ASSUME ChannelsOK, Steady, NEW s, Here(s)
  PROVE  Then(s)
<1>1. Given(handles) \subseteq Given(handles')
  BY DEF ChannelsOK, HooksOK, Steady, HandlesSteady, Given
<1>2. ASSUME NEW e, FrameOK(e, Open, DOMAIN reflected, finalized, handles)
      PROVE  FrameOK(e, Open', DOMAIN reflected', finalized', handles')
  <2>1. e.kind = "create" => e.of \in Given(handles') \ (Open' \cup finalized')
    BY <1>1, <1>2, KindsOfNames DEF FrameOK, Steady, HandlersSteady, ChansSteady, ChannelsOK, HooksOK, TablesOK
  <2>2. e.kind = "draining" => e.id \notin DOMAIN reflected' /\ Elder(e.id, handles')
    BY <1>1, <1>2 DEF FrameOK, Steady, HandlersSteady, Elder
  <2> QED BY <1>2, <2>1, <2>2 DEF FrameOK, Steady, HandlersSteady
<1> QED BY <1>2 DEF Here, Then, StackOK

(* What the operations do to the table of channels.                        *)
SameKinds ==
  /\ Open' = Open
  /\ \A id \in Open : "kind" \in DOMAIN chans'[id] /\ chans'[id].kind = chans[id].kind

LEMMA SameSteady ==
  ASSUME ChannelsOK, order' = order, SameKinds
  PROVE  ChansSteady
BY DEF ChannelsOK, SameKinds, ChansSteady, Listed

LEMMA KeptSteady ==
  ASSUME ChannelsOK, UNCHANGED <<chans, order>>
  PROVE  ChansSteady
<1>1. SameKinds
  BY DEF ChannelsOK, TablesOK, SameKinds, Open
<1> QED BY <1>1, SameSteady

LEMMA TrackedListed ==
  ASSUME NEW s, NEW open, Listed(s, open), NEW id
  PROVE  Listed(Tracked(s, id), open \cup {id})
<1>1. s \in Seq(open \cup {id}) /\ Len(s) \in Nat /\ (id \in Range(s) <=> \E i \in 1 .. Len(s) : s[i] = id)
  BY DEF Listed, Range
<1>2. CASE id \in Range(s)
  BY <1>1, <1>2 DEF Tracked, Listed
<1>3. CASE id \notin Range(s)
  <2> DEFINE t == Append(s, id)
             n == Len(s)
  <2>1. /\ t \in Seq(open \cup {id}) /\ Len(t) = n + 1 /\ t[n + 1] = id /\ n \in Nat
        /\ \A i \in 1 .. n : t[i] = s[i]
    BY <1>1
  <2>2. Tracked(s, id) = t
    BY <1>3 DEF Tracked
  <2>3. \A i \in 1 .. n : s[i] # id
    BY <1>1, <1>3
  <2> HIDE DEF t
  <2>4. \A x \in open \cup {id} : \E i \in 1 .. Len(t) : t[i] = x
    <3>1. ASSUME NEW x \in open PROVE \E i \in 1 .. Len(t) : t[i] = x
      <4>1. PICK i \in 1 .. n : s[i] = x
        BY DEF Listed
      <4>2. t[i] = x /\ i \in 1 .. Len(t)
        BY <2>1, <4>1
      <4> QED BY <4>2
    <3>2. n + 1 \in 1 .. Len(t)
      BY <2>1
    <3> QED BY <2>1, <3>1, <3>2
  <2>5. \A i, j \in 1 .. Len(t) : t[i] = t[j] => i = j
    <3> TAKE i, j \in 1 .. Len(t)
    <3>1. (i \in 1 .. n \/ i = n + 1) /\ (j \in 1 .. n \/ j = n + 1)
      BY <2>1
    <3> QED BY <2>1, <2>3, <3>1 DEF Listed
  <2>6. Listed(t, open \cup {id})
    BY <2>1, <2>4, <2>5 DEF Listed
  <2> QED BY <2>2, <2>6
<1> QED BY <1>2, <1>3

LEMMA OpenedSteady ==
  ASSUME ChannelsOK, NEW id, id \notin Rcs, NEW ch, "kind" \in DOMAIN ch, ch.kind # "reflected", Register(id, ch)
  PROVE  ChansSteady /\ Open \subseteq Open'
<1>1. Open' = Open \cup {id} /\ \A x \in Open' : chans'[x] = IF x = id THEN ch ELSE chans[x]
  BY DEF Register, With, Open
<1>2. Listed(order', Open')
  BY <1>1, TrackedListed DEF Register, ChannelsOK
<1> QED BY <1>1, <1>2 DEF ChansSteady, ChannelsOK, TablesOK

LEMMA DroppedListed ==
  ASSUME NEW s, NEW open, Listed(s, open), NEW id
  PROVE  Listed(Dropped(s, {id}), open \ {id})
<1> DEFINE t == Dropped(s, {id})
           n == Len(s)
<1>1. t \in Seq(open) /\ Left(t, s, {id}, n) /\ n \in Nat /\ s \in Seq(open)
  <2>1. t = Filtered(s, {id})
    BY DEF Dropped, Filtered
  <2> QED BY <2>1, FilteredSeq DEF Listed
<1> HIDE DEF t
<1>2. PICK p : Placed(t, s, {id}, n, p)
  BY <1>1 DEF Left
<1>3. \A i \in 1 .. Len(t) : t[i] \in open \ {id}
  BY <1>1, <1>2 DEF Placed
<1>4. t \in Seq(open \ {id})
  BY <1>1, <1>3
<1>5. \A x \in open \ {id} : \E i \in 1 .. Len(t) : t[i] = x
  <2> TAKE x \in open \ {id}
  <2>1. PICK j \in 1 .. n : s[j] = x
    BY DEF Listed
  <2>2. PICK i \in 1 .. Len(t) : p[i] = j
    BY <1>2, <2>1 DEF Placed
  <2> QED BY <1>2, <2>1, <2>2 DEF Placed
<1>6. \A i, j \in 1 .. Len(t) : t[i] = t[j] => i = j
  <2> TAKE i, j \in 1 .. Len(t)
  <2> HAVE t[i] = t[j]
  <2> DEFINE m == Len(t)
  <2>1. m \in Nat
    BY <1>1
  <2>2. p[i] \in 1 .. n /\ p[j] \in 1 .. n /\ s[p[i]] = s[p[j]]
    BY <1>2 DEF Placed
  <2>3. p[i] = p[j]
    BY <2>2 DEF Listed
  <2>4. \A a, b \in 1 .. m : a < b => p[a] < p[b]
    BY <1>2 DEF Placed
  <2> HIDE DEF m
  <2>5. ~(i < j) /\ ~(j < i)
    BY <2>2, <2>3, <2>4 DEF m
  <2> QED BY <2>1, <2>5 DEF m
<1> QED BY <1>4, <1>5, <1>6 DEF Listed, t

LEMMA ShutSteady ==
  ASSUME ChannelsOK, NEW id, Shut(id)
  PROVE  ChansSteady /\ Open' = Open \ {id}
<1>1. Open' = Open \ {id} /\ \A x \in Open' : chans'[x] = chans[x]
  BY DEF Shut, Without, Open
<1>2. Listed(order', Open')
  BY <1>1, DroppedListed DEF Shut, ChannelsOK
<1> QED BY <1>1, <1>2 DEF ChansSteady, ChannelsOK, TablesOK

(* What they do to the handlers.                                           *)
LEMMA KeptHooks ==
  ASSUME ChannelsOK
  PROVE  /\ UNCHANGED handles => HandlesSteady
         /\ UNCHANGED <<reflected, finalized>> => HandlersSteady
         /\ UNCHANGED transforms => TransformsSteady
BY DEF ChannelsOK, HooksOK, TablesOK, HandlesSteady, HandlersSteady, TransformsSteady

LEMMA KeptSteadily ==
  ASSUME ChannelsOK, UNCHANGED <<handles, reflected, transforms, finalized>>, ChansSteady, Open \subseteq Open'
  PROVE  Steady
BY KeptHooks DEF ChannelsOK, TablesOK, Steady

LEMMA DroppedTransform ==
  ASSUME ChannelsOK, NEW id, transforms' = Without(transforms, id)
  PROVE  TransformsSteady
BY DEF ChannelsOK, HooksOK, Without, TransformsSteady

(* A step that is steady leaves all but the stack as it should be; what it *)
(* does to the stack can be shown of the state before or after it.         *)
LEMMA SteadyInv ==
  ASSUME ChannelsOK, Steady, Then(active') \/ Here(active')
  PROVE  ChannelsOK'
<1>1. Then(active')
  BY SteadyStack
<1> QED BY <1>1, SteadyTables DEF ChannelsOK, Then

LEMMA Stacks ==
  ASSUME ChannelsOK
  PROVE  /\ (~Idle => Top.kind = "method") => Here(Below)
         /\ ~Idle => Here(Front(active))
BY BelowStack, PopStack DEF ChannelsOK, Here, Idle

Within == ~Idle => Top.kind = "method"
Kept == UNCHANGED <<handles, reflected, transforms, finalized>>

(* The simplest steps: a command answers, or one that waited goes.         *)
LEMMA KeptStep ==
  ASSUME ChannelsOK, Kept, ChansSteady, Open \subseteq Open',
         \/ active' = Below /\ Within
         \/ active' = Front(active) /\ ~Idle
         \/ Here(active')
  PROVE  ChannelsOK'
<1>1. Here(active')
  BY Stacks DEF Within
<1> QED BY <1>1, KeptSteadily, SteadyInv DEF Kept

LEMMA InvokeKept ==
  ASSUME ChannelsOK, UNCHANGED <<handles, reflected, transforms>>, UNCHANGED <<chans, order>>,
         NEW under, Here(under),
         NEW waits, Light(waits), NEW of, NEW h, NEW m, Invoke(under, waits, of, h, m), UNCHANGED finalized
  PROVE  ChannelsOK'
<1>1. Here(active')
  BY InvokePlain DEF Here
<1> QED BY <1>1, KeptStep, KeptSteady DEF Kept, Open

(* What reading and writing do to a channel leaves its kind.               *)
LEMMA OneField ==
  ASSUME NEW f, "kind" \in DOMAIN f, NEW v
  PROVE  /\ "kind" \in DOMAIN [f EXCEPT !.pos = v] /\ [f EXCEPT !.pos = v].kind = f.kind
         /\ "kind" \in DOMAIN [f EXCEPT !.eof = v] /\ [f EXCEPT !.eof = v].kind = f.kind
         /\ "kind" \in DOMAIN [f EXCEPT !.buf = v] /\ [f EXCEPT !.buf = v].kind = f.kind
OBVIOUS

SameKind(d, e) == "kind" \in DOMAIN e /\ e.kind = d.kind

LEMMA ReadKinds ==
  ASSUME NEW ch, "kind" \in DOMAIN ch, NEW n
  PROVE  SameKind(ch, After(ch, n)) /\ SameKind(ch, AfterAll(ch)) /\ SameKind(ch, Settled(ch, n))
<1>1. ASSUME NEW f, "kind" \in DOMAIN f, NEW a, NEW b, NEW c
      PROVE  /\ SameKind(f, [f EXCEPT !.buf = a, !.eof = b])
             /\ SameKind(f, [f EXCEPT !.buf = a, !.pos = b])
             /\ SameKind(f, [f EXCEPT !.pos = a, !.buf = b])
             /\ SameKind(f, [f EXCEPT !.buf = a, !.pos = b, !.eof = c])
  BY <1>1 DEF SameKind
<1>2. ASSUME NEW m PROVE SameKind(ch, Fetched(ch, m))
  <2> DEFINE got == FirstOf(Past(file, ch.pos), m)
             b == ch.pos + Len(got)
  <2>1. Fetched(ch, m) = IF ch.buf # <<>> THEN ch ELSE [ch EXCEPT !.buf = got, !.pos = b]
    BY DEF Fetched
  <2> HIDE DEF got, b
  <2> QED BY <1>1, <2>1 DEF SameKind
<1>3. SameKind(ch, After(ch, n))
  <2> DEFINE f == Fetched(ch, Most(n, Cap))
             a == Past(f.buf, Len(Got(ch, n)))
             b == f.eof \/ Got(ch, n) = <<>>
             c == ch.pos + Len(Got(ch, n))
  <2>1. After(ch, n) = CASE ch.kind = "file"  -> [f EXCEPT !.buf = a, !.eof = b]
                       [] ch.kind = "pipeR" -> [ch EXCEPT !.pos = c]
                       [] ch.kind = "child" -> [ch EXCEPT !.eof = TRUE]
                       [] OTHER             -> ch
    BY DEF After
  <2>2. SameKind(ch, f)
    BY <1>2
  <2> HIDE DEF f, a, b, c
  <2>3. SameKind(f, [f EXCEPT !.buf = a, !.eof = b])
    BY <1>1, <2>2 DEF SameKind
  <2>4. SameKind(ch, [ch EXCEPT !.pos = c]) /\ SameKind(ch, [ch EXCEPT !.eof = TRUE])
    BY OneField DEF SameKind
  <2> QED BY <2>1, <2>2, <2>3, <2>4 DEF SameKind
<1>4. SameKind(ch, AfterAll(ch))
  <2> DEFINE a == Most(ch.pos, Len(file))
             c == Len(pipes[ch.at].data)
  <2>1. AfterAll(ch) = CASE ch.kind = "file"  -> [ch EXCEPT !.buf = <<>>, !.pos = a, !.eof = TRUE]
                       [] ch.kind = "pipeR" -> [ch EXCEPT !.pos = c]
                       [] ch.kind = "child" -> [ch EXCEPT !.eof = TRUE]
                       [] OTHER             -> ch
    BY DEF AfterAll
  <2> HIDE DEF a, c
  <2>2. SameKind(ch, [ch EXCEPT !.buf = <<>>, !.pos = a, !.eof = TRUE])
    BY <1>1
  <2>3. SameKind(ch, [ch EXCEPT !.pos = c]) /\ SameKind(ch, [ch EXCEPT !.eof = TRUE])
    BY OneField DEF SameKind
  <2> QED BY <2>1, <2>2, <2>3 DEF SameKind
<1>5. SameKind(ch, Settled(ch, n))
  BY <1>1 DEF Settled
<1> QED BY <1>3, <1>4, <1>5

LEMMA TouchedKinds ==
  ASSUME ChannelsOK, NEW id, NEW e, id \in Open => SameKind(chans[id], e), chans' = [chans EXCEPT ![id] = e]
  PROVE  SameKinds
BY DEF ChannelsOK, TablesOK, SameKinds, SameKind, Open

LEMMA WriteKinds ==
  ASSUME ChannelsOK, NEW ch, NEW id, NEW d, Write(ch, id, d)
  PROVE  SameKinds
<1>1. CASE UNCHANGED chans
  BY <1>1 DEF ChannelsOK, TablesOK, SameKinds, Open
<1>2. CASE \E v : chans' = [chans EXCEPT ![id].pos = v]
  <2> PICK v : chans' = [chans EXCEPT ![id].pos = v]
    BY <1>2
  <2> DEFINE e == [chans[id] EXCEPT !.pos = v]
  <2>1. id \in Open => SameKind(chans[id], e)
    BY OneField DEF ChannelsOK, TablesOK, SameKind
  <2>2. chans' = [chans EXCEPT ![id] = e]
    OBVIOUS
  <2> HIDE DEF e
  <2> QED BY <2>1, <2>2, TouchedKinds
<1> QED BY <1>1, <1>2 DEF Write

LEMMA TakeKinds ==
  ASSUME ChannelsOK, NEW c, Take(c)
  PROVE  SameKinds
<1> DEFINE id == c.id
           e == IF ReadsAll(c) THEN AfterAll(chans[id]) ELSE After(chans[id], Count(c))
<1>1. chans' = [chans EXCEPT ![id] = e]
  BY DEF Take
<1>2. id \in Open => SameKind(chans[id], e)
  BY ReadKinds DEF ChannelsOK, TablesOK
<1> HIDE DEF e
<1> QED BY <1>1, <1>2, TouchedKinds

-----------------------------------------------------------------------------
(* Commands *)

LEMMA SameAnswer ==
  ASSUME ChannelsOK, Within, SameKinds, UNCHANGED order, Kept, active' = Below
  PROVE  ChannelsOK'
BY KeptStep, SameSteady DEF SameKinds

LEMMA Refused ==
  ASSUME ChannelsOK, Within, UNCHANGED <<chans, order>>, Kept, active' = Below
  PROVE  ChannelsOK'
BY KeptStep, KeptSteady DEF Open

LEMMA FreshKind ==
  \A kind, r, w, at : "kind" \in DOMAIN NewChan(kind, r, w, at) /\ NewChan(kind, r, w, at).kind = kind
BY Zenon DEF NewChan

LEMMA OpenInv ==
  ASSUME ChannelsOK, Within, NEW c, OpenFile(c) \/ OpenPipe(c)
  PROVE  ChannelsOK'
<1>1. Kept /\ active' = Below
  BY DEF OpenFile, OpenPipe, Answer, hooks, Kept
<1>2. \E n, ch : Register(File(n), ch) /\ "kind" \in DOMAIN ch /\ ch.kind # "reflected"
  <2>1. CASE OpenFile(c)
    <3> DEFINE new == NewChan("file", c.r, c.w, 0)
               ch == [new EXCEPT !.append = c.append]
    <3>1. "kind" \in DOMAIN new /\ new.kind = "file"
      BY FreshKind
    <3>2. Register(File(nextId), ch)
      BY <2>1 DEF OpenFile
    <3> HIDE DEF new
    <3> QED BY <3>1, <3>2
  <2>2. CASE OpenPipe(c)
    <3>1. PICK pid : Register(File(pid), NewChan("child", c.r, c.w, pid))
      BY <2>2 DEF OpenPipe
    <3> QED BY <3>1, FreshKind
  <2> QED BY <2>1, <2>2
<1>3. ChansSteady /\ Open \subseteq Open'
  BY <1>2, OpenedSteady, KindsOfNames
<1> QED BY <1>1, <1>3, KeptStep

LEMMA PipeInv ==
  ASSUME ChannelsOK, Within, NEW c, ChanPipe(c)
  PROVE  ChannelsOK'
<1> DEFINE a == File(nextId)
           b == File(nextId + 1)
           p == Len(pipes) + 1
           d == NewChan("pipeR", TRUE, FALSE, p)
           e == NewChan("pipeW", FALSE, TRUE, p)
<1>1. /\ Kept /\ active' = Below
      /\ chans' = With(With(chans, a, d), b, e)
      /\ order' = Tracked(Tracked(order, a), b)
  BY DEF ChanPipe, Answer, hooks, Kept
<1>2. "kind" \in DOMAIN d /\ d.kind = "pipeR" /\ "kind" \in DOMAIN e /\ e.kind = "pipeW"
  BY FreshKind
<1>3. a \notin Rcs /\ b \notin Rcs
  BY KindsOfNames
<1> HIDE DEF a, b, d, e
<1>4. /\ Open' = (Open \cup {a}) \cup {b}
      /\ \A x \in Open' : chans'[x] = IF x = b THEN e ELSE IF x = a THEN d ELSE chans[x]
  BY <1>1 DEF With, Open
<1>5. Listed(order', Open')
  <2>1. Listed(Tracked(order, a), Open \cup {a})
    BY TrackedListed DEF ChannelsOK
  <2>2. Listed(Tracked(Tracked(order, a), b), (Open \cup {a}) \cup {b})
    BY <2>1, TrackedListed
  <2> QED BY <1>1, <1>4, <2>2
<1>6. ChansSteady
  BY <1>2, <1>3, <1>4, <1>5 DEF ChansSteady, ChannelsOK, TablesOK
<1> QED BY <1>1, <1>4, <1>6, KeptStep

LEMMA CreateInv ==
  ASSUME ChannelsOK, Within, NEW c, Create(c)
  PROVE  ChannelsOK'
<1> DEFINE h == <<"rc", handles.rc>>
           w == [kind |-> "create", of |-> h, handler |-> c.handler, r |-> c.r, w |-> c.w]
<1>1. /\ handles' = [handles EXCEPT !.rc = @ + 1]
      /\ Invoke(Below, w, h, c.handler, "initialize")
      /\ UNCHANGED <<chans, order, reflected, transforms>>
  BY DEF Create, tables
<1>2. finalized' = finalized /\ Open' = Open
  BY <1>1 DEF Invoke, Open
<1>3. handles \in [rc : Nat, rt : Nat] /\ handles' \in [rc : Nat, rt : Nat] /\ handles'.rc = handles.rc + 1
  BY <1>1 DEF ChannelsOK, HooksOK
<1>4. Steady
  BY <1>1, <1>2, <1>3, KeptHooks, KeptSteady DEF Steady, HandlesSteady, ChannelsOK, TablesOK
<1>5. h \in Given(handles') /\ h \notin Given(handles) /\ h \in Rcs
  BY <1>3 DEF Given, Rcs
<1>6. "kind" \in DOMAIN w /\ w.kind = "create" /\ w.of = h
  OBVIOUS
<1>7. h \notin Open' \cup finalized'
  BY <1>2, <1>5 DEF ChannelsOK, HooksOK, Elder
<1>8. Here(Below)
  BY Stacks DEF Within
<1>9. Then(Below)
  BY <1>4, <1>8, SteadyStack
<1> HIDE DEF w, h
<1>10. FrameOK(w, Open', DOMAIN reflected', finalized', handles') /\ Clear(w, w)
  BY <1>5, <1>6, <1>7 DEF FrameOK, Clear
<1>11. Unlike(Below, w)
  <2> SUFFICES ASSUME NEW i \in 1 .. Len(Below)
               PROVE  Apart(Below[i], w) /\ Apart(w, Below[i]) /\ Clear(Below[i], w) /\ Clear(w, Below[i])
    BY DEF Unlike
  <2>1. FrameOK(Below[i], Open, DOMAIN reflected, finalized, handles)
    BY <1>8 DEF Here, StackOK
  <2> QED BY <1>5, <1>6, <2>1 DEF FrameOK, Apart, Clear, Elder
<1>12. Then(active')
  BY <1>1, <1>9, <1>10, <1>11, InvokeStack DEF Then
<1> QED BY <1>4, <1>12, SteadyInv

LEMMA CreatedInv ==
  ASSUME ChannelsOK, Created
  PROVE  ChannelsOK'
<1>0. ~Idle /\ Top.kind = "create" /\ active' = Front(active) /\ UNCHANGED <<handles, transforms, finalized>>
  BY DEF Created, Waiting, Finish
<1>1. CASE UNCHANGED <<tables, reflected>>
  BY <1>0, <1>1, KeptStep, KeptSteady DEF tables, Kept, Open
<1>2. CASE /\ Register(Top.of, NewChan("reflected", Top.r, Top.w, 0))
           /\ reflected' = With(reflected, Top.of, [handler |-> Top.handler, eof |-> FALSE])
  <2> DEFINE id == Top.of
             ch == NewChan("reflected", Top.r, Top.w, 0)
             base == Front(active)
  <2>1. /\ id \in Given(handles) \ (Open \cup finalized)
        /\ Here(base)
        /\ \A i \in 1 .. Len(base) : Apart(base[i], Top) /\ Clear(Top, base[i])
    BY <1>0, PopStack DEF ChannelsOK, Here, FrameOK, Idle, Top
  <2>2. "kind" \in DOMAIN ch /\ ch.kind = "reflected"
    BY FreshKind
  <2> HIDE DEF id, ch, base
  <2>3. /\ Open' = Open \cup {id} /\ DOMAIN reflected' = DOMAIN reflected \cup {id}
        /\ \A x \in Open' : chans'[x] = IF x = id THEN ch ELSE chans[x]
    BY <1>2 DEF Register, With, Open, id, ch
  <2>4. Listed(order', Open')
    BY <1>2, <2>3, TrackedListed DEF Register, ChannelsOK, id
  <2>5. HooksOK'
    BY <1>0, <2>1, <2>3 DEF ChannelsOK, HooksOK, Elder
  <2>6. TablesOK'
    BY <1>0, <2>1, <2>2, <2>3 DEF ChannelsOK, TablesOK
  <2>7. ASSUME NEW e, FrameOK(e, Open, DOMAIN reflected, finalized, handles), Apart(e, Top), Clear(Top, e)
        PROVE  FrameOK(e, Open', DOMAIN reflected', finalized', handles')
    <3>1. e.kind = "create" => e.of \notin Open'
      BY <1>0, <2>3, <2>7 DEF FrameOK, Apart, id
    <3>2. e.kind = "draining" => e.id \notin DOMAIN reflected'
      BY <1>0, <2>3, <2>7 DEF FrameOK, Clear, id
    <3> QED BY <1>0, <2>7, <3>1, <3>2 DEF FrameOK
  <2>8. Then(active')
    <3>1. Then(base)
      BY <2>1, <2>7 DEF Here, Then, StackOK
    <3> QED BY <1>0, <3>1 DEF base
  <2> QED BY <2>4, <2>5, <2>6, <2>8 DEF ChannelsOK, Then
<1> QED BY <1>1, <1>2 DEF Created

LEMMA PushInv ==
  ASSUME ChannelsOK, Within, NEW c, Push(c)
  PROVE  ChannelsOK'
<1>1. CASE Fail /\ UNCHANGED <<tables, hooks, stores>>
  BY <1>1, Refused DEF Fail, Answer, tables, hooks, Kept
<1>2. CASE c.id \in Open /\ ~(Fail /\ UNCHANGED <<tables, hooks, stores>>)
  <2> DEFINE h == <<"rt", handles.rt>>
             w == [kind |-> "push", id |-> c.id, of |-> h, handler |-> c.handler]
  <2>1. /\ handles' = [handles EXCEPT !.rt = @ + 1]
        /\ Invoke(Below, w, h, c.handler, "initialize")
        /\ UNCHANGED <<chans, order, reflected, transforms>>
    BY <1>2 DEF Push, tables
  <2>2. finalized' = finalized /\ Open' = Open
    BY <2>1 DEF Invoke, Open
  <2>3. handles \in [rc : Nat, rt : Nat] /\ handles' \in [rc : Nat, rt : Nat] /\ handles'.rc = handles.rc
    BY <2>1 DEF ChannelsOK, HooksOK
  <2>4. Steady
    BY <2>1, <2>2, <2>3, KeptHooks, KeptSteady DEF Steady, HandlesSteady, ChannelsOK, TablesOK
  <2>5. FrameOK(w, Open, DOMAIN reflected, finalized, handles)
    <3>1. h \in Rts
      BY <2>3 DEF Rts
    <3>2. "kind" \in DOMAIN w /\ w.kind = "push" /\ w.of = h
      OBVIOUS
    <3> HIDE DEF w, h
    <3> QED BY <3>1, <3>2 DEF FrameOK
  <2>6. Unlike(Below, w) /\ Clear(w, w)
    <3>1. w.kind = "push"
      OBVIOUS
    <3> HIDE DEF w
    <3> QED BY <3>1 DEF Unlike, Apart, Clear
  <2>7. Here(Below)
    BY Stacks DEF Within
  <2> HIDE DEF w, h
  <2>8. Here(active')
    BY <2>1, <2>5, <2>6, <2>7, InvokeStack DEF Here
  <2> QED BY <2>4, <2>8, SteadyInv
<1> QED BY <1>1, <1>2 DEF Push

LEMMA PushedInv ==
  ASSUME ChannelsOK, Pushed
  PROVE  ChannelsOK'
<1>1. /\ ~Idle /\ Top.kind = "push" /\ active' = Front(active)
      /\ UNCHANGED <<handles, reflected, finalized, chans, order>>
  BY DEF Pushed, Waiting, Finish, tables
<1>2. Top.of \in Rts /\ Here(Front(active))
  BY <1>1, PopStack DEF ChannelsOK, Here, FrameOK, Idle, Top
<1>3. TransformsSteady
  <2>1. CASE UNCHANGED transforms
    BY <2>1, KeptHooks
  <2>2. CASE transforms' = With(transforms, Top.id, [of |-> Top.of, handler |-> Top.handler])
    <3> DEFINE t == [of |-> Top.of, handler |-> Top.handler]
    <3>1. t.of = Top.of
      OBVIOUS
    <3> HIDE DEF t
    <3>2. \A x \in DOMAIN transforms' : transforms'[x] = t \/ (x \in DOMAIN transforms /\ transforms'[x] = transforms[x])
      BY <2>2 DEF With, t
    <3> QED BY <1>2, <3>1, <3>2 DEF TransformsSteady, ChannelsOK, HooksOK
  <2> QED BY <2>1, <2>2 DEF Pushed
<1>4. Steady
  BY <1>1, <1>3, KeptHooks, KeptSteady DEF Steady, ChannelsOK, TablesOK, Open
<1> QED BY <1>1, <1>2, <1>4, SteadyInv

LEMMA PopInv ==
  ASSUME ChannelsOK, Within, NEW c, Pop(c)
  PROVE  ChannelsOK'
<1>1. /\ active' = Below /\ UNCHANGED <<handles, reflected, finalized, chans, order>>
      /\ transforms' = Without(transforms, c.id)
  BY DEF Pop, Answer, tables
<1>2. Steady
  BY <1>1, DroppedTransform, KeptHooks, KeptSteady DEF Steady, ChannelsOK, TablesOK, Open
<1> QED BY <1>1, <1>2, Stacks, SteadyInv DEF Within

-----------------------------------------------------------------------------
(* Closing *)

LEMMA CloseReflectedInv ==
  ASSUME ChannelsOK, Within, NEW c, CloseReflected(c)
  PROVE  ChannelsOK'
<1> DEFINE w == [kind |-> "finalizing", id |-> c.id]
<1>1. /\ c.id \in DOMAIN reflected /\ reflected' = Without(reflected, c.id)
      /\ Invoke(Below, w, c.id, reflected[c.id].handler, "finalize")
      /\ UNCHANGED <<chans, order, handles, transforms>>
  BY DEF CloseReflected, tables
<1>2. finalized' = finalized \cup {c.id} /\ DOMAIN reflected' = DOMAIN reflected \ {c.id} /\ Open' = Open
  BY <1>1 DEF Invoke, Without, Open
<1>3. HandlersSteady
  BY <1>1, <1>2 DEF HandlersSteady, ChannelsOK, TablesOK
<1>4. Steady
  BY <1>1, <1>2, <1>3, KeptHooks, KeptSteady DEF Steady, ChannelsOK, TablesOK
<1>5. Then(Below)
  BY <1>4, SteadyStack, Stacks DEF Within
<1>6. "kind" \in DOMAIN w /\ w.kind = "finalizing" /\ w.id = c.id
  OBVIOUS
<1> HIDE DEF w
<1>7. /\ FrameOK(w, Open', DOMAIN reflected', finalized', handles')
      /\ Unlike(Below, w) /\ Clear(w, w)
  BY <1>2, <1>6 DEF FrameOK, Unlike, Apart, Clear
<1>8. Then(active')
  BY <1>1, <1>5, <1>7, InvokeStack DEF Then
<1> QED BY <1>4, <1>8, SteadyInv

LEMMA CloseInv ==
  ASSUME ChannelsOK, Within, NEW c, Close(c)
  PROVE  ChannelsOK'
<1>1. CASE Fail /\ UNCHANGED <<tables, hooks, stores>>
  BY <1>1, Refused DEF Fail, Answer, tables, hooks, Kept
<1>2. CASE CloseReflected(c)
  BY <1>2, CloseReflectedInv
<1>3. CASE c.id \in Open \ DOMAIN reflected /\ c.id \in DOMAIN transforms /\ transforms' = Without(transforms, c.id)
           /\ UNCHANGED <<tables, handles, reflected, finalized, stores>>
           /\ \E left : active' = Append(Below, [kind |-> "draining", id |-> c.id, of |-> transforms[c.id].of,
                                                handler |-> transforms[c.id].handler, left |-> left])
  <2> PICK left : active' = Append(Below, [kind |-> "draining", id |-> c.id, of |-> transforms[c.id].of,
                                           handler |-> transforms[c.id].handler, left |-> left])
    BY <1>3
  <2> DEFINE w == [kind |-> "draining", id |-> c.id, of |-> transforms[c.id].of,
                   handler |-> transforms[c.id].handler, left |-> left]
  <2>1. Steady
    BY <1>3, DroppedTransform, KeptHooks, KeptSteady DEF Steady, ChannelsOK, TablesOK, Open, tables
  <2>2. /\ {"kind", "of", "id"} \subseteq DOMAIN w /\ w.kind = "draining"
        /\ w.id = c.id /\ w.of = transforms[c.id].of
    OBVIOUS
  <2>3. active' = Append(Below, w)
    OBVIOUS
  <2> HIDE DEF w
  <2>4. FrameOK(w, Open, DOMAIN reflected, finalized, handles) /\ Clear(w, w)
    BY <1>3, <2>2 DEF FrameOK, ChannelsOK, HooksOK, Clear
  <2>5. Here(Below)
    BY Stacks DEF Within
  <2>6. Unlike(Below, w)
    <3> SUFFICES ASSUME NEW i \in 1 .. Len(Below)
                 PROVE  Apart(Below[i], w) /\ Apart(w, Below[i]) /\ Clear(Below[i], w) /\ Clear(w, Below[i])
      BY DEF Unlike
    <3>1. FrameOK(Below[i], Open, DOMAIN reflected, finalized, handles)
      BY <2>5 DEF Here, StackOK
    <3> QED BY <1>3, <2>2, <3>1 DEF FrameOK, Apart, Clear
  <2>7. Here(active')
    BY <2>3, <2>4, <2>5, <2>6, PushStack DEF Here, Unlike
  <2> QED BY <2>1, <2>7, SteadyInv
<1>4. CASE /\ c.id \in Open \ (DOMAIN reflected \cup DOMAIN transforms)
           /\ Shut(c.id) /\ Answer("ok", <<>>) /\ UNCHANGED hooks
  <2>1. Steady
    BY <1>4, ShutSteady, KeptHooks DEF Steady, hooks, ChannelsOK, TablesOK
  <2> QED BY <1>4, <2>1, Stacks, SteadyInv DEF Within, Answer
<1> QED BY <1>1, <1>2, <1>3, <1>4 DEF Close

LEMMA HalfCloseInv ==
  ASSUME ChannelsOK, Within, NEW c, HalfClose(c)
  PROVE  ChannelsOK'
<1>1. CASE Fail /\ UNCHANGED <<tables, hooks, stores>>
  BY <1>1, Refused DEF Fail, Answer, tables, hooks, Kept
<1> QED BY <1>1, CloseInv DEF HalfClose

(* The channel goes: its handler has gone before.                          *)
LEMMA ShutsSteady ==
  ASSUME ChannelsOK, Shuts, HandlesSteady, HandlersSteady, TransformsSteady,
         DOMAIN reflected' = DOMAIN reflected, Top.id \notin DOMAIN reflected, ~Idle,
         finalized' = finalized
  PROVE  ChannelsOK'
<1>1. active' = Front(active)
  BY DEF Shuts, Finish
<1>2. CASE Shut(Top.id)
  <2>1. Steady
    BY <1>2, ShutSteady DEF Steady, ChannelsOK, TablesOK
  <2> QED BY <1>1, <2>1, Stacks, SteadyInv
<1>3. CASE UNCHANGED <<tables, stores>>
  <2>1. Steady
    BY <1>3, KeptSteady DEF Steady, ChannelsOK, TablesOK, tables, Open
  <2> QED BY <1>1, <2>1, Stacks, SteadyInv
<1> QED BY <1>2, <1>3 DEF Shuts

LEMMA FinalizedInv ==
  ASSUME ChannelsOK, Finalized
  PROVE  ChannelsOK'
<1>1. ~Idle /\ Top.kind = "finalizing" /\ UNCHANGED <<handles, reflected, finalized>>
  BY DEF Finalized, Waiting
<1>2. Top.id \in finalized
  BY <1>1, PopStack DEF ChannelsOK, FrameOK, Idle, Top
<1>3. CASE active' = Front(active) /\ UNCHANGED <<transforms, tables, stores>>
  BY <1>1, <1>3, KeptStep, KeptSteady DEF tables, Kept, Open
<1>4. CASE transforms' = Without(transforms, Top.id) /\ Shuts
  BY <1>1, <1>2, <1>4, DroppedTransform, KeptHooks, ShutsSteady DEF ChannelsOK, TablesOK
<1> QED BY <1>3, <1>4 DEF Finalized, Finish

LEMMA DrainedInv ==
  ASSUME ChannelsOK, Drained
  PROVE  ChannelsOK'
<1>1. ~Idle /\ Top.kind = "draining" /\ UNCHANGED <<handles, reflected, transforms>>
  BY DEF Drained, Waiting
<1>2. /\ FrameOK(Top, Open, DOMAIN reflected, finalized, handles) /\ Here(Front(active))
      /\ Unlike(Front(active), Top)
  BY <1>1, PopStack DEF ChannelsOK, Idle, Top, Here, Unlike
<1>3. CASE Top.left = <<>> /\ Shuts /\ UNCHANGED finalized
  BY <1>1, <1>2, <1>3, KeptHooks, ShutsSteady DEF FrameOK
<1>4. CASE UNCHANGED <<tables, stores>> /\ \E m : Invoke(Front(active), [Top EXCEPT !.left = Tail(@)], Top.of, Top.handler, m)
  <2> PICK m : Invoke(Front(active), [Top EXCEPT !.left = Tail(@)], Top.of, Top.handler, m)
    BY <1>4
  <2> DEFINE w == [Top EXCEPT !.left = Tail(@)]
             base == Front(active)
  <2>1. Top.of \in Rts /\ {"kind", "of", "id"} \subseteq DOMAIN Top
    BY <1>1, <1>2 DEF FrameOK
  <2>2. "kind" \in DOMAIN w /\ {"of", "id"} \subseteq DOMAIN w /\ w.kind = Top.kind /\ w.of = Top.of /\ w.id = Top.id
    BY <2>1
  <2>3. Invoke(base, w, Top.of, Top.handler, m)
    OBVIOUS
  <2> HIDE DEF w, base
  <2>4. finalized \subseteq finalized' /\ finalized' \subseteq finalized \cup {Top.of}
    BY <2>3 DEF Invoke
  <2>5. HandlersSteady
    BY <1>1, <2>1, <2>4, KindsOfNames DEF HandlersSteady, ChannelsOK, TablesOK, HooksOK
  <2>6. Steady
    BY <1>1, <1>4, <2>5, KeptHooks, KeptSteady DEF Steady, ChannelsOK, TablesOK, tables, Open
  <2>7. FrameOK(w, Open, DOMAIN reflected, finalized, handles) /\ Unlike(base, w) /\ Clear(w, w)
    BY <1>1, <1>2, <2>2 DEF FrameOK, Unlike, Apart, Clear, base
  <2>8. Here(active')
    BY <1>2, <2>3, <2>7, InvokeStack DEF Here, base
  <2> QED BY <2>6, <2>8, SteadyInv
<1> QED BY <1>3, <1>4 DEF Drained

-----------------------------------------------------------------------------
(* Reading and writing *)

LEMMA PutsInv ==
  ASSUME ChannelsOK, Within, NEW c, Puts(c)
  PROVE  ChannelsOK'
<1>1. CASE Fail /\ UNCHANGED <<tables, hooks, stores>>
  BY <1>1, Refused DEF Fail, Answer, tables, hooks, Kept
<1>2. ASSUME NEW w, Light(w), NEW of, NEW h, Invoke(Below, w, of, h, "write"), SameHooks, UNCHANGED tables
      PROVE  ChannelsOK'
  <2>1. UNCHANGED finalized
    BY <1>2 DEF Invoke
  <2>2. Here(Below)
    BY Stacks DEF Within
  <2> QED BY <1>2, <2>1, <2>2, InvokeKept DEF SameHooks, tables
<1>3. Light([kind |-> "puts", id |-> c.id]) /\ Light([kind |-> "filtered", id |-> c.id])
  BY DEF Light
<1>4. CASE Write(chans[c.id], c.id, c.data) /\ Answer("ok", <<>>) /\ UNCHANGED <<order, nextId, hooks>>
  BY <1>4, WriteKinds, SameAnswer DEF hooks, Kept, Answer
<1> QED BY <1>1, <1>2, <1>3, <1>4 DEF Puts

LEMMA ReadInv ==
  ASSUME ChannelsOK, Within, NEW c, Read(c)
  PROVE  ChannelsOK'
<1>1. CASE Fail /\ UNCHANGED <<tables, hooks, stores>>
  BY <1>1, Refused DEF Fail, Answer, tables, hooks, Kept
<1>2. CASE /\ Invoke(Below, [kind |-> "answering", id |-> c.id, line |-> c.line], c.id, reflected[c.id].handler, "read")
           /\ SameHooks /\ UNCHANGED <<tables, stores>>
  <2> DEFINE w == [kind |-> "answering", id |-> c.id, line |-> c.line]
  <2>1. Light(w)
    BY DEF Light
  <2> HIDE DEF w
  <2>2. Invoke(Below, w, c.id, reflected[c.id].handler, "read") /\ UNCHANGED finalized
    BY <1>2 DEF Invoke, w
  <2>3. Here(Below)
    BY Stacks DEF Within
  <2> QED BY <1>2, <2>1, <2>2, <2>3, InvokeKept DEF SameHooks, tables
<1>3. CASE Take(c) /\ UNCHANGED order /\ SameHooks /\ Answer("ok", Taken(c)) /\ UNCHANGED finalized
  BY <1>3, TakeKinds, SameAnswer DEF SameHooks, Kept, Answer
<1>4. CASE Take(c) /\ UNCHANGED order /\ SameHooks /\ \E of, h : Invoke(Below, [kind |-> "through"], of, h, "read")
  <2> PICK of, h : Invoke(Below, [kind |-> "through"], of, h, "read")
    BY <1>4
  <2>1. Light([kind |-> "through"])
    BY DEF Light
  <2>2. Here(active')
    BY <2>1, InvokePlain, Stacks DEF Here, Within
  <2>3. Kept
    BY <1>4 DEF SameHooks, Kept, Invoke
  <2> QED BY <1>4, <2>2, <2>3, TakeKinds, SameSteady, KeptStep DEF SameKinds
<1> QED BY <1>1, <1>2, <1>3, <1>4 DEF Read

LEMMA CopyInv ==
  ASSUME ChannelsOK, Within, NEW c, Copy(c)
  PROVE  ChannelsOK'
<1>1. CASE Fail /\ UNCHANGED <<tables, hooks, stores>>
  BY <1>1, Refused DEF Fail, Answer, tables, hooks, Kept
<1>2. CASE /\ active' = Append(Below, [kind |-> "copy", from |-> c.from, to |-> c.to, chunk |-> <<>>])
           /\ UNCHANGED <<tables, hooks, stores>>
  <2> DEFINE w == [kind |-> "copy", from |-> c.from, to |-> c.to, chunk |-> <<>>]
  <2>1. Light(w)
    BY DEF Light
  <2> HIDE DEF w
  <2>2. Here(active')
    BY <1>2, <2>1, PushStack, PlainFrame, Stacks DEF Here, Within, w
  <2> QED BY <1>2, <2>2, KeptStep, KeptSteady DEF Kept, hooks, tables, Open
<1> QED BY <1>1, <1>2 DEF Copy

LEMMA SeekInv ==
  ASSUME ChannelsOK, Within, NEW c, Seek(c)
  PROVE  ChannelsOK'
<1>0. active' = Below /\ UNCHANGED <<order, hooks>>
  BY DEF Seek, Answer
<1>1. CASE UNCHANGED chans
  BY <1>0, <1>1, Refused DEF hooks, Kept
<1>2. CASE \E at : chans' = [chans EXCEPT ![c.id] = Settled(@, at)]
  <2> PICK at : chans' = [chans EXCEPT ![c.id] = Settled(@, at)]
    BY <1>2
  <2> DEFINE e == Settled(chans[c.id], at)
  <2>1. chans' = [chans EXCEPT ![c.id] = e]
    OBVIOUS
  <2>2. c.id \in Open => SameKind(chans[c.id], e)
    BY ReadKinds DEF ChannelsOK, TablesOK
  <2> HIDE DEF e
  <2>3. SameKinds
    BY <2>1, <2>2, TouchedKinds
  <2> QED BY <1>0, <2>3, SameAnswer DEF hooks, Kept
<1> QED BY <1>1, <1>2 DEF Seek

LEMMA AskInv ==
  ASSUME ChannelsOK, Within, NEW c, Eof(c) \/ Truncate(c)
  PROVE  ChannelsOK'
<1>1. active' = Below /\ UNCHANGED <<chans, order>> /\ Kept
  BY DEF Eof, Truncate, Fail, Answer, tables, hooks, Kept
<1> QED BY <1>1, Refused

LEMMA DoInv ==
  ASSUME ChannelsOK, Within, NEW c, Do(c)
  PROVE  ChannelsOK'
BY OpenInv, PipeInv, CreateInv, PushInv, PopInv, CloseInv, HalfCloseInv, PutsInv, ReadInv, CopyInv, SeekInv, AskInv DEF Do

(* What waited for a method, or a copy, goes on.                           *)
LEMMA WaitingInv ==
  ASSUME ChannelsOK, MethodEnds \/ PutText \/ PutNewline \/ PutFiltered \/ Answered \/ Through
  PROVE  ChannelsOK'
<1>0. ~Idle /\ Here(Front(active))
  BY Stacks DEF MethodEnds, PutText, PutNewline, PutFiltered, Answered, Through, Waiting
<1>1. CASE MethodEnds \/ PutNewline \/ Through
  <2>1. active' = Front(active) /\ UNCHANGED <<chans, order>> /\ Kept
    BY <1>1 DEF MethodEnds, PutNewline, Through, Finish, tables, hooks, Kept
  <2> QED BY <1>0, <2>1, KeptStep, KeptSteady DEF Open
<1>2. CASE PutText
  <2>1. CASE UNCHANGED finalized /\ active' = Front(active)
    <3>1. UNCHANGED <<chans, order>> /\ Kept
      BY <1>2, <2>1 DEF PutText, SameHooks, tables, Kept
    <3> QED BY <1>0, <2>1, <3>1, KeptStep, KeptSteady DEF Open
  <2>2. CASE Invoke(Front(active), [kind |-> "newline"], Top.id, reflected[Top.id].handler, "write")
    <3>1. Light([kind |-> "newline"])
      BY DEF Light
    <3>2. UNCHANGED finalized
      BY <2>2 DEF Invoke
    <3> QED BY <1>0, <1>2, <2>2, <3>1, <3>2, InvokeKept DEF PutText, SameHooks, tables
  <2> QED BY <1>2, <2>1, <2>2 DEF PutText, Finish
<1>3. CASE PutFiltered
  <2>1. SameKinds
    <3>1. CASE UNCHANGED chans
      BY <3>1 DEF ChannelsOK, TablesOK, SameKinds, Open
    <3> QED BY <1>3, <3>1, WriteKinds DEF PutFiltered
  <2>2. active' = Front(active) /\ UNCHANGED order /\ Kept
    BY <1>3 DEF PutFiltered, Finish, hooks, Kept
  <2> QED BY <1>0, <2>1, <2>2, SameSteady, KeptStep DEF SameKinds
<1>4. CASE Answered
  <2>1. /\ active' = Front(active) /\ UNCHANGED <<chans, order, handles, transforms, finalized>>
        /\ DOMAIN reflected' = DOMAIN reflected
    BY <1>4 DEF Answered, Finish, tables
  <2>2. HandlersSteady
    BY <2>1 DEF HandlersSteady, ChannelsOK, TablesOK
  <2>3. Steady
    BY <2>1, <2>2, KeptHooks, KeptSteady DEF Steady, ChannelsOK, TablesOK, Open
  <2> QED BY <1>0, <2>1, <2>3, SteadyInv
<1> QED BY <1>1, <1>2, <1>3, <1>4

LEMMA CopyingInv ==
  ASSUME ChannelsOK, CopyReads \/ CopyWrites
  PROVE  ChannelsOK'
<1>0. ~Idle /\ Top.kind = "copy" /\ Kept /\ UNCHANGED order
  BY DEF CopyReads, CopyWrites, Waiting, hooks, Kept
<1>1. SameKinds
  <2>1. CASE CopyReads
    <3> DEFINE e == After(chans[Top.from], Chunk)
    <3>1. chans' = [chans EXCEPT ![Top.from] = e]
      BY <2>1 DEF CopyReads
    <3>2. Top.from \in Open => SameKind(chans[Top.from], e)
      BY ReadKinds DEF ChannelsOK, TablesOK
    <3> HIDE DEF e
    <3> QED BY <3>1, <3>2, TouchedKinds
  <2>2. CASE CopyWrites
    BY <2>2, WriteKinds DEF CopyWrites
  <2> QED BY <2>1, <2>2
<1>2. Here(active')
  <2>1. CASE active' = Front(active)
    BY <1>0, <2>1, Stacks
  <2>2. CASE \E v : active' = InTop([Top EXCEPT !.chunk = v])
    <3> PICK v : active' = InTop([Top EXCEPT !.chunk = v])
      BY <2>2
    <3> DEFINE e == [Top EXCEPT !.chunk = v]
    <3>1. "kind" \in DOMAIN Top
      BY <1>0, PopStack DEF ChannelsOK, FrameOK, Idle, Top
    <3>2. "kind" \in DOMAIN e /\ e.kind = "copy"
      BY <1>0, <3>1
    <3>3. active' = [active EXCEPT ![Len(active)] = e]
      BY DEF InTop
    <3> HIDE DEF e
    <3> QED BY <1>0, <3>2, <3>3, AlterStack DEF Light, ChannelsOK, Here, Idle
  <2> QED BY <2>1, <2>2 DEF CopyReads, CopyWrites, Finish
<1> QED BY <1>0, <1>1, <1>2, SameSteady, KeptStep DEF SameKinds

-----------------------------------------------------------------------------

LEMMA StepInv == ChannelsOK /\ [Next]_vars => ChannelsOK'
<1> SUFFICES ASSUME ChannelsOK, [Next]_vars PROVE ChannelsOK'
  OBVIOUS
<1>1. CASE UNCHANGED vars
  BY <1>1 DEF vars, tables, hooks, ChannelsOK, HooksOK, TablesOK, Open
<1>2. CASE Resumes
  BY <1>2, WaitingInv, CopyingInv, CreatedInv, PushedInv, FinalizedInv, DrainedInv DEF Resumes
<1>3. Offered # {} => Within
  BY DEF Offered, Within
<1>4. CASE TooDeep
  BY <1>3, <1>4, Refused DEF TooDeep, Fail, Answer, tables, hooks, Kept
<1>5. CASE \E c \in Offered : Command(c)
  BY <1>3, <1>5, DoInv DEF Command
<1> QED BY <1>1, <1>2, <1>4, <1>5 DEF Next

LEMMA FreshInv == Fresh => ChannelsOK
<1> SUFFICES ASSUME Fresh PROVE ChannelsOK
  OBVIOUS
<1>1. Open = {} /\ DOMAIN reflected = {} /\ DOMAIN transforms = {} /\ finalized = {}
  BY DEF Fresh, Open
<1>2. \A S : <<>> \in Seq(S) /\ Len(<<>>) = 0
  OBVIOUS
<1>3. Listed(order, Open) /\ StackOK(active, Open, DOMAIN reflected, finalized, handles)
  BY <1>1, <1>2 DEF Fresh, Listed, StackOK
<1>4. HooksOK /\ TablesOK
  BY <1>1 DEF Fresh, HooksOK, TablesOK
<1> QED BY <1>3, <1>4 DEF ChannelsOK

LEMMA ListedAll ==
  ASSUME NEW s, NEW open, Listed(s, open)
  PROVE  Range(s) = open /\ Len(s) = Cardinality(open)
<1>1. s \in Seq(open) /\ Len(s) \in Nat /\ DOMAIN s = 1 .. Len(s)
  BY DEF Listed
<1>2. Range(s) = open
  BY <1>1 DEF Listed, Range
<1>3. s \in Bijection(1 .. Len(s), open)
  BY <1>1 DEF Listed, Bijection, Injection, Surjection, IsInjective
<1>4. Cardinality(1 .. Len(s)) = Len(s) /\ IsFiniteSet(1 .. Len(s))
  BY <1>1, FS_Interval
<1>5. Cardinality(open) = Cardinality(1 .. Len(s))
  BY <1>3, <1>4, FS_Bijection DEF ExistsBijection
<1> QED BY <1>2, <1>4, <1>5

LEMMA InvAgrees == ChannelsOK => TablesAgree
BY ListedAll DEF ChannelsOK, TablesOK, TablesAgree

-----------------------------------------------------------------------------
(* What channels hold.  Lines are data; the witnesses G and q of a program *)
(* stay the same for as long as it runs.                                   *)
Lines == Seq(Nat)

LEMMA FirstSeq ==
  ASSUME NEW s \in Lines, NEW n
  PROVE  /\ FirstOf(s, n) \in Lines /\ Len(FirstOf(s, n)) \in 0 .. Len(s)
         /\ \A i \in 1 .. Len(FirstOf(s, n)) : FirstOf(s, n)[i] = s[i]
         /\ n \in Nat => Len(FirstOf(s, n)) = IF n < Len(s) THEN n ELSE Len(s)
<1>1. CASE n \in 0 .. Len(s)
  <2>1. FirstOf(s, n) = SubSeq(s, 1, n)
    BY <1>1 DEF FirstOf
  <2> QED BY <1>1, <2>1 DEF Lines
<1>2. CASE n \notin 0 .. Len(s)
  <2>1. FirstOf(s, n) = s
    BY <1>2 DEF FirstOf
  <2> QED BY <1>2, <2>1 DEF Lines
<1> QED BY <1>1, <1>2

LEMMA PastSeq ==
  ASSUME NEW s \in Lines, NEW n \in Nat
  PROVE  /\ Past(s, n) \in Lines
         /\ Len(Past(s, n)) = IF n < Len(s) THEN Len(s) - n ELSE 0
         /\ \A i \in 1 .. Len(Past(s, n)) : Past(s, n)[i] = s[n + i]
<1> DEFINE k == Len(s)
           t == SubSeq(s, n + 1, k)
<1>1. k \in Nat /\ s \in Seq(Nat) /\ Past(s, n) = t
  BY DEF Lines, Past
<1>2. t \in Seq(Nat)
  <2>1. \A i \in n + 1 .. k : i \in 1 .. Len(s)
    BY <1>1
  <2> QED BY <1>1, <2>1
<1>3. Len(t) = IF n < k THEN k - n ELSE 0
  BY <1>1
<1>4. \A i \in 1 .. Len(t) : t[i] = s[n + i]
  BY <1>1, <1>3
<1> QED BY <1>1, <1>2, <1>3, <1>4 DEF Lines

BuffersOK == Cap \in Nat \ {0} /\ Chunk \in Nat \ {0}

Fields == {"kind", "at", "w", "append", "pos", "buf", "eof"}
ChanOK(ch) ==
  /\ Fields \subseteq DOMAIN ch
  /\ ch.pos \in Nat /\ ch.buf \in Lines /\ Len(ch.buf) <= Cap
  /\ ch.kind \in {"pipeR", "pipeW"} => ch.at \in DOMAIN pipes
StoresOK == BuffersOK /\ pipes \in Seq([data : Lines, open : BOOLEAN]) /\ file \in Lines

(* What was read ahead is in the file, before the place reading has reached.*)
CurrentAt(b, p, f) ==
  /\ Len(b) <= p /\ (b # <<>> => p <= Len(f))
  /\ \A i \in 1 .. Len(b) : b[i] = f[p - Len(b) + i]
Current(ch, f) == CurrentAt(ch.buf, ch.pos, f)

SamePlace(ch, e) == e.kind = ch.kind /\ e.at = ch.at /\ e.w = ch.w /\ e.append = ch.append
Moved(ch, e) ==
  /\ ChanOK(e) /\ SamePlace(ch, e)
  /\ ch.kind = "pipeR" /\ AtEnd(ch) => AtEnd(e)
  /\ ch.kind = "file" /\ Current(ch, file) => Current(e, file)

(* What an update of a channel leaves as it was.                           *)
Alike(ch, e, b, p) == Fields \subseteq DOMAIN e /\ SamePlace(ch, e) /\ e.buf = b /\ e.pos = p

LEMMA Updated ==
  ASSUME NEW ch, Fields \subseteq DOMAIN ch, NEW b, NEW p, NEW x
  PROVE  /\ Alike(ch, [ch EXCEPT !.buf = b, !.pos = p, !.eof = x], b, p)
         /\ Alike(ch, [ch EXCEPT !.buf = b, !.pos = p], b, p)
         /\ Alike(ch, [ch EXCEPT !.pos = p, !.buf = b], b, p)
         /\ Alike(ch, [ch EXCEPT !.buf = b, !.eof = x], b, ch.pos)
         /\ Alike(ch, [ch EXCEPT !.pos = p], ch.buf, p)
         /\ Alike(ch, [ch EXCEPT !.eof = x], ch.buf, ch.pos)
BY DEF Fields, SamePlace, Alike

(* One fill of the buffer.                                                 *)
LEMMA FetchedCurrent ==
  ASSUME NEW ch, ChanOK(ch), NEW m \in Nat, StoresOK
  PROVE  LET f == Fetched(ch, m)
         IN  /\ Fields \subseteq DOMAIN f /\ SamePlace(ch, f) /\ f.pos \in Nat /\ f.buf \in Lines
             /\ Len(f.buf) <= Cap \/ Len(f.buf) <= m
             /\ Current(ch, file) => Current(f, file)
<1> DEFINE past == Past(file, ch.pos)
           got == FirstOf(past, m)
           p == ch.pos + Len(got)
           e == [ch EXCEPT !.buf = got, !.pos = p]
<1>0. file \in Lines /\ ch.pos \in Nat
  BY DEF StoresOK, ChanOK
<1>1. past \in Lines /\ Len(past) = (IF ch.pos < Len(file) THEN Len(file) - ch.pos ELSE 0)
      /\ \A i \in 1 .. Len(past) : past[i] = file[ch.pos + i]
  BY <1>0, PastSeq
<1> HIDE DEF past
<1>2. /\ got \in Lines /\ Len(got) \in 0 .. Len(past) /\ Len(got) <= m
      /\ \A i \in 1 .. Len(got) : got[i] = past[i]
  <2>1. Len(past) \in Nat
    BY <1>1 DEF Lines
  <2>2. /\ got \in Lines /\ Len(got) \in 0 .. Len(past)
        /\ \A i \in 1 .. Len(got) : got[i] = past[i]
        /\ Len(got) = IF m < Len(past) THEN m ELSE Len(past)
    BY <1>1, FirstSeq
  <2> QED BY <2>1, <2>2
<1> HIDE DEF got
<1>3. Len(got) \in Nat /\ Len(past) \in Nat /\ Len(file) \in Nat /\ ch.pos \in Nat /\ p \in Nat
  BY <1>1, <1>2 DEF Lines, ChanOK, StoresOK
<1>4. Alike(ch, e, got, p)
  BY Updated DEF ChanOK
<1>5. Fetched(ch, m) = IF ch.buf # <<>> THEN ch ELSE e
  BY DEF Fetched, got, past
<1> HIDE DEF e
<1>6. Current(e, file)
  <2>1. got # <<>> => p <= Len(file)
    <3>1. got # <<>> => Len(got) > 0
      BY <1>2 DEF Lines
    <3> QED BY <1>1, <1>2, <1>3, <3>1
  <2>2. ASSUME NEW i \in 1 .. Len(got)
        PROVE  got[i] = file[p - Len(got) + i]
    <3>1. i \in 1 .. Len(past) /\ got[i] = past[i]
      BY <1>2, <1>3
    <3>2. past[i] = file[ch.pos + i]
      BY <1>1, <3>1
    <3>3. p - Len(got) + i = ch.pos + i
      BY <1>3
    <3> QED BY <3>1, <3>2, <3>3
  <2> QED BY <1>3, <1>4, <2>1, <2>2 DEF Current, CurrentAt, Alike
<1>7. SamePlace(ch, ch) /\ (ChanOK(ch) => Fields \subseteq DOMAIN ch)
  BY DEF SamePlace, ChanOK
<1> QED BY <1>2, <1>3, <1>4, <1>5, <1>6, <1>7 DEF ChanOK, Alike

LEMMA LinesLen == \A s \in Lines : Len(s) \in Nat /\ (s = <<>> <=> Len(s) = 0)
<1> TAKE s \in Lines
<1>1. s \in Seq(Nat)
  BY DEF Lines
<1> QED BY <1>1

LEMMA NoLines == <<>> \in Lines
<1>1. <<>> \in Seq(Nat)
  OBVIOUS
<1> QED BY <1>1 DEF Lines

LEMMA ElementOf ==
  ASSUME NEW S, NEW s \in Seq(S), NEW i \in DOMAIN s
  PROVE  s[i] \in S
<1>1. i \in 1 .. Len(s)
  OBVIOUS
<1> QED BY <1>1

LEMMA PipeTyped ==
  ASSUME StoresOK, NEW p \in DOMAIN pipes
  PROVE  pipes[p] \in [data : Lines, open : BOOLEAN] /\ pipes[p].data \in Lines
<1> DEFINE S == [data : Lines, open : BOOLEAN]
<1>1. pipes \in Seq(S)
  BY DEF StoresOK
<1> HIDE DEF S
<1>2. pipes[p] \in S
  BY <1>1, ElementOf
<1> QED BY <1>2 DEF S

LEMMA Shifted ==
  ASSUME NEW a \in Nat, NEW n \in Nat, NEW p \in Nat, NEW l \in Nat,
         l = IF n < a THEN a - n ELSE 0, NEW i \in 1 .. l
  PROVE  n + i \in 1 .. a /\ p - a + (n + i) = p - l + i
OBVIOUS

LEMMA PastCurrent ==
  ASSUME NEW b \in Lines, NEW n \in Nat, NEW p \in Nat, NEW f \in Lines, CurrentAt(b, p, f)
  PROVE  CurrentAt(Past(b, n), p, f)
<1> DEFINE t == Past(b, n)
<1>1. /\ t \in Lines /\ Len(t) = IF n < Len(b) THEN Len(b) - n ELSE 0
      /\ \A i \in 1 .. Len(t) : t[i] = b[n + i]
  BY PastSeq
<1> HIDE DEF t
<1>2. Len(t) \in Nat /\ Len(b) \in Nat /\ (t = <<>> <=> Len(t) = 0) /\ (b = <<>> <=> Len(b) = 0)
  BY <1>1, LinesLen
<1>3. Len(t) <= p /\ (t # <<>> => p <= Len(f))
  BY <1>1, <1>2 DEF CurrentAt
<1>4. ASSUME NEW i \in 1 .. Len(t)
      PROVE  t[i] = f[p - Len(t) + i]
  <2>1. n + i \in 1 .. Len(b) /\ p - Len(b) + (n + i) = p - Len(t) + i
    <3> DEFINE a == Len(b)
               l == Len(t)
    <3>1. a \in Nat /\ l \in Nat /\ l = (IF n < a THEN a - n ELSE 0) /\ i \in 1 .. l
      BY <1>1, <1>2
    <3> HIDE DEF a, l
    <3>2. n + i \in 1 .. a /\ p - a + (n + i) = p - l + i
      BY <3>1, Shifted
    <3> QED BY <3>2 DEF a, l
  <2>2. b[n + i] = f[p - Len(b) + (n + i)]
    BY <2>1 DEF CurrentAt
  <2> QED BY <1>1, <2>1, <2>2
<1> QED BY <1>3, <1>4 DEF CurrentAt, t

(* read, gets and a block of a copy.                                       *)
LEMMA AfterFile ==
  ASSUME NEW ch, ChanOK(ch), ch.kind = "file", NEW n \in Nat, StoresOK
  PROVE  Got(ch, n) \in Lines /\ Moved(ch, After(ch, n))
<1> DEFINE m == Most(n, Cap)
           f == Fetched(ch, m)
           got == FirstOf(f.buf, n)
           rest == Past(f.buf, Len(got))
           x == f.eof \/ got = <<>>
           after == [f EXCEPT !.buf = rest, !.eof = x]
<1>0. Cap \in Nat /\ m \in Nat /\ m = IF n < Cap THEN Cap ELSE n
  BY DEF BuffersOK, StoresOK, Most
<1>1. Got(ch, n) = got /\ After(ch, n) = after
  BY DEF Got, After
<1> HIDE DEF m
<1>2. /\ Fields \subseteq DOMAIN f /\ SamePlace(ch, f) /\ f.pos \in Nat /\ f.buf \in Lines
      /\ Len(f.buf) <= Cap \/ Len(f.buf) <= m
      /\ Current(ch, file) => Current(f, file)
  BY <1>0, FetchedCurrent
<1> HIDE DEF f
<1>3. /\ got \in Lines /\ Len(got) \in 0 .. Len(f.buf)
      /\ Len(got) = IF n < Len(f.buf) THEN n ELSE Len(f.buf)
  BY <1>2, FirstSeq
<1> HIDE DEF got
<1>4. Len(got) \in Nat /\ Len(f.buf) \in Nat
  BY <1>2, <1>3, LinesLen
<1>5. rest \in Lines /\ Len(rest) = IF Len(got) < Len(f.buf) THEN Len(f.buf) - Len(got) ELSE 0
  BY <1>2, <1>4, PastSeq
<1>6. CurrentAt(f.buf, f.pos, file) => CurrentAt(rest, f.pos, file)
  BY <1>2, <1>4, PastCurrent DEF StoresOK
<1>7. Alike(f, after, rest, f.pos)
  BY <1>2, Updated
<1> HIDE DEF rest, x, after
<1>8. Len(rest) <= Cap
  BY <1>0, <1>2, <1>3, <1>4, <1>5
<1>9. ChanOK(after) /\ SamePlace(ch, after)
  BY <1>2, <1>5, <1>7, <1>8 DEF ChanOK, Alike, SamePlace
<1>10. Current(ch, file) => Current(after, file)
  BY <1>2, <1>6, <1>7 DEF Current, Alike
<1> QED BY <1>1, <1>3, <1>9, <1>10 DEF Moved

LEMMA AfterPipe ==
  ASSUME NEW ch, ChanOK(ch), ch.kind = "pipeR", NEW n \in Nat, StoresOK
  PROVE  Got(ch, n) \in Lines /\ Moved(ch, After(ch, n))
<1> DEFINE data == pipes[ch.at].data
           past == Past(data, ch.pos)
           got == FirstOf(past, n)
           p == ch.pos + Len(got)
           after == [ch EXCEPT !.pos = p]
<1>1. Got(ch, n) = got /\ After(ch, n) = after
  BY DEF Got, After
<1>2. data \in Lines /\ ch.pos \in Nat
  BY PipeTyped DEF ChanOK
<1>3. past \in Lines
  BY <1>2, PastSeq
<1>4. got \in Lines
  BY <1>3, FirstSeq
<1>5. Len(got) \in Nat /\ Len(data) \in Nat /\ p \in Nat /\ ch.pos <= p
  <2> HIDE DEF got, data
  <2> QED BY <1>2, <1>4, LinesLen
<1>6. Alike(ch, after, ch.buf, p)
  BY Updated DEF ChanOK
<1> HIDE DEF after, p, got
<1>7. AtEnd(ch) => AtEnd(after)
  <2> HIDE DEF past
  <2>1. after.kind = "pipeR" /\ after.at = ch.at /\ after.pos = p
    BY <1>6 DEF Alike, SamePlace
  <2> QED BY <1>2, <1>5, <2>1 DEF AtEnd
<1>8. ChanOK(after) /\ SamePlace(ch, after)
  BY <1>5, <1>6 DEF ChanOK, Alike, SamePlace
<1> QED BY <1>1, <1>4, <1>7, <1>8 DEF Moved

LEMMA AfterMoved ==
  ASSUME NEW ch, ChanOK(ch), NEW n \in Nat, StoresOK
  PROVE  Got(ch, n) \in Lines /\ Moved(ch, After(ch, n))
<1>1. CASE ch.kind \notin {"file", "pipeR"}
  <2> DEFINE after == After(ch, n)
             e == [ch EXCEPT !.eof = TRUE]
  <2>1. Got(ch, n) = FirstOf(<<>>, n) /\ (after = ch \/ after = e)
    BY <1>1 DEF Got, After
  <2>2. Got(ch, n) \in Lines
    BY <2>1, NoLines, FirstSeq
  <2>3. Alike(ch, e, ch.buf, ch.pos) /\ Alike(ch, ch, ch.buf, ch.pos)
    BY Updated DEF ChanOK, Alike, SamePlace
  <2> HIDE DEF e
  <2>4. Alike(ch, after, ch.buf, ch.pos)
    BY <2>1, <2>3
  <2> HIDE DEF after
  <2>5. ChanOK(after) /\ SamePlace(ch, after)
    BY <2>4 DEF ChanOK, Alike, SamePlace
  <2> QED BY <1>1, <2>2, <2>5 DEF Moved, after
<1> QED BY <1>1, AfterFile, AfterPipe

LEMMA AfterAllMoved ==
  ASSUME NEW ch, ChanOK(ch), StoresOK
  PROVE  GotAll(ch) \in Lines /\ Moved(ch, AfterAll(ch))
<1>0. ch.pos \in Nat /\ ch.buf \in Lines /\ file \in Lines /\ Cap \in Nat
  BY DEF BuffersOK, ChanOK, StoresOK
<1>1. CASE ch.kind = "file"
  <2> DEFINE p == Most(ch.pos, Len(file))
             after == [ch EXCEPT !.buf = <<>>, !.pos = p, !.eof = TRUE]
  <2>1. GotAll(ch) = ch.buf \o Past(file, ch.pos) /\ AfterAll(ch) = after
    BY <1>1 DEF GotAll, AfterAll
  <2>2. GotAll(ch) \in Lines
    <3>1. Past(file, ch.pos) \in Lines
      BY <1>0, PastSeq
    <3> QED BY <1>0, <2>1, <3>1 DEF Lines
  <2>3. p \in Nat
    BY <1>0, LinesLen DEF Most
  <2>4. Alike(ch, after, <<>>, p)
    BY Updated DEF ChanOK
  <2> HIDE DEF p, after
  <2>5. ChanOK(after) /\ SamePlace(ch, after) /\ Current(after, file)
    BY <1>0, <2>3, <2>4, NoLines, LinesLen DEF ChanOK, Alike, SamePlace, Current, CurrentAt
  <2> QED BY <1>1, <2>1, <2>2, <2>5 DEF Moved
<1>2. CASE ch.kind = "pipeR"
  <2> DEFINE p == Len(pipes[ch.at].data)
             after == [ch EXCEPT !.pos = p]
  <2>1. GotAll(ch) = Past(pipes[ch.at].data, ch.pos) /\ AfterAll(ch) = after
    BY <1>2 DEF GotAll, AfterAll
  <2>2. pipes[ch.at].data \in Lines
    BY <1>2, PipeTyped DEF ChanOK
  <2>3. p \in Nat
    BY <2>2, LinesLen
  <2>4. Alike(ch, after, ch.buf, p)
    BY Updated DEF ChanOK
  <2>5. GotAll(ch) \in Lines
    BY <1>0, <2>1, <2>2, PastSeq
  <2> HIDE DEF after
  <2>6. ChanOK(after) /\ SamePlace(ch, after)
    BY <1>0, <2>3, <2>4 DEF ChanOK, Alike, SamePlace
  <2>7. AtEnd(ch) => AtEnd(after)
    <3>1. after.kind = "pipeR" /\ after.at = ch.at /\ after.pos = p
      BY <1>2, <2>4 DEF Alike, SamePlace
    <3> QED BY <1>2, <2>3, <3>1 DEF AtEnd
  <2> QED BY <1>2, <2>1, <2>5, <2>6, <2>7 DEF Moved
<1>3. CASE ch.kind \notin {"file", "pipeR"}
  <2> DEFINE after == AfterAll(ch)
             e == [ch EXCEPT !.eof = TRUE]
  <2>1. GotAll(ch) = <<>> /\ (after = ch \/ after = e)
    BY <1>3 DEF GotAll, AfterAll
  <2>2. Alike(ch, e, ch.buf, ch.pos) /\ Alike(ch, ch, ch.buf, ch.pos)
    BY Updated DEF ChanOK, Alike, SamePlace
  <2> HIDE DEF e
  <2>3. Alike(ch, after, ch.buf, ch.pos)
    BY <2>1, <2>2
  <2> HIDE DEF after
  <2>4. ChanOK(after) /\ SamePlace(ch, after)
    BY <2>3 DEF ChanOK, Alike, SamePlace
  <2> QED BY <1>3, <2>1, <2>4, NoLines DEF Moved, after
<1> QED BY <1>1, <1>2, <1>3

(* seek, and tell, which is a seek to where reading stands.                *)
LEMMA SettledMoved ==
  ASSUME BuffersOK, NEW ch, ChanOK(ch), ch.kind = "file", NEW at \in Nat
  PROVE  Moved(ch, Settled(ch, at))
<1> DEFINE b == <<>>
           after == [ch EXCEPT !.pos = at, !.buf = b]
<1>1. Settled(ch, at) = after
  BY DEF Settled
<1>2. Alike(ch, after, <<>>, at)
  BY Updated DEF ChanOK
<1> HIDE DEF after
<1>3. ChanOK(after) /\ SamePlace(ch, after) /\ Current(after, file)
  BY <1>2, NoLines, LinesLen DEF BuffersOK, ChanOK, Alike, SamePlace, Current, CurrentAt
<1> QED BY <1>1, <1>3 DEF Moved

-----------------------------------------------------------------------------
(* The table and the stores.  q is what the program does with the file:    *)
(* with "append" it writes only at the end and truncates nothing, with     *)
(* "write" it has no channel that only reads it, with "any" what it likes. *)
Opens(w, append, q) == (q = "append" => (w => append)) /\ (q = "write" => w)

PipeEnd(ch) == ch.kind \in {"pipeR", "pipeW"}
FileOK(ch, q) ==
  ch.kind = "file" => /\ q = "append" => IF ch.w THEN ch.append ELSE Current(ch, file)
                      /\ q = "write"  => ch.w
EachOK(q) ==
  \A id \in Open :
    /\ ChanOK(chans[id]) /\ FileOK(chans[id], q)
    /\ PipeEnd(chans[id]) => \E n \in Nat : n < nextId /\ id = File(n)
WritersOK ==
  /\ \A id \in Open : chans[id].kind = "pipeW" => pipes[chans[id].at].open
  /\ \A i, j \in Open : chans[i].kind = "pipeW" /\ chans[j].kind = "pipeW" /\ chans[i].at = chans[j].at => i = j
TableData(q) == StoresOK /\ nextId \in Nat /\ EachOK(q) /\ WritersOK

Goes(q) == TableData(q)' /\ EndStaysEnd

LEMMA SameTable ==
  ASSUME NEW q, TableData(q), UNCHANGED <<chans, nextId>>, UNCHANGED stores
  PROVE  Goes(q)
<1>1. Open' = Open /\ pipes' = pipes /\ file' = file /\ chans' = chans /\ nextId' = nextId
  BY DEF Open, stores
<1>2. TableData(q)'
  BY <1>1 DEF TableData, StoresOK, EachOK, WritersOK, ChanOK, FileOK, Current
<1>3. EndStaysEnd
  BY <1>1 DEF EndStaysEnd, AtEnd
<1> QED BY <1>2, <1>3 DEF Goes

LEMMA TouchedTable ==
  ASSUME NEW q, TableData(q), UNCHANGED nextId, UNCHANGED stores,
         NEW id, NEW e, id \in Open => Moved(chans[id], e), chans' = [chans EXCEPT ![id] = e]
  PROVE  Goes(q)
<1>1. Open' = Open /\ pipes' = pipes /\ file' = file /\ nextId' = nextId
  BY DEF Open, stores
<1>2. ASSUME NEW x \in Open
      PROVE  chans'[x] = IF x = id THEN e ELSE chans[x]
  BY DEF Open
<1>3. ASSUME NEW x \in Open
      PROVE  /\ chans'[x].kind = chans[x].kind /\ chans'[x].at = chans[x].at
             /\ ChanOK(chans'[x]) /\ FileOK(chans'[x], q)
             /\ chans[x].kind = "pipeR" /\ AtEnd(chans[x]) => AtEnd(chans'[x])
  <2>1. CASE x = id
    BY <1>2, <2>1 DEF TableData, EachOK, Moved, SamePlace, FileOK
  <2>2. CASE x # id
    BY <1>2, <2>2 DEF TableData, EachOK
  <2> QED BY <2>1, <2>2
<1>4. EachOK(q)'
  <2> SUFFICES ASSUME NEW x \in Open
               PROVE  /\ ChanOK(chans[x])' /\ FileOK(chans[x], q)'
                      /\ PipeEnd(chans'[x]) => \E n \in Nat : n < nextId /\ x = File(n)
    BY <1>1 DEF EachOK, PipeEnd
  <2>1. ChanOK(chans[x])' /\ FileOK(chans[x], q)'
    BY <1>1, <1>3 DEF ChanOK, FileOK, Current
  <2>2. PipeEnd(chans'[x]) => \E n \in Nat : n < nextId /\ x = File(n)
    BY <1>3 DEF TableData, EachOK, PipeEnd
  <2> QED BY <2>1, <2>2
<1>5. WritersOK'
  BY <1>1, <1>3 DEF TableData, WritersOK
<1>6. EndStaysEnd
  BY <1>1, <1>3 DEF EndStaysEnd, AtEnd
<1> QED BY <1>1, <1>4, <1>5, <1>6 DEF Goes, TableData, StoresOK

(* A channel that goes; its pipe is then without a writer.                 *)
LEMMA ShutTable ==
  ASSUME NEW q, TableData(q), NEW id \in Open, Shut(id)
  PROVE  Goes(q)
<1> DEFINE ch == chans[id]
<1>1. /\ Open' = Open \ {id} /\ file' = file /\ nextId' = nextId
      /\ \A x \in Open' : chans'[x] = chans[x]
  BY DEF Shut, Without, Open
<1>2. ch.kind = "pipeW" => ch.at \in DOMAIN pipes
  BY DEF TableData, EachOK, ChanOK
<1>3. /\ StoresOK' /\ DOMAIN pipes' = DOMAIN pipes
      /\ \A p \in DOMAIN pipes : /\ pipes'[p].data = pipes[p].data
                                 /\ ~pipes[p].open => ~pipes'[p].open
                                 /\ ~(ch.kind = "pipeW" /\ ch.at = p) => pipes'[p] = pipes[p]
  <2>1. CASE ch.kind # "pipeW"
    BY <1>1, <2>1 DEF Shut, TableData, StoresOK
  <2>2. CASE ch.kind = "pipeW"
    <3> DEFINE T == [data : Lines, open : BOOLEAN]
               a == ch.at
               v == [pipes[a] EXCEPT !.open = FALSE]
    <3>1. pipes' = [pipes EXCEPT ![a] = v]
      BY <2>2 DEF Shut
    <3>2. pipes \in Seq(T) /\ a \in DOMAIN pipes /\ pipes[a] \in T /\ pipes[a].data \in Lines
      BY <1>2, <2>2, PipeTyped DEF TableData, StoresOK
    <3>3. v \in T /\ v.data = pipes[a].data /\ ~v.open
      BY <3>2
    <3> HIDE DEF a, v, T
    <3>4. pipes' \in Seq(T)
      BY <3>1, <3>2, <3>3
    <3>5. DOMAIN pipes' = DOMAIN pipes /\ \A p \in DOMAIN pipes : pipes'[p] = IF p = a THEN v ELSE pipes[p]
      BY <3>1, <3>2
    <3>6. StoresOK'
      BY <1>1, <3>4 DEF StoresOK, TableData, T
    <3>7. ~(ch.kind = "pipeW" /\ ch.at = a) => FALSE
      BY <2>2 DEF a
    <3> QED BY <3>3, <3>5, <3>6, <3>7
  <2> QED BY <2>1, <2>2
<1>4. EachOK(q)'
  BY <1>1, <1>3 DEF TableData, EachOK, ChanOK, FileOK, Current, PipeEnd
<1>5. WritersOK'
  <2>1. ASSUME NEW x \in Open', chans[x].kind = "pipeW"
        PROVE  pipes'[chans[x].at].open
    <3>1. x \in Open /\ x # id /\ chans[x].at \in DOMAIN pipes /\ pipes[chans[x].at].open
      BY <1>1, <2>1 DEF TableData, WritersOK, EachOK, ChanOK
    <3>2. ~(ch.kind = "pipeW" /\ ch.at = chans[x].at)
      BY <2>1, <3>1 DEF TableData, WritersOK
    <3> QED BY <1>3, <3>1, <3>2
  <2> QED BY <1>1, <2>1 DEF TableData, WritersOK
<1>6. EndStaysEnd
  <2> SUFFICES ASSUME NEW x \in Open \cap DOMAIN chans', chans[x].kind = "pipeR", AtEnd(chans[x])
               PROVE  AtEnd(chans[x])'
    BY DEF EndStaysEnd
  <2>1. chans'[x] = chans[x] /\ chans[x].at \in DOMAIN pipes
    BY <1>1 DEF TableData, EachOK, ChanOK, Open
  <2>2. ~pipes'[chans[x].at].open /\ pipes'[chans[x].at].data = pipes[chans[x].at].data
    BY <1>3, <2>1 DEF AtEnd
  <2> QED BY <2>1, <2>2 DEF AtEnd
<1> QED BY <1>1, <1>3, <1>4, <1>5, <1>6 DEF Goes, TableData

(* chan truncate, of a program whose files are all written.                *)
LEMMA TruncatedTable ==
  ASSUME NEW q, q # "append", TableData(q), UNCHANGED <<chans, nextId, pipes>>, file' = <<>>
  PROVE  Goes(q)
<1>1. Open' = Open
  BY DEF Open
<1>2. StoresOK'
  BY NoLines DEF TableData, StoresOK
<1>3. EachOK(q)' /\ WritersOK'
  BY <1>1 DEF TableData, EachOK, WritersOK, ChanOK, FileOK, PipeEnd
<1>4. EndStaysEnd
  BY <1>1 DEF EndStaysEnd, AtEnd
<1> QED BY <1>2, <1>3, <1>4 DEF Goes, TableData

(* A write goes to the end of the file, or of a pipe that is open, or the  *)
(* program has no reader of the file.                                      *)
LEMMA OverlaidLines ==
  ASSUME NEW s \in Lines, NEW at \in Nat, NEW d \in Lines
  PROVE  /\ Overlaid(s, at, d) \in Lines
         /\ Len(s) <= Len(Overlaid(s, at, d))
         /\ at = Len(s) => \A i \in 1 .. Len(s) : Overlaid(s, at, d)[i] = s[i]
<1> DEFINE n == Most(Len(s), at + Len(d))
           k == Len(s)
           l == Len(d)
           v(i) == IF i > at /\ i <= at + l THEN d[i - at] ELSE IF i <= k THEN s[i] ELSE 0
           t == [i \in 1 .. n |-> v(i)]
<1>1. Overlaid(s, at, d) = t
  BY DEF Overlaid
<1>2. k \in Nat /\ l \in Nat
  BY LinesLen
<1>3. n \in Nat /\ k <= n
  <2> HIDE DEF l, k
  <2> QED BY <1>2 DEF Most, l, k
<1>4. (\A i \in 1 .. k : s[i] \in Nat) /\ (\A i \in 1 .. l : d[i] \in Nat)
  BY DEF Lines
<1> HIDE DEF n, k, l
<1>5. ASSUME NEW i \in 1 .. n
      PROVE  v(i) \in Nat
  <2>1. CASE i > at /\ i <= at + l
    <3>1. i - at \in 1 .. l
      BY <1>2, <1>3, <2>1
    <3> QED BY <1>4, <2>1, <3>1
  <2>2. CASE ~(i > at /\ i <= at + l) /\ i <= k
    <3>1. i \in 1 .. k
      BY <1>2, <1>3, <2>2
    <3> QED BY <1>4, <2>2, <3>1
  <2> QED BY <2>1, <2>2
<1>6. t \in Seq(Nat) /\ Len(t) = n
  BY <1>3, <1>5
<1>7. at = k => \A i \in 1 .. k : t[i] = s[i]
  <2> SUFFICES ASSUME at = k, NEW i \in 1 .. k PROVE t[i] = s[i]
    OBVIOUS
  <2>1. i \in 1 .. n /\ ~(i > at) /\ i <= k
    BY <1>2, <1>3
  <2> QED BY <2>1
<1> QED BY <1>1, <1>3, <1>6, <1>7 DEF Lines, k

LEMMA KeptCurrent ==
  ASSUME NEW b \in Lines, NEW p \in Nat, NEW f \in Lines, NEW g \in Lines, CurrentAt(b, p, f),
         Len(f) <= Len(g), \A i \in 1 .. Len(f) : g[i] = f[i]
  PROVE  CurrentAt(b, p, g)
<1>1. Len(b) \in Nat /\ Len(f) \in Nat /\ Len(g) \in Nat /\ (b = <<>> <=> Len(b) = 0)
  BY LinesLen
<1>2. b # <<>> => p <= Len(g)
  BY <1>1 DEF CurrentAt
<1>3. ASSUME NEW i \in 1 .. Len(b)
      PROVE  b[i] = g[p - Len(b) + i]
  <2>1. b # <<>> /\ Len(b) <= p /\ p <= Len(f)
    BY <1>1, <1>3 DEF CurrentAt
  <2> DEFINE l == Len(b)
             k == Len(f)
  <2>2. l \in Nat /\ k \in Nat /\ i \in 1 .. l /\ l <= p /\ p <= k
    BY <1>1, <2>1
  <2> HIDE DEF l, k
  <2>3. p - l + i \in 1 .. k
    BY <2>2
  <2> QED BY <2>3 DEF CurrentAt, l, k
<1> QED BY <1>2, <1>3 DEF CurrentAt

LEMMA WrittenFile ==
  ASSUME NEW q, TableData(q), UNCHANGED <<nextId, pipes>>,
         NEW id \in Open, chans[id].w, chans[id].kind = "file", NEW d \in Lines,
         NEW at, at = IF chans[id].append THEN Len(file) ELSE chans[id].pos,
         file' = Overlaid(file, at, d), chans' = [chans EXCEPT ![id].pos = at + Len(d)]
  PROVE  Goes(q)
<1> DEFINE ch == chans[id]
           p == at + Len(d)
           e == [ch EXCEPT !.pos = p]
<1>1. ChanOK(ch) /\ FileOK(ch, q) /\ file \in Lines
  BY DEF TableData, EachOK, StoresOK
<1>2. at \in Nat /\ p \in Nat
  BY <1>1, LinesLen DEF ChanOK
<1>3. Open' = Open /\ \A x \in Open : chans'[x] = IF x = id THEN e ELSE chans[x]
  BY DEF Open
<1>4. Alike(ch, e, ch.buf, p)
  BY <1>1, Updated DEF ChanOK
<1> HIDE DEF e, p
<1>5. /\ file' \in Lines /\ Len(file) <= Len(file')
      /\ at = Len(file) => \A i \in 1 .. Len(file) : file'[i] = file[i]
  BY <1>1, <1>2, OverlaidLines
<1>6. ASSUME NEW x \in Open
      PROVE  SamePlace(chans[x], chans'[x]) /\ ChanOK(chans'[x]) /\ FileOK(chans[x], q)'
  <2>1. ChanOK(chans[x]) /\ FileOK(chans[x], q)
    BY DEF TableData, EachOK
  <2>2. CASE x = id
    <3>1. chans'[x] = e
      BY <1>3, <2>2
    <3>2. e.w = ch.w /\ e.append = ch.append /\ e.kind = ch.kind /\ ch.w
      BY <1>4 DEF Alike, SamePlace
    <3>3. FileOK(chans[x], q)'
      BY <1>1, <3>1, <3>2 DEF FileOK
    <3>4. ChanOK(e)
      BY <1>1, <1>2, <1>4 DEF Alike, SamePlace, ChanOK
    <3> QED BY <1>4, <2>2, <3>1, <3>3, <3>4 DEF Alike
  <2>3. CASE x # id
    <3>1. chans'[x] = chans[x]
      BY <1>3, <2>3
    <3>2. ASSUME chans[x].kind = "file", ~chans[x].w, q = "append"
          PROVE  CurrentAt(chans[x].buf, chans[x].pos, file')
      <4>1. CurrentAt(chans[x].buf, chans[x].pos, file)
        BY <2>1, <3>2 DEF FileOK, Current
      <4>2. at = Len(file)
        BY <1>1, <3>2 DEF FileOK
      <4> QED BY <1>1, <1>5, <2>1, <4>1, <4>2, KeptCurrent DEF ChanOK
    <3>3. FileOK(chans[x], q)'
      BY <2>1, <3>1, <3>2 DEF FileOK, Current
    <3> QED BY <2>1, <3>1, <3>3 DEF SamePlace
  <2> QED BY <2>2, <2>3
<1>7. EachOK(q)'
  <2> SUFFICES ASSUME NEW x \in Open
               PROVE  /\ ChanOK(chans[x])' /\ FileOK(chans[x], q)'
                      /\ PipeEnd(chans'[x]) => \E n \in Nat : n < nextId /\ x = File(n)
    BY <1>3 DEF EachOK, PipeEnd
  <2>1. ChanOK(chans[x])' /\ FileOK(chans[x], q)'
    BY <1>6 DEF ChanOK
  <2> QED BY <1>6, <2>1 DEF TableData, EachOK, PipeEnd, SamePlace
<1>8. WritersOK'
  BY <1>3, <1>6 DEF TableData, WritersOK, SamePlace
<1>9. EndStaysEnd
  <2> SUFFICES ASSUME NEW x \in Open \cap DOMAIN chans', chans[x].kind = "pipeR", AtEnd(chans[x])
               PROVE  AtEnd(chans[x])'
    BY DEF EndStaysEnd
  <2>1. chans'[x] = chans[x]
    BY <1>3
  <2> QED BY <2>1 DEF AtEnd
<1> QED BY <1>3, <1>5, <1>7, <1>8, <1>9 DEF Goes, TableData, StoresOK

LEMMA GrownPipe ==
  ASSUME NEW q, TableData(q), UNCHANGED <<nextId, chans, file>>,
         NEW a \in DOMAIN pipes, pipes[a].open, NEW v \in [data : Lines, open : BOOLEAN], v.open,
         pipes' = [pipes EXCEPT ![a] = v]
  PROVE  Goes(q)
<1> DEFINE T == [data : Lines, open : BOOLEAN]
<1>1. Open' = Open
  BY DEF Open
<1>2. pipes \in Seq(T) /\ v \in T
  BY DEF TableData, StoresOK
<1> HIDE DEF T
<1>3. pipes' \in Seq(T)
  BY <1>2
<1>4. DOMAIN pipes' = DOMAIN pipes /\ \A p \in DOMAIN pipes : pipes'[p] = IF p = a THEN v ELSE pipes[p]
  BY <1>2
<1>5. StoresOK'
  BY <1>3 DEF StoresOK, TableData, T
<1>6. EachOK(q)'
  BY <1>1, <1>4 DEF TableData, EachOK, ChanOK, FileOK, Current, PipeEnd
<1>7. WritersOK'
  <2>1. \A x \in Open : chans[x].kind = "pipeW" => chans[x].at \in DOMAIN pipes
    BY DEF TableData, EachOK, ChanOK
  <2> QED BY <1>1, <1>4, <2>1 DEF TableData, WritersOK
<1>8. EndStaysEnd
  <2> SUFFICES ASSUME NEW x \in Open \cap DOMAIN chans', chans[x].kind = "pipeR", AtEnd(chans[x])
               PROVE  AtEnd(chans[x])'
    BY DEF EndStaysEnd
  <2>1. chans[x].at \in DOMAIN pipes /\ ~pipes[chans[x].at].open
    BY DEF TableData, EachOK, ChanOK, AtEnd
  <2>2. pipes'[chans[x].at] = pipes[chans[x].at]
    BY <1>4, <2>1
  <2> QED BY <2>2 DEF AtEnd
<1> QED BY <1>5, <1>6, <1>7, <1>8 DEF Goes, TableData

LEMMA WrittenPipe ==
  ASSUME NEW q, TableData(q), UNCHANGED <<nextId, chans, file>>,
         NEW id \in Open, chans[id].kind = "pipeW", NEW d \in Lines,
         pipes' = [pipes EXCEPT ![chans[id].at].data = @ \o d]
  PROVE  Goes(q)
<1>1. PICK a, v : a = chans[id].at /\ v = [pipes[a] EXCEPT !.data = @ \o d]
  OBVIOUS
<1>2. pipes' = [pipes EXCEPT ![a] = v]
  BY <1>1
<1>3. a \in DOMAIN pipes /\ pipes[a].open
  BY <1>1 DEF TableData, EachOK, ChanOK, WritersOK
<1>4. pipes[a] \in [data : Lines, open : BOOLEAN] /\ pipes[a].data \o d \in Lines
  BY <1>3, PipeTyped DEF TableData, Lines
<1>5. v \in [data : Lines, open : BOOLEAN] /\ v.open
  BY <1>1, <1>3, <1>4
<1> QED BY <1>2, <1>3, <1>5, GrownPipe

LEMMA WrittenTable ==
  ASSUME NEW q, TableData(q), UNCHANGED nextId,
         NEW id \in Open, chans[id].w, NEW d \in Lines, Write(chans[id], id, d)
  PROVE  Goes(q)
<1> DEFINE ch == chans[id]
           at == IF ch.append THEN Len(file) ELSE ch.pos
<1>1. CASE ch.kind = "file" /\ d # <<>>
  <2>1. file' = Overlaid(file, at, d) /\ chans' = [chans EXCEPT ![id].pos = at + Len(d)] /\ UNCHANGED pipes
    BY <1>1 DEF Write
  <2> HIDE DEF at
  <2> QED BY <1>1, <2>1, WrittenFile DEF at
<1>2. CASE ch.kind = "pipeW"
  <2>1. pipes' = [pipes EXCEPT ![ch.at].data = @ \o d] /\ UNCHANGED <<chans, file>>
    BY <1>2 DEF Write
  <2> QED BY <1>2, <2>1, WrittenPipe
<1>3. CASE ~(ch.kind = "file" /\ d # <<>>) /\ ch.kind # "pipeW"
  <2>1. UNCHANGED chans /\ UNCHANGED stores
    BY <1>3 DEF Write
  <2> QED BY <2>1, SameTable
<1> QED BY <1>1, <1>2, <1>3

(* A channel is added, in place of one of its name if there is one.        *)
LEMMA AddedTable ==
  ASSUME NEW q, TableData(q), UNCHANGED stores, NEW id, NEW ch,
         chans' = With(chans, id, ch), ChanOK(ch), FileOK(ch, q), ~PipeEnd(ch),
         nextId' \in Nat, nextId <= nextId',
         \/ \A n \in Nat : n < nextId => id # File(n)
         \/ ch.kind = "child"
  PROVE  Goes(q)
<1>1. /\ Open' = Open \cup {id} /\ pipes' = pipes /\ file' = file
      /\ \A x \in Open' : chans'[x] = IF x = id THEN ch ELSE chans[x]
  BY DEF With, Open, stores
<1>2. EachOK(q)'
  <2> SUFFICES ASSUME NEW x \in Open'
               PROVE  /\ ChanOK(chans[x])' /\ FileOK(chans[x], q)'
                      /\ PipeEnd(chans'[x]) => \E n \in Nat : n < nextId' /\ x = File(n)
    BY DEF EachOK, PipeEnd
  <2>1. CASE x = id
    BY <1>1, <2>1 DEF ChanOK, FileOK, Current
  <2>2. CASE x # id
    <3>1. chans'[x] = chans[x] /\ x \in Open
      BY <1>1, <2>2
    <3>2. ChanOK(chans[x])' /\ FileOK(chans[x], q)'
      BY <1>1, <3>1 DEF TableData, EachOK, ChanOK, FileOK, Current
    <3>3. ASSUME PipeEnd(chans[x])
          PROVE  \E n \in Nat : n < nextId' /\ x = File(n)
      <4>1. PICK n \in Nat : n < nextId /\ x = File(n)
        BY <3>1, <3>3 DEF TableData, EachOK
      <4>2. n < nextId'
        BY <4>1 DEF TableData
      <4> QED BY <4>1, <4>2
    <3> QED BY <3>1, <3>2, <3>3
  <2> QED BY <2>1, <2>2
<1>3. WritersOK'
  BY <1>1 DEF TableData, WritersOK, PipeEnd
<1>4. EndStaysEnd
  <2> SUFFICES ASSUME NEW x \in Open \cap DOMAIN chans', chans[x].kind = "pipeR", AtEnd(chans[x])
               PROVE  AtEnd(chans[x])' \/ chans'[x].kind = "child"
    BY DEF EndStaysEnd
  <2>1. CASE x # id
    BY <1>1, <2>1 DEF AtEnd, Open
  <2>2. CASE x = id
    <3>1. PICK n \in Nat : n < nextId /\ x = File(n)
      BY DEF TableData, EachOK, PipeEnd
    <3> QED BY <1>1, <2>2, <3>1
  <2> QED BY <2>1, <2>2
<1> QED BY <1>1, <1>2, <1>3, <1>4 DEF Goes, TableData, StoresOK

LEMMA NewOK ==
  ASSUME BuffersOK, NEW kind, NEW r, NEW w, NEW at, kind \in {"pipeR", "pipeW"} => at \in DOMAIN pipes
  PROVE  LET ch == NewChan(kind, r, w, at)
         IN  ChanOK(ch) /\ ch.kind = kind /\ ch.w = w /\ ch.at = at /\ ch.pos = 0 /\ ch.buf = <<>>
<1> DEFINE ch == NewChan(kind, r, w, at)
<1>1. /\ Fields \subseteq DOMAIN ch /\ ch.kind = kind /\ ch.w = w /\ ch.at = at
      /\ ch.pos = 0 /\ ch.buf = <<>>
  BY DEF NewChan, Fields
<1> HIDE DEF ch
<1> QED BY <1>1, NoLines, LinesLen DEF BuffersOK, ChanOK, ch

LEMMA FileNames == \A m, n : File(m) = File(n) => m = n
BY DEF File

LEMMA OpenedTable ==
  ASSUME NEW q, TableData(q), UNCHANGED stores, nextId' = nextId + 1, NEW r, NEW w, NEW append,
         Register(File(nextId), [NewChan("file", r, w, 0) EXCEPT !.append = append]),
         Opens(w, append, q)
  PROVE  Goes(q)
<1> DEFINE d == NewChan("file", r, w, 0)
           ch == [d EXCEPT !.append = append]
<1>1. ChanOK(d) /\ d.kind = "file" /\ d.w = w /\ d.pos = 0 /\ d.buf = <<>>
  BY NewOK DEF TableData, StoresOK
<1> HIDE DEF d
<1>2. /\ Fields \subseteq DOMAIN ch /\ ch.kind = "file" /\ ch.w = w /\ ch.append = append
      /\ ch.pos = 0 /\ ch.buf = <<>>
  BY <1>1 DEF ChanOK, Fields
<1>3. chans' = With(chans, File(nextId), ch)
  BY DEF Register, d
<1> HIDE DEF ch
<1>4. ChanOK(ch)
  BY <1>2, NoLines, LinesLen DEF TableData, StoresOK, BuffersOK, ChanOK
<1>5. Current(ch, file)
  BY <1>2, NoLines, LinesLen DEF Current, CurrentAt
<1>6. FileOK(ch, q) /\ ~PipeEnd(ch)
  BY <1>2, <1>5 DEF FileOK, PipeEnd, Opens
<1>7. /\ nextId' \in Nat /\ nextId <= nextId'
      /\ \A n \in Nat : n < nextId => File(nextId) # File(n)
  BY FileNames DEF TableData
<1> QED BY <1>3, <1>4, <1>6, <1>7, AddedTable

LEMMA OtherTable ==
  ASSUME NEW q, TableData(q), UNCHANGED stores, UNCHANGED nextId,
         NEW id, NEW kind, kind \in {"child", "reflected"}, NEW r, NEW w, NEW at,
         Register(id, NewChan(kind, r, w, at)), kind = "reflected" => id \in Rcs
  PROVE  Goes(q)
<1> DEFINE ch == NewChan(kind, r, w, at)
<1>1. ChanOK(ch) /\ ch.kind = kind
  BY NewOK DEF TableData, StoresOK
<1>2. chans' = With(chans, id, ch)
  BY DEF Register
<1> HIDE DEF ch
<1>3. FileOK(ch, q) /\ ~PipeEnd(ch)
  BY <1>1 DEF FileOK, PipeEnd
<1>4. (\A n \in Nat : n < nextId => id # File(n)) \/ ch.kind = "child"
  BY <1>1, KindsOfNames
<1>5. nextId' \in Nat /\ nextId <= nextId'
  BY DEF TableData
<1> QED BY <1>1, <1>2, <1>3, <1>4, <1>5, AddedTable

Ends(d, p, kind) ==
  /\ Fields \subseteq DOMAIN d /\ d.kind = kind /\ d.at = p /\ d.pos = 0 /\ d.buf = <<>>

LEMMA PairTable ==
  ASSUME NEW q, TableData(q), nextId' = nextId + 2, file' = file,
         NEW p, p = Len(pipes) + 1, NEW a, NEW b, a = File(nextId), b = File(nextId + 1),
         NEW d, Ends(d, p, "pipeR"), NEW e, Ends(e, p, "pipeW"),
         NEW v, v = [data |-> <<>>, open |-> TRUE], pipes' = Append(pipes, v),
         chans' = With(With(chans, a, d), b, e)
  PROVE  Goes(q)
<1> DEFINE T == [data : Lines, open : BOOLEAN]
<1>2. pipes \in Seq(T) /\ v \in T /\ v.open /\ Len(pipes) \in Nat
  BY NoLines DEF TableData, StoresOK
<1> HIDE DEF T
<1>3. /\ pipes' \in Seq(T) /\ p \in DOMAIN pipes' /\ pipes'[p] = v /\ p \notin DOMAIN pipes
      /\ \A x \in DOMAIN pipes : x \in DOMAIN pipes' /\ pipes'[x] = pipes[x]
  BY <1>2
<1>4. ChanOK(d)' /\ ChanOK(e)'
  <2>1. Cap \in Nat
    BY DEF TableData, StoresOK, BuffersOK
  <2> QED BY <1>3, <2>1, NoLines, LinesLen DEF ChanOK, Ends
<1>5. /\ Open' = Open \cup {a, b}
      /\ \A x \in Open' : chans'[x] = IF x = b THEN e ELSE IF x = a THEN d ELSE chans[x]
  BY DEF With, Open
<1>6. nextId \in Nat /\ \A n \in Nat : n < nextId => File(n) # a /\ File(n) # b
  BY FileNames DEF TableData
<1>7. EachOK(q)'
  <2> SUFFICES ASSUME NEW x \in Open'
               PROVE  /\ ChanOK(chans[x])' /\ FileOK(chans[x], q)'
                      /\ PipeEnd(chans'[x]) => \E n \in Nat : n < nextId' /\ x = File(n)
    BY DEF EachOK, PipeEnd
  <2>1. CASE x \in {a, b}
    <3>1. chans'[x] = d \/ chans'[x] = e
      BY <1>5, <2>1
    <3>2. ChanOK(chans[x])' /\ FileOK(chans[x], q)'
      BY <1>4, <3>1 DEF ChanOK, FileOK, Ends
    <3>3. \E n \in Nat : n < nextId' /\ x = File(n)
      BY <1>6, <2>1
    <3> QED BY <3>2, <3>3
  <2>2. CASE x \notin {a, b}
    <3>1. chans'[x] = chans[x] /\ x \in Open
      BY <1>5, <2>2
    <3>2. ChanOK(chans[x])' /\ FileOK(chans[x], q)'
      BY <1>3, <3>1 DEF TableData, EachOK, ChanOK, FileOK, Current
    <3>3. ASSUME PipeEnd(chans[x])
          PROVE  \E n \in Nat : n < nextId' /\ x = File(n)
      <4>1. PICK n \in Nat : n < nextId /\ x = File(n)
        BY <3>1, <3>3 DEF TableData, EachOK
      <4>2. n < nextId'
        BY <1>6, <4>1
      <4> QED BY <4>1, <4>2
    <3> QED BY <3>1, <3>2, <3>3
  <2> QED BY <2>1, <2>2
<1>8. WritersOK'
  <2>1. ASSUME NEW x \in Open', chans'[x].kind = "pipeW"
        PROVE  /\ pipes'[chans'[x].at].open
               /\ x = b \/ /\ x \in Open /\ chans'[x] = chans[x] /\ chans[x].at # p
               /\ x = b => chans'[x].at = p
    <3>1. CASE x = b
      BY <1>2, <1>3, <1>5, <3>1 DEF Ends
    <3>2. CASE x # b
      <4>1. x # a
        BY <1>5, <2>1, <3>2 DEF Ends
      <4>2. x \in Open /\ chans'[x] = chans[x]
        BY <1>5, <3>2, <4>1
      <4>3. chans[x].at \in DOMAIN pipes /\ pipes[chans[x].at].open
        BY <2>1, <4>2 DEF TableData, EachOK, ChanOK, WritersOK
      <4> QED BY <1>3, <3>2, <4>2, <4>3
    <3> QED BY <3>1, <3>2
  <2>2. ASSUME NEW i \in Open', NEW j \in Open', chans'[i].kind = "pipeW", chans'[j].kind = "pipeW",
               chans'[i].at = chans'[j].at
        PROVE  i = j
    BY <2>1, <2>2 DEF TableData, WritersOK
  <2> QED BY <2>1, <2>2 DEF WritersOK
<1>9. EndStaysEnd
  <2> SUFFICES ASSUME NEW x \in Open \cap DOMAIN chans', chans[x].kind = "pipeR", AtEnd(chans[x])
               PROVE  AtEnd(chans[x])'
    BY DEF EndStaysEnd
  <2>1. chans[x].at \in DOMAIN pipes /\ \E n \in Nat : n < nextId /\ x = File(n)
    BY DEF TableData, EachOK, ChanOK, PipeEnd
  <2>2. x # a /\ x # b
    BY <1>6, <2>1
  <2> QED BY <1>3, <1>5, <2>1, <2>2 DEF AtEnd, Open
<1> QED BY <1>3, <1>6, <1>7, <1>8, <1>9 DEF Goes, TableData, StoresOK, T

LEMMA PipedTable ==
  ASSUME NEW q, TableData(q), NEW c, ChanPipe(c)
  PROVE  Goes(q)
<1>1. \A p : Ends(NewChan("pipeR", TRUE, FALSE, p), p, "pipeR") /\ Ends(NewChan("pipeW", FALSE, TRUE, p), p, "pipeW")
  BY DEF Ends, NewChan, Fields
<1>2. PICK p, a, b, d, e, v :
        /\ p = Len(pipes) + 1 /\ a = File(nextId) /\ b = File(nextId + 1)
        /\ d = NewChan("pipeR", TRUE, FALSE, p) /\ e = NewChan("pipeW", FALSE, TRUE, p)
        /\ v = [data |-> <<>>, open |-> TRUE]
  OBVIOUS
<1>3. /\ pipes' = Append(pipes, v) /\ chans' = With(With(chans, a, d), b, e)
      /\ nextId' = nextId + 2 /\ file' = file
  BY <1>2 DEF ChanPipe
<1>4. Ends(d, p, "pipeR") /\ Ends(e, p, "pipeW")
  BY <1>1, <1>2
<1> QED BY <1>2, <1>3, <1>4, PairTable

-----------------------------------------------------------------------------
(* The stack, and the handlers: G is the set of the commands there are, of *)
(* the program and of the methods of its handlers.                         *)

HandlerOK(h, G) == \A m \in Methods : h.acts[m] \in Seq(G) /\ h.gives[m] \in Lines
CommandOK(c, G, q) ==
  /\ c.op = "open"     => Opens(c.w, c.append, q)
  /\ c.op = "puts"     => c.data \in Lines
  /\ c.op = "read"     => c.n \in Nat
  /\ c.op = "seek"     => c.at \in Nat
  /\ c.op = "truncate" => q # "append"
  /\ c.op \in {"create", "push"} => HandlerOK(c.handler, G)

FrameData(e, G) ==
  /\ {"kind"} \subseteq DOMAIN e /\ e.kind # "copy"
  /\ e.kind = "method"   => {"todo", "gives"} \subseteq DOMAIN e /\ e.todo \in Seq(G) /\ e.gives \in Lines
  /\ e.kind \in {"create", "push", "draining"} => HandlerOK(e.handler, G)
  /\ e.kind = "draining" => {"handler", "left"} \subseteq DOMAIN e /\ e.left \in Seq(Methods)
StackData(s, G) == \E S : s \in Seq(S) /\ \A e \in S : FrameData(e, G)

(* chan copy calls nothing: it is innermost for as long as it goes on.     *)
CopyFrame(e) ==
  /\ {"kind", "from", "to", "chunk"} \subseteq DOMAIN e /\ e.kind = "copy"
  /\ e.from \in Open /\ e.to \in Open /\ chans[e.to].w /\ e.chunk \in Lines
CopyUnder(G) == \E s, e : active = Append(s, e) /\ StackData(s, G) /\ CopyFrame(e)
ActiveOK(G) == StackData(active, G) \/ CopyUnder(G)

HooksData(G) ==
  /\ \A x \in DOMAIN reflected : {"handler", "eof"} \subseteq DOMAIN reflected[x] /\ HandlerOK(reflected[x].handler, G)
  /\ \A x \in DOMAIN transforms : HandlerOK(transforms[x].handler, G)

Commands(G, q) == program \subseteq G /\ \A c \in G : CommandOK(c, G, q)
DataOK(G, q) == /\ Commands(G, q) /\ TableData(q) /\ HooksData(G)
                /\ result.data \in Lines /\ ActiveOK(G)

(* A program, with the commands its handlers run, has one of the habits.   *)
Proper(p, habits) == \E G : \E q \in habits : p \subseteq G /\ \A c \in G : CommandOK(c, G, q)
Habits == {"append", "write"}
DataInv(habits) == ChannelsOK /\ \E G : \E q \in habits : DataOK(G, q)

StepData(G, q) == Goes(q) /\ HooksData(G)' /\ result'.data \in Lines /\ ActiveOK(G)'

LEMMA DataPush ==
  ASSUME NEW G, NEW s, StackData(s, G), NEW e, FrameData(e, G)
  PROVE  StackData(Append(s, e), G)
<1>1. PICK S : s \in Seq(S) /\ \A d \in S : FrameData(d, G)
  BY DEF StackData
<1>2. s \in Seq(S \cup {e})
  BY <1>1
<1>3. Append(s, e) \in Seq(S \cup {e})
  BY <1>2
<1> QED BY <1>1, <1>3 DEF StackData

LEMMA DataPop ==
  ASSUME NEW G, NEW s, s # <<>>, StackData(s, G)
  PROVE  StackData(Front(s), G) /\ FrameData(s[Len(s)], G)
<1>1. PICK S : s \in Seq(S) /\ \A d \in S : FrameData(d, G)
  BY DEF StackData
<1>2. s[Len(s)] \in S /\ Front(s) \in Seq(S)
  BY <1>1, FrontSeq
<1> QED BY <1>1, <1>2 DEF StackData

Calling == ~Idle => Top.kind = "method" /\ Top.todo # <<>>

LEMMA InnerData ==
  ASSUME NEW G, ActiveOK(G), ~Idle, Top.kind # "copy"
  PROVE  StackData(active, G) /\ StackData(Front(active), G) /\ FrameData(Top, G)
<1>1. ~CopyUnder(G)
  <2> SUFFICES ASSUME NEW s, NEW e, active = Append(s, e), StackData(s, G), CopyFrame(e) PROVE FALSE
    BY DEF CopyUnder
  <2>1. PICK S : s \in Seq(S)
    BY DEF StackData
  <2>2. active[Len(active)] = e
    BY <2>1
  <2> QED BY <2>2 DEF Top, CopyFrame
<1> QED BY <1>1, DataPop DEF ActiveOK, Idle, Top

LEMMA DataBelow ==
  ASSUME NEW G, ActiveOK(G), Calling
  PROVE  StackData(Below, G)
<1>1. CASE Idle
  <2>1. active = <<>> /\ Below = <<>>
    BY <1>1 DEF Below, Idle
  <2>2. Below \in Seq({})
    <3>1. <<>> \in Seq({})
      OBVIOUS
    <3> QED BY <2>1, <3>1
  <2> QED BY <2>2 DEF StackData
<1>2. CASE ~Idle
  <2>1. StackData(active, G) /\ FrameData(Top, G)
    BY <1>2, InnerData DEF Calling
  <2>2. PICK S : active \in Seq(S) /\ \A d \in S : FrameData(d, G)
    BY <2>1 DEF StackData
  <2> DEFINE todo == Tail(Top.todo)
             e == [Top EXCEPT !.todo = todo]
  <2>3. todo \in Seq(G)
    <3>1. Top.todo \in Seq(G) /\ Top.todo # <<>>
      BY <1>2, <2>1 DEF FrameData, Calling
    <3> QED BY <3>1
  <2> HIDE DEF todo
  <2>4. {"kind", "todo", "gives"} \subseteq DOMAIN e /\ e.kind = "method" /\ e.todo = todo /\ e.gives = Top.gives
    BY <1>2, <2>1 DEF FrameData, Calling
  <2>5. Below = [active EXCEPT ![Len(active)] = e]
    BY <1>2 DEF Below, InTop, todo
  <2> HIDE DEF e
  <2>6. FrameData(e, G)
    BY <1>2, <2>1, <2>3, <2>4 DEF FrameData, Calling
  <2>7. active \in Seq(S \cup {e})
    BY <2>2
  <2>8. Below \in Seq(S \cup {e})
    <3>1. e \in S \cup {e} /\ Len(active) \in 1 .. Len(active)
      BY <1>2, <2>7 DEF Idle
    <3> QED BY <2>5, <2>7, <3>1, ExceptSeq
  <2> QED BY <2>2, <2>6, <2>8 DEF StackData
<1> QED BY <1>1, <1>2

LEMMA MethodData ==
  ASSUME NEW G, NEW of, NEW h, HandlerOK(h, G), NEW m \in Methods
  PROVE  FrameData(Method(of, h, m), G)
<1> DEFINE e == Method(of, h, m)
<1>1. /\ {"kind", "todo", "gives"} \subseteq DOMAIN e
      /\ e.kind = "method" /\ e.todo = h.acts[m] /\ e.gives = h.gives[m]
  BY DEF Method
<1> HIDE DEF e
<1> QED BY <1>1 DEF FrameData, HandlerOK, e

LEMMA InvokeData ==
  ASSUME NEW G, NEW under, StackData(under, G), NEW waits, FrameData(waits, G),
         NEW of, NEW h, HandlerOK(h, G), NEW m \in Methods, Invoke(under, waits, of, h, m)
  PROVE  ActiveOK(G)' /\ result'.data \in Lines
<1> DEFINE e == Method(of, h, m)
<1>1. FrameData(e, G)
  BY MethodData
<1>2. active' = under \o <<waits, e>> /\ result'.data = <<>>
  BY DEF Invoke, Result
<1> HIDE DEF e
<1>3. active' = Append(Append(under, waits), e)
  <2>1. PICK S : under \in Seq(S)
    BY DEF StackData
  <2>2. under \in Seq(S \cup {waits, e})
    BY <2>1
  <2> QED BY <1>2, <2>2
<1>4. StackData(Append(Append(under, waits), e), G)
  BY <1>1, DataPush
<1>5. StackData(active, G)'
  BY <1>3, <1>4 DEF StackData
<1> QED BY <1>2, <1>5, NoLines DEF ActiveOK

LEMMA AppendedFront ==
  ASSUME NEW S, NEW s \in Seq(S), NEW e \in S
  PROVE  Front(Append(s, e)) = s
<1> DEFINE t == Append(s, e)
<1>1. t \in Seq(S) /\ t # <<>> /\ Len(t) = Len(s) + 1 /\ \A i \in 1 .. Len(s) : t[i] = s[i]
  BY AppendProperties
<1> HIDE DEF t
<1>2. Front(t) \in Seq(S) /\ Len(Front(t)) = Len(s) /\ \A i \in 1 .. Len(s) : Front(t)[i] = s[i]
  BY <1>1, FrontSeq
<1> QED BY <1>2, SeqEqual DEF t

(* How a command ends, and one that waited for a method.                   *)
LEMMA AnswerData ==
  ASSUME NEW G, ActiveOK(G), Calling, active' = Below
  PROVE  ActiveOK(G)'
<1>1. StackData(Below, G)
  BY DataBelow
<1> QED BY <1>1 DEF ActiveOK, StackData

LEMMA FinishData ==
  ASSUME NEW G, ActiveOK(G), ~Idle, active' = Front(active)
  PROVE  ActiveOK(G)'
<1>1. StackData(Front(active), G)
  <2>1. CASE StackData(active, G)
    BY <2>1, DataPop DEF Idle
  <2>2. CASE CopyUnder(G)
    <3>1. PICK s, e : active = Append(s, e) /\ StackData(s, G)
      BY <2>2 DEF CopyUnder
    <3>2. PICK S : s \in Seq(S)
      BY <3>1 DEF StackData
    <3>3. s \in Seq(S \cup {e})
      BY <3>2
    <3>4. Front(active) = s
      BY <3>1, <3>3, AppendedFront
    <3> QED BY <3>1, <3>4
  <2> QED BY <2>1, <2>2 DEF ActiveOK
<1> QED BY <1>1 DEF ActiveOK, StackData

SameReflected == UNCHANGED <<reflected, transforms>>
LEMMA SameHooksData ==
  ASSUME NEW G, HooksData(G), SameReflected
  PROVE  HooksData(G)'
BY DEF HooksData, SameReflected

LEMMA LessHooksData ==
  ASSUME NEW G, HooksData(G), NEW id
  PROVE  /\ transforms' = Without(transforms, id) /\ UNCHANGED reflected => HooksData(G)'
         /\ reflected' = Without(reflected, id) /\ UNCHANGED transforms => HooksData(G)'
BY DEF HooksData, Without

-----------------------------------------------------------------------------
(* The commands.                                                           *)

LEMMA RefusedData ==
  ASSUME NEW G, NEW q, DataOK(G, q), Calling,
         UNCHANGED <<tables, hooks, stores>>, \E code : Answer(code, <<>>)
  PROVE  StepData(G, q)
<1>1. UNCHANGED <<chans, nextId>> /\ UNCHANGED stores /\ SameReflected
  BY DEF tables, hooks, SameReflected
<1>2. active' = Below /\ result'.data = <<>>
  BY DEF Answer, Result
<1> QED BY <1>1, <1>2, SameTable, SameHooksData, AnswerData, NoLines DEF DataOK, StepData

(* A command that only changes the table.                                  *)
LEMMA AnsweredData ==
  ASSUME NEW G, NEW q, DataOK(G, q), Calling, Goes(q), UNCHANGED hooks,
         NEW code, NEW data \in Lines, Answer(code, data)
  PROVE  StepData(G, q)
<1>1. active' = Below /\ result'.data = data /\ SameReflected
  BY DEF Answer, Result, hooks, SameReflected
<1> QED BY <1>1, SameHooksData, AnswerData DEF DataOK, StepData

LEMMA OpenData ==
  ASSUME NEW G, NEW q, DataOK(G, q), Calling, NEW c, CommandOK(c, G, q),
         \/ c.op = "open" /\ OpenFile(c)
         \/ OpenPipe(c)
         \/ ChanPipe(c)
  PROVE  StepData(G, q)
<1>0. TableData(q)
  BY DEF DataOK
<1>1. UNCHANGED hooks /\ Answer("ok", <<>>)
  BY DEF OpenFile, OpenPipe, ChanPipe
<1>2. CASE c.op = "open" /\ OpenFile(c)
  <2>1. /\ nextId' = nextId + 1 /\ UNCHANGED stores
        /\ Register(File(nextId), [NewChan("file", c.r, c.w, 0) EXCEPT !.append = c.append])
    BY <1>2 DEF OpenFile
  <2>2. Opens(c.w, c.append, q)
    BY <1>2 DEF CommandOK
  <2>3. Goes(q)
    BY <1>0, <2>1, <2>2, OpenedTable
  <2> QED BY <1>1, <2>3, AnsweredData, NoLines
<1>3. CASE OpenPipe(c)
  <2>1. PICK pid : Register(File(pid), NewChan("child", c.r, c.w, pid))
    BY <1>3 DEF OpenPipe
  <2>2. UNCHANGED stores /\ UNCHANGED nextId
    BY <1>3 DEF OpenPipe, stores
  <2>3. Goes(q)
    BY <1>0, <2>1, <2>2, OtherTable
  <2> QED BY <1>1, <2>3, AnsweredData, NoLines
<1>4. CASE ChanPipe(c)
  BY <1>0, <1>1, <1>4, PipedTable, AnsweredData, NoLines
<1> QED BY <1>2, <1>3, <1>4

(* A command that calls a handler, and leaves the table as it is.          *)
LEMMA CalledData ==
  ASSUME NEW G, NEW q, DataOK(G, q), Calling, UNCHANGED tables, UNCHANGED stores, HooksData(G)',
         NEW waits, FrameData(waits, G), NEW of, NEW h, HandlerOK(h, G), NEW m \in Methods,
         Invoke(Below, waits, of, h, m)
  PROVE  StepData(G, q)
<1>1. Goes(q)
  BY SameTable DEF DataOK, tables
<1>2. StackData(Below, G)
  BY DataBelow DEF DataOK
<1>3. ActiveOK(G)' /\ result'.data \in Lines
  BY <1>2, InvokeData
<1> QED BY <1>1, <1>3 DEF StepData

LEMMA MethodNames == {"initialize", "finalize", "write", "read", "drain", "flush"} \subseteq Methods
BY DEF Methods

LEMMA CreateData ==
  ASSUME NEW G, NEW q, DataOK(G, q), Calling, NEW c, CommandOK(c, G, q),
         c.op = "create" /\ Create(c)
  PROVE  StepData(G, q)
<1> DEFINE h == <<"rc", handles.rc>>
           w == [kind |-> "create", of |-> h, handler |-> c.handler, r |-> c.r, w |-> c.w]
<1>1. UNCHANGED tables /\ UNCHANGED stores /\ SameReflected /\ Invoke(Below, w, h, c.handler, "initialize")
  BY DEF Create, SameReflected
<1>2. {"kind"} \subseteq DOMAIN w /\ w.kind = "create" /\ w.handler = c.handler
  OBVIOUS
<1> HIDE DEF w, h
<1>3. HandlerOK(c.handler, G)
  BY DEF CommandOK
<1>4. FrameData(w, G)
  BY <1>2, <1>3 DEF FrameData
<1>5. HooksData(G)'
  BY <1>1, SameHooksData DEF DataOK
<1> QED BY <1>1, <1>3, <1>4, <1>5, CalledData, MethodNames

LEMMA PushData ==
  ASSUME NEW G, NEW q, DataOK(G, q), Calling, NEW c, CommandOK(c, G, q),
         c.op = "push" /\ Push(c)
  PROVE  StepData(G, q)
<1> DEFINE h == <<"rt", handles.rt>>
           w == [kind |-> "push", id |-> c.id, of |-> h, handler |-> c.handler]
<1>1. CASE Fail /\ UNCHANGED <<tables, hooks, stores>>
  BY <1>1, RefusedData DEF Fail
<1>2. CASE /\ Invoke(Below, w, h, c.handler, "initialize")
           /\ UNCHANGED <<tables, reflected, transforms, stores>>
  <2>1. UNCHANGED tables /\ UNCHANGED stores /\ SameReflected /\ Invoke(Below, w, h, c.handler, "initialize")
    BY <1>2 DEF SameReflected
  <2>2. {"kind"} \subseteq DOMAIN w /\ w.kind = "push" /\ w.handler = c.handler
    OBVIOUS
  <2> HIDE DEF w, h
  <2>3. HandlerOK(c.handler, G)
    BY DEF CommandOK
  <2>4. FrameData(w, G)
    BY <2>2, <2>3 DEF FrameData
  <2>5. HooksData(G)'
    BY <2>1, SameHooksData DEF DataOK
  <2> QED BY <2>1, <2>3, <2>4, <2>5, CalledData, MethodNames
<1> QED BY <1>1, <1>2 DEF Push

LEMMA PopData ==
  ASSUME NEW G, NEW q, DataOK(G, q), Calling, NEW c, Pop(c)
  PROVE  StepData(G, q)
<1>1. /\ transforms' = Without(transforms, c.id) /\ UNCHANGED reflected
      /\ UNCHANGED <<chans, nextId>> /\ UNCHANGED stores /\ active' = Below /\ result'.data = <<>>
  BY DEF Pop, Answer, Result, tables
<1>2. HooksData(G)'
  BY <1>1, LessHooksData DEF DataOK
<1> QED BY <1>1, <1>2, SameTable, AnswerData, NoLines DEF DataOK, StepData

LEMMA DroppedSeq ==
  ASSUME NEW S, NEW s \in Seq(S), NEW gone
  PROVE  Dropped(s, gone) \in Seq(S)
<1>1. Dropped(s, gone) = Filtered(s, gone)
  BY DEF Dropped, Filtered
<1> QED BY <1>1, FilteredSeq

LEMMA CloseData ==
  ASSUME NEW G, NEW q, DataOK(G, q), Calling, NEW c, Close(c)
  PROVE  StepData(G, q)
<1>1. CASE Fail /\ UNCHANGED <<tables, hooks, stores>>
  BY <1>1, RefusedData DEF Fail
<1>2. CASE CloseReflected(c)
  <2> DEFINE w == [kind |-> "finalizing", id |-> c.id]
             h == reflected[c.id].handler
  <2>1. /\ UNCHANGED tables /\ UNCHANGED stores /\ c.id \in DOMAIN reflected
        /\ reflected' = Without(reflected, c.id) /\ UNCHANGED transforms
        /\ Invoke(Below, w, c.id, h, "finalize")
    BY <1>2 DEF CloseReflected
  <2>2. FrameData(w, G)
    BY DEF FrameData
  <2>3. HandlerOK(h, G)
    BY <2>1 DEF DataOK, HooksData
  <2>4. HooksData(G)'
    BY <2>1, LessHooksData DEF DataOK
  <2> HIDE DEF w, h
  <2> QED BY <2>1, <2>2, <2>3, <2>4, CalledData, MethodNames
<1>3. CASE /\ c.id \in DOMAIN transforms /\ transforms' = Without(transforms, c.id)
           /\ UNCHANGED <<tables, handles, reflected, finalized, stores>> /\ Result("ok", <<>>)
           /\ LET t == transforms[c.id]
              IN  active' = Append(Below, [kind |-> "draining", id |-> c.id, of |-> t.of, handler |-> t.handler,
                                             left |-> Dropped(Closing, Range(Closing) \ t.handler.methods)])
  <2> DEFINE h == transforms[c.id].handler
             left == Dropped(Closing, Range(Closing) \ h.methods)
             w == [kind |-> "draining", id |-> c.id, of |-> transforms[c.id].of, handler |-> h, left |-> left]
  <2>1. active' = Append(Below, w)
    BY <1>3
  <2>2. Closing \in Seq(Methods)
    BY DEF Closing, Methods
  <2>3. left \in Seq(Methods)
    BY <2>2, DroppedSeq
  <2>4. HandlerOK(h, G)
    BY <1>3 DEF DataOK, HooksData
  <2> HIDE DEF left, h
  <2>5. {"kind", "handler", "left"} \subseteq DOMAIN w /\ w.kind = "draining" /\ w.handler = h /\ w.left = left
    OBVIOUS
  <2> HIDE DEF w
  <2>6. FrameData(w, G)
    BY <2>3, <2>4, <2>5 DEF FrameData
  <2>7. StackData(Append(Below, w), G)
    BY <2>6, DataBelow, DataPush DEF DataOK
  <2>8. ActiveOK(G)'
    BY <2>1, <2>7 DEF ActiveOK, StackData
  <2>9. HooksData(G)' /\ UNCHANGED <<chans, nextId>> /\ UNCHANGED stores /\ result'.data = <<>>
    BY <1>3, LessHooksData DEF DataOK, tables, Result
  <2> QED BY <2>8, <2>9, SameTable, NoLines DEF DataOK, StepData
<1>4. CASE c.id \in Open /\ Shut(c.id) /\ Answer("ok", <<>>) /\ UNCHANGED hooks
  BY <1>4, ShutTable, AnsweredData, NoLines DEF DataOK
<1> QED BY <1>1, <1>2, <1>3, <1>4 DEF Close

LEMMA HalfCloseData ==
  ASSUME NEW G, NEW q, DataOK(G, q), Calling, NEW c, HalfClose(c)
  PROVE  StepData(G, q)
<1>1. CASE Fail /\ UNCHANGED <<tables, hooks, stores>>
  BY <1>1, RefusedData DEF Fail
<1> QED BY <1>1, CloseData DEF HalfClose

LEMMA PutsData ==
  ASSUME NEW G, NEW q, DataOK(G, q), Calling, NEW c, CommandOK(c, G, q),
         c.op = "puts" /\ Puts(c)
  PROVE  StepData(G, q)
<1>1. CASE Fail /\ UNCHANGED <<tables, hooks, stores>>
  BY <1>1, RefusedData DEF Fail
<1>2. ASSUME NEW w, FrameData(w, G), NEW of, NEW h, HandlerOK(h, G), Invoke(Below, w, of, h, "write"),
             SameHooks, UNCHANGED <<tables, stores>>
      PROVE  StepData(G, q)
  <2>1. HooksData(G)'
    BY <1>2, SameHooksData DEF DataOK, SameHooks, SameReflected
  <2> QED BY <1>2, <2>1, CalledData, MethodNames
<1>3. FrameData([kind |-> "puts", id |-> c.id], G) /\ FrameData([kind |-> "filtered", id |-> c.id], G)
  BY DEF FrameData
<1>4. CASE /\ c.id \in DOMAIN reflected /\ SameHooks /\ UNCHANGED <<tables, stores>>
           /\ Invoke(Below, [kind |-> "puts", id |-> c.id], c.id, reflected[c.id].handler, "write")
  <2>1. HandlerOK(reflected[c.id].handler, G)
    BY <1>4 DEF DataOK, HooksData
  <2> QED BY <1>2, <1>3, <1>4, <2>1
<1>5. CASE /\ c.id \in DOMAIN transforms /\ SameHooks /\ UNCHANGED <<tables, stores>>
           /\ Invoke(Below, [kind |-> "filtered", id |-> c.id], transforms[c.id].of, transforms[c.id].handler, "write")
  <2>1. HandlerOK(transforms[c.id].handler, G)
    BY <1>5 DEF DataOK, HooksData
  <2> QED BY <1>2, <1>3, <1>5, <2>1
<1>6. CASE /\ c.id \in Open /\ chans[c.id].w /\ Write(chans[c.id], c.id, c.data)
           /\ Answer("ok", <<>>) /\ UNCHANGED <<order, nextId, hooks>>
  <2>1. c.data \in Lines
    BY DEF CommandOK
  <2>2. Goes(q)
    BY <1>6, <2>1, WrittenTable DEF DataOK
  <2> QED BY <1>6, <2>2, AnsweredData, NoLines
<1> QED BY <1>1, <1>4, <1>5, <1>6 DEF Puts

LEMMA TakeData ==
  ASSUME NEW q, TableData(q), NEW c, c.n \in Nat, c.id \in Open, Take(c),
         UNCHANGED nextId, UNCHANGED stores
  PROVE  Goes(q) /\ Taken(c) \in Lines
<1> DEFINE ch == chans[c.id]
           e == IF ReadsAll(c) THEN AfterAll(ch) ELSE After(ch, Count(c))
<1>1. ChanOK(ch) /\ StoresOK
  BY DEF TableData, EachOK
<1>2. Count(c) \in Nat
  BY <1>1 DEF Count, StoresOK, BuffersOK
<1>3. Taken(c) \in Lines /\ Moved(ch, e)
  BY <1>1, <1>2, AfterMoved, AfterAllMoved DEF Taken
<1>4. chans' = [chans EXCEPT ![c.id] = e]
  BY DEF Take
<1> HIDE DEF e
<1> QED BY <1>3, <1>4, TouchedTable

LEMMA ReadData ==
  ASSUME NEW G, NEW q, DataOK(G, q), Calling, NEW c, CommandOK(c, G, q),
         c.op = "read" /\ Read(c)
  PROVE  StepData(G, q)
<1>0. c.n \in Nat /\ TableData(q)
  BY DEF CommandOK, DataOK
<1>1. CASE Fail /\ UNCHANGED <<tables, hooks, stores>>
  BY <1>1, RefusedData DEF Fail
<1>2. CASE /\ c.id \in DOMAIN reflected /\ SameHooks /\ UNCHANGED <<tables, stores>>
           /\ Invoke(Below, [kind |-> "answering", id |-> c.id, line |-> c.line], c.id,
                     reflected[c.id].handler, "read")
  <2>1. PICK w : w = [kind |-> "answering", id |-> c.id, line |-> c.line]
    OBVIOUS
  <2>2. FrameData(w, G)
    BY <2>1 DEF FrameData
  <2>3. HandlerOK(reflected[c.id].handler, G)
    BY <1>2 DEF DataOK, HooksData
  <2>4. HooksData(G)'
    BY <1>2, SameHooksData DEF DataOK, SameHooks, SameReflected
  <2>5. Invoke(Below, w, c.id, reflected[c.id].handler, "read")
    BY <1>2, <2>1
  <2> QED BY <1>2, <2>2, <2>3, <2>4, <2>5, CalledData, MethodNames
<1>3. ASSUME c.id \in Open, Take(c), UNCHANGED <<order, nextId>>, SameHooks, UNCHANGED stores
      PROVE  Goes(q) /\ Taken(c) \in Lines /\ HooksData(G)'
  <2>1. HooksData(G)'
    BY <1>3, SameHooksData DEF DataOK, SameHooks, SameReflected
  <2> QED BY <1>0, <1>3, <2>1, TakeData
<1>4. CASE /\ c.id \in Open /\ Take(c) /\ UNCHANGED <<order, nextId>> /\ SameHooks /\ UNCHANGED stores
           /\ Answer("ok", Taken(c))
  <2>1. active' = Below /\ result'.data = Taken(c)
    BY <1>4 DEF Answer, Result
  <2> QED BY <1>3, <1>4, <2>1, AnswerData DEF DataOK, StepData
<1>5. CASE /\ c.id \in Open /\ Take(c) /\ UNCHANGED <<order, nextId>> /\ SameHooks /\ UNCHANGED stores
           /\ c.id \in DOMAIN transforms
           /\ Invoke(Below, [kind |-> "through"], transforms[c.id].of, transforms[c.id].handler, "read")
  <2>1. HandlerOK(transforms[c.id].handler, G) /\ FrameData([kind |-> "through"], G)
    BY <1>5 DEF DataOK, HooksData, FrameData
  <2>2. StackData(Below, G)
    BY DataBelow DEF DataOK
  <2>3. ActiveOK(G)' /\ result'.data \in Lines
    BY <1>5, <2>1, <2>2, InvokeData, MethodNames
  <2> QED BY <1>3, <1>5, <2>3 DEF StepData
<1> QED BY <1>1, <1>2, <1>4, <1>5 DEF Read, Transformed

LEMMA CopyData ==
  ASSUME NEW G, NEW q, DataOK(G, q), Calling, NEW c, Copy(c)
  PROVE  StepData(G, q)
<1>1. CASE Fail /\ UNCHANGED <<tables, hooks, stores>>
  BY <1>1, RefusedData DEF Fail
<1>2. CASE /\ c.from \in Open /\ c.to \in Open /\ chans[c.to].w
           /\ active' = Append(Below, [kind |-> "copy", from |-> c.from, to |-> c.to, chunk |-> <<>>])
           /\ Result("ok", <<>>) /\ UNCHANGED <<tables, hooks, stores>>
  <2>1. PICK s, w : s = Below /\ w = [kind |-> "copy", from |-> c.from, to |-> c.to, chunk |-> <<>>]
    OBVIOUS
  <2>2. StackData(s, G)
    BY <2>1, DataBelow DEF DataOK
  <2>3. /\ {"kind", "from", "to", "chunk"} \subseteq DOMAIN w /\ w.kind = "copy"
        /\ w.from = c.from /\ w.to = c.to /\ w.chunk = <<>>
    BY <2>1
  <2>4. chans' = chans /\ UNCHANGED nextId /\ UNCHANGED stores /\ SameReflected /\ result'.data = <<>>
    BY <1>2 DEF tables, hooks, SameReflected, Result
  <2>5. CopyFrame(w)'
    BY <1>2, <2>3, <2>4, NoLines DEF CopyFrame, Open
  <2>6. CopyUnder(G)'
    BY <1>2, <2>1, <2>2, <2>5 DEF CopyUnder, StackData
  <2> QED BY <2>4, <2>6, SameTable, SameHooksData, NoLines DEF DataOK, StepData, ActiveOK
<1> QED BY <1>1, <1>2 DEF Copy

LEMMA SeekData ==
  ASSUME NEW G, NEW q, DataOK(G, q), Calling, NEW c, CommandOK(c, G, q),
         c.op = "seek" /\ Seek(c)
  PROVE  StepData(G, q)
<1>0. TableData(q) /\ UNCHANGED nextId /\ UNCHANGED stores /\ UNCHANGED hooks
  BY DEF DataOK, Seek
<1>1. \E code : Answer(code, <<>>)
  BY DEF Seek
<1>2. Goes(q)
  <2>1. CASE UNCHANGED chans
    BY <1>0, <2>1, SameTable
  <2>2. CASE /\ c.id \in Open /\ chans[c.id].kind = "file" /\ (c.here => Stands(chans[c.id]) >= 0)
             /\ chans' = [chans EXCEPT ![c.id] = Settled(@, IF c.here THEN Stands(@) ELSE c.at)]
    <3> DEFINE ch == chans[c.id]
    <3>1. PICK at, e : at = (IF c.here THEN Stands(ch) ELSE c.at) /\ e = Settled(ch, at)
      OBVIOUS
    <3>2. chans' = [chans EXCEPT ![c.id] = e]
      BY <2>2, <3>1
    <3>3. ChanOK(ch)
      BY <1>0, <2>2 DEF TableData, EachOK
    <3>4. at \in Nat
      <4>1. ch.pos \in Nat /\ Len(ch.buf) \in Nat
        BY <3>3, LinesLen DEF ChanOK
      <4>2. c.here => Stands(ch) \in Nat
        BY <2>2, <4>1 DEF Stands
      <4> QED BY <3>1, <4>2 DEF CommandOK
    <3>5. Moved(ch, e)
      BY <2>2, <3>1, <3>3, <3>4, SettledMoved DEF DataOK, TableData, StoresOK
    <3> QED BY <1>0, <3>2, <3>5, TouchedTable
  <2> QED BY <2>1, <2>2 DEF Seek
<1> QED BY <1>0, <1>1, <1>2, AnsweredData, NoLines

LEMMA AskData ==
  ASSUME NEW G, NEW q, DataOK(G, q), Calling, NEW c, CommandOK(c, G, q),
         Eof(c) \/ (c.op = "truncate" /\ Truncate(c))
  PROVE  StepData(G, q)
<1>1. CASE Eof(c)
  <2>1. (\E code : Answer(code, <<>>)) /\ UNCHANGED <<tables, hooks, stores>>
    BY <1>1 DEF Eof, Fail
  <2> QED BY <2>1, RefusedData
<1>2. CASE c.op = "truncate" /\ Truncate(c)
  <2>1. UNCHANGED <<chans, nextId, pipes>> /\ UNCHANGED hooks /\ \E code : Answer(code, <<>>)
    BY <1>2 DEF Truncate, Fail, tables
  <2>2. q # "append"
    BY <1>2 DEF CommandOK
  <2>3. Goes(q)
    <3>1. CASE file' = <<>>
      BY <2>1, <2>2, <3>1, TruncatedTable DEF DataOK
    <3>2. CASE UNCHANGED file
      BY <2>1, <3>2, SameTable DEF DataOK, stores
    <3> QED BY <1>2, <3>1, <3>2 DEF Truncate
  <2> QED BY <2>1, <2>3, AnsweredData, NoLines
<1> QED BY <1>1, <1>2

LEMMA DoData ==
  ASSUME NEW G, NEW q, DataOK(G, q), Calling, NEW c, CommandOK(c, G, q), Do(c)
  PROVE  StepData(G, q)
BY OpenData, CreateData, PushData, PopData, CloseData, HalfCloseData, PutsData, ReadData, CopyData, SeekData,
   AskData DEF Do

-----------------------------------------------------------------------------
(* What waited for a method, or a copy, goes on.                           *)

LEMMA FinishedData ==
  ASSUME NEW G, NEW q, DataOK(G, q), ~Idle, Goes(q), HooksData(G)',
         NEW code, NEW data \in Lines, Finish(code, data)
  PROVE  StepData(G, q)
<1>1. active' = Front(active) /\ result'.data = data
  BY DEF Finish, Result
<1> QED BY <1>1, FinishData DEF DataOK, StepData

LEMMA TopData ==
  ASSUME NEW G, NEW q, DataOK(G, q), NEW kind, kind # "copy", Waiting(kind)
  PROVE  ~Idle /\ Top.kind = kind /\ FrameData(Top, G) /\ StackData(Front(active), G)
BY InnerData DEF DataOK, Waiting

LEMMA MethodEndsData ==
  ASSUME NEW G, NEW q, DataOK(G, q), MethodEnds
  PROVE  StepData(G, q)
<1>1. ~Idle /\ Top.kind = "method" /\ UNCHANGED <<tables, hooks, stores>>
  BY DEF MethodEnds
<1>2. Top.gives \in Lines
  BY <1>1, TopData DEF Waiting, FrameData
<1>3. Goes(q)
  BY <1>1, SameTable DEF DataOK, tables
<1>4. HooksData(G)'
  BY <1>1, SameHooksData DEF DataOK, hooks, SameReflected
<1>5. Finish("error", <<>>) \/ Finish("ok", Top.gives)
  BY DEF MethodEnds
<1> QED BY <1>1, <1>2, <1>3, <1>4, <1>5, FinishedData, NoLines

LEMMA CreatedData ==
  ASSUME ChannelsOK, NEW G, NEW q, DataOK(G, q), Created
  PROVE  StepData(G, q)
<1>0. ~Idle /\ Top.kind = "create" /\ FrameData(Top, G) /\ TableData(q) /\ HooksData(G)
  BY TopData DEF Created, DataOK
<1>1. CASE Finish("error", <<>>) /\ UNCHANGED <<tables, reflected>>
  <2>1. UNCHANGED <<chans, nextId>> /\ UNCHANGED stores /\ SameReflected
    BY <1>1 DEF Created, tables, SameReflected
  <2> QED BY <1>0, <1>1, <2>1, SameTable, SameHooksData, FinishedData, NoLines
<1>2. CASE /\ Register(Top.of, NewChan("reflected", Top.r, Top.w, 0))
           /\ reflected' = With(reflected, Top.of, [handler |-> Top.handler, eof |-> FALSE])
           /\ Finish("ok", <<>>) /\ UNCHANGED nextId
  <2>1. Top.of \in Rcs
    BY <1>0, PopStack, KindsOfNames DEF ChannelsOK, Idle, Top, FrameOK
  <2>2. UNCHANGED stores /\ UNCHANGED transforms
    BY DEF Created
  <2>3. Goes(q)
    BY <1>0, <1>2, <2>1, <2>2, OtherTable
  <2>4. HooksData(G)'
    <3>1. PICK of, v : of = Top.of /\ v = [handler |-> Top.handler, eof |-> FALSE]
      OBVIOUS
    <3>2. {"handler", "eof"} \subseteq DOMAIN v /\ v.handler = Top.handler /\ HandlerOK(Top.handler, G)
      BY <1>0, <3>1 DEF FrameData
    <3>3. \A x \in DOMAIN reflected' : reflected'[x] = v \/ (x \in DOMAIN reflected /\ reflected'[x] = reflected[x])
      BY <1>2, <3>1 DEF With
    <3> QED BY <1>0, <2>2, <3>2, <3>3 DEF HooksData
  <2> QED BY <1>0, <1>2, <2>3, <2>4, FinishedData, NoLines
<1> QED BY <1>1, <1>2 DEF Created

LEMMA PushedData ==
  ASSUME NEW G, NEW q, DataOK(G, q), Pushed
  PROVE  StepData(G, q)
<1>0. ~Idle /\ Top.kind = "push" /\ FrameData(Top, G) /\ TableData(q) /\ HooksData(G)
  BY TopData DEF Pushed, DataOK
<1>1. UNCHANGED <<chans, nextId>> /\ UNCHANGED stores /\ UNCHANGED reflected
  BY DEF Pushed, tables
<1>2. Goes(q)
  BY <1>0, <1>1, SameTable
<1>3. HooksData(G)'
  <2>1. CASE UNCHANGED transforms
    BY <1>0, <1>1, <2>1, SameHooksData DEF SameReflected
  <2>2. CASE transforms' = With(transforms, Top.id, [of |-> Top.of, handler |-> Top.handler])
    <3>1. PICK id, v : id = Top.id /\ v = [of |-> Top.of, handler |-> Top.handler]
      OBVIOUS
    <3>2. v.handler = Top.handler /\ HandlerOK(Top.handler, G)
      BY <1>0, <3>1 DEF FrameData
    <3>3. \A x \in DOMAIN transforms' : transforms'[x] = v \/ (x \in DOMAIN transforms /\ transforms'[x] = transforms[x])
      BY <2>2, <3>1 DEF With
    <3> QED BY <1>0, <1>1, <3>2, <3>3 DEF HooksData
  <2> QED BY <2>1, <2>2 DEF Pushed
<1>4. \E code : Finish(code, <<>>)
  BY DEF Pushed
<1> QED BY <1>0, <1>2, <1>3, <1>4, FinishedData, NoLines

LEMMA ShutsData ==
  ASSUME NEW G, NEW q, DataOK(G, q), ~Idle, Shuts, HooksData(G)'
  PROVE  StepData(G, q)
<1>1. Goes(q)
  <2>1. CASE Top.id \in Open
    BY <2>1, ShutTable DEF DataOK, Shuts
  <2>2. CASE Top.id \notin Open
    BY <2>2, SameTable DEF DataOK, Shuts, tables
  <2> QED BY <2>1, <2>2
<1>2. \E code : Finish(code, <<>>)
  BY DEF Shuts
<1> QED BY <1>1, <1>2, FinishedData, NoLines

LEMMA FinalizedData ==
  ASSUME NEW G, NEW q, DataOK(G, q), Finalized
  PROVE  StepData(G, q)
<1>0. ~Idle /\ TableData(q) /\ HooksData(G) /\ UNCHANGED reflected
  BY DEF Finalized, Waiting, DataOK
<1>1. CASE Finish("error", <<>>) /\ UNCHANGED <<transforms, tables, stores>>
  <2>1. UNCHANGED <<chans, nextId>> /\ UNCHANGED stores /\ SameReflected
    BY <1>0, <1>1 DEF tables, SameReflected
  <2> QED BY <1>0, <1>1, <2>1, SameTable, SameHooksData, FinishedData, NoLines
<1>2. CASE transforms' = Without(transforms, Top.id) /\ Shuts
  <2>1. HooksData(G)'
    BY <1>0, <1>2, LessHooksData
  <2> QED BY <1>0, <1>2, <2>1, ShutsData
<1> QED BY <1>1, <1>2 DEF Finalized

LEMMA DrainedData ==
  ASSUME NEW G, NEW q, DataOK(G, q), Drained
  PROVE  StepData(G, q)
<1>0. ~Idle /\ Top.kind = "draining" /\ FrameData(Top, G) /\ StackData(Front(active), G)
      /\ TableData(q) /\ HooksData(G) /\ SameReflected
  BY TopData DEF Drained, DataOK, SameReflected
<1>1. HooksData(G)'
  BY <1>0, SameHooksData
<1>2. CASE Shuts
  BY <1>0, <1>1, <1>2, ShutsData
<1>3. CASE /\ Top.left # <<>> /\ UNCHANGED <<tables, stores>>
           /\ Invoke(Front(active), [Top EXCEPT !.left = Tail(@)], Top.of, Top.handler, Head(Top.left))
  <2>1. PICK left, w, m : left = Tail(Top.left) /\ w = [Top EXCEPT !.left = left] /\ m = Head(Top.left)
    OBVIOUS
  <2>2. /\ {"kind", "handler", "left"} \subseteq DOMAIN Top /\ Top.left \in Seq(Methods)
        /\ HandlerOK(Top.handler, G)
    BY <1>0 DEF FrameData
  <2>3. left \in Seq(Methods) /\ m \in Methods
    BY <1>3, <2>1, <2>2
  <2>4. /\ {"kind", "handler", "left"} \subseteq DOMAIN w /\ w.kind = "draining"
        /\ w.handler = Top.handler /\ w.left = left
    BY <1>0, <2>1, <2>2
  <2>5. FrameData(w, G)
    BY <2>2, <2>3, <2>4 DEF FrameData
  <2>6. Invoke(Front(active), w, Top.of, Top.handler, m)
    BY <1>3, <2>1
  <2>7. ActiveOK(G)' /\ result'.data \in Lines
    BY <1>0, <2>2, <2>3, <2>5, <2>6, InvokeData
  <2>8. Goes(q)
    BY <1>0, <1>3, SameTable DEF tables
  <2> QED BY <1>1, <2>7, <2>8 DEF StepData
<1> QED BY <1>2, <1>3 DEF Drained

LEMMA PuttingData ==
  ASSUME NEW G, NEW q, DataOK(G, q), PutText \/ PutNewline \/ PutFiltered
  PROVE  StepData(G, q)
<1>0. TableData(q) /\ HooksData(G) /\ result.data \in Lines /\ ~Idle
  BY DEF DataOK, PutText, PutNewline, PutFiltered, Waiting
<1>1. SameReflected
  BY DEF PutText, PutNewline, PutFiltered, SameHooks, hooks, SameReflected
<1>2. HooksData(G)'
  BY <1>0, <1>1, SameHooksData
<1>3. CASE PutText
  <2>1. Goes(q)
    BY <1>0, <1>3, SameTable DEF PutText, tables
  <2>2. CASE Finish(result.code, <<>>)
    BY <1>0, <1>2, <2>1, <2>2, FinishedData, NoLines
  <2>3. CASE /\ Top.id \in DOMAIN reflected
             /\ Invoke(Front(active), [kind |-> "newline"], Top.id, reflected[Top.id].handler, "write")
    <3>1. StackData(Front(active), G)
      BY <1>3, TopData DEF PutText
    <3>2. FrameData([kind |-> "newline"], G)
      BY DEF FrameData
    <3>3. HandlerOK(reflected[Top.id].handler, G)
      BY <1>0, <2>3 DEF HooksData
    <3>4. ActiveOK(G)' /\ result'.data \in Lines
      BY <2>3, <3>1, <3>2, <3>3, InvokeData, MethodNames
    <3> QED BY <1>2, <2>1, <3>4 DEF StepData
  <2> QED BY <1>3, <2>2, <2>3 DEF PutText
<1>4. CASE PutNewline
  BY <1>0, <1>2, <1>4, SameTable, FinishedData, NoLines DEF PutNewline, tables
<1>5. CASE PutFiltered
  <2>1. Goes(q)
    <3>1. CASE Top.id \in Open /\ chans[Top.id].w /\ Write(chans[Top.id], Top.id, result.data)
      BY <1>0, <1>5, <3>1, WrittenTable DEF PutFiltered
    <3>2. CASE UNCHANGED <<chans, stores>>
      BY <1>0, <1>5, <3>2, SameTable DEF PutFiltered
    <3> QED BY <1>5, <3>1, <3>2 DEF PutFiltered
  <2>2. \E code : Finish(code, <<>>)
    BY <1>5 DEF PutFiltered
  <2> QED BY <1>0, <1>2, <2>1, <2>2, FinishedData, NoLines
<1> QED BY <1>3, <1>4, <1>5

LEMMA ReadingData ==
  ASSUME NEW G, NEW q, DataOK(G, q), Answered \/ Through
  PROVE  StepData(G, q)
<1>0. TableData(q) /\ HooksData(G) /\ result.data \in Lines /\ ~Idle
  BY DEF DataOK, Answered, Through, Waiting
<1>1. Goes(q)
  BY <1>0, SameTable DEF Answered, Through, tables
<1>2. CASE Through
  BY <1>0, <1>1, <1>2, SameHooksData, FinishedData DEF Through, hooks, SameReflected
<1>3. CASE Answered
  <2>1. HooksData(G)'
    <3>1. UNCHANGED transforms
      BY <1>3 DEF Answered
    <3>2. CASE UNCHANGED reflected
      BY <1>0, <3>1, <3>2, SameHooksData DEF SameReflected
    <3>3. CASE Top.id \in DOMAIN reflected /\ reflected' = [reflected EXCEPT ![Top.id].eof = result.data = <<>>]
      <4>1. PICK id, v : id = Top.id /\ v = [reflected[id] EXCEPT !.eof = result.data = <<>>]
        OBVIOUS
      <4>2. reflected' = [reflected EXCEPT ![id] = v] /\ id \in DOMAIN reflected
        BY <3>3, <4>1
      <4>3. {"handler", "eof"} \subseteq DOMAIN v /\ v.handler = reflected[id].handler
        BY <1>0, <4>1, <4>2 DEF HooksData
      <4>4. DOMAIN reflected' = DOMAIN reflected /\ \A x \in DOMAIN reflected : reflected'[x] = IF x = id THEN v ELSE reflected[x]
        BY <4>2
      <4> QED BY <1>0, <3>1, <4>2, <4>3, <4>4 DEF HooksData
    <3> QED BY <1>3, <3>2, <3>3 DEF Answered
  <2>2. FirstOf(result.data, 1) \in Lines
    BY <1>0, FirstSeq
  <2>3. \E code : \E data \in Lines : Finish(code, data)
    BY <1>0, <1>3, <2>2, NoLines DEF Answered
  <2> QED BY <1>0, <1>1, <2>1, <2>3, FinishedData
<1> QED BY <1>2, <1>3

(* A copy is alone at the top, and what it stands on stays.                *)
LEMMA CopyTop ==
  ASSUME NEW G, NEW q, DataOK(G, q), Waiting("copy")
  PROVE  \E s, e : /\ active = Append(s, e) /\ StackData(s, G) /\ CopyFrame(e)
                   /\ Top = e /\ Front(active) = s
                   /\ \A v : InTop(v) = Append(s, v)
<1>1. ~StackData(active, G)
  BY DataPop DEF Waiting, Idle, Top, FrameData
<1>2. PICK s, e : active = Append(s, e) /\ StackData(s, G) /\ CopyFrame(e)
  BY <1>1 DEF DataOK, ActiveOK, CopyUnder
<1>3. PICK S : s \in Seq(S)
  BY <1>2 DEF StackData
<1>4. s \in Seq(S \cup {e}) /\ Len(active) = Len(s) + 1 /\ active[Len(active)] = e
  BY <1>2, <1>3
<1>5. Front(active) = s
  BY <1>2, <1>4, AppendedFront
<1>6. ASSUME NEW v
      PROVE  [active EXCEPT ![Len(active)] = v] = Append(s, v)
  <2> DEFINE T == S \cup {e, v}
             t == [active EXCEPT ![Len(active)] = v]
             u == Append(s, v)
             n == Len(s)
  <2>1. s \in Seq(T) /\ e \in T /\ v \in T /\ n \in Nat
    BY <1>3
  <2> HIDE DEF T
  <2>2. active \in Seq(T) /\ Len(active) = n + 1 /\ \A i \in 1 .. n : active[i] = s[i]
    BY <1>2, <2>1, AppendProperties
  <2>3. u \in Seq(T) /\ Len(u) = n + 1 /\ u[n + 1] = v /\ \A i \in 1 .. n : u[i] = s[i]
    BY <2>1, AppendProperties
  <2> HIDE DEF n, u
  <2>4. Len(active) \in 1 .. Len(active)
    BY <2>1, <2>2
  <2>5. t \in Seq(T) /\ Len(t) = n + 1 /\ \A i \in 1 .. n + 1 : t[i] = IF i = n + 1 THEN v ELSE active[i]
    BY <2>1, <2>2, <2>4, ExceptSeq
  <2> HIDE DEF t
  <2>6. \A i \in 1 .. n + 1 : t[i] = u[i]
    <3> TAKE i \in 1 .. n + 1
    <3>1. i = n + 1 \/ (i # n + 1 /\ i \in 1 .. n)
      BY <2>1
    <3> QED BY <2>2, <2>3, <2>5, <3>1
  <2>7. t = u
    BY <2>3, <2>5, <2>6, SeqEqual
  <2> QED BY <2>7 DEF t, u
<1> QED BY <1>2, <1>4, <1>5, <1>6 DEF Top, InTop

LEMMA CopyReadsData ==
  ASSUME NEW G, NEW q, DataOK(G, q), CopyReads
  PROVE  StepData(G, q)
<1>1. PICK s, e : /\ active = Append(s, e) /\ StackData(s, G) /\ CopyFrame(e)
                  /\ Top = e /\ Front(active) = s /\ \A v : InTop(v) = Append(s, v)
  BY CopyTop DEF CopyReads
<1>2. PICK ch, got, after : ch = chans[e.from] /\ got = Got(ch, Chunk) /\ after = After(ch, Chunk)
  OBVIOUS
<1>3. e.from \in Open /\ e.to \in Open /\ chans[e.to].w /\ TableData(q)
  BY <1>1 DEF CopyFrame, DataOK
<1>4. got \in Lines /\ Moved(ch, after)
  BY <1>2, <1>3, AfterMoved DEF BuffersOK, TableData, StoresOK, EachOK
<1>5. /\ chans' = [chans EXCEPT ![e.from] = after] /\ UNCHANGED nextId /\ UNCHANGED stores /\ SameReflected
      /\ ~Idle
  BY <1>1, <1>2 DEF CopyReads, Waiting, hooks, SameReflected
<1>6. Goes(q)
  BY <1>2, <1>3, <1>4, <1>5, TouchedTable
<1>7. HooksData(G)'
  BY <1>5, SameHooksData DEF DataOK
<1>8. CASE Finish("ok", <<>>)
  BY <1>5, <1>6, <1>7, <1>8, FinishedData, NoLines
<1>9. CASE active' = InTop([Top EXCEPT !.chunk = got]) /\ UNCHANGED result
  <2>1. PICK w : w = [e EXCEPT !.chunk = got]
    OBVIOUS
  <2>2. active' = Append(s, w)
    BY <1>1, <1>9, <2>1
  <2>3. /\ {"kind", "from", "to", "chunk"} \subseteq DOMAIN w /\ w.kind = "copy"
        /\ w.from = e.from /\ w.to = e.to /\ w.chunk = got
    BY <1>1, <2>1 DEF CopyFrame
  <2>4. Open' = Open /\ chans'[e.to].w
    <3>1. after.w = ch.w
      BY <1>4 DEF Moved, SamePlace
    <3> QED BY <1>2, <1>3, <1>5, <3>1 DEF Open
  <2>5. CopyFrame(w)'
    BY <1>3, <1>4, <2>3, <2>4 DEF CopyFrame
  <2>6. CopyUnder(G)'
    BY <1>1, <2>2, <2>5 DEF CopyUnder, StackData
  <2> QED BY <1>6, <1>7, <1>9, <2>6 DEF DataOK, StepData, ActiveOK
<1> QED BY <1>1, <1>2, <1>8, <1>9 DEF CopyReads

LEMMA WriteKeeps ==
  ASSUME NEW ch, NEW id \in Open, NEW d, Write(ch, id, d)
  PROVE  Open' = Open /\ (chans[id].w /\ "w" \in DOMAIN chans[id] => chans'[id].w)
<1>1. CASE UNCHANGED chans
  BY <1>1 DEF Open
<1>2. CASE \E p : chans' = [chans EXCEPT ![id].pos = p]
  BY <1>2 DEF Open
<1> QED BY <1>1, <1>2 DEF Write

LEMMA CopyWritesData ==
  ASSUME NEW G, NEW q, DataOK(G, q), CopyWrites
  PROVE  StepData(G, q)
<1>1. PICK s, e : /\ active = Append(s, e) /\ StackData(s, G) /\ CopyFrame(e)
                  /\ Top = e /\ Front(active) = s /\ \A v : InTop(v) = Append(s, v)
  BY CopyTop DEF CopyWrites
<1>2. e.from \in Open /\ e.to \in Open /\ chans[e.to].w /\ e.chunk \in Lines /\ TableData(q)
  BY <1>1 DEF CopyFrame, DataOK
<1>3. /\ Write(chans[e.to], e.to, e.chunk) /\ active' = InTop([e EXCEPT !.chunk = <<>>])
      /\ UNCHANGED nextId /\ UNCHANGED result /\ SameReflected
  BY <1>1 DEF CopyWrites, hooks, SameReflected
<1>4. Goes(q)
  BY <1>2, <1>3, WrittenTable
<1>5. HooksData(G)'
  BY <1>3, SameHooksData DEF DataOK
<1>6. PICK w : w = [e EXCEPT !.chunk = <<>>]
  OBVIOUS
<1>7. active' = Append(s, w)
  BY <1>1, <1>3, <1>6
<1>8. /\ {"kind", "from", "to", "chunk"} \subseteq DOMAIN w /\ w.kind = "copy"
      /\ w.from = e.from /\ w.to = e.to /\ w.chunk = <<>>
  BY <1>1, <1>6 DEF CopyFrame
<1>9. Open' = Open /\ chans'[e.to].w
  <2>1. "w" \in DOMAIN chans[e.to]
    BY <1>2 DEF TableData, EachOK, ChanOK, Fields
  <2> QED BY <1>2, <1>3, <2>1, WriteKeeps
<1>10. CopyFrame(w)'
  BY <1>2, <1>8, <1>9, NoLines DEF CopyFrame
<1>11. CopyUnder(G)'
  BY <1>1, <1>7, <1>10 DEF CopyUnder, StackData
<1> QED BY <1>3, <1>4, <1>5, <1>11 DEF DataOK, StepData, ActiveOK

-----------------------------------------------------------------------------

LEMMA SameData ==
  ASSUME NEW G, NEW q, DataOK(G, q), UNCHANGED vars
  PROVE  StepData(G, q)
<1>1. /\ UNCHANGED <<chans, nextId>> /\ UNCHANGED stores /\ SameReflected
      /\ active' = active /\ result' = result
  BY DEF vars, tables, hooks, SameReflected
<1>2. ActiveOK(G)'
  BY <1>1 DEF DataOK, ActiveOK, StackData, CopyUnder, CopyFrame, Open
<1> QED BY <1>1, <1>2, SameTable, SameHooksData DEF DataOK, StepData

LEMMA OfferedOK ==
  ASSUME NEW G, NEW q, DataOK(G, q), NEW c \in Offered
  PROVE  Calling /\ CommandOK(c, G, q)
<1>1. Calling
  BY DEF Offered, Calling
<1>2. c \in G
  <2>1. CASE Idle
    BY <2>1 DEF Offered, DataOK, Commands
  <2>2. CASE ~Idle
    <3>1. Top.kind = "method" /\ Top.todo # <<>> /\ c = Head(Top.todo)
      BY <2>2 DEF Offered
    <3>2. Top.todo \in Seq(G)
      BY <2>2, <3>1, InnerData DEF DataOK, FrameData
    <3> QED BY <3>1, <3>2
  <2> QED BY <2>1, <2>2
<1> QED BY <1>1, <1>2 DEF DataOK, Commands

LEMMA StepDataOK ==
  ASSUME ChannelsOK, NEW G, NEW q, DataOK(G, q), [Next]_vars
  PROVE  StepData(G, q) /\ UNCHANGED program
<1>1. CASE UNCHANGED vars
  BY <1>1, SameData DEF vars
<1>2. CASE Resumes
  <2>1. UNCHANGED program
    BY <1>2 DEF Resumes, MethodEnds, Created, Pushed, Finalized, Drained, PutText, PutNewline,
                PutFiltered, Answered, Through, CopyReads, CopyWrites
  <2> QED BY <1>2, <2>1, MethodEndsData, CreatedData, PushedData, FinalizedData, DrainedData, PuttingData,
             ReadingData, CopyReadsData, CopyWritesData DEF Resumes
<1>3. CASE TooDeep
  <2>1. Calling
    <3>1. PICK c : c \in Offered
      BY <1>3 DEF TooDeep
    <3> QED BY <3>1, OfferedOK
  <2>2. UNCHANGED program /\ UNCHANGED <<tables, hooks, stores>> /\ Answer("error", <<>>)
    BY <1>3 DEF TooDeep, Fail
  <2> QED BY <2>1, <2>2, RefusedData
<1>4. CASE \E c \in Offered : Command(c)
  <2>1. PICK c \in Offered : Command(c)
    BY <1>4
  <2>2. Calling /\ CommandOK(c, G, q)
    BY OfferedOK
  <2> QED BY <2>1, <2>2, DoData DEF Command
<1> QED BY <1>1, <1>2, <1>3, <1>4 DEF Next

LEMMA NextData ==
  ASSUME ChannelsOK, NEW G, NEW q, DataOK(G, q), [Next]_vars
  PROVE  DataOK(G, q)' /\ EndStaysEnd
<1>1. StepData(G, q) /\ UNCHANGED program
  BY StepDataOK
<1>2. Commands(G, q)'
  BY <1>1 DEF DataOK, Commands, CommandOK, HandlerOK
<1> QED BY <1>1, <1>2 DEF StepData, Goes, DataOK

LEMMA CurrentBuffer ==
  ASSUME NEW ch, ChanOK(ch), StoresOK, Current(ch, file)
  PROVE  BufferCurrent(ch)
<1> DEFINE b == ch.buf
           p == ch.pos
           l == Len(b)
           k == Len(file)
           a == p - l
           t == SubSeq(file, a + 1, p)
<1>1. p \in Nat /\ b \in Lines /\ file \in Lines /\ l \in Nat /\ k \in Nat
  BY LinesLen DEF ChanOK, StoresOK
<1>2. l <= p /\ (b # <<>> => p <= k) /\ (\A i \in 1 .. l : b[i] = file[a + i]) /\ (b = <<>> <=> l = 0)
  BY <1>1, LinesLen DEF Current, CurrentAt
<1>3. BufferCurrent(ch) <=> l <= p /\ b = t
  BY DEF BufferCurrent, Stands
<1>4. file \in Seq(Nat) /\ b \in Seq(Nat)
  BY <1>1 DEF Lines
<1> HIDE DEF k, l
<1>5. a \in Nat /\ a <= p /\ a + l = p
  BY <1>1, <1>2
<1>6. CASE b = <<>>
  <2>1. l = 0 /\ a = p
    BY <1>1, <1>2, <1>6
  <2>2. t = <<>>
    BY <1>1, <1>4, <2>1
  <2> QED BY <1>2, <1>3, <1>6, <2>2
<1>7. CASE b # <<>>
  <2>1. p <= k
    BY <1>2, <1>7
  <2> HIDE DEF a, b, p
  <2>2. /\ t \in Seq(Nat) /\ Len(t) = l
        /\ \A i \in 1 .. l : t[i] = file[a + i]
    <3> DEFINE u == a + 1
    <3>1. u \in Int /\ p \in Int /\ u <= p + 1 /\ p - u + 1 = l /\ \A i \in 1 .. l : u + i - 1 = a + i
      BY <1>1, <1>5
    <3>2. \A i \in u .. p : i \in 1 .. k /\ file[i] \in Nat
      BY <1>1, <1>4, <1>5, <2>1 DEF k
    <3> HIDE DEF u
    <3>3. /\ SubSeq(file, u, p) \in Seq(Nat)
          /\ Len(SubSeq(file, u, p)) = IF u <= p THEN p - u + 1 ELSE 0
          /\ \A i \in 1 .. p - u + 1 : SubSeq(file, u, p)[i] = file[u + i - 1]
      BY <3>1, <3>2, SubSeqProperties
    <3>4. u <= p \/ l = 0
      BY <1>1, <3>1
    <3>5. Len(SubSeq(file, u, p)) = l
      BY <1>1, <3>1, <3>3, <3>4
    <3> QED BY <3>1, <3>3, <3>5 DEF u
  <2>3. b = t
    BY <1>2, <1>4, <2>2, SeqEqual DEF l
  <2> QED BY <1>2, <1>3, <2>3
<1> QED BY <1>6, <1>7

LEMMA DataFollows ==
  ASSUME NEW G, NEW q \in Habits, DataOK(G, q)
  PROVE  BufferFollows
<1> SUFFICES ASSUME NEW id \in Open
             PROVE  /\ Len(chans[id].buf) <= Cap
                    /\ chans[id].kind = "file" /\ ~chans[id].w => BufferCurrent(chans[id])
  BY DEF BufferFollows
<1>1. ChanOK(chans[id]) /\ FileOK(chans[id], q) /\ StoresOK
  BY DEF DataOK, TableData, EachOK
<1> QED BY <1>1, CurrentBuffer DEF Habits, ChanOK, FileOK

-----------------------------------------------------------------------------
(* The programs: each keeps to commands that are as they should be.        *)

LEMMA HandlerIs ==
  ASSUME NEW G, NEW methods, NEW m, NEW acts \in Seq(G), NEW fails
  PROVE  HandlerOK(Handler(methods, m, acts, fails), G)
<1> DEFINE h == Handler(methods, m, acts, fails)
<1>1. /\ h.acts = [x \in Methods |-> IF x = m THEN acts ELSE <<>>]
      /\ h.gives = [x \in Methods |-> IF x \in {"read", "write"} THEN <<1, 2>> ELSE <<>>]
  BY DEF Handler
<1>2. <<1, 2>> \in Lines /\ <<>> \in Lines /\ <<>> \in Seq(G)
  BY DEF Lines
<1> HIDE DEF h
<1> QED BY <1>1, <1>2 DEF HandlerOK, h

LEMMA PlainIs == \A G : HandlerOK(Plain, G)
<1> TAKE G
<1>1. <<>> \in Seq(G)
  OBVIOUS
<1> QED BY <1>1, HandlerIs DEF Plain

LEMMA CommandsOf ==
  ASSUME NEW G, NEW q
  PROVE  /\ \A op, id : op \notin {"open", "puts", "read", "seek", "truncate", "create", "push"}
                          => CommandOK(On(op, id), G, q)
         /\ \A id, d : d \in Lines => CommandOK(Putting(id, d), G, q)
         /\ \A id, n : n \in Nat => CommandOK(Reading(id, n), G, q)
         /\ \A id : CommandOK(ReadAll(id), G, q) /\ CommandOK(Gets(id), G, q)
         /\ \A a, b : CommandOK(Copying(a, b), G, q)
         /\ \A id, at : at \in Nat => CommandOK(Seeking(id, at), G, q)
         /\ \A id : CommandOK(Telling(id), G, q)
         /\ \A id, r : CommandOK(Half(id, r), G, q)
         /\ \A h : HandlerOK(h, G) => CommandOK(Making("create", h), G, q)
         /\ \A id, h : HandlerOK(h, G) => CommandOK(Pushing(id, h), G, q)
         /\ \A r, w, a : Opens(w, a, q) => CommandOK(OpenAs(r, w, a), G, q)
         /\ \A id : q # "append" => CommandOK(On("truncate", id), G, q)
         /\ \A r, w : CommandOK([op |-> "child", r |-> r, w |-> w], G, q)
<1>1. \A op, id : op \notin {"open", "puts", "read", "seek", "truncate", "create", "push"}
                          => CommandOK(On(op, id), G, q)
  BY DEF CommandOK, On
<1>2. \A id, d : d \in Lines => CommandOK(Putting(id, d), G, q)
  BY DEF CommandOK, Putting
<1>3. \A id, n : n \in Nat => CommandOK(Reading(id, n), G, q)
  BY DEF CommandOK, Reading
<1>4. \A id : CommandOK(ReadAll(id), G, q) /\ CommandOK(Gets(id), G, q)
  BY DEF CommandOK, ReadAll, Gets
<1>5. \A a, b : CommandOK(Copying(a, b), G, q)
  BY DEF CommandOK, Copying
<1>6. \A id, at : at \in Nat => CommandOK(Seeking(id, at), G, q)
  BY DEF CommandOK, Seeking
<1>7. \A id : CommandOK(Telling(id), G, q)
  BY DEF CommandOK, Telling
<1>8. \A id, r : CommandOK(Half(id, r), G, q)
  BY DEF CommandOK, Half
<1>9. \A h : HandlerOK(h, G) => CommandOK(Making("create", h), G, q)
  BY DEF CommandOK, Making
<1>10. \A id, h : HandlerOK(h, G) => CommandOK(Pushing(id, h), G, q)
  BY DEF CommandOK, Pushing
<1>11. \A r, w, a : Opens(w, a, q) => CommandOK(OpenAs(r, w, a), G, q)
  BY DEF CommandOK, OpenAs
<1>12. \A id : q # "append" => CommandOK(On("truncate", id), G, q)
  BY DEF CommandOK, On
<1>13. \A r, w : CommandOK([op |-> "child", r |-> r, w |-> w], G, q)
  BY DEF CommandOK
<1> QED BY <1>1, <1>2, <1>3, <1>4, <1>5, <1>6, <1>7, <1>8, <1>9, <1>10, <1>11, <1>12, <1>13

(* The programs of MCChannels keep to the habits.                          *)
LEMMA SomeLines == <<1>> \in Lines /\ <<2>> \in Lines /\ <<1, 2>> \in Lines
BY DEF Lines

LEMMA GrowingKeeps == Proper(Growing, Habits)
<1> DEFINE G == Growing
<1>1. ASSUME NEW c \in G PROVE CommandOK(c, G, "append")
  BY CommandsOf, SomeLines DEF Growing, Opens
<1> QED BY <1>1 DEF Proper, Habits

LEMMA UpdatingKeeps == Proper(Updating, Habits)
<1> DEFINE G == Updating
<1>1. ASSUME NEW c \in G PROVE CommandOK(c, G, "write")
  BY CommandsOf, SomeLines DEF Updating, Opens
<1> QED BY <1>1 DEF Proper, Habits

LEMMA ChildrenKeeps == Proper(Children, Habits)
<1> DEFINE G == Children
<1>1. ASSUME NEW c \in G PROVE CommandOK(c, G, "append")
  BY CommandsOf, SomeLines DEF Children, Opens
<1> QED BY <1>1 DEF Proper, Habits

LEMMA CopiesKeeps == Proper(Copies, Habits)
<1> DEFINE G == Copies
<1>1. ASSUME NEW c \in G PROVE CommandOK(c, G, "append")
  BY CommandsOf, PlainIs, SomeLines DEF Copies, Opens
<1> QED BY <1>1 DEF Proper, Habits

(* Here the methods of handlers run commands of their own.                 *)
LEMMA ImplementingKeeps == \A h, k \in Implementers : Proper(Implementing(h, k), Habits)
<1> TAKE h, k \in Implementers
<1> DEFINE own == {On("close", Rc), Putting(Rc, <<1>>), Pushing(Rc, Plain), Making("create", Plain)}
           G == Implementing(h, k) \cup own
<1>1. own \subseteq G
  OBVIOUS
<1>2. \A a \in own : <<a>> \in Seq(G)
  BY <1>1
<1>3. <<>> \in Seq(G)
  OBVIOUS
<1>4. ASSUME NEW x \in Implementers PROVE HandlerOK(x, G)
  <2> HIDE DEF G
  <2> QED BY <1>2, <1>3, PlainIs, HandlerIs DEF Implementers
<1>5. ASSUME NEW c \in G PROVE CommandOK(c, G, "append")
  <2>1. CASE c \in own
    <3> HIDE DEF G
    <3> QED BY <2>1, CommandsOf, PlainIs, SomeLines
  <2>2. CASE c \in Implementing(h, k)
    <3> HIDE DEF G
    <3> QED BY <1>4, <2>2, CommandsOf, PlainIs, SomeLines DEF Implementing, Opens
  <2> QED BY <2>1, <2>2
<1> QED BY <1>5 DEF Proper, Habits

LEMMA FilteringKeeps == \A h \in Filters : Proper(Filtering(h), Habits)
<1> TAKE h \in Filters
<1> DEFINE own == {On("close", File(2)), Pushing(File(2), Plain), Gets(File(1)), Putting(File(2), <<2>>)}
           G == Filtering(h) \cup own
<1>1. \A a \in own : <<a>> \in Seq(G)
  OBVIOUS
<1>2. HandlerOK(h, G)
  <2> HIDE DEF G
  <2>1. \A methods, m, fails : \A a \in own : HandlerOK(Handler(methods, m, <<a>>, fails), G)
    BY <1>1, HandlerIs
  <2>2. /\ On("close", File(2)) \in own /\ Pushing(File(2), Plain) \in own
        /\ Gets(File(1)) \in own /\ Putting(File(2), <<2>>) \in own
    OBVIOUS
  <2> HIDE DEF own
  <2> QED BY <2>1, <2>2, PlainIs DEF Filters
<1>3. ASSUME NEW c \in G PROVE CommandOK(c, G, "append")
  <2>1. CASE c \in own
    <3> HIDE DEF G
    <3> QED BY <2>1, CommandsOf, PlainIs, SomeLines
  <2>2. CASE c \in Filtering(h)
    <3> HIDE DEF G
    <3> QED BY <1>2, <2>2, CommandsOf, PlainIs, SomeLines DEF Filtering, Opens
  <2> QED BY <2>1, <2>2
<1> QED BY <1>3 DEF Proper, Habits

Closer == Handler(Methods, "read", <<On("close", File(1))>>, {})
LEMMA ListeningKeeps == \A h \in {Plain, Closer} : Proper(Listening(h), Habits)
<1> TAKE h \in {Plain, Closer}
<1> DEFINE own == {On("close", File(1))}
           G == Listening(h) \cup own
<1>1. \A a \in own : <<a>> \in Seq(G)
  OBVIOUS
<1>2. HandlerOK(h, G)
  <2> HIDE DEF G
  <2> QED BY <1>1, PlainIs, HandlerIs DEF Closer
<1>3. ASSUME NEW c \in G PROVE CommandOK(c, G, "append")
  <2>1. CASE c \in own
    <3> HIDE DEF G
    <3> QED BY <2>1, CommandsOf
  <2>2. CASE c \in Listening(h)
    <3> HIDE DEF G
    <3> QED BY <1>2, <2>2, CommandsOf, SomeLines DEF Listening, Opens
  <2> QED BY <2>1, <2>2
<1> QED BY <1>3 DEF Proper, Habits

LEMMA ProgramsKeep == \A p \in AllPrograms : Proper(p, Habits)
BY ImplementingKeeps, FilteringKeeps, ListeningKeeps, GrowingKeeps, UpdatingKeeps, ChildrenKeeps, CopiesKeeps
   DEF AllPrograms, Closer

LEMMA FreshData ==
  ASSUME BuffersOK, Fresh, NEW habits, Proper(program, habits)
  PROVE  DataInv(habits)
<1>1. PICK G, q : q \in habits /\ Commands(G, q)
  BY DEF Proper, Commands
<1>2. DOMAIN reflected = {} /\ DOMAIN transforms = {} /\ Open = {} /\ nextId = 1 /\ result.data = <<>>
      /\ pipes = <<>> /\ file = <<>> /\ active = <<>>
  BY DEF Fresh, Open
<1>3. \A S : <<>> \in Seq(S)
  OBVIOUS
<1>4. StackData(active, G)
  <2>1. active \in Seq({})
    BY <1>2, <1>3
  <2> QED BY <2>1 DEF StackData
<1>5. TableData(q)
  BY <1>2, <1>3, NoLines DEF TableData, StoresOK, EachOK, WritersOK
<1>6. DataOK(G, q)
  BY <1>1, <1>2, <1>4, <1>5, NoLines DEF DataOK, HooksData, ActiveOK
<1> QED BY <1>1, <1>6, FreshInv DEF DataInv

LEMMA DataStep ==
  ASSUME NEW habits, DataInv(habits), [Next]_vars
  PROVE  DataInv(habits)' /\ EndStaysEnd
<1>1. PICK G, q : q \in habits /\ DataOK(G, q)
  BY DEF DataInv
<1>2. ChannelsOK /\ ChannelsOK'
  BY StepInv DEF DataInv
<1>3. DataOK(G, q)' /\ EndStaysEnd
  BY <1>1, <1>2, NextData
<1> QED BY <1>1, <1>2, <1>3 DEF DataInv

LEMMA DataGives == DataInv(Habits) => BufferFollows
BY DataFollows DEF DataInv

-----------------------------------------------------------------------------
(* The table of channels lists the open ones, each once, and a channel a   *)
(* script implements has its handler until its finalize has been called,   *)
(* whatever the program and its handlers (channel.rs, ChannelTable).       *)
THEOREM TablesInStep == Spec => []TablesAgree
BY FreshInv, StepInv, InvAgrees, PTL DEF Spec, Init

(* What a channel that only reads has read ahead is the file's, to where   *)
(* the system stands, and never more than the capacity, for any programs   *)
(* that only append to what they read (BufReader).                         *)
THEOREM ReadAheadIsCurrent ==
  ASSUME Cap \in Nat \ {0}, Chunk \in Nat \ {0}, \A p \in Programs : Proper(p, Habits)
  PROVE  Spec => []BufferFollows
<1> DEFINE Inv == DataInv(Habits)
<1>1. Init => Inv
  BY FreshData DEF Init, BuffersOK
<1>2. Inv /\ [Next]_vars => Inv'
  BY DataStep
<1>3. Inv => BufferFollows
  BY DataGives
<1> HIDE DEF Inv
<1> QED BY <1>1, <1>2, <1>3, PTL DEF Spec

(* Once eof has told that a pipe is at its end it stays there, whoever     *)
(* writes, closes, pushes or creates channels meanwhile, whatever a        *)
(* program does with the file (PipeShared).                                *)
THEOREM EndsAreFinal ==
  ASSUME Cap \in Nat \ {0}, Chunk \in Nat \ {0}, \A p \in Programs : Proper(p, {"any"})
  PROVE  Spec => EofIsFinal
<1> DEFINE Inv == DataInv({"any"})
<1>1. Init => Inv
  BY FreshData DEF Init, BuffersOK
<1>2. Inv /\ [Next]_vars => Inv' /\ EndStaysEnd
  BY DataStep
<1>3. Inv /\ [Next]_vars => [EndStaysEnd]_vars
  BY <1>2
<1> HIDE DEF Inv
<1> QED BY <1>1, <1>2, <1>3, PTL DEF Spec, EofIsFinal
=============================================================================
