--------------------------- MODULE CallbacksProofs ---------------------------
(***************************************************************************)
(* Theorems about the machines of MCCallbacks as they are run together:    *)
(* for any names, channels, programs and bounds.  Those about traces on    *)
(* commands and about channels come from modules of their own, as facts    *)
(* about the state a machine begins with and about its steps; those about  *)
(* objects (O) and arrays (A) are proved here.                             *)
(***************************************************************************)
EXTENDS MCCallbacks, SequenceLemmas

(* An instance has the operators of the libraries under names of its own.  *)
LEMMA SameFront == \A s : A!Front(s) = Front(s) /\ O!Front(s) = Front(s)
BY DEF A!Front, O!Front, Front

-----------------------------------------------------------------------------
(* Traces on commands.                                                      *)

(* Only the machine that runs changes its variables.                       *)
TracesInv == machine = "commands" => T!IInv

LEMMA TracesInvariant == MCSpec => []TracesInv
<1>1. MCInit => TracesInv
  BY T!FreshInv DEF MCInit, TracesInv
<1>2. TracesInv /\ [MCNext]_vars => TracesInv'
  <2> SUFFICES ASSUME TracesInv, [MCNext]_vars PROVE TracesInv'
    OBVIOUS
  <2>1. CASE UNCHANGED vars
    <3>1. UNCHANGED machine /\ UNCHANGED T!vars
      BY <2>1 DEF vars, ofCommands, T!vars
    <3> QED BY <3>1, T!StepInv DEF TracesInv
  <2>2. CASE MCNext
    BY <2>2, T!StepInv DEF MCNext, TracesInv
  <2> QED BY <2>1, <2>2
<1> QED BY <1>1, <1>2, PTL DEF MCSpec

(* The stack of contexts matches the traced calls under way                *)
(* (exec_step_stack).                                                      *)
THEOREM ContextsAsRun == MCSpec => []StepContext
<1>1. TracesInv => StepContext
  BY T!InvContext DEF TracesInv, StepContext
<1> QED BY <1>1, TracesInvariant, PTL

(* A leavestep callback is of a record of its step's snapshot              *)
(* (exec_step_end).                                                        *)
THEOREM LeaveStepsAsRun == MCSpec => []LeaveStepPairs
<1>1. TracesInv => LeaveStepPairs
  BY T!InvPairs DEF TracesInv, LeaveStepPairs
<1> QED BY <1>1, TracesInvariant, PTL

-----------------------------------------------------------------------------
(* Objects.                                                                *)

(* The memo.  Either a step retires it all, or the classes and objects are *)
(* what they were.                                                         *)

Settled(mem) == memo' = <<>> \/ (memo' = mem /\ UNCHANGED <<objects, classes>>)

LEMMA LeaveSettles ==
  ASSUME NEW base, NEW t, NEW out, NEW mem, O!Leave(base, t, out, mem)
  PROVE  Settled(mem)
BY DEF O!Leave, O!Detach, O!Keep, O!tables, Settled

LEMMA EnterSettles ==
  ASSUME NEW base, NEW t, NEW mem, O!Enter(base, t, mem)
  PROVE  Settled(mem)
BY LeaveSettles DEF O!Enter, O!Keep, O!tables, Settled

LEMMA DestroySettles ==
  ASSUME NEW base, NEW k, NEW mem, O!DestroyObject(base, k, mem)
  PROVE  Settled(mem)
<1>1. CASE O!Keep(mem)
  BY <1>1 DEF O!Keep, O!tables, Settled
<1>2. CASE \E t : O!Enter(base, t, mem)
  BY <1>2, EnterSettles
<1>3. CASE O!Detach(k, O!NsOf(k))
  BY <1>3 DEF O!Detach, Settled
<1> QED BY <1>1, <1>2, <1>3 DEF O!DestroyObject

LEMMA ExecSettles ==
  ASSUME NEW base, NEW k, NEW chain, NEW at, NEW mem, O!ExecEntry(base, k, chain, at, mem)
  PROVE  Settled(mem)
BY DestroySettles, EnterSettles DEF O!ExecEntry

(* An entry is only added, and with the chain as it is.                    *)
Resolved(k, m, private) ==
  O!Put(memo, <<k, m, private>>,
        IF <<k, m, private>> \in DOMAIN memo THEN memo[<<k, m, private>>] ELSE O!BuildChain(k, m, private))

LEMMA InvokeSettles ==
  ASSUME NEW k, NEW m, NEW private, O!Invoke(k, m, private)
  PROVE  Settled(Resolved(k, m, private))
<1>1. CASE O!Keep(Resolved(k, m, private))
  BY <1>1 DEF O!Keep, O!tables, Settled
<1>2. CASE \E chain : O!ExecEntry(kont, k, chain, 1, Resolved(k, m, private))
  BY <1>2, ExecSettles
<1> QED BY <1>1, <1>2 DEF O!Invoke, Resolved

LEMMA DoSettles ==
  ASSUME NEW c, O!Do(c)
  PROVE  Settled(memo) \/ \E k, m, private : Settled(Resolved(k, m, private))
<1>0. O!Refused => Settled(memo)
  BY DEF O!Refused, O!Keep, O!tables, Settled
<1>1. ASSUME NEW k, O!Attach(k) PROVE Settled(memo)
  BY <1>1 DEF O!Attach, Settled
<1>2. ASSUME NEW new, O!Redefine(c, new) PROVE Settled(memo)
  BY <1>2 DEF O!Redefine, O!Retired, Settled
<1>3. CASE O!CreateObject(c) \/ O!CreateClass(c) \/ O!CopyObject(c)
  BY <1>0, <1>1, <1>3 DEF O!CreateObject, O!CreateClass, O!CopyObject
<1>4. CASE O!Call(c) \/ O!My(c)
  BY <1>0, <1>4, InvokeSettles DEF O!Call, O!My
<1>5. CASE O!NextMethod(c)
  BY <1>0, <1>5, ExecSettles DEF O!NextMethod
<1>6. CASE O!Rename(c)
  BY <1>6 DEF O!Rename, Settled
<1>7. CASE O!DefineMethod(c) \/ O!DeleteMethod(c) \/ O!RenameMethod(c) \/ O!Export(c) \/ O!Constructor(c) \/ O!Destructor(c)
  BY <1>2, <1>7 DEF O!DefineMethod, O!DeleteMethod, O!RenameMethod, O!Export, O!Constructor, O!Destructor
<1>8. CASE O!Mixin(c) \/ O!Superclass(c)
  BY <1>0, <1>2, <1>8 DEF O!Mixin, O!Superclass
<1> QED BY <1>3, <1>4, <1>5, <1>6, <1>7, <1>8 DEF O!Do

LEMMA NextSettles ==
  ASSUME [O!Next]_(O!vars)
  PROVE  Settled(memo) \/ \E k, m, private : Settled(Resolved(k, m, private))
<1>1. CASE UNCHANGED O!vars
  BY <1>1 DEF O!vars, Settled
<1>2. CASE O!Script
  BY <1>2, DoSettles DEF O!Script
<1>3. CASE O!Return \/ O!PassOn
  BY <1>3, LeaveSettles DEF O!Return, O!PassOn
<1>4. CASE O!Catch \/ O!NextPhase \/ O!StopCascade
  BY <1>4 DEF O!Catch, O!NextPhase, O!StopCascade, O!Keep, O!tables, Settled
<1>5. CASE O!NextVictim
  BY <1>5, DestroySettles DEF O!NextVictim
<1>6. CASE O!EndCascade
  BY <1>6 DEF O!EndCascade, O!Detach, Settled
<1> QED BY <1>1, <1>2, <1>3, <1>4, <1>5, <1>6 DEF O!Next

(* Resolution reads classes and objects, and nothing else.                 *)
LEMMA ResolutionReads ==
  ASSUME UNCHANGED <<objects, classes>>, NEW k, NEW m, NEW private
  PROVE  O!BuildChain(k, m, private)' = O!BuildChain(k, m, private)
<1>1. \A c : O!Linearize(c)' = O!Linearize(c)
  BY DEF O!Linearize
<1>2. \A q : O!Flat(q)' = O!Flat(q)
  BY <1>1 DEF O!Flat
<1>3. \A o : O!Walk(o)' = O!Walk(o)
  BY <1>1, <1>2 DEF O!Walk
<1>4. \A w : O!ClassEntries(w, m, private)' = O!ClassEntries(w, m, private)
  BY DEF O!ClassEntries, O!Pushed
<1> QED BY <1>3, <1>4 DEF O!BuildChain

LEMMA MemoStep ==
  O!MemoFresh /\ [O!Next]_(O!vars) => O!MemoFresh'
<1> SUFFICES ASSUME O!MemoFresh, [O!Next]_(O!vars) PROVE O!MemoFresh'
  OBVIOUS
<1>1. CASE memo' = <<>>
  <2>1. DOMAIN memo' = {}
    BY <1>1
  <2> QED BY <2>1 DEF O!MemoFresh
<1>2. CASE memo' = memo /\ UNCHANGED <<objects, classes>>
  BY <1>2, ResolutionReads DEF O!MemoFresh
<1>3. ASSUME NEW k, NEW m, NEW private, memo' = Resolved(k, m, private), UNCHANGED <<objects, classes>>
      PROVE  O!MemoFresh'
  <2> SUFFICES ASSUME NEW x \in DOMAIN memo' PROVE memo'[x] = O!BuildChain(x[1], x[2], x[3])
    BY <1>3, ResolutionReads DEF O!MemoFresh
  <2> DEFINE y == <<k, m, private>>
  <2>1. CASE x = y
    <3>1. memo'[y] = IF y \in DOMAIN memo THEN memo[y] ELSE O!BuildChain(k, m, private)
      BY <1>3 DEF Resolved, O!Put
    <3>2. y[1] = k /\ y[2] = m /\ y[3] = private
      OBVIOUS
    <3> QED BY <2>1, <3>1, <3>2 DEF O!MemoFresh
  <2>2. CASE x # y
    BY <1>3, <2>2 DEF Resolved, O!Put, O!MemoFresh
  <2> QED BY <2>1, <2>2
<1> QED BY <1>1, <1>2, <1>3, NextSettles DEF Settled

LEMMA FreshMemo == O!Fresh => O!MemoFresh
<1>1. DOMAIN <<>> = {}
  OBVIOUS
<1> QED BY <1>1 DEF O!Fresh, O!MemoFresh

-----------------------------------------------------------------------------
(* The stack, and what goes when something is taken off it                 *)

IsSeq(s) == \E S : s \in Seq(S)
StackOK  == IsSeq(kont)

(* A step that starts from base leaves a stack at least as high.           *)
Rises(base) == IsSeq(kont') /\ Len(kont') >= Len(base)

LEMMA PushSeq ==
  ASSUME NEW s, IsSeq(s), NEW e
  PROVE  IsSeq(Append(s, e)) /\ Len(Append(s, e)) = Len(s) + 1 /\ Len(s) \in Nat
<1>1. PICK S : s \in Seq(S)
  BY DEF IsSeq
<1> DEFINE R == S \cup {e}
<1>2. s \in Seq(R) /\ e \in R
  BY <1>1, SeqMonotonic
<1> HIDE DEF R
<1>3. Append(s, e) \in Seq(R) /\ Len(Append(s, e)) = Len(s) + 1 /\ Len(s) \in Nat
  BY <1>2
<1> QED BY <1>3 DEF IsSeq

LEMMA PopSeq ==
  ASSUME NEW s, IsSeq(s), s # <<>>
  PROVE  IsSeq(O!Front(s)) /\ Len(O!Front(s)) = Len(s) - 1 /\ Len(s) \in Nat /\ DOMAIN s = 1 .. Len(s)
<1>1. PICK S : s \in Seq(S)
  BY DEF IsSeq
<1>2. O!Front(s) \in Seq(S) /\ Len(O!Front(s)) = Len(s) - 1
  BY <1>1, FrontSeq, SameFront
<1> QED BY <1>1, <1>2 DEF IsSeq

LEMMA AlterSeq ==
  ASSUME NEW s, IsSeq(s), NEW i \in DOMAIN s, NEW e
  PROVE  IsSeq([s EXCEPT ![i] = e]) /\ Len([s EXCEPT ![i] = e]) = Len(s)
<1>1. PICK S : s \in Seq(S)
  BY DEF IsSeq
<1> DEFINE R == S \cup {e}
<1>2. s \in Seq(R) /\ e \in R
  BY <1>1, SeqMonotonic
<1> HIDE DEF R
<1>3. [s EXCEPT ![i] = e] \in Seq(R) /\ Len([s EXCEPT ![i] = e]) = Len(s)
  BY <1>2
<1> QED BY <1>3 DEF IsSeq

LEMMA DetachGone ==
  ASSUME NEW k, NEW ns, O!Detach(k, ns)
  PROVE  k \notin (DOMAIN objects' \cup DOMAIN classes')
BY DEF O!Detach, O!Drop

(* What t is about is gone, if t was destroying it or failed to make it.   *)
Gone(t) ==
  t.role = "dtor" \/ (t.role = "make" /\ res' = "err") => t.key \notin (DOMAIN objects' \cup DOMAIN classes')

LEMMA LeaveGone ==
  ASSUME NEW base, IsSeq(base), NEW t, NEW out \in {"ok", "err"}, NEW mem, O!Leave(base, t, out, mem)
  PROVE  Rises(base) /\ (Len(kont') = Len(base) => Gone(t))
<1>0. ASSUME O!Land(base, out)
      PROVE  Rises(base) /\ (out = "ok" => res' # "err")
  <2>1. kont' = base /\ Len(base) \in Nat
    BY <1>0, PushSeq DEF O!Land
  <2> QED BY <1>0, <2>1 DEF O!Land, Rises
<1>1. CASE O!Undoes(t, out) /\ O!Detach(t.key, t.ns) /\ O!Land(base, out)
  BY <1>0, <1>1, DetachGone DEF Gone
<1>2. CASE O!EndsDestroy(t, out) /\ O!Detach(t.key, O!NsOf(t.key)) /\ O!Land(base, out)
  BY <1>0, <1>2, DetachGone DEF Gone
<1>3. CASE \E e : kont' = Append(base, e)
  <2>1. IsSeq(kont') /\ Len(kont') = Len(base) + 1 /\ Len(base) \in Nat
    BY <1>3, PushSeq
  <2> QED BY <2>1 DEF Rises
<1>4. CASE ~O!Undoes(t, out) /\ ~O!EndsDestroy(t, out) /\ ~(t.role = "dtor" /\ out = "ok") /\ O!Land(base, out)
  <2>1. t.role # "dtor" /\ (t.role = "make" => out = "ok")
    BY <1>4 DEF O!Undoes, O!EndsDestroy
  <2> QED BY <1>0, <1>4, <2>1 DEF Gone
<1> QED BY <1>1, <1>2, <1>3, <1>4 DEF O!Leave

LEMMA EnterAbove ==
  ASSUME NEW base, IsSeq(base), NEW t, NEW mem, O!Enter(base, t, mem)
  PROVE  Rises(base)
<1>1. CASE kont' = Append(base, t)
  <2>1. IsSeq(kont') /\ Len(kont') = Len(base) + 1 /\ Len(base) \in Nat
    BY <1>1, PushSeq
  <2> QED BY <2>1 DEF Rises
<1>2. CASE O!Leave(base, t, "err", mem)
  BY <1>2, LeaveGone
<1> QED BY <1>1, <1>2 DEF O!Enter

LEMMA LandAbove ==
  ASSUME NEW base, IsSeq(base), NEW out, O!Land(base, out)
  PROVE  Rises(base)
<1>1. kont' = base /\ Len(base) \in Nat
  BY PushSeq DEF O!Land
<1> QED BY <1>1 DEF Rises

LEMMA DestroyAbove ==
  ASSUME NEW base, IsSeq(base), NEW k, NEW mem, O!DestroyObject(base, k, mem)
  PROVE  Rises(base)
<1>1. CASE \E e : kont' = Append(base, e)
  <2>1. IsSeq(kont') /\ Len(kont') = Len(base) + 1 /\ Len(base) \in Nat
    BY <1>1, PushSeq
  <2> QED BY <2>1 DEF Rises
<1>2. CASE \E t : O!Enter(base, t, mem)
  BY <1>2, EnterAbove
<1>3. CASE \E out : O!Land(base, out)
  BY <1>3, LandAbove
<1> QED BY <1>1, <1>2, <1>3 DEF O!DestroyObject

LEMMA ExecAbove ==
  ASSUME NEW base, IsSeq(base), NEW k, NEW chain, NEW at, NEW mem, O!ExecEntry(base, k, chain, at, mem)
  PROVE  Rises(base)
BY DestroyAbove, EnterAbove DEF O!ExecEntry

LEMMA DoAbove ==
  ASSUME StackOK, NEW c, O!Do(c)
  PROVE  Rises(kont)
<1>0. ASSUME \E out : O!Land(kont, out) PROVE Rises(kont)
  BY <1>0, LandAbove DEF StackOK
<1>1. ASSUME \E e : kont' = Append(kont, e) PROVE Rises(kont)
  <2>1. IsSeq(kont') /\ Len(kont') = Len(kont) + 1 /\ Len(kont) \in Nat
    BY <1>1, PushSeq DEF StackOK
  <2> QED BY <2>1 DEF Rises
<1>2. ASSUME UNCHANGED kont PROVE Rises(kont)
  <2>1. Len(kont) \in Nat
    BY PushSeq DEF StackOK
  <2> QED BY <1>2, <2>1 DEF Rises, StackOK
<1>3. ASSUME NEW k, NEW m, NEW private, O!Invoke(k, m, private) PROVE Rises(kont)
  <2>1. CASE \E out : O!Land(kont, out)
    BY <1>0, <2>1
  <2>2. CASE \E chain, mem : O!ExecEntry(kont, k, chain, 1, mem)
    BY <2>2, ExecAbove DEF StackOK
  <2> QED BY <1>3, <2>1, <2>2 DEF O!Invoke
<1>4. CASE O!CreateObject(c) \/ O!CreateClass(c) \/ O!CopyObject(c)
  BY <1>0, <1>1, <1>4 DEF O!CreateObject, O!CreateClass, O!CopyObject, O!Refused
<1>5. CASE O!Call(c) \/ O!My(c)
  BY <1>0, <1>3, <1>5 DEF O!Call, O!My, O!Refused
<1>6. CASE O!NextMethod(c)
  BY <1>0, <1>6, ExecAbove DEF O!NextMethod, O!Refused, StackOK
<1>7. CASE O!Rename(c)
  BY <1>2, <1>7 DEF O!Rename
<1>8. CASE O!DefineMethod(c) \/ O!DeleteMethod(c) \/ O!RenameMethod(c) \/ O!Export(c) \/ O!Constructor(c) \/ O!Destructor(c)
  BY <1>2, <1>8 DEF O!DefineMethod, O!DeleteMethod, O!RenameMethod, O!Export, O!Constructor, O!Destructor, O!Redefine
<1>9. CASE O!Mixin(c) \/ O!Superclass(c)
  BY <1>0, <1>2, <1>9 DEF O!Mixin, O!Superclass, O!Redefine, O!Refused
<1> QED BY <1>4, <1>5, <1>6, <1>7, <1>8, <1>9 DEF O!Do

LEMMA GoneInv ==
  StackOK /\ [O!Next]_(O!vars) => StackOK' /\ O!GoneStep
<1> SUFFICES ASSUME StackOK, [O!Next]_(O!vars) PROVE StackOK' /\ O!GoneStep
  OBVIOUS
<1>0. Len(kont) \in Nat /\ DOMAIN kont = 1 .. Len(kont) /\ (kont # <<>> => Len(kont) \in DOMAIN kont)
  BY DEF StackOK, IsSeq
<1>1. ASSUME Rises(kont) PROVE StackOK' /\ O!GoneStep
  <2>1. IsSeq(kont') /\ Len(kont') >= Len(kont) /\ Len(kont') \in Nat
    BY <1>1, PushSeq DEF Rises
  <2>2. \A i \in DOMAIN kont : ~(i > Len(kont'))
    BY <1>0, <2>1
  <2> QED BY <2>1, <2>2 DEF StackOK, O!GoneStep
<1>2. ASSUME UNCHANGED kont PROVE StackOK' /\ O!GoneStep
  BY <1>0, <1>1, <1>2 DEF Rises, StackOK
<1>3. ASSUME kont # <<>>, Rises(O!Front(kont)), Len(kont') = Len(O!Front(kont)) => Gone(O!Top)
      PROVE  StackOK' /\ O!GoneStep
  <2>1. /\ IsSeq(kont') /\ Len(kont') \in Nat /\ Len(kont') >= Len(O!Front(kont))
        /\ Len(O!Front(kont)) = Len(kont) - 1
    BY <1>3, PopSeq, PushSeq DEF Rises, StackOK
  <2>2. ASSUME NEW i \in DOMAIN kont, i > Len(kont')
        PROVE  i = Len(kont) /\ Len(kont') = Len(O!Front(kont))
    <3> DEFINE n == Len(kont)
               m == Len(kont')
    <3>1. n \in Nat /\ i \in 1 .. n /\ m \in Nat /\ m >= n - 1 /\ i > m
      BY <1>0, <2>1, <2>2
    <3> HIDE DEF n, m
    <3>2. i = n /\ m = n - 1
      BY <3>1
    <3> QED BY <2>1, <3>2 DEF n, m
  <2> QED BY <1>3, <2>1, <2>2 DEF StackOK, O!GoneStep, Gone, O!Top
<1>4. IsSeq(O!Front(kont)) \/ kont = <<>>
  BY PopSeq DEF StackOK
<1>5. CASE UNCHANGED O!vars
  BY <1>2, <1>5 DEF O!vars
<1>6. CASE O!Script
  BY <1>1, <1>6, DoAbove DEF O!Script
<1>7. CASE O!Return \/ O!PassOn
  <2>1. kont # <<>> /\ \E out \in {"ok", "err"} : O!Leave(O!Front(kont), O!Top, out, memo)
    BY <1>7 DEF O!Return, O!PassOn
  <2> QED BY <1>3, <1>4, <2>1, LeaveGone
<1>8. CASE O!Catch
  BY <1>2, <1>8 DEF O!Catch
<1>9. CASE O!NextVictim
  <2> DEFINE e == [kont[Len(kont)] EXCEPT !.todo = Tail(@)]
             base == [kont EXCEPT ![Len(kont)].todo = Tail(@)]
  <2>1. base = [kont EXCEPT ![Len(kont)] = e]
    OBVIOUS
  <2>2. kont # <<>> /\ \E k : O!DestroyObject(base, k, memo)
    BY <1>9 DEF O!NextVictim
  <2> HIDE DEF e, base
  <2>3. IsSeq(base) /\ Len(base) = Len(kont)
    BY <1>0, <2>1, <2>2, AlterSeq DEF StackOK
  <2>4. Rises(base)
    BY <2>2, <2>3, DestroyAbove
  <2> QED BY <1>1, <2>3, <2>4 DEF Rises
<1>10. CASE O!NextPhase
  <2> DEFINE e == O!Cascade(O!Top.key, "classes", O!Victims(O!Top.key, DOMAIN classes))
  <2>1. kont # <<>> /\ kont' = [kont EXCEPT ![Len(kont)] = e]
    BY <1>10 DEF O!NextPhase
  <2> HIDE DEF e
  <2>2. IsSeq(kont') /\ Len(kont') = Len(kont)
    BY <1>0, <2>1, AlterSeq DEF StackOK
  <2> QED BY <1>0, <1>1, <2>2 DEF Rises
<1>11. CASE O!EndCascade \/ O!StopCascade
  <2>1. kont # <<>> /\ O!Top.role = "cascade" /\ \E out : O!Land(O!Front(kont), out)
    BY <1>11 DEF O!EndCascade, O!StopCascade
  <2>2. Rises(O!Front(kont)) /\ Gone(O!Top)
    BY <1>4, <2>1, LandAbove DEF Gone
  <2> QED BY <1>3, <2>1, <2>2
<1> QED BY <1>5, <1>6, <1>7, <1>8, <1>9, <1>10, <1>11 DEF O!Next

LEMMA FreshStack == O!Fresh => StackOK
<1>1. <<>> \in Seq({})
  OBVIOUS
<1> QED BY <1>1 DEF O!Fresh, StackOK, IsSeq

-----------------------------------------------------------------------------
(* A method resolved through the memo is the one that resolving afresh     *)
(* finds, whatever the program (mutation_ctr is bumped wherever a table    *)
(* changes).                                                               *)
THEOREM MemoIsFresh == O!Fresh /\ [][O!Next]_(O!vars) => []O!MemoFresh
BY FreshMemo, MemoStep, PTL

(* A making that fails and a destruction, however it ends, leave nothing   *)
(* of the object they were about, whatever the program.                    *)
THEOREM GoneForGood == O!Fresh /\ [][O!Next]_(O!vars) => [][O!GoneStep]_(O!vars)
<1>1. O!Fresh /\ [][O!Next]_(O!vars) => []StackOK
  BY FreshStack, GoneInv, PTL
<1>2. StackOK /\ [O!Next]_(O!vars) => [O!GoneStep]_(O!vars)
  BY GoneInv
<1> QED BY <1>1, <1>2, PTL

-----------------------------------------------------------------------------
MemoInv == machine = "objects" => O!MemoFresh

LEMMA MemoInvariant == MCSpec => []MemoInv
<1>1. MCInit => MemoInv
  BY FreshMemo DEF MCInit, MemoInv
<1>2. MemoInv /\ [MCNext]_vars => MemoInv'
  <2> SUFFICES ASSUME MemoInv, [MCNext]_vars PROVE MemoInv'
    OBVIOUS
  <2>1. CASE UNCHANGED vars
    <3>1. UNCHANGED machine /\ UNCHANGED O!vars
      BY <2>1 DEF vars, ofObjects, O!vars
    <3> QED BY <3>1, MemoStep DEF MemoInv
  <2>2. CASE MCNext
    BY <2>2, MemoStep DEF MCNext, MemoInv
  <2> QED BY <2>1, <2>2
<1> QED BY <1>1, <1>2, PTL DEF MCSpec

(* What the memo of chains answers is what resolving afresh would          *)
(* (chain_memo).                                                           *)
THEOREM MemoAsRun == MCSpec => []MemoFresh
<1>1. MemoInv => MemoFresh
  BY DEF MemoInv, MemoFresh
<1> QED BY <1>1, MemoInvariant, PTL

StackInv == machine = "objects" => StackOK

(* An object whose construction failed, or that was destroyed, is in no    *)
(* table after (oo_create_object, oo_destroy).                             *)
THEOREM GoneAsRun == MCSpec => GoneEitherWay
<1>1. MCInit => StackInv
  BY FreshStack DEF MCInit, StackInv
<1>2. StackInv /\ [MCNext]_vars => StackInv' /\ (machine = "objects" => O!GoneStep)
  <2> SUFFICES ASSUME StackInv, [MCNext]_vars PROVE StackInv' /\ (machine = "objects" => O!GoneStep)
    OBVIOUS
  <2>1. CASE UNCHANGED vars
    <3>1. UNCHANGED machine /\ UNCHANGED O!vars
      BY <2>1 DEF vars, ofObjects, O!vars
    <3> QED BY <3>1, GoneInv DEF StackInv
  <2>2. CASE MCNext
    BY <2>2, GoneInv DEF MCNext, StackInv
  <2> QED BY <2>1, <2>2
<1>3. StackInv /\ [MCNext]_vars => [machine = "objects" => O!GoneStep]_vars
  BY <1>2
<1> QED BY <1>1, <1>2, <1>3, PTL DEF MCSpec, GoneEitherWay

-----------------------------------------------------------------------------
(* Arrays.                                                                  *)

(* Searches: each was started on an array there was, and covers it while   *)
(* it is the same; a change of the elements ends them all.                 *)
Covering(s, t, g) ==
  /\ {"id", "left", "seen", "gen"} \subseteq DOMAIN s
  /\ s.gen \in Nat /\ s.gen <= g
  /\ t.kind = "array" /\ s.gen = g => s.seen \cup s.left = t.elems /\ s.seen \cap s.left = {}
Covered(a, t, g) ==
  /\ {"ctr", "active"} \subseteq DOMAIN a /\ {"kind", "elems"} \subseteq DOMAIN t /\ g \in Nat
  /\ \A s \in a.active : Covering(s, t, g)
AllCovered ==
  /\ DOMAIN table = A!Loc /\ DOMAIN searches = A!Loc /\ DOMAIN gens = A!Loc
  /\ \A l \in A!Loc : Covered(searches[l], table[l], gens[l])

(* What an operation on the variable at l may leave of it.                 *)
At(l) ==
  /\ DOMAIN table' = DOMAIN table /\ DOMAIN searches' = DOMAIN searches /\ DOMAIN gens' = DOMAIN gens
  /\ \A k \in A!Loc \ {l} : table'[k] = table[k] /\ searches'[k] = searches[k] /\ gens'[k] = gens[k]
  /\ l \in A!Loc => Covered(searches'[l], table'[l], gens'[l])

LEMMA AtCovered ==
  ASSUME AllCovered, NEW l, At(l)
  PROVE  AllCovered'
BY DEF AllCovered, At, A!Loc

LEMMA SameCovered ==
  ASSUME AllCovered, A!SameSearches, UNCHANGED <<table, gens>>
  PROVE  AllCovered'
BY DEF AllCovered, A!SameSearches, A!Loc

LEMMA NoSearchCovered ==
  ASSUME NEW t, NEW g, {"kind", "elems"} \subseteq DOMAIN t, g \in Nat
  PROVE  Covered(A!NoSearch, t, g)
<1>1. {"ctr", "active"} \subseteq DOMAIN A!NoSearch /\ A!NoSearch.active = {}
  BY DEF A!NoSearch
<1> QED BY <1>1 DEF Covered

(* A newer array is none that a search was started on.                     *)
LEMMA RemadeCovered ==
  ASSUME NEW a, NEW t, NEW u, NEW g, Covered(a, t, g), {"kind", "elems"} \subseteq DOMAIN u
  PROVE  Covered(a, u, g + 1)
BY DEF Covered, Covering

LEMMA OtherCovered ==
  ASSUME NEW a, NEW t, NEW u, NEW g, Covered(a, t, g), {"kind", "elems"} \subseteq DOMAIN u,
         u.kind = "array" => t.kind = "array" /\ u.elems = t.elems
  PROVE  Covered(a, u, g)
BY DEF Covered, Covering

LEMMA TwoFields ==
  ASSUME NEW t, {"kind", "elems"} \subseteq DOMAIN t, NEW v
  PROVE  /\ {"kind", "elems"} \subseteq DOMAIN [t EXCEPT !.kind = v]
         /\ [t EXCEPT !.kind = v].kind = v /\ [t EXCEPT !.kind = v].elems = t.elems
         /\ {"kind", "elems"} \subseteq DOMAIN [t EXCEPT !.elems = v]
         /\ [t EXCEPT !.elems = v].kind = t.kind /\ [t EXCEPT !.elems = v].elems = v
OBVIOUS

-----------------------------------------------------------------------------
(* Variables *)

LEMMA SetElemCovered ==
  ASSUME AllCovered, NEW n, NEW e, A!SetElem(n, e)
  PROVE  AllCovered'
<1> DEFINE l == A!Resolve(n)
<1>1. CASE A!SameVars
  BY <1>1, SameCovered DEF A!SameVars
<1>2. CASE /\ table[l].kind = "array"
           /\ table' = [table EXCEPT ![l].elems = @ \cup {e}]
           /\ IF e \in table[l].elems THEN A!SameSearches ELSE A!Bump(l)
           /\ UNCHANGED gens
  <2> DEFINE u == [table[l] EXCEPT !.elems = @ \cup {e}]
  <2>0. table' = [table EXCEPT ![l] = u]
    BY <1>2
  <2>1. ASSUME l \in A!Loc
        PROVE  u.elems = table[l].elems \cup {e} /\ u.kind = table[l].kind /\ {"kind", "elems"} \subseteq DOMAIN u
    BY <2>1, TwoFields DEF AllCovered, Covered
  <2> HIDE DEF u
  <2>2. CASE e \in table[l].elems
    <3>1. l \in A!Loc => Covered(searches[l], u, gens[l])
      BY <2>1, <2>2, OtherCovered DEF AllCovered
    <3>2. At(l)
      BY <1>2, <2>0, <2>2, <3>1 DEF At, A!SameSearches, AllCovered
    <3> QED BY <3>2, AtCovered
  <2>3. CASE e \notin table[l].elems
    <3>1. l \in A!Loc => Covered(A!NoSearch, u, gens[l])
      BY <2>1, NoSearchCovered DEF AllCovered, Covered
    <3>2. At(l)
      BY <1>2, <2>0, <2>3, <3>1 DEF At, A!Bump, AllCovered
    <3> QED BY <3>2, AtCovered
  <2> QED BY <2>2, <2>3
<1>3. CASE /\ table' = [table EXCEPT ![l] = [kind |-> "array", elems |-> {e}]]
           /\ A!NewContainer(l) /\ A!SameSearches
  <2> DEFINE u == [kind |-> "array", elems |-> {e}]
  <2>1. {"kind", "elems"} \subseteq DOMAIN u /\ table' = [table EXCEPT ![l] = u]
    BY <1>3
  <2> HIDE DEF u
  <2>2. l \in A!Loc => Covered(searches[l], u, gens[l] + 1)
    BY <2>1, RemadeCovered DEF AllCovered
  <2>3. At(l)
    BY <1>3, <2>1, <2>2 DEF At, A!SameSearches, A!NewContainer, AllCovered
  <2> QED BY <2>3, AtCovered
<1> QED BY <1>1, <1>2, <1>3 DEF A!SetElem

(* Another kind, for a variable that is no array.                          *)
LEMMA KindCovered ==
  ASSUME AllCovered, NEW l, NEW k, k # "array",
         table' = [table EXCEPT ![l].kind = k], UNCHANGED gens, A!SameSearches
  PROVE  AllCovered'
<1> DEFINE u == [table[l] EXCEPT !.kind = k]
<1>1. table' = [table EXCEPT ![l] = u]
  OBVIOUS
<1>2. ASSUME l \in A!Loc
      PROVE  u.kind = k /\ {"kind", "elems"} \subseteq DOMAIN u
  BY <1>2, TwoFields DEF AllCovered, Covered
<1> HIDE DEF u
<1>3. l \in A!Loc => Covered(searches[l], u, gens[l])
  BY <1>2, OtherCovered DEF AllCovered
<1>4. At(l)
  BY <1>1, <1>3 DEF At, A!SameSearches, AllCovered
<1> QED BY <1>4, AtCovered

LEMMA MadeCovered ==
  ASSUME AllCovered, NEW l, table' = [table EXCEPT ![l].kind = "array"], A!NewContainer(l), A!SameSearches
  PROVE  AllCovered'
<1> DEFINE u == [table[l] EXCEPT !.kind = "array"]
<1>1. table' = [table EXCEPT ![l] = u]
  OBVIOUS
<1>2. l \in A!Loc => {"kind", "elems"} \subseteq DOMAIN u
  BY TwoFields DEF AllCovered, Covered
<1> HIDE DEF u
<1>3. l \in A!Loc => Covered(searches[l], u, gens[l] + 1)
  BY <1>2, RemadeCovered DEF AllCovered
<1>4. At(l)
  BY <1>1, <1>3 DEF At, A!SameSearches, A!NewContainer, AllCovered
<1> QED BY <1>4, AtCovered

LEMMA SetScalarCovered ==
  ASSUME AllCovered, NEW n, A!SetScalar(n)
  PROVE  AllCovered'
<1>1. CASE A!SameVars
  BY <1>1, SameCovered DEF A!SameVars
<1>2. CASE table' = [table EXCEPT ![A!Resolve(n)].kind = "scalar"] /\ UNCHANGED gens /\ A!SameSearches
  BY <1>2, KindCovered
<1> QED BY <1>1, <1>2 DEF A!SetScalar

LEMMA UnsetElemCovered ==
  ASSUME AllCovered, NEW n, NEW e, A!UnsetElem(n, e)
  PROVE  AllCovered'
<1> DEFINE l == A!Resolve(n)
           u == [table[l] EXCEPT !.elems = @ \ {e}]
<1>1. CASE A!SameVars
  BY <1>1, SameCovered DEF A!SameVars
<1>2. CASE table' = [table EXCEPT ![l].elems = @ \ {e}] /\ A!Bump(l) /\ UNCHANGED gens
  <2>1. table' = [table EXCEPT ![l] = u]
    BY <1>2
  <2>2. l \in A!Loc => {"kind", "elems"} \subseteq DOMAIN u
    BY TwoFields DEF AllCovered, Covered
  <2> HIDE DEF u
  <2>3. l \in A!Loc => Covered(A!NoSearch, u, gens[l])
    BY <2>2, NoSearchCovered DEF AllCovered, Covered
  <2>4. At(l)
    BY <1>2, <2>1, <2>3 DEF At, A!Bump, AllCovered
  <2> QED BY <2>4, AtCovered
<1> QED BY <1>1, <1>2 DEF A!UnsetElem

LEMMA GoneFields == {"kind", "elems"} \subseteq DOMAIN A!Gone /\ A!Gone.kind = "none"
BY DEF A!Gone

LEMMA UnsetCovered ==
  ASSUME AllCovered, NEW n, A!Unset(n)
  PROVE  AllCovered'
<1> DEFINE l == A!Resolve(n)
<1>1. CASE UNCHANGED <<table, gens>> /\ A!SameSearches
  BY <1>1, SameCovered
<1>2. CASE table' = [table EXCEPT ![l] = A!Gone] /\ A!NewContainer(l) /\ searches' = [searches EXCEPT ![l] = A!NoSearch]
  <2>1. l \in A!Loc => Covered(A!NoSearch, A!Gone, gens[l] + 1)
    BY GoneFields, NoSearchCovered DEF AllCovered, Covered
  <2>2. At(l)
    BY <1>2, <2>1 DEF At, A!NewContainer, AllCovered
  <2> QED BY <2>2, AtCovered
<1>3. CASE table' = [table EXCEPT ![l] = A!Gone] /\ UNCHANGED gens /\ A!SameSearches
  <2>1. l \in A!Loc => Covered(searches[l], A!Gone, gens[l])
    BY GoneFields, OtherCovered DEF AllCovered
  <2>2. At(l)
    BY <1>3, <2>1 DEF At, A!SameSearches, AllCovered
  <2> QED BY <2>2, AtCovered
<1> QED BY <1>1, <1>2, <1>3 DEF A!Unset

LEMMA AddTraceCovered ==
  ASSUME AllCovered, NEW n, NEW t, A!AddTrace(n, t)
  PROVE  AllCovered'
<1> DEFINE l == A!Resolve(n)
           made == table' = [table EXCEPT ![l].kind = "array"] /\ A!NewContainer(l)
<1>1. CASE UNCHANGED <<table, gens>> /\ A!SameSearches
  BY <1>1, SameCovered
<1>2. CASE UNCHANGED <<table, gens>> /\ A!Bump(l)
  <2>1. l \in A!Loc => Covered(A!NoSearch, table[l], gens[l])
    BY NoSearchCovered DEF AllCovered, Covered
  <2>2. At(l)
    BY <1>2, <2>1 DEF At, A!Bump, AllCovered
  <2> QED BY <2>2, AtCovered
<1>3. CASE made /\ A!SameSearches
  BY <1>3, MadeCovered
<1>4. CASE made /\ A!Bump(l)
  <2> DEFINE u == [table[l] EXCEPT !.kind = "array"]
  <2>1. table' = [table EXCEPT ![l] = u]
    BY <1>4
  <2>2. l \in A!Loc => {"kind", "elems"} \subseteq DOMAIN u
    BY TwoFields DEF AllCovered, Covered
  <2> HIDE DEF u
  <2>3. l \in A!Loc => Covered(A!NoSearch, u, gens[l] + 1)
    BY <2>2, NoSearchCovered DEF AllCovered, Covered
  <2>4. At(l)
    BY <1>4, <2>1, <2>3 DEF At, A!Bump, A!NewContainer, AllCovered
  <2> QED BY <2>4, AtCovered
<1> QED BY <1>1, <1>2, <1>3, <1>4 DEF A!AddTrace, A!SameVars

-----------------------------------------------------------------------------
(* Searches *)

LEMMA SearchedCovered ==
  ASSUME AllCovered, NEW l, NEW a, searches' = [searches EXCEPT ![l] = a], UNCHANGED <<table, gens>>,
         l \in A!Loc => Covered(a, table[l], gens[l])
  PROVE  AllCovered'
<1>1. At(l)
  BY DEF At, AllCovered
<1> QED BY <1>1, AtCovered

LEMMA StartSearchCovered ==
  ASSUME AllCovered, NEW n, A!StartSearch(n)
  PROVE  AllCovered'
<1> DEFINE l == A!Resolve(n)
           k == searches[l].ctr + 1
           s == [id |-> <<k, n>>, left |-> table[l].elems, stamp |-> stamps[l], gen |-> gens[l], seen |-> {}]
           a == [ctr |-> k, active |-> searches[l].active \cup {s}]
<1>1. CASE A!SameVars
  BY <1>1, SameCovered DEF A!SameVars
<1>2. CASE searches' = [searches EXCEPT ![l] = a] /\ UNCHANGED <<table, gens>>
  <2>1. /\ {"id", "left", "seen", "gen"} \subseteq DOMAIN s
        /\ s.gen = gens[l] /\ s.left = table[l].elems /\ s.seen = {}
    OBVIOUS
  <2>2. {"ctr", "active"} \subseteq DOMAIN a /\ a.active = searches[l].active \cup {s}
    OBVIOUS
  <2> HIDE DEF s, a
  <2>3. l \in A!Loc => Covering(s, table[l], gens[l])
    BY <2>1 DEF Covering, AllCovered, Covered
  <2>4. l \in A!Loc => Covered(a, table[l], gens[l])
    BY <2>2, <2>3 DEF AllCovered, Covered
  <2> QED BY <1>2, <2>4, SearchedCovered
<1> QED BY <1>1, <1>2 DEF A!StartSearch

(* A search that moves on gives one element more.                          *)
LEMMA MovedCovering ==
  ASSUME NEW s, NEW t, NEW g, Covering(s, t, g), NEW e \in s.left
  PROVE  Covering([s EXCEPT !.left = @ \ {e}, !.seen = @ \cup {e}], t, g)
<1> DEFINE u == [s EXCEPT !.left = @ \ {e}, !.seen = @ \cup {e}]
<1>1. /\ DOMAIN u = DOMAIN s /\ u.gen = s.gen
      /\ u.left = s.left \ {e} /\ u.seen = s.seen \cup {e}
  BY DEF Covering
<1> HIDE DEF u
<1>2. Covering(u, t, g)
  BY <1>1 DEF Covering
<1> QED BY <1>2 DEF u

LEMMA NextElementCovered ==
  ASSUME AllCovered, NEW n, NEW id, A!NextElement(n, id)
  PROVE  AllCovered'
<1> DEFINE l == A!Resolve(n)
<1>1. CASE UNCHANGED <<searches, table, gens>>
  BY <1>1 DEF AllCovered, A!Loc
<1>2. CASE /\ UNCHANGED <<table, gens>>
           /\ \E s \in A!Valid(l) : \E e \in s.left :
                A!Replace(l, s, {[s EXCEPT !.left = @ \ {e}, !.seen = @ \cup {e}]})
  <2> PICK s \in A!Valid(l) : \E e \in s.left : A!Replace(l, s, {[s EXCEPT !.left = @ \ {e}, !.seen = @ \cup {e}]})
    BY <1>2
  <2> PICK e \in s.left : A!Replace(l, s, {[s EXCEPT !.left = @ \ {e}, !.seen = @ \cup {e}]})
    OBVIOUS
  <2> DEFINE u == [s EXCEPT !.left = @ \ {e}, !.seen = @ \cup {e}]
             a == [searches[l] EXCEPT !.active = (@ \ {s}) \cup {u}]
  <2>1. l \in A!Loc => Covering(u, table[l], gens[l])
    BY MovedCovering DEF A!Valid, AllCovered, Covered
  <2> HIDE DEF u
  <2>2. searches' = [searches EXCEPT ![l] = a]
    BY DEF A!Replace, u
  <2>3. l \in A!Loc => {"ctr", "active"} \subseteq DOMAIN a /\ a.active = (searches[l].active \ {s}) \cup {u}
    BY DEF AllCovered, Covered
  <2> HIDE DEF a
  <2>4. l \in A!Loc => Covered(a, table[l], gens[l])
    BY <2>1, <2>3 DEF AllCovered, Covered
  <2> QED BY <1>2, <2>2, <2>4, SearchedCovered
<1> QED BY <1>1, <1>2 DEF A!NextElement, A!SameVars, A!SameSearches

LEMMA DoneSearchCovered ==
  ASSUME AllCovered, NEW n, NEW id, A!DoneSearch(n, id)
  PROVE  AllCovered'
<1> DEFINE l == A!Resolve(n)
           rest == {s \in searches[l].active : s.id # id}
           a == [ctr |-> IF A!Restarts(rest) THEN 0 ELSE searches[l].ctr, active |-> rest]
<1>1. CASE A!SameVars
  BY <1>1, SameCovered DEF A!SameVars
<1>2. CASE searches' = [searches EXCEPT ![l] = a] /\ UNCHANGED <<table, gens>>
  <2>1. {"ctr", "active"} \subseteq DOMAIN a /\ a.active = rest
    OBVIOUS
  <2> HIDE DEF a
  <2>2. l \in A!Loc => Covered(a, table[l], gens[l])
    BY <2>1 DEF AllCovered, Covered
  <2> QED BY <1>2, <2>2, SearchedCovered
<1> QED BY <1>1, <1>2 DEF A!DoneSearch

LEMMA ArraySetCovered ==
  ASSUME AllCovered, NEW n, NEW elems, A!ArraySet(n, elems)
  PROVE  AllCovered'
BY SameCovered, MadeCovered DEF A!ArraySet, A!SameVars

-----------------------------------------------------------------------------
(* Every step *)

LEMMA DoCovered ==
  ASSUME AllCovered, NEW c, A!Do(c)
  PROVE  AllCovered'
<1>1. CASE A!SameVars
  BY <1>1, SameCovered DEF A!SameVars
<1>2. CASE UNCHANGED <<table, gens>> /\ A!SameSearches
  BY <1>2, SameCovered
<1> QED
  BY <1>1, <1>2, SetElemCovered, SetScalarCovered, UnsetElemCovered, UnsetCovered, AddTraceCovered,
     StartSearchCovered, NextElementCovered, DoneSearchCovered, ArraySetCovered
     DEF A!Do, A!Read, A!RemoveTrace, A!Touch, A!ArrayNames, A!ArrayUnset, A!ArrayGet

LEMMA ReturnCovered ==
  ASSUME AllCovered, A!Return
  PROVE  AllCovered'
<1>1. \A l \in A!Loc : table'[l] = table[l] \/ table'[l] = A!Gone
  BY DEF A!Return
<1>2. \A l \in A!Loc : Covered(searches[l], table'[l], gens[l])
  BY <1>1, GoneFields, OtherCovered DEF AllCovered
<1> QED BY <1>2 DEF A!Return, AllCovered, A!Loc

LEMMA StepCovered == AllCovered /\ [A!Next]_(A!vars) => AllCovered'
<1> SUFFICES ASSUME AllCovered, [A!Next]_(A!vars) PROVE AllCovered'
  OBVIOUS
<1>1. CASE A!SameVars
  BY <1>1, SameCovered DEF A!SameVars
<1>2. CASE UNCHANGED A!vars
  BY <1>2 DEF A!vars, AllCovered, A!Loc
<1>3. CASE A!FireDone
  BY <1>3, SameCovered DEF A!FireDone
<1> QED
  BY <1>1, <1>2, <1>3, DoCovered, ReturnCovered
     DEF A!Next, A!Continue, A!NextOfGet, A!Checked, A!ElemOfGet, A!GetDone, A!ManyDone, A!Script, A!Command, A!Ends, A!Call, A!Link

LEMMA FreshCovered == A!Fresh => AllCovered
<1> SUFFICES ASSUME A!Fresh PROVE AllCovered
  OBVIOUS
<1>1. \A l \in A!Loc : table[l] = A!Gone /\ searches[l] = A!NoSearch /\ gens[l] = 0
  BY DEF A!Fresh
<1>2. \A l \in A!Loc : Covered(searches[l], table[l], gens[l])
  BY <1>1, GoneFields, NoSearchCovered
<1> QED BY <1>2 DEF A!Fresh, AllCovered

LEMMA CoveredCovers == AllCovered => A!SearchCovers
BY DEF AllCovered, Covered, Covering, A!SearchCovers, A!Valid

-----------------------------------------------------------------------------
(* Traces: a link leads to the global frame, and every other location a    *)
(* name leads to is in the innermost frame.                                *)
FramesOK ==
  /\ depth \in Nat /\ \E S : links \in Seq(S)
  /\ Len(links) = depth
  /\ \A f \in 1 .. depth : \A n \in DOMAIN links[f] : \E m : links[f][n] = <<0, m>>
TracesOK == FramesOK /\ DOMAIN traces = A!Loc /\ A!FrameTracesGone

LEMMA ResolveInside ==
  ASSUME FramesOK, NEW n
  PROVE  A!Resolve(n)[1] \in 0 .. depth
BY DEF FramesOK, A!Resolve

LEMMA KeptTraces ==
  ASSUME TracesOK, UNCHANGED <<depth, links>>, DOMAIN traces' = DOMAIN traces,
         \A l \in A!Loc : traces'[l] = traces[l] \/ traces'[l] = <<>> \/ l[1] <= depth
  PROVE  TracesOK'
BY DEF TracesOK, FramesOK, A!FrameTracesGone, A!Loc

LEMMA SameTraces ==
  ASSUME TracesOK, UNCHANGED <<depth, links, traces>>
  PROVE  TracesOK'
BY KeptTraces

LEMMA DoTraces ==
  ASSUME TracesOK, NEW c, A!Do(c), UNCHANGED <<depth, links>>
  PROVE  TracesOK'
<1>1. CASE UNCHANGED traces
  BY <1>1, SameTraces
<1>2. CASE \E n, t : A!AddTrace(n, t)
  <2> PICK n, t : A!AddTrace(n, t)
    BY <1>2
  <2>1. CASE UNCHANGED traces
    BY <2>1, SameTraces
  <2>2. CASE traces' = [traces EXCEPT ![A!Resolve(n)] = Append(@, t)]
    <3>1. A!Resolve(n)[1] <= depth
      BY ResolveInside DEF TracesOK, FramesOK
    <3> QED BY <2>2, <3>1, KeptTraces DEF TracesOK
  <2> QED BY <2>1, <2>2 DEF A!AddTrace, A!SameVars
<1>3. CASE \E n, t : A!RemoveTrace(n, t)
  <2> PICK n, t : A!RemoveTrace(n, t)
    BY <1>3
  <2>1. PICK x : traces' = [traces EXCEPT ![A!Resolve(n)] = x]
    BY DEF A!RemoveTrace
  <2>2. A!Resolve(n)[1] <= depth
    BY ResolveInside DEF TracesOK, FramesOK
  <2> QED BY <2>1, <2>2, KeptTraces DEF TracesOK
<1>4. CASE \E n : A!Unset(n)
  <2> PICK n : A!Unset(n)
    BY <1>4
  <2> QED BY KeptTraces, SameTraces DEF TracesOK, A!Unset
<1> QED
  BY <1>1, <1>2, <1>3, <1>4
     DEF A!Do, A!SetElem, A!SetScalar, A!UnsetElem, A!Read, A!StartSearch, A!NextElement, A!DoneSearch, A!ArraySet,
         A!Touch, A!ArrayNames, A!ArrayUnset, A!ArrayGet, A!SameVars

(* A frame begins with no link.                                            *)
LEMMA CallTraces ==
  ASSUME TracesOK, A!Call
  PROVE  TracesOK'
<1>1. PICK S : links \in Seq(S)
  BY DEF TracesOK, FramesOK
<1>2. links' \in Seq(S \cup {<<>>}) /\ Len(links') = depth' /\ depth' = depth + 1
      /\ links'[depth + 1] = <<>> /\ \A f \in 1 .. depth : links'[f] = links[f]
  <2>1. links \in Seq(S \cup {<<>>})
    BY <1>1
  <2> QED BY <2>1 DEF A!Call, TracesOK, FramesOK
<1>3. DOMAIN <<>> = {}
  OBVIOUS
<1>4. FramesOK'
  BY <1>2, <1>3 DEF TracesOK, FramesOK
<1> QED BY <1>2, <1>4 DEF TracesOK, FramesOK, A!FrameTracesGone, A!Call, A!SameVars, A!Loc

LEMMA LinkTraces ==
  ASSUME TracesOK, NEW n, NEW m, A!Link(n, m)
  PROVE  TracesOK'
<1> DEFINE f == [x \in DOMAIN links[depth] \cup {n} |-> IF x = n THEN <<0, m>> ELSE links[depth][x]]
<1>1. PICK S : links \in Seq(S)
  BY DEF TracesOK, FramesOK
<1>2. depth \in 1 .. Len(links) /\ links' = [links EXCEPT ![depth] = f]
  BY DEF A!Link, TracesOK, FramesOK
<1>3. \A x \in DOMAIN f : \E k : f[x] = <<0, k>>
  BY <1>2 DEF TracesOK, FramesOK
<1> HIDE DEF f
<1>4. links' \in Seq(S \cup {f}) /\ Len(links') = Len(links)
      /\ links'[depth] = f /\ \A g \in 1 .. Len(links) : g # depth => links'[g] = links[g]
  <2>1. links \in Seq(S \cup {f})
    BY <1>1
  <2> QED BY <1>2, <2>1
<1>5. ASSUME NEW g \in 1 .. depth PROVE \A x \in DOMAIN links'[g] : \E k : links'[g][x] = <<0, k>>
  <2>1. CASE g = depth
    BY <1>3, <1>4, <2>1
  <2>2. CASE g # depth
    BY <1>4, <2>2 DEF TracesOK, FramesOK
  <2> QED BY <2>1, <2>2
<1>6. FramesOK'
  BY <1>4, <1>5 DEF TracesOK, FramesOK, A!Link
<1> QED BY <1>6 DEF TracesOK, A!FrameTracesGone, A!Link, A!SameVars, A!Loc

LEMMA ReturnTraces ==
  ASSUME TracesOK, A!Return
  PROVE  TracesOK'
<1>1. PICK S : links \in Seq(S)
  BY DEF TracesOK, FramesOK
<1>2. depth \in Nat \ {0} /\ Len(links) = depth /\ depth' = depth - 1 /\ links' = A!Front(links)
  BY DEF A!Return, TracesOK, FramesOK
<1>3. links' \in Seq(S) /\ Len(links') = depth - 1 /\ \A f \in 1 .. depth - 1 : links'[f] = links[f]
  <2>1. links # <<>> /\ links' = Front(links)
    BY <1>2, SameFront
  <2> QED BY <1>1, <1>2, <2>1, FrontSeq
<1>4. FramesOK'
  BY <1>2, <1>3 DEF TracesOK, FramesOK
<1>5. \A l \in A!Loc : l[1] \in Int /\ traces'[l] = IF l[1] = depth THEN <<>> ELSE traces[l]
  BY DEF A!Return, A!TracesOfTheLiving, A!Loc
<1>6. A!FrameTracesGone'
  BY <1>2, <1>5 DEF TracesOK, A!FrameTracesGone, A!Loc
<1> QED BY <1>4, <1>6 DEF TracesOK, A!Return, A!TracesOfTheLiving, A!Loc

LEMMA StepTraces == TracesOK /\ [A!Next]_(A!vars) => TracesOK'
<1> SUFFICES ASSUME TracesOK, [A!Next]_(A!vars) PROVE TracesOK'
  OBVIOUS
<1>1. CASE UNCHANGED <<depth, links, traces>>
  BY <1>1, SameTraces
<1>2. CASE UNCHANGED A!vars
  BY <1>1, <1>2 DEF A!vars
<1>3. CASE A!FireDone
  BY <1>3, KeptTraces DEF A!FireDone, TracesOK, A!Moves
<1> QED
  BY <1>1, <1>2, <1>3, DoTraces, CallTraces, LinkTraces, ReturnTraces
     DEF A!Next, A!Continue, A!NextOfGet, A!Checked, A!ElemOfGet, A!GetDone, A!ManyDone, A!Script, A!Command, A!Ends, A!SameVars, A!Moves

LEMMA FreshTraces == A!Fresh => TracesOK
BY DEF A!Fresh, TracesOK, FramesOK, A!FrameTracesGone
-----------------------------------------------------------------------------

ArraysInv == machine = "arrays" => AllCovered /\ TracesOK

LEMMA ArraysInvariant == MCSpec => []ArraysInv
<1>1. MCInit => ArraysInv
  BY FreshCovered, FreshTraces DEF MCInit, ArraysInv
<1>2. ArraysInv /\ [MCNext]_vars => ArraysInv'
  <2> SUFFICES ASSUME ArraysInv, [MCNext]_vars PROVE ArraysInv'
    OBVIOUS
  <2>1. CASE UNCHANGED vars
    <3>1. UNCHANGED machine /\ UNCHANGED A!vars
      BY <2>1 DEF vars, ofArrays, A!vars
    <3> QED BY <3>1, StepCovered, StepTraces DEF ArraysInv
  <2>2. CASE MCNext
    BY <2>2, StepCovered, StepTraces DEF MCNext, ArraysInv
  <2> QED BY <2>1, <2>2
<1> QED BY <1>1, <1>2, PTL DEF MCSpec

(* A search an array still answers to has given and has left exactly the   *)
(* array's elements, each once (validate_search, bump_stamp).              *)
THEOREM SearchesAsRun == MCSpec => []SearchCovers
<1>1. ArraysInv => SearchCovers
  BY CoveredCovers DEF ArraysInv, SearchCovers
<1> QED BY <1>1, ArraysInvariant, PTL

(* A call sees no traces of an earlier call in a frame of the same number  *)
(* (call_proc, the trace tables of the frame).                             *)
THEOREM FrameTracesAsRun == MCSpec => []FrameTracesGone
<1>1. ArraysInv => FrameTracesGone
  BY DEF ArraysInv, TracesOK, FrameTracesGone
<1> QED BY <1>1, ArraysInvariant, PTL

-----------------------------------------------------------------------------
(* Channels.                                                               *)

ChannelsInv == machine = "channels" => C!ChannelsOK

LEMMA ChannelsInvariant == MCSpec => []ChannelsInv
<1>1. MCInit => ChannelsInv
  BY C!FreshInv DEF MCInit, ChannelsInv
<1>2. ChannelsInv /\ [MCNext]_vars => ChannelsInv'
  <2> SUFFICES ASSUME ChannelsInv, [MCNext]_vars PROVE ChannelsInv'
    OBVIOUS
  <2>1. CASE UNCHANGED vars
    <3>1. UNCHANGED machine /\ UNCHANGED C!vars
      BY <2>1 DEF vars, ofChannels, C!vars, C!tables, C!hooks, C!stores
    <3> QED BY <3>1, C!StepInv DEF ChannelsInv
  <2>2. CASE MCNext
    BY <2>2, C!StepInv DEF MCNext, ChannelsInv
  <2> QED BY <2>1, <2>2
<1> QED BY <1>1, <1>2, PTL DEF MCSpec

(* The tables of channels agree: the order lists the open channels, each   *)
(* once, and a channel a script implements has its handler until its       *)
(* finalize has been called (channel.rs, the reflected table).             *)
THEOREM TablesAsRun == MCSpec => []TablesAgree
<1>1. ChannelsInv => TablesAgree
  BY C!InvAgrees DEF ChannelsInv, TablesAgree
<1> QED BY <1>1, ChannelsInvariant, PTL

(* What its programs do with the file: each keeps to one of the habits.    *)
DataInv == machine = "channels" => C!DataInv(C!Habits)

LEMMA DataStep == DataInv /\ [MCNext]_vars => DataInv' /\ (machine = "channels" => C!EndStaysEnd)
<1> SUFFICES ASSUME DataInv, [MCNext]_vars PROVE DataInv' /\ (machine = "channels" => C!EndStaysEnd)
  OBVIOUS
<1>1. UNCHANGED machine
  BY DEF MCNext, vars
<1>2. CASE machine # "channels"
  BY <1>1, <1>2 DEF DataInv
<1>3. CASE machine = "channels"
  <2>1. [C!Next]_(C!vars)
    BY <1>3 DEF MCNext, vars, ofChannels, C!vars, C!tables, C!hooks, C!stores
  <2>2. C!DataInv(C!Habits)' /\ C!EndStaysEnd
    BY <1>3, <2>1, C!DataStep DEF DataInv
  <2> QED BY <2>2 DEF DataInv
<1> QED BY <1>2, <1>3

LEMMA DataInvariant == MCSpec => []DataInv
<1>1. MCInit => DataInv
  BY BuffersAssumption, C!ProgramsKeep, C!FreshData DEF C!BuffersOK, MCInit, Programs, DataInv
<1> QED BY <1>1, DataStep, PTL DEF MCSpec

(* What a channel that only reads has read ahead is the file's, to where   *)
(* the system stands, and never more than the capacity (BufReader).        *)
THEOREM BufferAsRun == MCSpec => []BufferFollows
<1>1. DataInv => BufferFollows
  BY C!DataGives DEF DataInv, BufferFollows
<1> QED BY <1>1, DataInvariant, PTL

(* Once eof has told that a pipe is at its end it stays there, whoever     *)
(* writes, closes, pushes or creates channels meanwhile (PipeShared).      *)
THEOREM EofAsRun == MCSpec => EofIsFinal
<1>1. DataInv /\ [MCNext]_vars => [machine = "channels" => C!EndStaysEnd]_vars
  BY DataStep
<1> QED BY <1>1, DataInvariant, PTL DEF EofIsFinal, MCSpec
=============================================================================
