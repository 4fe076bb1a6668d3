------------------------- MODULE CommandCacheProofs -------------------------
(***************************************************************************)
(* The tables are well typed, and the caches of CommandCache never change  *)
(* what a call runs, for any names, bodies and bounds.                     *)
(*                                                                         *)
(* The types come first: the tables', the names', the generation's.        *)
(*                                                                         *)
(* Most steps raise the generation and leave no live entry.  The ones that *)
(* do not are calls, returns and the first half of a namespace deletion,   *)
(* and only the last changes a table: it removes procs.  So the argument   *)
(* rests on one fact about the resolution chain, ResolveStable: removing   *)
(* procs other than the winner does not change the winner, although the    *)
(* import arm looks at the very keys being removed.                        *)
(***************************************************************************)
EXTENDS CommandCache, SequenceTheorems, FiniteSetTheorems, TLAPS

-----------------------------------------------------------------------------
(* Names *)

LEMMA QualifyName ==
  ASSUME NEW ns \in Seq(Words), NEW n \in Name
  PROVE  Qualify(ns, n) \in Name /\ Qualify(ns, n).abs
<1>1. CASE n.abs
  BY <1>1 DEF Qualify
<1>2. CASE ~n.abs
  <2>1. n.path \in Seq(Words) /\ n.path # <<>>
    BY DEF Name
  <2>2. ns \o n.path \in Seq(Words) /\ ns \o n.path # <<>>
    BY <2>1
  <2> QED BY <1>2, <2>2 DEF Qualify, Name
<1> QED BY <1>1, <1>2

LEMMA RootSeq ==
  Root \in Seq(Words)
BY DEF Root

LEMMA AbsoluteName ==
  ASSUME NEW n \in Name
  PROVE  Absolute(n) \in Name
BY QualifyName, RootSeq DEF Absolute

LEMMA HomeSeq ==
  ASSUME NEW k \in Name
  PROVE  Home(k) \in Seq(Words)
BY DEF Home, Front, Name

LEMMA AncestorSeqs ==
  ASSUME NEW q \in Seq(Words)
  PROVE  Ancestors(q) \subseteq Seq(Words)
BY DEF Ancestors

LEMMA NoKeyIsNoName ==
  NoKey \notin Name
BY DEF NoKey, Name

-----------------------------------------------------------------------------
(* The commands in progress *)

LEMMA CurrentNsSeq ==
  ASSUME stack \in Seq(Frame)
  PROVE  CurrentNs \in Seq(Words)
<1>1. CASE stack = <<>>
  BY <1>1, RootSeq DEF CurrentNs
<1>2. CASE stack # <<>>
  <2>1. Top \in Frame
    BY <1>2 DEF Top
  <2> QED BY <1>2, <2>1 DEF CurrentNs, Frame
<1> QED BY <1>1, <1>2

LEMMA FrontSeq ==
  ASSUME NEW S, NEW s \in Seq(S), s # <<>>
  PROVE  /\ Front(s) \in Seq(S)
         /\ Len(Front(s)) = Len(s) - 1
         /\ \A i \in 1 .. Len(s) - 1 : Front(s)[i] = s[i]
<1>1. Len(s) \in Nat /\ Len(s) # 0
  OBVIOUS
<1>2. \A i \in 1 .. Len(s) - 1 : s[i] \in S
  BY <1>1
<1> DEFINE n == Len(s) - 1
           t == SubSeq(s, 1, n)
<1>3. n \in Nat /\ 1 \in Int /\ n \in Int
  BY <1>1
<1>4. /\ t \in Seq(S)
      /\ Len(t) = IF 1 <= n THEN n - 1 + 1 ELSE 0
      /\ \A i \in 1 .. n - 1 + 1 : t[i] = s[1 + i - 1]
  <2>1. n \in Int /\ \A i \in 1 .. n : s[i] \in S
    BY <1>2, <1>3
  <2> HIDE DEF n
  <2> QED BY <2>1, SubSeqProperties
<1>5. Front(s) = t
  BY DEF Front
<1> HIDE DEF n, t
<1>6. Len(t) = n /\ \A i \in 1 .. n : t[i] = s[i]
  BY <1>3, <1>4
<1> QED BY <1>4, <1>5, <1>6 DEF n

LEMMA ReplaceSeq ==
  ASSUME NEW S, NEW s \in Seq(S), NEW i \in 1 .. Len(s), NEW e \in S
  PROVE  [s EXCEPT ![i] = e] \in Seq(S) /\ Len([s EXCEPT ![i] = e]) = Len(s)
OBVIOUS

LEMMA PopOK ==
  ASSUME stack \in Seq(Frame), Len(stack) <= MaxDepth, stack # <<>>,
         stack' = Front(stack)
  PROVE  stack' \in Seq(Frame) /\ Len(stack') <= MaxDepth
BY FrontSeq, CommandTableAssumption

LEMMA PushOK ==
  ASSUME NEW f \in Frame, stack \in Seq(Frame), Push(f)
  PROVE  stack' \in Seq(Frame) /\ Len(stack') <= MaxDepth
BY CommandTableAssumption DEF Push

LEMMA NsFrameOK ==
  ASSUME NEW kind \in {"eval", "unset", "traces"},
         NEW ns \in Seq(Words), NEW q \in Seq(Words)
  PROVE  NsFrame(kind, ns, q) \in Frame
BY DEF NsFrame, Frame

LEMMA CallFrameOK ==
  ASSUME NEW k \in Name, NEW d
  PROVE  CallFrame(k, d) \in Frame
BY HomeSeq DEF CallFrame, Frame, Root

-----------------------------------------------------------------------------
(* The steps that only define or remove keys *)

LEMMA DefinedKeyName ==
  ASSUME TableTypeOK, NEW n \in Names
  PROVE  DefinedKey(n) \in Name
BY CurrentNsSeq, QualifyName, CommandTableAssumption DEF DefinedKey, TableTypeOK

LEMMA DefineProcTypes ==
  ASSUME TableTypeOK, NEW n \in Names, NEW d \in Defs, DefineProc(n, d)
  PROVE  TableTypeOK'
<1>1. d \in Def /\ DefinedKey(n) \in Name
  BY DefinedKeyName DEF Defs
<1>2. \A k \in DOMAIN procs' : k \in Name /\ procs'[k] \in Def
  BY <1>1 DEF DefineProc, Put, TableTypeOK
<1> QED BY <1>2 DEF DefineProc, TableTypeOK

LEMMA RegisterTypes ==
  ASSUME TableTypeOK, NEW n \in Names,
         DeleteCommand(n) \/ \E f \in Funcs : RegisterCommand(n, f)
  PROVE  TableTypeOK'
<1>1. \A k \in DOMAIN commands' : k \in Name /\ commands'[k] \in Funcs
  BY CommandTableAssumption
     DEF DeleteCommand, RegisterCommand, Put, Without, TableTypeOK
<1> QED BY <1>1 DEF DeleteCommand, RegisterCommand, TableTypeOK

LEMMA EnsembleTypes ==
  ASSUME TableTypeOK, NEW k \in EnsembleKeys, EnsembleCreate(k)
  PROVE  TableTypeOK'
<1>1. CurrentNs \in Seq(Words) /\ CurrentNs # <<>>
  BY CurrentNsSeq DEF TableTypeOK, EnsembleCreate, Root
<1>2. k \in Name
  <2>1. \A b \in BOOLEAN : [abs |-> b, path |-> CurrentNs] \in Name
    BY <1>1 DEF Name
  <2>2. (Len(CurrentNs) > 1) \in BOOLEAN
    OBVIOUS
  <2>3. [abs |-> Len(CurrentNs) > 1, path |-> CurrentNs] \in Name
    BY <2>1, <2>2, Zenon
  <2>4. \A n \in Names : Qualify(CurrentNs, n) \in Name
    BY <1>1, QualifyName, CommandTableAssumption
  <2> QED BY <2>3, <2>4, Zenon DEF EnsembleKeys
<1>3. \A x \in DOMAIN ensembles' : x \in Name /\ ensembles'[x] \in Seq(Words)
  BY <1>1, <1>2 DEF EnsembleCreate, Put, TableTypeOK
<1> QED BY <1>3 DEF EnsembleCreate, TableTypeOK

-----------------------------------------------------------------------------
(* rename *)

LEMMA RenamedKeyName ==
  ASSUME TableTypeOK, NEW m \in Names \cup {NoKey}
  PROVE  RenamedKey(m) \in Name \cup {NoKey}
BY DefinedKeyName DEF RenamedKey

(* Moving an entry keeps what is true of every entry.                      *)
LEMMA MoveKeys ==
  ASSUME NEW f, NEW V, \A k \in DOMAIN f : k \in Name /\ f[k] \in V,
         NEW o \in DOMAIN f, NEW k \in Name \cup {NoKey}
  PROVE  \A x \in DOMAIN Move(f, o, k) : x \in Name /\ Move(f, o, k)[x] \in V
BY DEF Move, Put, Without

LEMMA MoveOriginsTypes ==
  ASSUME TableTypeOK, NEW o, NEW k \in Name \cup {NoKey}
  PROVE  LET A == MoveOrigins(aliases, o, k)
         IN  \A x \in DOMAIN A : x \in Name /\ A[x] \in Name
<1>1. CASE o = k
  BY <1>1 DEF MoveOrigins, TableTypeOK
<1>2. CASE o # k /\ k = NoKey
  BY <1>2 DEF MoveOrigins, Without, TableTypeOK
<1>3. CASE o # k /\ k # NoKey
  BY <1>3 DEF MoveOrigins, TableTypeOK
<1> QED BY <1>1, <1>2, <1>3

LEMMA RenameAliasTypes ==
  ASSUME TableTypeOK, NEW o \in DOMAIN aliases, NEW k \in Name \cup {NoKey}
  PROVE  LET A == RenameAlias(o, k)
         IN  \A x \in DOMAIN A : x \in Name /\ A[x] \in Name
<1>1. CASE k = NoKey
  BY <1>1 DEF RenameAlias, Without, TableTypeOK
<1>2. CASE k # NoKey
  <2> DEFINE moved == Put(Without(aliases, {o}), Absolute(k), aliases[o])
  <2>1. Absolute(k) \in Name
    BY <1>2, AbsoluteName
  <2>2. \A x \in DOMAIN moved : x \in Name /\ moved[x] \in Name
    BY <2>1 DEF Put, Without, TableTypeOK
  <2> HIDE DEF moved
  <2>3. RenameAlias(o, k) = [a \in DOMAIN moved |->
                               IF moved[a] = o THEN Absolute(k) ELSE moved[a]]
    BY <1>2 DEF RenameAlias, moved
  <2> QED BY <2>1, <2>2, <2>3
<1> QED BY <1>1, <1>2

LEMMA RenameTypes ==
  ASSUME TableTypeOK, NEW n \in Names, NEW m \in Names \cup {NoKey}, Rename(n, m)
  PROVE  TableTypeOK'
<1> DEFINE o == CommandKey(DOMAIN procs, DOMAIN commands, DOMAIN ensembles,
                           aliases, CurrentNs, n)
           k == RenamedKey(m)
<1>1. k \in Name \cup {NoKey}
  BY RenamedKeyName
<1>2. namespaces' \subseteq Seq(Words) /\ Root \in namespaces'
  BY <1>1, HomeSeq, AncestorSeqs DEF Rename, TableTypeOK
<1>3. stack' = stack
  BY DEF Rename
<1> HIDE DEF o, k
<1>4. CASE /\ o \in DOMAIN commands /\ commands' = Move(commands, o, k)
           /\ UNCHANGED <<procs, ensembles, aliases>>
  <2>1. \A x \in DOMAIN commands' : x \in Name /\ commands'[x] \in Funcs
    BY <1>1, <1>4, MoveKeys DEF TableTypeOK
  <2> QED BY <1>2, <1>3, <1>4, <2>1 DEF TableTypeOK
<1>5. CASE /\ o \in DOMAIN procs /\ procs' = Move(procs, o, k)
           /\ aliases' = MoveOrigins(aliases, o, k)
           /\ UNCHANGED <<commands, ensembles>>
  <2>1. \A x \in DOMAIN procs' : x \in Name /\ procs'[x] \in Def
    BY <1>1, <1>5, MoveKeys DEF TableTypeOK
  <2>2. \A x \in DOMAIN aliases' : x \in Name /\ aliases'[x] \in Name
    BY <1>1, <1>5, MoveOriginsTypes
  <2> QED BY <1>2, <1>3, <1>5, <2>1, <2>2 DEF TableTypeOK
<1>6. CASE /\ o \in DOMAIN ensembles /\ ensembles' = Move(ensembles, o, k)
           /\ aliases' = MoveOrigins(aliases, o, k)
           /\ UNCHANGED <<commands, procs>>
  <2>1. \A x \in DOMAIN ensembles' : x \in Name /\ ensembles'[x] \in Seq(Words)
    BY <1>1, <1>6, MoveKeys DEF TableTypeOK
  <2>2. \A x \in DOMAIN aliases' : x \in Name /\ aliases'[x] \in Name
    BY <1>1, <1>6, MoveOriginsTypes
  <2> QED BY <1>2, <1>3, <1>6, <2>1, <2>2 DEF TableTypeOK
<1>7. CASE /\ o \in DOMAIN aliases /\ aliases' = RenameAlias(o, k)
           /\ UNCHANGED <<commands, procs, ensembles>>
  <2>1. \A x \in DOMAIN aliases' : x \in Name /\ aliases'[x] \in Name
    BY <1>1, <1>7, RenameAliasTypes
  <2> QED BY <1>2, <1>3, <1>7, <2>1 DEF TableTypeOK
<1> QED BY <1>4, <1>5, <1>6, <1>7 DEF Rename, o, k

-----------------------------------------------------------------------------
(* Imports *)

LEMMA ImportTargetName ==
  ASSUME TableTypeOK, NEW k \in Name
  PROVE  ImportTarget(k) \in Name
<1>1. k.path \in Seq(Words) /\ k.path # <<>>
  BY DEF Name
<1>2. Last(k.path) \in Words
  BY <1>1 DEF Last
<1>3. [abs |-> FALSE, path |-> <<Last(k.path)>>] \in Name
  BY <1>2 DEF Name
<1>4. CurrentNs \in Seq(Words)
  BY CurrentNsSeq DEF TableTypeOK
<1> QED BY <1>3, <1>4, QualifyName DEF ImportTarget

LEMMA ImportTypes ==
  ASSUME TableTypeOK, NEW src, NEW S \in SUBSET Candidates(src),
         NEW force \in BOOLEAN, Import(src, S, force)
  PROVE  TableTypeOK'
<1> DEFINE fresh == {k \in S : LET t == ImportTarget(k) IN
                       ~(t \in DOMAIN aliases /\ aliases[t] = k)}
           bound == {ImportTarget(k) : k \in fresh}
           from(a) == CHOOSE k \in fresh : ImportTarget(k) = a
<1>1. fresh \subseteq Name
  BY DEF Candidates, TableTypeOK
<1>2. bound \subseteq Name /\ \A a \in bound : from(a) \in Name
  BY <1>1, ImportTargetName
<1> DEFINE clash == {k \in fresh : LET t == ImportTarget(k) IN
                       t \in DOMAIN aliases \/ Taken(t)}
           replaced == {ImportTarget(k) : k \in clash}
                  \cup (IF CurrentNs # Root THEN {} ELSE
                        {Bare(ImportTarget(k)) :
                           k \in {c \in clash : ImportTarget(c) \notin DOMAIN aliases}})
           kept == Without(aliases, UNION {Dependents(aliases, r) : r \in replaced})
<1>3. aliases' = [a \in DOMAIN kept \cup bound |->
                    IF a \in bound THEN from(a) ELSE kept[a]]
  BY Zenon DEF Import
<1>4. \A a \in DOMAIN aliases' : a \in Name /\ aliases'[a] \in Name
  <2>1. \A a \in DOMAIN kept : a \in Name /\ kept[a] \in Name
    BY DEF TableTypeOK, Without
  <2> HIDE DEF bound, from, kept
  <2> QED BY <1>2, <1>3, <2>1
<1>5. \A k \in DOMAIN procs' : k \in Name /\ procs'[k] \in Def
  BY DEF Import, Without, TableTypeOK
<1>6. \A k \in DOMAIN ensembles' : k \in Name /\ ensembles'[k] \in Seq(Words)
  BY DEF Import, Without, TableTypeOK
<1> QED BY <1>4, <1>5, <1>6 DEF Import, TableTypeOK

LEMMA ForgetTypes ==
  ASSUME TableTypeOK, NEW src, NEW S, Forget(src, S)
  PROVE  TableTypeOK'
<1>1. \A a \in DOMAIN aliases' : a \in Name /\ aliases'[a] \in Name
  BY DEF Forget, Without, TableTypeOK
<1> QED BY <1>1 DEF Forget, TableTypeOK

-----------------------------------------------------------------------------
(* Namespaces, calls and returns *)

LEMMA NsEvalTypes ==
  ASSUME TableTypeOK, NEW n \in NsNames, NsEval(n)
  PROVE  TableTypeOK'
<1> DEFINE q == Qualify(CurrentNs, n).path
<1>1. q \in Seq(Words)
  BY CurrentNsSeq, QualifyName, CommandTableAssumption DEF TableTypeOK, Name
<1>2. stack' \in Seq(Frame) /\ Len(stack') <= MaxDepth
  BY <1>1, NsFrameOK, RootSeq, PushOK DEF NsEval, TableTypeOK
<1>3. Root \in namespaces' /\ namespaces' \subseteq Seq(Words)
  BY <1>1, AncestorSeqs DEF NsEval, TableTypeOK
<1> QED BY <1>2, <1>3 DEF NsEval, tables, TableTypeOK

LEMMA NsDeleteTypes ==
  ASSUME TableTypeOK, NEW n \in NsNames, NsDelete(n)
  PROVE  TableTypeOK'
<1> DEFINE q == Qualify(CurrentNs, n).path
<1>1. q \in Seq(Words) /\ q # Root /\ CurrentNs \in Seq(Words)
  BY CurrentNsSeq, QualifyName, CommandTableAssumption
     DEF TableTypeOK, Name, NsDelete
<1>2. stack' \in Seq(Frame) /\ Len(stack') <= MaxDepth
  BY <1>1, NsFrameOK, PushOK DEF NsDelete, TableTypeOK
<1>3. ~Inside(q, Root)
  BY <1>1 DEF Inside, IsPrefix, Root
<1>4. Root \in namespaces' /\ namespaces' \subseteq Seq(Words)
  BY <1>3 DEF NsDelete, TableTypeOK
<1> QED BY <1>2, <1>4 DEF NsDelete, tables, TableTypeOK

LEMMA NsDeleteProcsTypes ==
  ASSUME TableTypeOK, NsDeleteProcs
  PROVE  TableTypeOK'
<1> DEFINE f == [NsFrame("traces", Root, Top.target) EXCEPT
                   !.mark = Inside(Top.target, Top.ns)]
<1>1. stack # <<>> /\ Top \in Frame
  BY DEF NsDeleteProcs, TableTypeOK, Top
<1>2. Inside(Top.target, Top.ns) \in BOOLEAN
  BY DEF Inside, IsPrefix
<1>3. f \in Frame
  <2> DEFINE g == NsFrame("traces", Root, Top.target)
  <2>1. g \in Frame /\ f = [g EXCEPT !.mark = Inside(Top.target, Top.ns)]
    BY <1>1, RootSeq, NsFrameOK DEF Frame
  <2> HIDE DEF f, g
  <2> QED BY <1>2, <2>1 DEF Frame
<1>4. stack' = [stack EXCEPT ![Len(stack)] = f]
  BY DEF NsDeleteProcs
<1>5. stack' \in Seq(Frame) /\ Len(stack') <= MaxDepth
  <2> HIDE DEF f
  <2>1. /\ stack \in Seq(Frame) /\ Len(stack) <= MaxDepth
        /\ Len(stack) \in 1 .. Len(stack)
    BY <1>1 DEF TableTypeOK
  <2>2. stack' \in Seq(Frame) /\ Len(stack') = Len(stack)
    BY <1>3, <1>4, <2>1, ReplaceSeq
  <2> QED BY <2>1, <2>2
<1>6. \A k \in DOMAIN procs' : k \in Name /\ procs'[k] \in Def
  BY DEF NsDeleteProcs, Without, TableTypeOK
<1> QED BY <1>5, <1>6 DEF NsDeleteProcs, TableTypeOK

LEMMA NsDeleteFinishTypes ==
  ASSUME TableTypeOK, NsDeleteFinish
  PROVE  TableTypeOK'
<1>1. \A k \in DOMAIN procs' : k \in Name /\ procs'[k] \in Def
  BY DEF NsDeleteFinish, Without, TableTypeOK
<1>2. \A k \in DOMAIN ensembles' : k \in Name /\ ensembles'[k] \in Seq(Words)
  BY DEF NsDeleteFinish, Without, TableTypeOK
<1>3. \A k \in DOMAIN aliases' : k \in Name /\ aliases'[k] \in Name
  BY DEF NsDeleteFinish, Without, TableTypeOK
<1>4. stack' \in Seq(Frame) /\ Len(stack') <= MaxDepth
  BY PopOK DEF NsDeleteFinish, TableTypeOK
<1> QED BY <1>1, <1>2, <1>3, <1>4 DEF NsDeleteFinish, TableTypeOK

(* Whatever a dispatch runs, by the chain or by a cache, if a proc it goes *)
(* by a name.                                                              *)
LEMMA EnterTypes ==
  ASSUME TableTypeOK, NEW r, r.kind = "proc" => r.key \in Name, Enter(r)
  PROVE  TableTypeOK'
<1>1. stack' \in Seq(Frame) /\ Len(stack') <= MaxDepth
  <2>1. CASE r.kind = "proc"
    BY <2>1, CallFrameOK, PushOK DEF Enter, TableTypeOK
  <2>2. CASE r.kind # "proc"
    BY <2>2 DEF Enter, TableTypeOK
  <2> QED BY <2>1, <2>2
<1> QED BY <1>1 DEF Enter, tables, TableTypeOK

LEMMA ReturnTypes ==
  ASSUME TableTypeOK, Return
  PROVE  TableTypeOK'
<1>1. \A k \in DOMAIN procs' : k \in Name /\ procs'[k] \in Def
  <2>1. CASE UNCHANGED procs
    BY <2>1 DEF TableTypeOK
  <2>2. ASSUME NEW v \in StaticVals, Top.key \in DOMAIN procs,
               procs' = [procs EXCEPT ![Top.key].statics = v]
        PROVE  \A k \in DOMAIN procs' : k \in Name /\ procs'[k] \in Def
    <3>1. procs[Top.key] \in Def
      BY <2>2 DEF TableTypeOK
    <3>2. [procs[Top.key] EXCEPT !.statics = v] \in Def
      BY <3>1 DEF Def
    <3> QED BY <2>2, <3>2 DEF TableTypeOK
  <2> QED BY <2>1, <2>2 DEF Return, WritesBack
<1>2. stack' \in Seq(Frame) /\ Len(stack') <= MaxDepth
  BY PopOK DEF Return, TableTypeOK
<1> QED BY <1>1, <1>2 DEF Return, TableTypeOK

-----------------------------------------------------------------------------
(* First on the short lists the chain uses.                                *)

LEMMA First1 ==
  ASSUME NEW a, NEW D
  PROVE  First(<<a>>, D) = IF a \in D THEN a ELSE NoKey
<1> DEFINE arms == <<a>>
           hits == {i \in DOMAIN arms : arms[i] \in D}
           m    == CHOOSE i \in hits : \A j \in hits : i <= j
<1>1. DOMAIN arms = {1}
  OBVIOUS
<1>2. CASE a \in D
  <2>1. hits = {1}
    BY <1>1, <1>2
  <2>2. m = 1
    BY <2>1
  <2> QED BY <1>2, <2>1, <2>2 DEF First
<1>3. CASE a \notin D
  BY <1>1, <1>3 DEF First
<1> QED BY <1>2, <1>3

LEMMA First2 ==
  ASSUME NEW a, NEW b, NEW D
  PROVE  First(<<a, b>>, D) = IF a \in D THEN a ELSE IF b \in D THEN b ELSE NoKey
<1> DEFINE arms == <<a, b>>
           hits == {i \in DOMAIN arms : arms[i] \in D}
           m    == CHOOSE i \in hits : \A j \in hits : i <= j
<1>1. DOMAIN arms = {1, 2} /\ arms[1] = a /\ arms[2] = b
  OBVIOUS
<1>2. CASE a \in D
  <2>1. 1 \in hits /\ \A j \in hits : 1 <= j
    BY <1>1, <1>2
  <2>2. m = 1
    BY <2>1, <1>1
  <2> QED BY <1>1, <1>2, <2>1, <2>2 DEF First
<1>3. CASE a \notin D /\ b \in D
  <2>1. hits = {2}
    BY <1>1, <1>3
  <2>2. m = 2
    BY <2>1
  <2> QED BY <1>1, <1>3, <2>1, <2>2 DEF First
<1>4. CASE a \notin D /\ b \notin D
  BY <1>1, <1>4 DEF First
<1> QED BY <1>2, <1>3, <1>4

LEMMA First3 ==
  ASSUME NEW a, NEW b, NEW c, NEW D
  PROVE  First(<<a, b, c>>, D) =
           IF a \in D THEN a ELSE IF b \in D THEN b ELSE IF c \in D THEN c ELSE NoKey
<1> DEFINE arms == <<a, b, c>>
           hits == {i \in DOMAIN arms : arms[i] \in D}
           m    == CHOOSE i \in hits : \A j \in hits : i <= j
<1>1. DOMAIN arms = {1, 2, 3} /\ arms[1] = a /\ arms[2] = b /\ arms[3] = c
  OBVIOUS
<1>2. CASE a \in D
  <2>1. 1 \in hits /\ \A j \in hits : 1 <= j
    BY <1>1, <1>2
  <2>2. m = 1
    BY <2>1, <1>1
  <2> QED BY <1>1, <1>2, <2>1, <2>2 DEF First
<1>3. CASE a \notin D /\ b \in D
  <2>1. 2 \in hits /\ \A j \in hits : 2 <= j
    BY <1>1, <1>3
  <2>2. m = 2
    BY <2>1, <1>1
  <2> QED BY <1>1, <1>3, <2>1, <2>2 DEF First
<1>4. CASE a \notin D /\ b \notin D /\ c \in D
  <2>1. hits = {3}
    BY <1>1, <1>4
  <2>2. m = 3
    BY <2>1
  <2> QED BY <1>1, <1>4, <2>1, <2>2 DEF First
<1>5. CASE a \notin D /\ b \notin D /\ c \notin D
  BY <1>1, <1>5 DEF First
<1> QED BY <1>2, <1>3, <1>4, <1>5

-----------------------------------------------------------------------------
(* The chain *)

LEMMA OwnArmsIn ==
  ASSUME NEW P, NEW ns, NEW n
  PROVE  First(OwnArms(ns, n), P) \in P \cup {NoKey}
BY First1, First2, First3 DEF OwnArms

(* A proc the chain finds goes by a name.                                  *)
LEMMA ChainTypes ==
  ASSUME TableTypeOK, NEW ns, NEW n \in Names
  PROVE  Chain(ns, n).kind = "proc" => Chain(ns, n).key \in Name
<1> DEFINE v == Resolve(DOMAIN procs, DOMAIN commands, DOMAIN ensembles, aliases, ns, n)
<1>1. v.kind = "proc" => v.key \in DOMAIN procs \cup {n}
  BY OwnArmsIn DEF Resolve, Verdict, Unknown
<1>2. v.kind = "proc" => v.key \in Name
  BY <1>1, CommandTableAssumption DEF TableTypeOK
<1>3. Chain(ns, n) = RunOf(v)
  BY DEF Chain
<1> HIDE DEF v
<1>4. RunOf(v).kind = "proc" => v.kind = "proc" /\ RunOf(v).key = v.key
  BY DEF RunOf, Run, NoRun
<1> QED BY <1>2, <1>3, <1>4

LEMMA CallTypes ==
  ASSUME TableTypeOK, NEW n \in Names, Call(n)
  PROVE  TableTypeOK'
BY ChainTypes, EnterTypes DEF Call

LEMMA MutateTypes ==
  ASSUME TableTypeOK, Mutate
  PROVE  TableTypeOK'
BY DefineProcTypes, RegisterTypes, EnsembleTypes, RenameTypes,
   ImportTypes, ForgetTypes, NsDeleteFinishTypes DEF Mutate

LEMMA QuietTypes ==
  ASSUME TableTypeOK, Quiet
  PROVE  TableTypeOK'
BY NsEvalTypes, NsDeleteTypes, NsDeleteProcsTypes DEF Quiet

-----------------------------------------------------------------------------
LEMMA TableTypesInit ==
  TableInit => TableTypeOK
<1> SUFFICES ASSUME TableInit PROVE TableTypeOK
  OBVIOUS
<1>1. /\ DOMAIN procs = {} /\ DOMAIN ensembles = {} /\ DOMAIN aliases = {}
      /\ stack \in Seq(Frame) /\ Len(stack) <= MaxDepth
  BY CommandTableAssumption DEF TableInit
<1>2. \A k \in DOMAIN commands : k \in Name /\ commands[k] \in Funcs
  <2>1. CASE commands = <<>>
    BY <2>1
  <2>2. ASSUME NEW n \in Names, NEW f \in Funcs, commands = [k \in {n} |-> f]
        PROVE  \A k \in DOMAIN commands : k \in Name /\ commands[k] \in Funcs
    BY <2>2, CommandTableAssumption
  <2>3. CASE \E n \in Names, f \in Funcs : commands = [k \in {n} |-> f]
    BY <2>2, <2>3
  <2>4. \/ commands = <<>>
        \/ \E n \in Names, f \in Funcs : commands = [k \in {n} |-> f]
    BY DEF TableInit
  <2> QED BY <2>1, <2>3, <2>4
<1> QED BY <1>1, <1>2, RootSeq DEF TableInit, TableTypeOK

(* Every table is keyed by names and holds what it is for, the namespaces  *)
(* are paths with the global one among them, and the commands in progress  *)
(* are well formed and within the depth bound.                             *)
THEOREM TableTypes == TableSpec => []TableTypeOK
<1>1. TableTypeOK /\ [TableNext]_tvars => TableTypeOK'
  <2> SUFFICES ASSUME TableTypeOK, [TableNext]_tvars PROVE TableTypeOK'
    OBVIOUS
  <2>1. CASE UNCHANGED tvars
    BY <2>1 DEF tvars, TableTypeOK
  <2> QED BY <2>1, MutateTypes, QuietTypes, ReturnTypes, CallTypes DEF TableNext
<1> QED BY <1>1, TableTypesInit, PTL DEF TableSpec

-----------------------------------------------------------------------------
(* Resolution under removal of procs *)

(* The names and namespaces the lemmas are about: all that is used is that *)
(* qualifying a name makes it absolute and leaves absolute names alone.    *)
LEMMA Qualified ==
  ASSUME NEW ns, NEW n
  PROVE  /\ n.abs => Qualify(ns, n) = n
         /\ ~n.abs => Qualify(ns, n).abs
         /\ Qualify(ns, Qualify(ns, n)) = Qualify(ns, n)
         /\ Qualify(ns, Absolute(n)) = Absolute(n)
BY DEF Qualify, Absolute

(* Removing procs leaves the way into the aliases as it was, unless the    *)
(* import arm wins and its winner is removed.                              *)
LEMMA EntryStable ==
  ASSUME NEW P, NEW Q \in SUBSET P, NEW C, NEW A, NEW ns, NEW n,
         n \notin P,
         LET i == ImportedKey(P, C, A, ns, n) IN i \notin P \/ i \in Q
  PROVE  EntryKey(Q, C, A, ns, n) = EntryKey(P, C, A, ns, n)
<1> DEFINE q == Qualify(ns, n)
           r == Absolute(n)
           held(D) == D \cup DOMAIN A \cup C
<1>0. Qualify(ns, q) = q /\ Qualify(ns, r) = r
  BY Qualified
<1>1. CASE q \in held(Q)
  <2>1. LookupKey(Q, C, A, ns, n) = q /\ LookupKey(P, C, A, ns, n) = q
    BY <1>1 DEF LookupKey
  <2>2. LookupKey(Q, C, A, ns, q) = q /\ LookupKey(P, C, A, ns, q) = q
    BY <1>0, <1>1 DEF LookupKey
  <2> QED BY <2>1, <2>2 DEF EntryKey
<1>2. CASE q \in P /\ q \notin held(Q)
  <2>1. EntryKey(P, C, A, ns, n) \in {q, NoKey}
    BY <1>0, <1>2 DEF EntryKey, LookupKey
  <2>2. EntryKey(P, C, A, ns, n) = q
    BY <1>0, <1>2 DEF EntryKey, LookupKey
  <2>3. ImportedKey(P, C, A, ns, n) = q
    BY <1>2, <2>2 DEF ImportedKey, ChainEnd
  <2> QED BY <1>2, <2>3
<1>3. CASE q \notin held(P)
  <2>1. CASE n \in DOMAIN A \cup C
    <3>1. LookupKey(Q, C, A, ns, n) = r /\ LookupKey(P, C, A, ns, n) = r
      BY <1>3, <2>1 DEF LookupKey
    <3>2. CASE r \in held(Q)
      <4>1. LookupKey(Q, C, A, ns, r) = r /\ LookupKey(P, C, A, ns, r) = r
        BY <1>0, <3>2 DEF LookupKey
      <4> QED BY <3>1, <4>1 DEF EntryKey
    <3>3. CASE r \in P /\ r \notin held(Q)
      <4>1. EntryKey(P, C, A, ns, n) = r \/ r = NoKey
        BY <1>0, <3>1, <3>3 DEF EntryKey, LookupKey
      <4>2. r # NoKey
        BY DEF Absolute, Qualify, NoKey
      <4>3. ImportedKey(P, C, A, ns, n) = r
        BY <3>3, <4>1, <4>2 DEF ImportedKey, ChainEnd
      <4> QED BY <3>3, <4>3
    <3>4. CASE r \notin held(P)
      <4>1. LookupKey(Q, C, A, ns, r) = LookupKey(P, C, A, ns, r)
        BY <1>0, <3>4 DEF LookupKey
      <4> QED BY <3>1, <4>1 DEF EntryKey
    <3> QED BY <3>2, <3>3, <3>4
  <2>2. CASE n \notin DOMAIN A \cup C
    <3>1. /\ LookupKey(Q, C, A, ns, n) = LookupKey(P, C, A, ns, n)
          /\ LookupKey(P, C, A, ns, n) \in {q, NoKey}
      BY <1>3, <2>2 DEF LookupKey
    <3>2. LookupKey(Q, C, A, ns, q) = LookupKey(P, C, A, ns, q)
      BY <1>0, <1>3 DEF LookupKey
    <3> QED BY <3>1, <3>2 DEF EntryKey
  <2> QED BY <2>1, <2>2
<1> QED BY <1>1, <1>2, <1>3

(* A name that is itself a proc key is found among the first arms.         *)
LEMMA OwnArmsHaveName ==
  ASSUME NEW P, NoKey \notin P, NEW ns, NEW n \in P
  PROVE  First(OwnArms(ns, n), P) # NoKey
BY First1, First2, First3 DEF OwnArms

(* The first arms of a smaller table pick the same winner if it is left,   *)
(* and pick none if they picked none.                                      *)
LEMMA OwnArmsStable ==
  ASSUME NEW P, NoKey \notin P, NEW Q \in SUBSET P, NEW ns, NEW n,
         First(OwnArms(ns, n), P) \in Q \cup {NoKey}
  PROVE  First(OwnArms(ns, n), Q) = First(OwnArms(ns, n), P)
BY First1, First2, First3 DEF OwnArms

(* Removing procs other than the winner does not change the winner.        *)
LEMMA ResolveStable ==
  ASSUME NEW P, NoKey \notin P, NEW Q \in SUBSET P, NEW C, NEW E, NEW A,
         NEW ns, NEW n,
         LET v == Resolve(P, C, E, A, ns, n) IN v.kind = "proc" => v.at \in Q
  PROVE  Resolve(Q, C, E, A, ns, n) = Resolve(P, C, E, A, ns, n)
<1> DEFINE own(D) == First(OwnArms(ns, n), D)
           i(D)   == ImportedKey(D, C, A, ns, n)
           v      == Resolve(P, C, E, A, ns, n)
<1>1. CASE own(P) # NoKey
  <2>1. v = Verdict("proc", own(P), own(P))
    BY <1>1 DEF Resolve
  <2>2. own(P) \in Q
    BY <2>1 DEF Verdict
  <2>3. own(Q) = own(P)
    BY <2>2, OwnArmsStable
  <2> QED BY <1>1, <2>1, <2>3 DEF Resolve
<1>2. CASE own(P) = NoKey
  <2>1. own(Q) = NoKey /\ n \notin P
    BY <1>2, OwnArmsStable, OwnArmsHaveName
  <2>2. i(P) \in P => v = Verdict("proc", i(P), i(P))
    BY <1>2 DEF Resolve
  <2>3. i(P) \notin P \/ i(P) \in Q
    BY <2>2 DEF Verdict
  <2>4. EntryKey(Q, C, A, ns, n) = EntryKey(P, C, A, ns, n)
    BY <2>1, <2>3, EntryStable
  <2>5. i(Q) = i(P) /\ EnsArms(Q, C, A, ns, n) = EnsArms(P, C, A, ns, n)
    BY <2>4 DEF ImportedKey, EnsArms
  <2>6. CASE i(P) \in P
    BY <1>2, <2>1, <2>2, <2>3, <2>5, <2>6 DEF Resolve
  <2>7. CASE i(P) \notin P /\ ~n.abs /\ Absolute(n) \in P
    <3>1. v = Verdict("proc", Absolute(n), Absolute(n))
      BY <1>2, <2>7 DEF Resolve
    <3>2. Absolute(n) \in Q
      BY <3>1 DEF Verdict
    <3> QED BY <2>1, <2>5, <2>7, <3>1, <3>2 DEF Resolve
  <2>8. CASE /\ i(P) \notin P /\ ~(~n.abs /\ Absolute(n) \in P)
             /\ n.abs /\ Simple(n) /\ Bare(n) \in P
    <3>1. v = Verdict("proc", n, Bare(n))
      BY <1>2, <2>8 DEF Resolve
    <3>2. Bare(n) \in Q
      BY <3>1 DEF Verdict
    <3> QED BY <2>1, <2>5, <2>8, <3>1, <3>2 DEF Resolve
  <2>9. CASE /\ i(P) \notin P /\ ~(~n.abs /\ Absolute(n) \in P)
             /\ ~(n.abs /\ Simple(n) /\ Bare(n) \in P)
    <3>1. /\ i(Q) \notin Q /\ ~(~n.abs /\ Absolute(n) \in Q)
          /\ ~(n.abs /\ Simple(n) /\ Bare(n) \in Q)
      BY <2>5, <2>9
    <3> QED BY <1>2, <2>1, <2>5, <2>9, <3>1 DEF Resolve
  <2> QED BY <2>6, <2>7, <2>8, <2>9
<1> QED BY <1>1, <1>2

(* A verdict that goes by a registered key is registered under it.         *)
LEMMA VerdictKey ==
  ASSUME NEW P, NoKey \notin P, NEW C, NEW E, NEW A, NEW ns, NEW n,
         LET v == Resolve(P, C, E, A, ns, n) IN v.kind = "proc" /\ v.key \in P
  PROVE  LET v == Resolve(P, C, E, A, ns, n) IN v.at = v.key
<1> DEFINE v == Resolve(P, C, E, A, ns, n)
<1>1. CASE n \in P
  <2>1. v = Verdict("proc", First(OwnArms(ns, n), P), First(OwnArms(ns, n), P))
    BY <1>1, OwnArmsHaveName DEF Resolve
  <2> QED BY <2>1 DEF Verdict
<1>2. CASE n \notin P
  BY <1>2 DEF Resolve, Verdict, Unknown
<1> QED BY <1>1, <1>2

-----------------------------------------------------------------------------
(* What the steps do to the stack *)

LEMMA MutateStack ==
  ASSUME Mutate
  PROVE  stack' = stack \/ (stack # <<>> /\ stack' = Front(stack))
BY DEF Mutate, DefineProc, DeleteCommand, RegisterCommand, EnsembleCreate,
       Rename, Import, Forget, NsDeleteFinish

LEMMA QuietStack ==
  ASSUME TableTypeOK, Quiet
  PROVE  /\ Len(stack') \in {Len(stack), Len(stack) + 1}
         /\ UNCHANGED <<commands, ensembles, aliases>>
         /\ TreeHalfDeleted => TreeHalfDeleted'
         /\ \/ UNCHANGED procs
            \/ TreeHalfDeleted' /\ \E D : procs' = Without(procs, D)
<1>1. ASSUME NEW kind, NEW q, kind \in {"eval", "unset"},
             NEW ns, NsFrame(kind, ns, q) \in Frame, Push(NsFrame(kind, ns, q))
      PROVE  Len(stack') = Len(stack) + 1 /\ (TreeHalfDeleted => TreeHalfDeleted')
  BY <1>1 DEF Push, TableTypeOK, TreeHalfDeleted
<1>2. ASSUME NEW n \in NsNames, NsEval(n) \/ NsDelete(n)
      PROVE  /\ Len(stack') = Len(stack) + 1 /\ (TreeHalfDeleted => TreeHalfDeleted')
             /\ UNCHANGED <<procs, commands, ensembles, aliases>>
  <2> DEFINE q == Qualify(CurrentNs, n).path
  <2>1. q \in Seq(Words) /\ CurrentNs \in Seq(Words)
    BY CurrentNsSeq, QualifyName, CommandTableAssumption DEF TableTypeOK, Name
  <2>2. /\ NsFrame("eval", q, Root) \in Frame
        /\ NsFrame("unset", CurrentNs, q) \in Frame
    BY <2>1, NsFrameOK, RootSeq
  <2>3. \/ Push(NsFrame("eval", q, Root))
        \/ Push(NsFrame("unset", CurrentNs, q))
    BY <1>2 DEF NsEval, NsDelete
  <2> HIDE DEF q
  <2> QED BY <1>1, <1>2, <2>2, <2>3 DEF NsEval, NsDelete, tables
<1>3. ASSUME NsDeleteProcs
      PROVE  /\ Len(stack') = Len(stack)
             /\ UNCHANGED <<commands, ensembles, aliases>>
             /\ TreeHalfDeleted => TreeHalfDeleted'
             /\ \/ UNCHANGED procs
                \/ TreeHalfDeleted' /\ \E D : procs' = Without(procs, D)
  <2> DEFINE inside == Inside(Top.target, Top.ns)
             f == [NsFrame("traces", Root, Top.target) EXCEPT !.mark = inside]
  <2>1. /\ stack \in Seq(Frame) /\ stack # <<>> /\ Top.kind = "unset"
        /\ stack' = [stack EXCEPT ![Len(stack)] = f]
    BY <1>3 DEF NsDeleteProcs, TableTypeOK
  <2>2. f.kind = "traces" /\ f.mark = inside
    BY DEF NsFrame
  <2>3. procs' = IF inside THEN Without(procs, DyingProcs(Top.target)) ELSE procs
    BY <1>3 DEF NsDeleteProcs
  <2> HIDE DEF f, inside
  <2>4. /\ DOMAIN stack' = DOMAIN stack /\ Len(stack) \in DOMAIN stack
        /\ stack'[Len(stack)] = f /\ Len(stack') = Len(stack)
    BY <2>1
  <2>5. \A i \in DOMAIN stack : i # Len(stack) => stack'[i] = stack[i]
    BY <2>1
  <2>6. TreeHalfDeleted => TreeHalfDeleted'
    BY <2>1, <2>4, <2>5 DEF TreeHalfDeleted, Top
  <2>7. inside => TreeHalfDeleted'
    BY <2>2, <2>4 DEF TreeHalfDeleted
  <2>8. UNCHANGED <<commands, ensembles, aliases>>
    BY <1>3 DEF NsDeleteProcs
  <2> QED BY <2>3, <2>4, <2>6, <2>7, <2>8
<1> QED BY <1>2, <1>3 DEF Quiet

LEMMA EnterStack ==
  ASSUME TableTypeOK, NEW r, r.kind = "proc" => r.key \in Name, Enter(r)
  PROVE  /\ Len(stack') = IF r.kind = "proc" THEN Len(stack) + 1 ELSE Len(stack)
         /\ TreeHalfDeleted => TreeHalfDeleted'
<1>1. CASE r.kind = "proc"
  <2>1. CallFrame(r.key, r.def) \in Frame
    BY <1>1, CallFrameOK
  <2> QED BY <1>1, <2>1 DEF Enter, Push, TableTypeOK, TreeHalfDeleted
<1>2. CASE r.kind # "proc"
  BY <1>2 DEF Enter, TreeHalfDeleted
<1> QED BY <1>1, <1>2

LEMMA ReturnStack ==
  ASSUME TableTypeOK, Return
  PROVE  /\ Len(stack') = Len(stack) - 1 /\ stack # <<>>
         /\ TreeHalfDeleted => TreeHalfDeleted'
<1>1. /\ stack \in Seq(Frame) /\ stack # <<>> /\ Top.kind \in {"eval", "call"}
      /\ stack' = Front(stack)
  BY DEF Return, TableTypeOK
<1>2. /\ stack' \in Seq(Frame) /\ Len(stack') = Len(stack) - 1
      /\ \A i \in 1 .. Len(stack) - 1 : stack'[i] = stack[i]
  BY <1>1, FrontSeq
<1>3. TreeHalfDeleted => TreeHalfDeleted'
  <2> SUFFICES ASSUME NEW i \in DOMAIN stack, stack[i].kind = "traces", stack[i].mark
               PROVE  TreeHalfDeleted'
    BY DEF TreeHalfDeleted
  <2>1. i # Len(stack)
    BY <1>1 DEF Top
  <2>2. i \in 1 .. Len(stack) - 1 /\ i \in DOMAIN stack'
    BY <1>1, <1>2, <2>1
  <2> QED BY <1>2, <2>2 DEF TreeHalfDeleted
<1> QED BY <1>1, <1>2, <1>3

-----------------------------------------------------------------------------
(* Coherence *)

LEMMA NoKeyNotProc ==
  ASSUME TableTypeOK
  PROVE  NoKey \notin DOMAIN procs
BY NoKeyIsNoName DEF TableTypeOK

(* What the chain runs, in terms of the verdict it gives.                  *)
LEMMA ChainKinds ==
  ASSUME TableTypeOK, NEW ns, NEW n
  PROVE  LET v == Resolve(DOMAIN procs, DOMAIN commands, DOMAIN ensembles, aliases, ns, n)
         IN  /\ v.kind = "proc" => /\ Chain(ns, n) = Run("proc", v.key, procs[v.at])
                                   /\ v.at \in DOMAIN procs
             /\ v.kind = "builtin" => /\ Chain(ns, n) = Run("builtin", NoKey, commands[v.at])
                                      /\ v.at \in DOMAIN commands
             /\ v.kind \notin {"proc", "builtin"} =>
                  Chain(ns, n).kind \notin {"proc", "builtin"}
<1> DEFINE v == Resolve(DOMAIN procs, DOMAIN commands, DOMAIN ensembles, aliases, ns, n)
<1>1. Chain(ns, n) = RunOf(v)
  BY DEF Chain
<1>2. v.kind = "proc" => v.at \in DOMAIN procs
  BY OwnArmsIn DEF Resolve, Verdict, Unknown
<1>3. First(CmdArms(ns, n), DOMAIN commands) \in DOMAIN commands \cup {NoKey}
  BY First1, First2, First3 DEF CmdArms
<1>4. v.kind = "builtin" => v.at \in DOMAIN commands
  BY <1>3 DEF Resolve, Verdict, Unknown
<1> HIDE DEF v
<1>5. /\ v.kind = "proc" => RunOf(v) = Run("proc", v.key, procs[v.at])
      /\ v.kind = "builtin" => RunOf(v) = Run("builtin", NoKey, commands[v.at])
      /\ v.kind \notin {"proc", "builtin"} => RunOf(v).kind \notin {"proc", "builtin"}
  BY DEF RunOf, Run, NoRun
<1> QED BY <1>1, <1>2, <1>4, <1>5 DEF v

(* Memoised and served again, the chain's run is the chain's run.          *)
LEMMA WinnerServes ==
  ASSUME TableTypeOK, NEW ns, NEW n,
         LET w == Winner(Chain(ns, n)) IN w # NoRun /\ Serves(w)
  PROVE  Served(Winner(Chain(ns, n))) = Chain(ns, n)
<1> DEFINE v == Resolve(DOMAIN procs, DOMAIN commands, DOMAIN ensembles, aliases, ns, n)
           r == Chain(ns, n)
<1>1. v.kind = "proc" /\ v.key \in DOMAIN procs => v.at = v.key
  BY NoKeyNotProc, VerdictKey
<1>2. /\ v.kind = "proc" => r = Run("proc", v.key, procs[v.at])
      /\ v.kind = "builtin" => r = Run("builtin", NoKey, commands[v.at])
      /\ v.kind \notin {"proc", "builtin"} => r.kind \notin {"proc", "builtin"}
  BY ChainKinds
<1> HIDE DEF v, r
<1>3. CASE v.kind = "proc"
  <2>1. r.kind = "proc" /\ r.key = v.key
    BY <1>2, <1>3 DEF Run
  <2>2. Winner(r) = Run("proc", v.key, NoDef)
    BY <2>1 DEF Winner
  <2>3. v.key \in DOMAIN procs
    BY <2>2 DEF Serves, Run, r
  <2> QED BY <1>1, <1>2, <1>3, <2>2, <2>3 DEF Served, Run, r
<1>4. CASE v.kind = "builtin"
  BY <1>2, <1>4 DEF Winner, Served, Run, r
<1>5. CASE v.kind \notin {"proc", "builtin"}
  BY <1>2, <1>5 DEF Winner, r
<1> QED BY <1>3, <1>4, <1>5

(* A winner the cache would serve stays the chain's winner when procs go.  *)
LEMMA ServedStable ==
  ASSUME TableTypeOK, UNCHANGED <<commands, ensembles, aliases>>,
         NEW D, procs' = Without(procs, D),
         NEW ns, NEW n, NEW w, w.kind \in {"proc", "builtin"},
         Served(w) = Chain(ns, n), Serves(w)'
  PROVE  Served(w)' = Chain(ns, n)'
<1> DEFINE v == Resolve(DOMAIN procs, DOMAIN commands, DOMAIN ensembles, aliases, ns, n)
           u == Resolve(DOMAIN procs', DOMAIN commands, DOMAIN ensembles, aliases, ns, n)
<1>1. /\ DOMAIN procs' \subseteq DOMAIN procs
      /\ \A k \in DOMAIN procs' : procs'[k] = procs[k]
  BY DEF Without
<1>2. Chain(ns, n).kind = w.kind
  BY DEF Served, Run
<1>3. v.kind = w.kind /\ (w.kind = "proc" => v.key = w.key /\ w.key \in DOMAIN procs')
  <2>1. CASE w.kind = "proc"
    <3>1. v.kind = "proc"
      BY <1>2, <2>1, ChainKinds DEF Run
    <3>2. Chain(ns, n).key = v.key
      BY <3>1, ChainKinds DEF Run
    <3> QED BY <2>1, <3>1, <3>2 DEF Served, Serves, Run
  <2>2. CASE w.kind = "builtin"
    BY <1>2, <2>2, ChainKinds DEF Run
  <2> QED BY <2>1, <2>2
<1>4. v.kind = "proc" => v.at = v.key
  BY <1>1, <1>3, NoKeyNotProc, VerdictKey
<1>5. u = v
  <2>1. v.kind = "proc" => v.at \in DOMAIN procs'
    BY <1>3, <1>4
  <2> QED BY <1>1, <2>1, NoKeyNotProc, ResolveStable
<1>6. /\ u.kind = "proc" => Chain(ns, n)' = Run("proc", u.key, procs'[u.at])
      /\ u.kind = "builtin" => Chain(ns, n)' = Run("builtin", NoKey, commands[u.at])
  BY Zenon DEF Chain, RunOf
<1>7. CASE w.kind = "proc"
  <2>1. Chain(ns, n)' = Run("proc", w.key, procs'[w.key])
    BY <1>3, <1>4, <1>5, <1>6, <1>7
  <2> QED BY <1>7, <2>1 DEF Served
<1>8. CASE w.kind = "builtin"
  <2>1. Chain(ns, n)' = Run("builtin", NoKey, commands[v.at])
    BY <1>3, <1>5, <1>6, <1>8
  <2>2. Chain(ns, n) = Run("builtin", NoKey, commands[v.at])
    BY <1>3, <1>8, ChainKinds
  <2> QED BY <1>8, <2>1, <2>2 DEF Served
<1> QED BY <1>7, <1>8
-----------------------------------------------------------------------------
(* The inductive invariant.  Coherence needs the types: that no entry is   *)
(* younger than the counter is what makes raising it enough, and that a    *)
(* winner is a proc or a host function is what lets a token be read back.  *)

IInv == /\ TableTypeOK
        /\ TypeOK
        /\ IsFiniteSet(DOMAIN cache)
        /\ CacheCoherent
        /\ TokensCurrent

LEMMA MemoKinds ==
  ASSUME NEW w, Memo(w)
  PROVE  w.kind \in {"proc", "builtin"} /\ (w.kind = "proc" => w.key \in Name)
BY DEF Memo

LEMMA LiveToken ==
  ASSUME TypeOK, NEW s \in Sites, sites[s].gen = gen
  PROVE  Token(sites[s])
BY DEF TypeOK, NoToken

LEMMA InitInv ==
  CacheInit => IInv
<1> SUFFICES ASSUME CacheInit PROVE IInv
  OBVIOUS
<1>1. TableTypeOK
  BY TableTypesInit DEF CacheInit
<1>2. DOMAIN cache = {} /\ IsFiniteSet(DOMAIN cache) /\ Cardinality(DOMAIN cache) = 0
  BY FS_EmptySet DEF CacheInit
<1>3. callers \in Seq(Caller) /\ Len(callers) = Len(stack)
  BY DEF CacheInit, TableInit
<1>4. \A s \in Sites : sites[s] = NoToken /\ sites[s].gen # gen
  BY DEF CacheInit, NoToken
<1>5. TypeOK
  BY <1>2, <1>3, <1>4, CacheAssumption DEF CacheInit, TypeOK
<1>6. CacheCoherent /\ TokensCurrent
  BY <1>2, <1>4 DEF CacheCoherent, TokensCurrent, TokensLive
<1> QED BY <1>1, <1>2, <1>5, <1>6 DEF IInv

(* After the generation is raised no entry and no token is live.           *)
LEMMA RaisedIsCoherent ==
  ASSUME TypeOK, gen' = gen + 1, UNCHANGED <<cache, sites>>
  PROVE  CacheCoherent' /\ TokensCurrent'
<1>1. \A e \in DOMAIN cache : cache[e].gen # gen + 1
  BY DEF TypeOK
<1>2. \A s \in Sites : sites[s].gen # gen + 1
  BY DEF TypeOK, Token, NoToken
<1>3. CacheCoherent'
  BY <1>1 DEF CacheCoherent
<1>4. TokensCurrent'
  BY <1>2 DEF TokensCurrent, TokensLive
<1> QED BY <1>3, <1>4

LEMMA CallersPop ==
  ASSUME TypeOK, stack \in Seq(Frame), stack # <<>>
  PROVE  Front(callers) \in Seq(Caller) /\ Len(Front(callers)) = Len(stack) - 1
BY FrontSeq DEF TypeOK

LEMMA CallersPush ==
  ASSUME TypeOK, NEW c \in Caller
  PROVE  Append(callers, c) \in Seq(Caller) /\ Len(Append(callers, c)) = Len(stack) + 1
BY DEF TypeOK

LEMMA MutateInv ==
  IInv /\ CacheMutate => IInv'
<1> SUFFICES ASSUME IInv, CacheMutate PROVE IInv'
  OBVIOUS
<1>1. TableTypeOK'
  BY MutateTypes DEF IInv, CacheMutate
<1>2. gen' = gen + 1 /\ gen < MaxGen /\ UNCHANGED <<cache, sites>>
  BY DEF CacheMutate, Bump
<1>3. CacheCoherent' /\ TokensCurrent'
  BY <1>2, RaisedIsCoherent DEF IInv
<1>4. callers' \in Seq(Caller) /\ Len(callers') = Len(stack')
  <2>1. /\ stack \in Seq(Frame)
        /\ callers' = IF Len(stack') < Len(stack) THEN Front(callers) ELSE callers
    BY DEF IInv, TableTypeOK, CacheMutate
  <2>2. CASE stack' = stack
    BY <2>1, <2>2 DEF IInv, TypeOK
  <2>3. CASE stack # <<>> /\ stack' = Front(stack)
    <3>1. Len(stack') = Len(stack) - 1 /\ Len(stack') < Len(stack)
      BY <2>1, <2>3, FrontSeq
    <3> QED BY <2>1, <2>3, <3>1, CallersPop DEF IInv
  <2> QED BY <2>2, <2>3, MutateStack DEF CacheMutate
<1>5. TypeOK'
  <2>1. gen' \in 1 .. MaxGen
    BY <1>2, CacheAssumption DEF IInv, TypeOK
  <2>2. \A e \in DOMAIN cache : cache[e].gen \in 1 .. gen'
    BY <1>2 DEF IInv, TypeOK
  <2>3. \A s \in Sites : sites[s] = NoToken \/ (Token(sites[s]) /\ sites[s].gen <= gen')
    BY <1>2 DEF IInv, TypeOK, Token
  <2> QED BY <1>2, <1>4, <2>1, <2>2, <2>3 DEF IInv, TypeOK
<1> QED BY <1>1, <1>2, <1>3, <1>5 DEF IInv

LEMMA QuietInv ==
  IInv /\ CacheQuiet => IInv'
<1> SUFFICES ASSUME IInv, CacheQuiet PROVE IInv'
  OBVIOUS
<1>1. TableTypeOK'
  BY QuietTypes DEF IInv, CacheQuiet
<1>2. UNCHANGED <<gen, cache, sites>>
  BY DEF CacheQuiet
<1>3. /\ Len(stack') \in {Len(stack), Len(stack) + 1}
      /\ UNCHANGED <<commands, ensembles, aliases>>
      /\ TreeHalfDeleted => TreeHalfDeleted'
      /\ \/ UNCHANGED procs
         \/ TreeHalfDeleted' /\ \E D : procs' = Without(procs, D)
  BY QuietStack DEF IInv, CacheQuiet
<1>4. callers' \in Seq(Caller) /\ Len(callers') = Len(stack')
  <2>1. NoCaller \in Caller
    BY DEF NoCaller, Caller
  <2>2. Len(stack) \in Nat
    BY DEF IInv, TableTypeOK
  <2> QED BY <1>3, <2>1, <2>2, CallersPush DEF IInv, CacheQuiet, TypeOK
<1>5. TypeOK'
  BY <1>2, <1>4 DEF IInv, TypeOK
<1>6. CASE UNCHANGED procs
  <2>1. CacheCoherent'
    BY <1>2, <1>3, <1>6 DEF IInv, CacheCoherent, Serves, Served, Chain, RunOf
  <2>2. TokensLive => TokensLive'
    BY <1>2, <1>3, <1>6 DEF TokensLive, TokenRun, Chain, RunOf
  <2> QED BY <1>1, <1>2, <1>3, <1>5, <2>1, <2>2 DEF IInv, TokensCurrent
<1>7. CASE TreeHalfDeleted' /\ \E D : procs' = Without(procs, D)
  <2>1. PICK D : procs' = Without(procs, D)
    BY <1>7
  <2>2. ASSUME NEW e \in DOMAIN cache, cache[e].gen = gen, Serves(cache[e].winner)'
        PROVE  Served(cache[e].winner)' = Chain(e[1], e[2])'
    <3> DEFINE w == cache[e].winner
    <3>1. w' = w
      BY <1>2
    <3>2. w.kind \in {"proc", "builtin"}
      BY MemoKinds DEF IInv, TypeOK
    <3>3. Serves(w)
      BY <2>1, <2>2, <3>1 DEF Serves, Without
    <3>4. Served(w) = Chain(e[1], e[2])
      BY <2>2, <3>3 DEF IInv, CacheCoherent
    <3> QED BY <1>3, <2>1, <2>2, <3>1, <3>2, <3>4, ServedStable DEF IInv
  <2>3. CacheCoherent'
    BY <1>2, <2>2 DEF CacheCoherent
  <2> QED BY <1>1, <1>2, <1>5, <1>7, <2>3 DEF IInv, TokensCurrent
<1> QED BY <1>3, <1>6, <1>7
-----------------------------------------------------------------------------
(* What a call site takes over from a coherent cache is coherent.          *)
LEMMA RefillLive ==
  ASSUME TableTypeOK, TypeOK, NEW ns \in Seq(Words), NEW n \in Names, NEW w, Memo(w),
         Serves(w) => Served(w) = Chain(ns, n)
  PROVE  LET d == IF w.kind = "proc" /\ w.key \in DOMAIN procs THEN procs[w.key] ELSE NoDef
             t == [gen |-> gen, ns |-> ns, name |-> n, winner |-> w, def |-> d]
         IN  /\ Token(t)
             /\ t.winner.kind = "builtin" \/ t.def # NoDef \/ t.winner.key \in DOMAIN procs
                  => TokenRun(t) = Chain(t.ns, t.name)
<1> DEFINE d == IF w.kind = "proc" /\ w.key \in DOMAIN procs THEN procs[w.key] ELSE NoDef
           t == [gen |-> gen, ns |-> ns, name |-> n, winner |-> w, def |-> d]
<1>1. w.kind \in {"proc", "builtin"}
  BY MemoKinds
<1>2. d \in Def \cup {NoDef}
  BY DEF TableTypeOK
<1>3. Token(t)
  BY <1>2 DEF Token, TypeOK
<1>4. ASSUME t.winner.kind = "builtin" \/ t.def # NoDef \/ t.winner.key \in DOMAIN procs
      PROVE  TokenRun(t) = Chain(t.ns, t.name)
  <2>1. CASE w.kind = "builtin"
    BY <2>1 DEF TokenRun, Serves, Served
  <2>2. CASE w.kind = "proc"
    <3>1. w.key \in DOMAIN procs
      BY <1>4, <2>2
    <3>2. d = procs[w.key]
      BY <2>2, <3>1
    <3> QED BY <2>2, <3>1, <3>2 DEF TokenRun, Serves, Served
  <2> QED BY <1>1, <2>1, <2>2
<1> QED BY <1>3, <1>4

LEMMA ChainSame ==
  ASSUME UNCHANGED tables
  PROVE  \A ns, n : Chain(ns, n)' = Chain(ns, n)
BY DEF Chain, RunOf, tables

LEMMA TokenRunSame ==
  ASSUME UNCHANGED tables
  PROVE  \A t : TokenRun(t)' = TokenRun(t)
BY DEF TokenRun, tables

LEMMA RefillSites ==
  ASSUME TableTypeOK, TypeOK, UNCHANGED <<tables, gen>>,
         NEW s, NEW ns, NEW n, NEW c,
         LET w == c[<<ns, n>>].winner IN
           <<ns, n>> \in DOMAIN c /\ c[<<ns, n>>].gen = gen =>
             /\ ns \in Seq(Words) /\ n \in Names /\ Memo(w)
             /\ Serves(w) => Served(w) = Chain(ns, n),
         sites' = Refill(s, ns, n, procs, c, gen)
  PROVE  /\ DOMAIN sites' = Sites
         /\ \A x \in Sites : sites'[x] = NoToken \/ (Token(sites'[x]) /\ sites'[x].gen <= gen)
         /\ TokensLive => TokensLive'
<1> DEFINE w == c[<<ns, n>>].winner
           d == IF w.kind = "proc" /\ w.key \in DOMAIN procs THEN procs[w.key] ELSE NoDef
           t == [gen |-> gen, ns |-> ns, name |-> n, winner |-> w, def |-> d]
<1>0. /\ DOMAIN sites = Sites /\ gen \in Nat
      /\ \A x \in Sites : sites[x] = NoToken \/ (Token(sites[x]) /\ sites[x].gen <= gen)
  BY DEF TypeOK
<1>1. CASE <<ns, n>> \in DOMAIN c /\ c[<<ns, n>>].gen = gen
  <2>1. /\ Token(t)
        /\ t.winner.kind = "builtin" \/ t.def # NoDef \/ t.winner.key \in DOMAIN procs
             => TokenRun(t) = Chain(t.ns, t.name)
    BY <1>1, RefillLive
  <2>2. sites' = [sites EXCEPT ![s] = t]
    BY <1>1 DEF Refill
  <2>3. t.gen = gen
    OBVIOUS
  <2> HIDE DEF t
  <2>4. DOMAIN sites' = Sites /\ \A x \in Sites : sites'[x] = t \/ sites'[x] = sites[x]
    BY <1>0, <2>2
  <2>5. TokensLive => TokensLive'
    <3> SUFFICES ASSUME TokensLive, NEW x \in Sites, sites'[x].gen = gen,
                        LET u == sites'[x] IN
                          u.winner.kind = "builtin" \/ u.def # NoDef \/ u.winner.key \in DOMAIN procs
                 PROVE  TokenRun(sites'[x]) = Chain(sites'[x].ns, sites'[x].name)
      BY ChainSame, TokenRunSame DEF TokensLive, tables
    <3> QED BY <2>1, <2>4 DEF TokensLive
  <2> QED BY <1>0, <2>1, <2>3, <2>4, <2>5
<1>2. CASE ~(<<ns, n>> \in DOMAIN c /\ c[<<ns, n>>].gen = gen)
  <2>1. sites' = sites
    BY <1>2 DEF Refill
  <2> QED BY <1>0, <2>1, ChainSame, TokenRunSame DEF TokensLive, tables
<1> QED BY <1>1, <1>2

(* So is a cache, after the chain's winner is put into it.                 *)
LEMMA PutCoherent ==
  ASSUME IInv, NEW n \in Names, Winner(Chain(CurrentNs, n)) # NoRun,
         CachePut(CurrentNs, n, Winner(Chain(CurrentNs, n))),
         UNCHANGED <<tables, gen>>
  PROVE  /\ DOMAIN cache' \subseteq Seq(Words) \X Names
         /\ IsFiniteSet(DOMAIN cache') /\ Cardinality(DOMAIN cache') <= CacheMax
         /\ \A e \in DOMAIN cache' : cache'[e].gen \in 1 .. gen /\ Memo(cache'[e].winner)
         /\ CacheCoherent'
<1> DEFINE key  == <<CurrentNs, n>>
           w    == Winner(Chain(CurrentNs, n))
           full == Cardinality(DOMAIN cache) >= CacheMax
           room == IF full THEN <<>> ELSE cache
<1>1. cache' = Put(room, key, [gen |-> gen, winner |-> w])
  BY DEF CachePut
<1>2. key \in Seq(Words) \X Names
  BY CurrentNsSeq DEF IInv, TableTypeOK
<1>3. DOMAIN room \subseteq DOMAIN cache /\ \A e \in DOMAIN room : room[e] = cache[e]
  <2>1. CASE full
    BY <2>1
  <2>2. CASE ~full
    BY <2>2
  <2> QED BY <2>1, <2>2
<1>4. IsFiniteSet(DOMAIN room) /\ Cardinality(DOMAIN room) + 1 <= CacheMax
  <2>0. IsFiniteSet(DOMAIN cache) /\ Cardinality(DOMAIN cache) \in Nat
    BY FS_CardinalityType DEF IInv
  <2>1. CASE full
    <3>1. DOMAIN room = {}
      BY <2>1
    <3> QED BY <3>1, FS_EmptySet, CacheAssumption
  <2>2. CASE ~full
    BY <2>0, <2>2, CacheAssumption
  <2> QED BY <2>1, <2>2
<1>5. Memo(w)
  <2> DEFINE r == Chain(CurrentNs, n)
             v == Resolve(DOMAIN procs, DOMAIN commands, DOMAIN ensembles, aliases, CurrentNs, n)
  <2>1. CASE v.kind = "proc"
    <3>1. r.kind = "proc" /\ r.key \in Name
      BY <2>1, ChainKinds, ChainTypes DEF Run, IInv
    <3>2. w = Run("proc", r.key, NoDef)
      BY <3>1 DEF Winner
    <3> QED BY <3>1, <3>2 DEF Memo, Run
  <2>2. CASE v.kind = "builtin"
    <3>1. r = Run("builtin", NoKey, commands[v.at]) /\ commands[v.at] \in Funcs
      BY <2>2, ChainKinds DEF IInv, TableTypeOK
    <3>2. w = r
      BY <3>1 DEF Winner, Run
    <3> QED BY <3>1, <3>2 DEF Memo, Run
  <2>3. CASE v.kind \notin {"proc", "builtin"}
    BY <2>3, ChainKinds DEF Winner, IInv
  <2> QED BY <2>1, <2>2, <2>3
<1>6. Serves(w) => Served(w) = Chain(CurrentNs, n)
  BY WinnerServes DEF IInv
<1> HIDE DEF room, w, key
<1>7. DOMAIN cache' = DOMAIN room \cup {key}
  BY <1>1 DEF Put
<1>8. IsFiniteSet(DOMAIN cache') /\ Cardinality(DOMAIN cache') <= CacheMax
  <2>1. /\ IsFiniteSet(DOMAIN room \cup {key})
        /\ \/ Cardinality(DOMAIN room \cup {key}) = Cardinality(DOMAIN room)
           \/ Cardinality(DOMAIN room \cup {key}) = Cardinality(DOMAIN room) + 1
    BY <1>4, FS_AddElement
  <2>2. Cardinality(DOMAIN room) \in Nat
    BY <1>4, FS_CardinalityType
  <2> QED BY <1>4, <1>7, <2>1, <2>2, CacheAssumption
<1>9. \A e \in DOMAIN cache' :
        \/ e = key /\ cache'[e] = [gen |-> gen, winner |-> w]
        \/ e \in DOMAIN cache /\ cache'[e] = cache[e]
  BY <1>1, <1>3, <1>7 DEF Put
<1>10. DOMAIN cache' \subseteq Seq(Words) \X Names
  BY <1>2, <1>3, <1>7 DEF IInv, TypeOK
<1>11. \A e \in DOMAIN cache' : cache'[e].gen \in 1 .. gen /\ Memo(cache'[e].winner)
  BY <1>5, <1>9 DEF IInv, TypeOK
<1>12. \A x : Serves(x)' = Serves(x) /\ Served(x)' = Served(x)
  BY DEF Serves, Served, tables
<1>13. \A a, b : Chain(a, b)' = Chain(a, b)
  BY DEF Chain, RunOf, tables
<1>14. ASSUME NEW e \in DOMAIN cache', cache'[e].gen = gen, Serves(cache'[e].winner)
       PROVE  Served(cache'[e].winner) = Chain(e[1], e[2])
  <2>1. CASE e = key /\ cache'[e] = [gen |-> gen, winner |-> w]
    BY <1>6, <1>14, <2>1 DEF key
  <2>2. CASE e \in DOMAIN cache /\ cache'[e] = cache[e]
    BY <1>14, <2>2 DEF IInv, CacheCoherent
  <2> QED BY <1>9, <2>1, <2>2
<1>15. CacheCoherent'
  BY <1>12, <1>13, <1>14 DEF CacheCoherent
<1> QED BY <1>8, <1>10, <1>11, <1>15
LEMMA CoherentSame ==
  ASSUME CacheCoherent, UNCHANGED <<tables, gen, cache>>
  PROVE  CacheCoherent'
BY ChainSame DEF CacheCoherent, Serves, Served, tables

LEMMA ReturnInv ==
  IInv /\ CacheReturn => IInv'
<1> SUFFICES ASSUME IInv, CacheReturn PROVE IInv'
  OBVIOUS
<1> DEFINE c  == callers[Len(callers)]
           ns == IF Len(stack) = 1 THEN Root ELSE stack[Len(stack) - 1].ns
<1>1. TableTypeOK'
  BY ReturnTypes DEF IInv, CacheReturn
<1>2. /\ Len(stack') = Len(stack) - 1 /\ stack # <<>>
      /\ TreeHalfDeleted => TreeHalfDeleted'
  BY ReturnStack DEF IInv, CacheReturn
<1>3. /\ cache' = cache /\ gen' = (IF WritesBack THEN gen + 1 ELSE gen) /\ gen' <= MaxGen
      /\ sites' = IF c.site = NoSite THEN sites
                  ELSE Refill(c.site, ns, c.name, procs', cache, gen')
  BY DEF CacheReturn
<1> HIDE DEF c, ns
<1>4. callers' \in Seq(Caller) /\ Len(callers') = Len(stack')
  BY <1>2, CallersPop DEF IInv, TableTypeOK, CacheReturn
<1>5. CASE WritesBack
  <2>1. gen' = gen + 1 /\ gen' \in 1 .. MaxGen
    BY <1>3, <1>5, CacheAssumption DEF IInv, TypeOK
  <2>2. \A e \in DOMAIN cache : cache[e].gen # gen'
    BY <2>1 DEF IInv, TypeOK
  <2>3. sites' = sites
    BY <1>3, <2>2 DEF Refill
  <2>4. CacheCoherent' /\ TokensCurrent'
    BY <1>3, <2>1, <2>3, RaisedIsCoherent DEF IInv
  <2>5. TypeOK'
    <3>1. \A e \in DOMAIN cache : cache[e].gen \in 1 .. gen'
      BY <2>1 DEF IInv, TypeOK
    <3>2. \A s \in Sites : sites[s] = NoToken \/ (Token(sites[s]) /\ sites[s].gen <= gen')
      BY <2>1 DEF IInv, TypeOK, Token
    <3> QED BY <1>3, <1>4, <2>1, <2>3, <3>1, <3>2 DEF IInv, TypeOK
  <2> QED BY <1>1, <1>3, <2>4, <2>5 DEF IInv
<1>6. CASE ~WritesBack
  <2>1. gen' = gen /\ UNCHANGED tables
    BY <1>3, <1>6 DEF CacheReturn, Return, tables
  <2>2. CacheCoherent'
    BY <1>3, <2>1, CoherentSame DEF IInv
  <2>3. /\ DOMAIN sites' = Sites
        /\ \A x \in Sites : sites'[x] = NoToken \/ (Token(sites'[x]) /\ sites'[x].gen <= gen)
        /\ TokensLive => TokensLive'
    <3>1. CASE c.site = NoSite
      BY <1>3, <2>1, <3>1, ChainSame, TokenRunSame DEF IInv, TypeOK, TokensLive, tables
    <3>2. CASE c.site # NoSite
      <4>1. sites' = Refill(c.site, ns, c.name, procs, cache, gen)
        BY <1>3, <2>1, <3>2 DEF tables
      <4>2. LET w == cache[<<ns, c.name>>].winner IN
              <<ns, c.name>> \in DOMAIN cache /\ cache[<<ns, c.name>>].gen = gen =>
                /\ ns \in Seq(Words) /\ c.name \in Names /\ Memo(w)
                /\ Serves(w) => Served(w) = Chain(ns, c.name)
        BY DEF IInv, TypeOK, CacheCoherent
      <4> QED BY <2>1, <4>1, <4>2, RefillSites DEF IInv
    <3> QED BY <3>1, <3>2
  <2>4. TypeOK'
    BY <1>3, <1>4, <2>1, <2>3 DEF IInv, TypeOK
  <2> QED BY <1>1, <1>2, <1>3, <2>2, <2>3, <2>4 DEF IInv, TokensCurrent
<1> QED BY <1>5, <1>6
-----------------------------------------------------------------------------
(* Calls *)

(* A dispatch leaves a coherent cache, whichever way it went.              *)
LEMMA DispatchCache ==
  ASSUME IInv, NEW n \in Names, Dispatch(n), UNCHANGED gen
  PROVE  /\ TableTypeOK' /\ UNCHANGED tables
         /\ Len(stack') = IF outcome'.kind = "proc" THEN Len(stack) + 1 ELSE Len(stack)
         /\ TreeHalfDeleted => TreeHalfDeleted'
         /\ DOMAIN cache' \subseteq Seq(Words) \X Names
         /\ IsFiniteSet(DOMAIN cache') /\ Cardinality(DOMAIN cache') <= CacheMax
         /\ \A e \in DOMAIN cache' : cache'[e].gen \in 1 .. gen /\ Memo(cache'[e].winner)
         /\ CacheCoherent'
<1> DEFINE w == CacheGet(CurrentNs, n)
           r == Chain(CurrentNs, n)
<1>1. CASE Serves(w)
  <2>1. Enter(Served(w)) /\ UNCHANGED cache
    BY <1>1 DEF Dispatch
  <2>2. Served(w).kind = "proc" => Served(w).key \in Name
    BY <1>1 DEF Serves, Served, Run, IInv, TableTypeOK
  <2>3. TableTypeOK'
    BY <2>1, <2>2, EnterTypes DEF IInv
  <2>4. /\ Len(stack') = IF Served(w).kind = "proc" THEN Len(stack) + 1 ELSE Len(stack)
        /\ TreeHalfDeleted => TreeHalfDeleted'
    BY <2>1, <2>2, EnterStack DEF IInv
  <2>5. UNCHANGED tables /\ outcome' = Served(w)
    BY <2>1 DEF Enter
  <2> HIDE DEF w
  <2> QED BY <2>1, <2>3, <2>4, <2>5, CoherentSame DEF IInv, TypeOK
<1>2. CASE ~Serves(w)
  <2>1. /\ Enter(r)
        /\ IF Winner(r) = NoRun THEN UNCHANGED cache
           ELSE CachePut(CurrentNs, n, Winner(r))
    BY <1>2 DEF Dispatch
  <2>2. r.kind = "proc" => r.key \in Name
    BY ChainTypes DEF IInv
  <2>3. TableTypeOK'
    BY <2>1, <2>2, EnterTypes DEF IInv
  <2>4. /\ Len(stack') = IF r.kind = "proc" THEN Len(stack) + 1 ELSE Len(stack)
        /\ TreeHalfDeleted => TreeHalfDeleted'
    BY <2>1, <2>2, EnterStack DEF IInv
  <2>5. UNCHANGED tables /\ outcome' = r
    BY <2>1 DEF Enter
  <2>6. CASE Winner(r) = NoRun
    BY <2>1, <2>3, <2>4, <2>5, <2>6, CoherentSame DEF IInv, TypeOK
  <2>7. CASE Winner(r) # NoRun
    BY <2>1, <2>3, <2>4, <2>5, <2>7, PutCoherent
  <2> QED BY <2>6, <2>7
<1> QED BY <1>1, <1>2

LEMMA CallersAfterCall ==
  ASSUME TypeOK, NEW c \in Caller,
         Len(stack') = IF outcome'.kind = "proc" THEN Len(stack) + 1 ELSE Len(stack),
         callers' = IF outcome'.kind = "proc" THEN Append(callers, c) ELSE callers
  PROVE  callers' \in Seq(Caller) /\ Len(callers') = Len(stack')
BY CallersPush DEF TypeOK

LEMMA CallInv ==
  ASSUME IInv, NEW s \in Sites \cup {NoSite}, NEW n \in Names, CallSite(s, n)
  PROVE  IInv'
<1>1. gen' = gen
  BY DEF CallSite
<1>2. CASE Hit(s, n) /\ UNCHANGED <<cache, sites>>
           /\ Enter(TokenRun(sites[s]))
           /\ callers' = IF outcome'.kind = "proc" THEN Append(callers, NoCaller) ELSE callers
  <2> DEFINE t == sites[s]
             r == TokenRun(t)
  <2>1. Token(t) /\ t.winner.kind \in {"proc", "builtin"}
    BY <1>2, LiveToken, MemoKinds DEF Hit, IInv, Token
  <2>2. r.kind = "proc" => r.key \in Name
    BY <2>1, MemoKinds DEF TokenRun, Run, Token
  <2>3. Enter(r) /\ UNCHANGED tables /\ outcome' = r
    BY <1>2 DEF Enter
  <2> HIDE DEF r, t
  <2>4. /\ TableTypeOK'
        /\ Len(stack') = IF r.kind = "proc" THEN Len(stack) + 1 ELSE Len(stack)
        /\ TreeHalfDeleted => TreeHalfDeleted'
    BY <2>2, <2>3, EnterTypes, EnterStack DEF IInv
  <2>5. callers' \in Seq(Caller) /\ Len(callers') = Len(stack')
    <3>1. NoCaller \in Caller
      BY DEF NoCaller, Caller
    <3> QED BY <1>2, <2>3, <2>4, <3>1, CallersAfterCall DEF IInv
  <2>6. TypeOK'
    BY <1>1, <1>2, <2>5 DEF IInv, TypeOK
  <2>7. CacheCoherent'
    BY <1>1, <1>2, <2>3, CoherentSame DEF IInv
  <2>8. TokensLive => TokensLive'
    BY <1>1, <1>2, <2>3, ChainSame, TokenRunSame DEF TokensLive, tables
  <2> QED BY <1>2, <2>4, <2>6, <2>7, <2>8 DEF IInv, TokensCurrent
<1>3. CASE /\ Dispatch(n)
           /\ IF outcome'.kind = "proc"
              THEN /\ callers' = Append(callers, [site |-> s, name |-> n])
                   /\ UNCHANGED sites
              ELSE /\ sites' = IF s = NoSite THEN sites
                               ELSE Refill(s, CurrentNs, n, procs, cache', gen)
                   /\ UNCHANGED callers
  <2>1. /\ TableTypeOK' /\ UNCHANGED tables
        /\ Len(stack') = IF outcome'.kind = "proc" THEN Len(stack) + 1 ELSE Len(stack)
        /\ TreeHalfDeleted => TreeHalfDeleted'
        /\ DOMAIN cache' \subseteq Seq(Words) \X Names
        /\ IsFiniteSet(DOMAIN cache') /\ Cardinality(DOMAIN cache') <= CacheMax
        /\ \A e \in DOMAIN cache' : cache'[e].gen \in 1 .. gen /\ Memo(cache'[e].winner)
        /\ CacheCoherent'
    BY <1>1, <1>3, DispatchCache
  <2>2. callers' \in Seq(Caller) /\ Len(callers') = Len(stack')
    <3>1. [site |-> s, name |-> n] \in Caller
      BY DEF Caller
    <3> QED BY <1>3, <2>1, <3>1, CallersAfterCall DEF IInv
  <2>3. /\ DOMAIN sites' = Sites
        /\ \A x \in Sites : sites'[x] = NoToken \/ (Token(sites'[x]) /\ sites'[x].gen <= gen)
        /\ TokensLive => TokensLive'
    <3>1. CASE sites' = sites
      BY <1>1, <2>1, <3>1, ChainSame, TokenRunSame DEF IInv, TypeOK, TokensLive, tables
    <3>2. CASE sites' = Refill(s, CurrentNs, n, procs, cache', gen)
      <4>1. \A x : Serves(x)' = Serves(x) /\ Served(x)' = Served(x)
        BY <2>1 DEF Serves, Served, tables
      <4>2. LET w == cache'[<<CurrentNs, n>>].winner IN
              <<CurrentNs, n>> \in DOMAIN cache' /\ cache'[<<CurrentNs, n>>].gen = gen =>
                /\ CurrentNs \in Seq(Words) /\ n \in Names /\ Memo(w)
                /\ Serves(w) => Served(w) = Chain(CurrentNs, n)
        BY <1>1, <2>1, <4>1, ChainSame DEF CacheCoherent
      <4> QED BY <1>1, <2>1, <3>2, <4>2, RefillSites DEF IInv
    <3> QED BY <1>3, <3>1, <3>2
  <2>4. TypeOK'
    BY <1>1, <2>1, <2>2, <2>3 DEF IInv, TypeOK
  <2> QED BY <2>1, <2>3, <2>4 DEF IInv, TokensCurrent
<1> QED BY <1>2, <1>3 DEF CallSite

-----------------------------------------------------------------------------
LEMMA Invariant ==
  CacheSpec => []IInv
<1>1. IInv /\ [CacheNext]_vars => IInv'
  <2> SUFFICES ASSUME IInv, [CacheNext]_vars PROVE IInv'
    OBVIOUS
  <2>1. CASE UNCHANGED vars
    <3>1. UNCHANGED <<procs, commands, ensembles, aliases, namespaces, stack,
                      gen, cache, sites, callers>>
      BY <2>1 DEF vars, tvars, cvars
    <3>2. TableTypeOK' /\ TypeOK' /\ IsFiniteSet(DOMAIN cache')
      BY <3>1 DEF IInv, TableTypeOK, TypeOK
    <3>3. CacheCoherent'
      BY <3>1, CoherentSame DEF IInv, tables
    <3>4. (TreeHalfDeleted => TreeHalfDeleted') /\ (TokensLive => TokensLive')
      BY <3>1, ChainSame, TokenRunSame DEF TreeHalfDeleted, TokensLive, tables
    <3> QED BY <3>2, <3>3, <3>4 DEF IInv, TokensCurrent
  <2> QED BY <2>1, MutateInv, QuietInv, ReturnInv, CallInv DEF CacheNext
<1> QED BY <1>1, InitInv, PTL DEF CacheSpec

-----------------------------------------------------------------------------
(* The caches are not there.  A call that a cache or a token answers must  *)
(* also be one on which the chain comes to an end, and in the middle of a  *)
(* deletion a token may only differ from the chain by carrying a proc that *)
(* is gone.                                                                *)

Usable(t) == t.winner.kind = "builtin" \/ t.def # NoDef \/ t.winner.key \in DOMAIN procs
Gone(t)   == t.winner.kind = "proc" /\ t.winner.key \notin DOMAIN procs
Answers(t) == TokenRun(t) = Chain(t.ns, t.name) /\ ~Hangs(t.ns, t.name)

CacheEnds ==
  \A e \in DOMAIN cache : cache[e].gen = gen /\ Serves(cache[e].winner) => ~Hangs(e[1], e[2])
TokensAnswer ==
  \A s \in Sites : sites[s].gen = gen /\ Usable(sites[s]) =>
    Answers(sites[s]) \/ (TreeHalfDeleted /\ Gone(sites[s]))
Ends == CacheEnds /\ TokensAnswer

LEMMA HangsSame ==
  ASSUME UNCHANGED tables
  PROVE  \A ns, n : Hangs(ns, n)' = Hangs(ns, n)
BY DEF Hangs, tables

(* Removing procs other than the winner does not make the chain endless.   *)
LEMMA HangsStable ==
  ASSUME TableTypeOK, UNCHANGED <<commands, ensembles, aliases>>,
         NEW D, procs' = Without(procs, D), NEW ns, NEW n, ~Hangs(ns, n),
         LET v == Resolve(DOMAIN procs, DOMAIN commands, DOMAIN ensembles, aliases, ns, n)
         IN  v.kind = "proc" => v.at \in DOMAIN procs'
  PROVE  ~Hangs(ns, n)'
<1> DEFINE P == DOMAIN procs
           Q == DOMAIN procs'
           C == DOMAIN commands
           own(S) == First(OwnArms(ns, n), S)
           i == ImportedKey(P, C, aliases, ns, n)
           v == Resolve(P, C, DOMAIN ensembles, aliases, ns, n)
<1>1. Q \in SUBSET P /\ NoKey \notin P
  BY NoKeyNotProc DEF Without
<1>2. CASE own(P) # NoKey
  <2>1. v = Verdict("proc", own(P), own(P))
    BY <1>2 DEF Resolve
  <2>2. own(P) \in Q
    BY <2>1 DEF Verdict
  <2>3. own(Q) # NoKey
    BY <1>1, <1>2, <2>2, OwnArmsStable
  <2> QED BY <2>3 DEF Hangs
<1>3. CASE own(P) = NoKey
  <2>1. n \notin P
    BY <1>1, <1>3, OwnArmsHaveName
  <2>2. i \in P => v = Verdict("proc", i, i)
    BY <1>3 DEF Resolve
  <2>3. i \notin P \/ i \in Q
    BY <2>2 DEF Verdict
  <2>4. EntryKey(Q, C, aliases, ns, n) = EntryKey(P, C, aliases, ns, n)
    BY <1>1, <2>1, <2>3, EntryStable
  <2>5. ~Endless(aliases, EntryKey(P, C, aliases, ns, n))
    BY <1>3 DEF Hangs
  <2> QED BY <2>4, <2>5 DEF Hangs
<1> QED BY <1>2, <1>3

(* What the chain runs it finds under its key, when that is a proc.        *)
LEMMA RunsAt ==
  ASSUME TableTypeOK, NEW ns, NEW n, NEW w, w.kind \in {"proc", "builtin"}, Serves(w),
         Served(w) = Chain(ns, n)
  PROVE  LET v == Resolve(DOMAIN procs, DOMAIN commands, DOMAIN ensembles, aliases, ns, n)
         IN  v.kind = w.kind /\ (v.kind = "proc" => v.at = w.key)
<1> DEFINE v == Resolve(DOMAIN procs, DOMAIN commands, DOMAIN ensembles, aliases, ns, n)
<1>1. Chain(ns, n).kind = w.kind
  BY DEF Served, Run
<1>2. v.kind = w.kind
  BY <1>1, ChainKinds DEF Run
<1>3. CASE w.kind = "proc"
  <2>1. Chain(ns, n).key = v.key
    BY <1>2, <1>3, ChainKinds DEF Run
  <2>2. v.key = w.key /\ w.key \in DOMAIN procs
    BY <1>3, <2>1 DEF Served, Serves, Run
  <2> QED BY <1>2, <1>3, <2>2, NoKeyNotProc, VerdictKey
<1> QED BY <1>2, <1>3

(* What a cached winner is served for stays so when procs go.              *)
LEMMA EndsStable ==
  ASSUME TableTypeOK, UNCHANGED <<commands, ensembles, aliases>>,
         NEW D, procs' = Without(procs, D), NEW ns, NEW n, ~Hangs(ns, n),
         NEW w, w.kind \in {"proc", "builtin"}, Served(w) = Chain(ns, n), Serves(w)'
  PROVE  ~Hangs(ns, n)'
<1> DEFINE v == Resolve(DOMAIN procs, DOMAIN commands, DOMAIN ensembles, aliases, ns, n)
<1>1. Serves(w) /\ (w.kind = "proc" => w.key \in DOMAIN procs')
  BY DEF Serves, Without
<1>2. v.kind = w.kind /\ (v.kind = "proc" => v.at = w.key)
  BY <1>1, RunsAt
<1>3. v.kind = "proc" => v.at \in DOMAIN procs'
  BY <1>1, <1>2
<1> HIDE DEF v
<1> QED BY <1>3, HangsStable DEF v

(* A token that answers as the chain does carries what the tables hold.    *)
LEMMA TokenIsServed ==
  ASSUME TableTypeOK, NEW t, Memo(t.winner), Serves(t.winner), TokenRun(t) = Chain(t.ns, t.name)
  PROVE  /\ Served(t.winner) = Chain(t.ns, t.name)
         /\ t.winner.kind = "proc" /\ t.def # NoDef => t.def = procs[t.winner.key]
<1> DEFINE w == t.winner
           v == Resolve(DOMAIN procs, DOMAIN commands, DOMAIN ensembles, aliases, t.ns, t.name)
<1>1. CASE w.kind = "builtin"
  BY <1>1 DEF TokenRun, Served
<1>2. CASE w.kind = "proc"
  <2>1. w.key \in DOMAIN procs
    BY <1>2 DEF Serves
  <2>2. Chain(t.ns, t.name) = Run("proc", w.key, IF t.def # NoDef THEN t.def ELSE procs[w.key])
    BY <1>2 DEF TokenRun
  <2>3. v.kind = "proc"
    BY <2>2, ChainKinds DEF Run
  <2>4. Chain(t.ns, t.name) = Run("proc", v.key, procs[v.at])
    BY <2>3, ChainKinds
  <2>5. v.key = w.key
    BY <2>2, <2>4 DEF Run
  <2>6. v.at = w.key
    BY <2>1, <2>3, <2>5, NoKeyNotProc, VerdictKey
  <2> HIDE DEF v
  <2>7. (IF t.def # NoDef THEN t.def ELSE procs[w.key]) = procs[w.key]
    BY <2>2, <2>4, <2>6 DEF Run
  <2> QED BY <1>2, <2>4, <2>5, <2>6, <2>7 DEF Served
<1> QED BY <1>1, <1>2, MemoKinds

LEMMA EndsSame ==
  ASSUME Ends, UNCHANGED <<tables, gen, cache, sites>>, TreeHalfDeleted => TreeHalfDeleted'
  PROVE  Ends'
<1>1. CacheEnds'
  BY HangsSame DEF Ends, CacheEnds, Serves, tables
<1>2. \A t : (Usable(t)' <=> Usable(t)) /\ (Gone(t)' <=> Gone(t)) /\ (Answers(t)' <=> Answers(t))
  BY HangsSame, ChainSame, TokenRunSame DEF Usable, Gone, Answers, tables
<1>3. TokensAnswer'
  BY <1>2 DEF Ends, TokensAnswer
<1> QED BY <1>1, <1>3 DEF Ends

LEMMA RaisedEnds ==
  ASSUME TypeOK, gen' = gen + 1, UNCHANGED <<cache, sites>>
  PROVE  Ends'
<1>1. \A e \in DOMAIN cache : cache[e].gen # gen + 1
  BY DEF TypeOK
<1>2. \A s \in Sites : sites[s].gen # gen + 1
  BY DEF TypeOK, Token, NoToken
<1> QED BY <1>1, <1>2 DEF Ends, CacheEnds, TokensAnswer

LEMMA QuietEnds ==
  ASSUME IInv, Ends, CacheQuiet
  PROVE  Ends'
<1>1. UNCHANGED <<gen, cache, sites>>
  BY DEF CacheQuiet
<1>2. /\ UNCHANGED <<commands, ensembles, aliases>>
      /\ TreeHalfDeleted => TreeHalfDeleted'
      /\ \/ UNCHANGED procs
         \/ TreeHalfDeleted' /\ \E D : procs' = Without(procs, D)
  BY QuietStack DEF IInv, CacheQuiet
<1>3. CASE UNCHANGED procs
  BY <1>1, <1>2, <1>3, EndsSame DEF tables
<1>4. CASE TreeHalfDeleted' /\ \E D : procs' = Without(procs, D)
  <2>1. PICK D : procs' = Without(procs, D)
    BY <1>4
  <2>2. DOMAIN procs' \subseteq DOMAIN procs /\ \A k \in DOMAIN procs' : procs'[k] = procs[k]
    BY <2>1 DEF Without
  <2>3. CacheEnds'
    <3> SUFFICES ASSUME NEW e \in DOMAIN cache, cache[e].gen = gen, Serves(cache[e].winner)'
                 PROVE  ~Hangs(e[1], e[2])'
      BY <1>1 DEF CacheEnds
    <3> DEFINE w == cache[e].winner
    <3>1. w' = w /\ w.kind \in {"proc", "builtin"} /\ Serves(w)
      BY <1>1, <2>2, MemoKinds DEF IInv, TypeOK, Serves
    <3>2. Served(w) = Chain(e[1], e[2]) /\ ~Hangs(e[1], e[2])
      BY <3>1 DEF IInv, CacheCoherent, Ends, CacheEnds
    <3> QED BY <1>2, <2>1, <3>1, <3>2, EndsStable DEF IInv
  <2>4. TokensAnswer'
    <3> SUFFICES ASSUME NEW s \in Sites, sites[s].gen = gen, Usable(sites[s])', ~Gone(sites[s])'
                 PROVE  Answers(sites[s])'
      BY <1>1, <1>4 DEF TokensAnswer
    <3> DEFINE t == sites[s]
               w == t.winner
    <3>1. t' = t /\ Memo(w) /\ w.kind \in {"proc", "builtin"}
      BY <1>1, LiveToken, MemoKinds DEF IInv, Token
    <3>2. w.kind = "proc" => w.key \in DOMAIN procs'
      BY <3>1 DEF Gone
    <3>3. Serves(w) /\ Serves(w)' /\ Usable(t) /\ ~Gone(t)
      BY <2>2, <3>1, <3>2 DEF Serves, Usable, Gone
    <3>4. TokenRun(t) = Chain(t.ns, t.name) /\ ~Hangs(t.ns, t.name)
      BY <3>3 DEF Ends, TokensAnswer, Answers
    <3> HIDE DEF t
    <3>5. /\ Served(w) = Chain(t.ns, t.name)
          /\ w.kind = "proc" /\ t.def # NoDef => t.def = procs[w.key]
      BY <3>1, <3>3, <3>4, TokenIsServed DEF IInv
    <3>6. Served(w)' = Chain(t.ns, t.name)'
      BY <1>2, <2>1, <3>1, <3>3, <3>5, ServedStable DEF IInv
    <3>7. ~Hangs(t.ns, t.name)'
      BY <1>2, <2>1, <3>1, <3>3, <3>4, <3>5, EndsStable DEF IInv
    <3>8. TokenRun(t)' = Served(w)'
      <4>1. CASE w.kind = "builtin"
        BY <3>1, <4>1 DEF TokenRun, Served
      <4>2. CASE w.kind = "proc"
        <5>1. (IF t.def # NoDef THEN t.def ELSE procs'[w.key]) = procs'[w.key]
          BY <2>2, <3>2, <3>5, <4>2
        <5> QED BY <3>1, <4>2, <5>1 DEF TokenRun, Served
      <4> QED BY <3>1, <4>1, <4>2
    <3>9. Answers(t)'
      BY <3>1, <3>6, <3>7, <3>8 DEF Answers
    <3> QED BY <3>9 DEF t
  <2> QED BY <2>3, <2>4 DEF Ends
<1> QED BY <1>2, <1>3, <1>4

(* What a site takes over from the cache ends as the cache's entry does.   *)
LEMMA RefillEnds ==
  ASSUME TableTypeOK, TypeOK, TokensAnswer, UNCHANGED <<tables, gen>>,
         TreeHalfDeleted => TreeHalfDeleted', NEW s, NEW ns, NEW n, NEW c,
         LET w == c[<<ns, n>>].winner IN
           <<ns, n>> \in DOMAIN c /\ c[<<ns, n>>].gen = gen =>
             /\ ns \in Seq(Words) /\ n \in Names /\ Memo(w)
             /\ Serves(w) => Served(w) = Chain(ns, n) /\ ~Hangs(ns, n),
         sites' = Refill(s, ns, n, procs, c, gen)
  PROVE  TokensAnswer'
<1> DEFINE w == c[<<ns, n>>].winner
           d == IF w.kind = "proc" /\ w.key \in DOMAIN procs THEN procs[w.key] ELSE NoDef
           t == [gen |-> gen, ns |-> ns, name |-> n, winner |-> w, def |-> d]
<1>1. \A x : (Usable(x)' <=> Usable(x)) /\ (Gone(x)' <=> Gone(x)) /\ (Answers(x)' <=> Answers(x))
  BY HangsSame, ChainSame, TokenRunSame DEF Usable, Gone, Answers, tables
<1>2. DOMAIN sites = Sites
  BY DEF TypeOK
<1>3. CASE <<ns, n>> \in DOMAIN c /\ c[<<ns, n>>].gen = gen
  <2>1. t.winner.kind = "builtin" \/ t.def # NoDef \/ t.winner.key \in DOMAIN procs
           => TokenRun(t) = Chain(t.ns, t.name)
    BY <1>3, RefillLive
  <2>2. Usable(t) => ~Hangs(t.ns, t.name)
    <3>1. w.kind \in {"proc", "builtin"}
      BY <1>3, MemoKinds
    <3>2. Usable(t) => Serves(w)
      BY <3>1 DEF Usable, Serves
    <3> QED BY <1>3, <3>2
  <2>3. sites' = [sites EXCEPT ![s] = t]
    BY <1>3 DEF Refill
  <2> HIDE DEF t
  <2>4. \A x \in Sites : sites'[x] = t \/ sites'[x] = sites[x]
    BY <1>2, <2>3
  <2>5. Usable(t) => Answers(t)
    BY <2>1, <2>2 DEF Usable, Answers
  <2> QED BY <1>1, <2>4, <2>5 DEF TokensAnswer
<1>4. CASE ~(<<ns, n>> \in DOMAIN c /\ c[<<ns, n>>].gen = gen)
  <2>1. sites' = sites
    BY <1>4 DEF Refill
  <2> QED BY <1>1, <2>1 DEF TokensAnswer
<1> QED BY <1>3, <1>4

LEMMA ReturnEnds ==
  ASSUME IInv, Ends, CacheReturn
  PROVE  Ends'
<1> DEFINE c  == callers[Len(callers)]
           ns == IF Len(stack) = 1 THEN Root ELSE stack[Len(stack) - 1].ns
<1>1. TreeHalfDeleted => TreeHalfDeleted'
  BY ReturnStack DEF IInv, CacheReturn
<1>2. /\ cache' = cache /\ gen' = (IF WritesBack THEN gen + 1 ELSE gen)
      /\ sites' = IF c.site = NoSite THEN sites
                  ELSE Refill(c.site, ns, c.name, procs', cache, gen')
  BY DEF CacheReturn
<1> HIDE DEF c, ns
<1>3. CASE WritesBack
  <2>1. gen' = gen + 1 /\ \A e \in DOMAIN cache : cache[e].gen # gen'
    BY <1>2, <1>3 DEF IInv, TypeOK
  <2>2. sites' = sites
    BY <1>2, <2>1 DEF Refill
  <2> QED BY <1>2, <2>1, <2>2, RaisedEnds DEF IInv
<1>4. CASE ~WritesBack
  <2>1. UNCHANGED <<tables, gen>>
    BY <1>2, <1>4 DEF CacheReturn, Return, tables
  <2>2. CASE c.site = NoSite
    BY <1>1, <1>2, <2>1, <2>2, EndsSame
  <2>3. CASE c.site # NoSite
    <3>1. sites' = Refill(c.site, ns, c.name, procs, cache, gen)
      BY <1>2, <2>1, <2>3 DEF tables
    <3>2. LET w == cache[<<ns, c.name>>].winner IN
            <<ns, c.name>> \in DOMAIN cache /\ cache[<<ns, c.name>>].gen = gen =>
              /\ ns \in Seq(Words) /\ c.name \in Names /\ Memo(w)
              /\ Serves(w) => Served(w) = Chain(ns, c.name) /\ ~Hangs(ns, c.name)
      BY DEF IInv, TypeOK, CacheCoherent, Ends, CacheEnds
    <3>3. TokensAnswer'
      BY <1>1, <2>1, <3>1, <3>2, RefillEnds DEF IInv, Ends
    <3>4. CacheEnds'
      BY <1>2, <2>1, HangsSame DEF Ends, CacheEnds, Serves, tables
    <3> QED BY <3>3, <3>4 DEF Ends
  <2> QED BY <2>2, <2>3
<1> QED BY <1>3, <1>4

LEMMA CallEnds ==
  ASSUME IInv, Ends, NEW s \in Sites \cup {NoSite}, NEW n \in Names, CallSite(s, n)
  PROVE  Ends'
<1>1. gen' = gen
  BY DEF CallSite
<1>2. CASE Hit(s, n) /\ UNCHANGED <<cache, sites>> /\ Enter(TokenRun(sites[s]))
  <2> DEFINE t == sites[s]
  <2>1. Token(t)
    BY <1>2, LiveToken DEF Hit, IInv
  <2>2. TokenRun(t).kind = "proc" => TokenRun(t).key \in Name
    BY <2>1, MemoKinds DEF TokenRun, Run, Token
  <2>3. UNCHANGED tables /\ (TreeHalfDeleted => TreeHalfDeleted')
    <3>1. TreeHalfDeleted => TreeHalfDeleted'
      BY <1>2, <2>2, EnterStack DEF IInv
    <3> QED BY <1>2, <3>1 DEF Enter
  <2> QED BY <1>1, <1>2, <2>3, EndsSame
<1>3. CASE /\ Dispatch(n)
           /\ \/ UNCHANGED sites
              \/ sites' = Refill(s, CurrentNs, n, procs, cache', gen)
  <2>1. /\ UNCHANGED tables /\ (TreeHalfDeleted => TreeHalfDeleted') /\ CacheCoherent'
        /\ DOMAIN cache' \subseteq Seq(Words) \X Names
        /\ \A e \in DOMAIN cache' : Memo(cache'[e].winner)
    BY <1>1, <1>3, DispatchCache
  <2>2. \A x : Serves(x)' = Serves(x) /\ Served(x)' = Served(x)
    BY <2>1 DEF Serves, Served, tables
  <2>3. CacheEnds'
    <3>1. CASE UNCHANGED cache
      BY <1>1, <2>1, <2>2, <3>1, HangsSame DEF Ends, CacheEnds
    <3>2. CASE ~Hangs(CurrentNs, n) /\ CachePut(CurrentNs, n, Winner(Chain(CurrentNs, n)))
      <4> DEFINE key == <<CurrentNs, n>>
      <4>1. \A e \in DOMAIN cache' : e = key \/ (e \in DOMAIN cache /\ cache'[e] = cache[e])
        BY <3>2 DEF CachePut, Put
      <4>2. key[1] = CurrentNs /\ key[2] = n
        OBVIOUS
      <4> HIDE DEF key
      <4> QED BY <1>1, <2>1, <2>2, <3>2, <4>1, <4>2, HangsSame DEF Ends, CacheEnds
    <3> QED BY <1>3, <3>1, <3>2 DEF Dispatch
  <2>4. TokensAnswer'
    <3>1. CASE UNCHANGED sites
      <4>1. \A t : (Usable(t)' <=> Usable(t)) /\ (Gone(t)' <=> Gone(t)) /\ (Answers(t)' <=> Answers(t))
        BY <2>1, HangsSame, ChainSame, TokenRunSame DEF Usable, Gone, Answers, tables
      <4> QED BY <1>1, <2>1, <3>1, <4>1 DEF Ends, TokensAnswer
    <3>2. CASE sites' = Refill(s, CurrentNs, n, procs, cache', gen)
      <4>1. LET w == cache'[<<CurrentNs, n>>].winner IN
              <<CurrentNs, n>> \in DOMAIN cache' /\ cache'[<<CurrentNs, n>>].gen = gen =>
                /\ CurrentNs \in Seq(Words) /\ n \in Names /\ Memo(w)
                /\ Serves(w) => Served(w) = Chain(CurrentNs, n) /\ ~Hangs(CurrentNs, n)
        BY <1>1, <2>1, <2>2, <2>3, ChainSame, HangsSame DEF CacheCoherent, CacheEnds
      <4> QED BY <1>1, <2>1, <3>2, <4>1, RefillEnds DEF IInv, Ends
    <3> QED BY <1>3, <3>1, <3>2
  <2> QED BY <2>3, <2>4 DEF Ends
<1> QED BY <1>2, <1>3 DEF CallSite

LEMMA EndsInvariant ==
  CacheSpec => []Ends
<1>1. CacheInit => Ends
  <2> SUFFICES ASSUME CacheInit PROVE Ends
    OBVIOUS
  <2>1. DOMAIN cache = {} /\ \A s \in Sites : sites[s].gen # gen
    BY DEF CacheInit, NoToken
  <2> QED BY <2>1 DEF Ends, CacheEnds, TokensAnswer
<1>2. IInv /\ Ends /\ [CacheNext]_vars => Ends'
  <2> SUFFICES ASSUME IInv, Ends, [CacheNext]_vars PROVE Ends'
    OBVIOUS
  <2>1. CASE UNCHANGED vars
    <3>1. UNCHANGED <<tables, gen, cache, sites>> /\ stack' = stack
      BY <2>1 DEF vars, tvars, cvars, tables
    <3>2. TreeHalfDeleted => TreeHalfDeleted'
      BY <3>1 DEF TreeHalfDeleted
    <3> QED BY <3>1, <3>2, EndsSame
  <2>2. CASE CacheMutate
    BY <2>2, RaisedEnds DEF IInv, CacheMutate, Bump
  <2> QED BY <2>1, <2>2, QuietEnds, ReturnEnds, CallEnds DEF CacheNext
<1> QED BY <1>1, <1>2, Invariant, PTL DEF CacheSpec

(* A step with the caches is a step without them, or the exception.        *)
LEMMA CallUncached ==
  ASSUME IInv, Ends, NEW s \in Sites \cup {NoSite}, NEW n \in Names, CallSite(s, n)
  PROVE  Call(n) \/ RunsTheGone
<1>1. CASE Hit(s, n) /\ Enter(TokenRun(sites[s]))
  <2> DEFINE t == sites[s]
  <2>1. /\ s \in Sites /\ t.gen = gen /\ t.name = n /\ t.ns = CurrentNs /\ Usable(t)
    BY <1>1 DEF Hit, Usable
  <2>2. CASE Answers(t)
    BY <1>1, <2>1, <2>2 DEF Answers, Call
  <2>3. CASE TreeHalfDeleted /\ Gone(t)
    <3>1. Token(t) /\ t.def # NoDef
      BY <2>1, <2>3, LiveToken DEF IInv, Usable, Gone
    <3>2. TokenRun(t) = Run("proc", t.winner.key, t.def) /\ outcome' = TokenRun(t)
      BY <1>1, <2>3, <3>1 DEF TokenRun, Gone, Enter
    <3>3. t.def \in Def /\ t.winner.key \notin DOMAIN procs
      BY <2>3, <3>1 DEF Token, Gone
    <3> QED BY <1>1, <2>3, <3>2, <3>3 DEF RunsTheGone, Run
  <2> QED BY <2>1, <2>2, <2>3 DEF Ends, TokensAnswer
<1>2. CASE Dispatch(n)
  <2> DEFINE w == CacheGet(CurrentNs, n)
  <2>1. CASE Serves(w)
    <3>1. /\ <<CurrentNs, n>> \in DOMAIN cache /\ cache[<<CurrentNs, n>>].gen = gen
          /\ w = cache[<<CurrentNs, n>>].winner
      BY <2>1 DEF CacheGet, Serves, NoRun, Run
    <3>2. Served(w) = Chain(CurrentNs, n) /\ ~Hangs(CurrentNs, n)
      BY <2>1, <3>1 DEF IInv, CacheCoherent, Ends, CacheEnds
    <3> QED BY <1>2, <2>1, <3>2 DEF Dispatch, Call
  <2>2. CASE ~Serves(w)
    BY <1>2, <2>2 DEF Dispatch, Call
  <2> QED BY <2>1, <2>2
<1> QED BY <1>1, <1>2 DEF CallSite

LEMMA StepUncached ==
  IInv /\ Ends /\ [CacheNext]_vars => [TableNext \/ RunsTheGone]_tvars
<1> SUFFICES ASSUME IInv, Ends, [CacheNext]_vars PROVE [TableNext \/ RunsTheGone]_tvars
  OBVIOUS
<1>1. CASE UNCHANGED vars
  BY <1>1 DEF vars
<1>2. CASE \E s \in Sites \cup {NoSite}, n \in Names : CallSite(s, n)
  BY <1>2, CallUncached DEF TableNext
<1> QED BY <1>1, <1>2 DEF CacheNext, CacheMutate, CacheQuiet, CacheReturn, TableNext

(* Seen from the script the caches are not there: the interpreter with     *)
(* them implements the one that walks the chain on every call, for any     *)
(* names, namespaces, call sites and capacity.  The one exception is a     *)
(* warm call site that runs a proc whose namespace is being deleted from   *)
(* inside (cmd_generation is raised only in the second half).              *)
THEOREM CachesAreInvisible == CacheSpec => UncachedBehaviour
<1>1. CacheInit => TableInit
  BY DEF CacheInit
<1> QED BY <1>1, StepUncached, Invariant, EndsInvariant, PTL DEF CacheSpec, UncachedBehaviour

-----------------------------------------------------------------------------
(* The caches, the tokens and the counters are well formed: no entry is    *)
(* younger than the generation, and cmd_cache never outgrows its capacity. *)
THEOREM CacheTypes == CacheSpec => []TypeOK
BY Invariant, PTL DEF IInv

(* A memoised winner that would be used is the chain's, for any names,     *)
(* namespaces, call sites, capacity and length of run.                     *)
THEOREM CoherentCache == CacheSpec => []CacheCoherent
BY Invariant, PTL DEF IInv

(* An honoured token runs what the chain would, except while a namespace   *)
(* is being deleted from inside.                                           *)
THEOREM CurrentTokens == CacheSpec => []TokensCurrent
BY Invariant, PTL DEF IInv
=============================================================================
