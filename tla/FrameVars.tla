----------------------------- MODULE FrameVars -----------------------------
(***************************************************************************)
(* Where a variable lives.  A call frame keeps its variables by name       *)
(* (locals), or, for the names in its compiled body's table, by slot; a    *)
(* name may instead be a link (upvar, global, variable) to a variable of   *)
(* another frame or of the global table.  Compiled instructions go to the  *)
(* slot, everything else goes by name, and both must see one variable:     *)
(* what must not sit in a slot any more sends its frame, or the one name,  *)
(* back to the names.                                                      *)
(*                                                                         *)
(* Elements of arrays, eval-level upvar aliases, uplevel and what a trace  *)
(* callback does are left out: an array is a flagged variable whose value  *)
(* is the marker the code stores under its plain name, and a trace that    *)
(* fires is noted in out.                                                  *)
(***************************************************************************)
EXTENDS Integers, Sequences, SequencesExt

CONSTANTS
  Names,       \* names of local variables
  Keys,        \* keys of the global table
  NsKeys,      \* those inside the one namespace scripts create and delete
  GlobalKey,   \* GlobalKey[n]: what `global n` links n to
  VariableKey, \* VariableKey[n]: what `variable ns::n` links n to
  Bodies,      \* proc bodies: [table, params], no table when the slot gate rejects them
  SlotLocals,  \* FALSE: every body is walked, no frame has slots
  BlockedLinks,\* TRUE: scripts try upvar on a name whose slot holds a value
  None,        \* no link, no link key
  MaxVal,      \* bound of the model: values are 0..MaxVal
  MaxFrames    \* bound of the model: nested calls

ASSUME FrameVarsAssumption ==
  /\ NsKeys \subseteq Keys
  /\ DOMAIN GlobalKey \subseteq Names /\ \A n \in DOMAIN GlobalKey : GlobalKey[n] \in Keys
  /\ DOMAIN VariableKey \subseteq Names /\ \A n \in DOMAIN VariableKey : VariableKey[n] \in NsKeys
  /\ Bodies \subseteq [table : SUBSET Names, params : SUBSET Names]
  /\ \A b \in Bodies : b.table # {} => b.params \subseteq b.table
  /\ SlotLocals \in BOOLEAN /\ BlockedLinks \in BOOLEAN
  /\ None \notin Keys /\ None \notin [to : [frame : Nat, name : Names \cup Keys], dead : BOOLEAN]
  /\ MaxVal \in Nat /\ MaxFrames \in Nat

VARIABLES
  frames,   \* the call frames
  globals,  \* key -> variable of the global table, with array_globals
  traced,   \* locations with a whole-variable trace
  live,     \* the namespace exists
  op,       \* the last operation asked for
  out       \* what it answered, and whether a trace fired

vars == <<frames, globals, traced, live, op, out>>

Vals   == 0 .. MaxVal
Unset  == -1               \* no value, the unset sentinel of a slot
Marker == -2               \* the empty string stored under an array's name
Var    == [val : Vals \cup {Unset, Marker}, arr : BOOLEAN]
NoVar  == [val |-> Unset, arr |-> FALSE]
Scalar(v) == [val |-> v, arr |-> FALSE]

Global(k)   == [frame |-> 0, name |-> k]
Local(i, n) == [frame |-> i, name |-> n]

Depth     == Len(frames)
Top       == frames[Depth]
LinkOf(n) == Top.links[n]
Slotted(n) == n \in DOMAIN Top.slots
Aliased(n) == n \in Top.aliased

Answer(res, val, fired) == out' = [res |-> res, val |-> val, fired |-> fired]
Say(res)  == Answer(res, Unset, FALSE)
SetTop(f) == frames' = [frames EXCEPT ![Depth] = f]

Init ==
  /\ frames = <<>>
  /\ globals = [k \in Keys |-> NoVar]
  /\ traced = {} /\ live = TRUE
  /\ op = <<"start">>
  /\ out = [res |-> "ok", val |-> Unset, fired |-> FALSE]

-----------------------------------------------------------------------------
(* Names *)

(* The location a name stands for in the running frame.  A dead link is    *)
(* read where its alias is.                                                *)
LocOf(n) == IF LinkOf(n) = None \/ LinkOf(n).dead THEN Local(Depth, n) ELSE LinkOf(n).to

VarAt(l) == IF l.frame = 0 THEN globals[l.name] ELSE frames[l.frame].locals[l.name]

SlotValue(f, n) == IF n \in DOMAIN f.slots \ f.aliased THEN f.slots[n] ELSE Unset
Exists(l) == \/ VarAt(l).val # Unset
             \/ l.frame # 0 /\ SlotValue(frames[l.frame], l.name) # Unset

First(v, w) == IF v # Unset THEN v ELSE w

(* The value a name reads: a link to a global, live or dead, falls back on *)
(* the copy its frame was left with.                                       *)
Resolved(n) ==
  LET l == LinkOf(n) IN
  IF l = None THEN First(SlotValue(Top, n), Top.locals[n].val)
  ELSE IF l.to.frame = 0 THEN First(globals[l.to.name].val, Top.locals[n].val)
  ELSE First(SlotValue(frames[l.to.frame], l.to.name), VarAt(l.to).val)

GetVar(n) ==
  IF LinkOf(n) = None /\ Slotted(n)
  THEN [res |-> IF Top.slots[n] = Unset THEN "missing" ELSE "ok", val |-> Top.slots[n]]
  ELSE IF VarAt(LocOf(n)).arr THEN [res |-> "array", val |-> Unset]
  ELSE [res |-> IF Resolved(n) = Unset THEN "missing" ELSE "ok", val |-> Resolved(n)]

IsDead(n) == LinkOf(n) # None /\ LinkOf(n).dead

Put(l, v) == /\ IF l.frame = 0
                THEN /\ globals' = [globals EXCEPT ![l.name].val = v]
                     /\ UNCHANGED frames
                ELSE /\ frames' = [frames EXCEPT ![l.frame].locals[l.name].val = v]
                     /\ UNCHANGED globals

Store(n, v) ==
  IF LinkOf(n) # None THEN Put(LinkOf(n).to, v)
  ELSE IF Slotted(n)
  THEN SetTop([Top EXCEPT !.slots[n] = v]) /\ UNCHANGED globals
  ELSE Put(Local(Depth, n), v)

Refusal(n) == IF IsDead(n) THEN "dead" ELSE IF VarAt(LocOf(n)).arr THEN "array" ELSE "ok"

(* set_var, answering answer when the write is refused.                    *)
WriteOr(n, v, answer) ==
  IF Refusal(n) = "ok"
  THEN Store(n, v) /\ Answer("ok", v, LocOf(n) \in traced)
  ELSE UNCHANGED <<frames, globals>> /\ answer

SetVar(n, v) == WriteOr(n, v, Say(Refusal(n)))

-----------------------------------------------------------------------------
(* Leaving the slots *)

NoSlots == [n \in {} |-> None]

(* The whole frame goes back to names; a linked slot has nothing to move.  *)
Degraded(f) ==
  [f EXCEPT !.locals = [n \in Names |->
              IF n \in DOMAIN f.slots /\ f.slots[n] # Unset
              THEN [f.locals[n] EXCEPT !.val = f.slots[n]] ELSE f.locals[n]],
            !.slots = NoSlots, !.aliased = {}, !.linkKeys = NoSlots]

(* Mutant: the frame leaves its slots only when the slot has a value.      *)
DegradedForHeld(f, n) ==
  IF n \in DOMAIN f.slots THEN IF f.slots[n] # Unset THEN Degraded(f) ELSE f ELSE f

(* The same, when the name concerned is one of the frame's slots.          *)
DegradedFor(f, n) == IF n \in DOMAIN f.slots THEN Degraded(f) ELSE f

(* Mutant: a name linked anew keeps the key of its last global link.       *)
DegradedLinkKeepsKey(f, n, link) ==
  IF n \notin DOMAIN f.slots THEN f
  ELSE [f EXCEPT !.locals[n].val = First(f.slots[n], @),
                 !.slots[n] = Unset,
                 !.aliased = @ \cup {n},
                 !.linkKeys[n] = IF link.to.frame = 0 /\ ~link.dead THEN link.to.name ELSE @]

(* One name becomes a link: its value moves, its slot is marked, and a     *)
(* link to a global leaves its key with the slot.                          *)
DegradedLink(f, n, link) ==
  IF n \notin DOMAIN f.slots THEN f
  ELSE [f EXCEPT !.locals[n].val = First(f.slots[n], @),
                 !.slots[n] = Unset,
                 !.aliased = @ \cup {n},
                 !.linkKeys[n] = IF link.to.frame = 0 /\ ~link.dead THEN link.to.name ELSE None]

-----------------------------------------------------------------------------
(* Calls *)

Call(b, v) ==
  /\ Depth < MaxFrames
  /\ op' = <<"call", b, v>>
  /\ LET slotted == SlotLocals /\ b.table # {}
         table   == IF slotted THEN b.table ELSE {}
     IN frames' = Append(frames,
          [locals   |-> [n \in Names |-> IF n \in b.params /\ ~slotted THEN Scalar(v) ELSE NoVar],
           links    |-> [n \in Names |-> None],
           slots    |-> [n \in table |-> IF n \in b.params THEN v ELSE Unset],
           aliased  |-> {},
           linkKeys |-> [n \in table |-> None]])
  /\ Say("ok") /\ UNCHANGED <<globals, traced, live>>

Return ==
  /\ frames # <<>>
  /\ op' = <<"return">>
  /\ frames' = Front(frames)
  /\ traced' = {l \in traced : l.frame # Depth}
  /\ Say("ok") /\ UNCHANGED <<globals, live>>

-----------------------------------------------------------------------------
(* Operations by name *)

ReadVar(n) ==
  /\ op' = <<"read", n>>
  /\ Answer(GetVar(n).res, GetVar(n).val, LocOf(n) \in traced)
  /\ UNCHANGED <<frames, globals, traced, live>>

WriteVar(n, v) ==
  /\ op' = <<"write", n, v>>
  /\ SetVar(n, v)
  /\ UNCHANGED <<traced, live>>

(* incr: a missing variable counts from 0, a value that is no integer      *)
(* (the marker) is an error.                                               *)
IncrVar(n) ==
  LET got == GetVar(n)
      cur == IF got.res = "missing" THEN 0 ELSE got.val
  IN /\ op' = <<"incr", n>>
     /\ IF got.res = "array" \/ cur = Marker
        THEN UNCHANGED <<frames, globals>> /\ Say(IF cur = Marker THEN "notint" ELSE "array")
        ELSE cur < MaxVal /\ SetVar(n, cur + 1)
     /\ UNCHANGED <<traced, live>>

(* Removing a global scalar also removes every frame's copy of it.         *)
WithoutSeeds(fs, k) ==
  [i \in DOMAIN fs |-> [fs[i] EXCEPT !.locals = [n \in Names |->
     IF fs[i].links[n] = [to |-> Global(k), dead |-> FALSE] THEN NoVar ELSE @[n]]]]

Removed(n) ==
  LET l == LocOf(n) IN
  CASE VarAt(l).arr /\ l.frame = 0 -> /\ globals' = [globals EXCEPT ![l.name] = NoVar]
                                      /\ UNCHANGED frames
    [] VarAt(l).arr /\ l.frame # 0 -> /\ frames' = [frames EXCEPT ![l.frame].locals[l.name] = NoVar]
                                      /\ UNCHANGED globals
    [] ~VarAt(l).arr /\ l.frame = 0 -> /\ globals' = [globals EXCEPT ![l.name].val = Unset]
                                       /\ frames' = WithoutSeeds(frames, l.name)
    [] OTHER -> IF LinkOf(n) = None /\ Slotted(n)
                THEN SetTop([Top EXCEPT !.slots[n] = Unset]) /\ UNCHANGED globals
                ELSE Put(l, Unset)

(* unset; the traces of a variable go even when there is no variable.      *)
UnsetVar(n) ==
  LET l == LocOf(n) IN
  /\ op' = <<"unset", n>>
  /\ IF Exists(l) \/ VarAt(l).arr
     THEN Removed(n) /\ Answer("ok", Unset, l \in traced)
     ELSE UNCHANGED <<frames, globals>> /\ Say("missing")
  /\ traced' = traced \ {l}
  /\ UNCHANGED live

(* set n(e) v: the frame leaves its slots first, whatever comes of it.     *)
WriteElement(n) ==
  /\ op' = <<"element", n>>
  /\ IF IsDead(n) THEN UNCHANGED <<frames, globals>> /\ Say("dead")
     ELSE LET fs == [frames EXCEPT ![Depth] = DegradedFor(@, n)]
              l  == LocOf(n)
              there == Exists(l)
          IN IF VarAt(l).arr \/ there
             THEN /\ frames' = fs /\ UNCHANGED globals
                  /\ IF VarAt(l).arr THEN Answer("ok", Unset, l \in traced) ELSE Say("notarray")
             ELSE /\ IF l.frame = 0
                     THEN /\ globals' = [globals EXCEPT ![l.name] = [val |-> Marker, arr |-> TRUE]]
                          /\ frames' = fs
                     ELSE /\ frames' = [fs EXCEPT ![l.frame].locals[l.name] =
                                                     [val |-> Marker, arr |-> TRUE]]
                          /\ UNCHANGED globals
                  /\ Answer("ok", Unset, l \in traced)
  /\ UNCHANGED <<traced, live>>

(* info vars, info locals                                                  *)
InfoVars ==
  /\ frames # <<>>
  /\ op' = <<"info">>
  /\ SetTop(Degraded(Top))
  /\ Say("ok") /\ UNCHANGED <<globals, traced, live>>

TraceVar(n) ==
  /\ op' = <<"trace", n>>
  /\ SetTop(DegradedFor(Top, n))
  /\ traced' = traced \cup {LocOf(n)}
  /\ Say("ok") /\ UNCHANGED <<globals, live>>

-----------------------------------------------------------------------------
(* Links *)

(* Mutant: global without taking the name out of its slot.                 *)
GlobalCmdBare(n) ==
  LET k    == GlobalKey[n]
      link == [to |-> Global(k), dead |-> FALSE]
  IN /\ op' = <<"global", n>>
     /\ SetTop([Top EXCEPT !.links[n] = link,
                           !.locals[n].val = First(globals[k].val, @)])
     /\ Say("ok") /\ UNCHANGED <<globals, traced, live>>

GlobalCmd(n) ==
  LET k    == GlobalKey[n]
      link == [to |-> Global(k), dead |-> FALSE]
      f    == DegradedLink(Top, n, link)
  IN /\ op' = <<"global", n>>
     /\ SetTop([f EXCEPT !.links[n] = link,
                         !.locals[n].val = First(globals[k].val, @)])
     /\ Say("ok") /\ UNCHANGED <<globals, traced, live>>

(* variable, with or without a value, which goes into the table unseen by  *)
(* traces and over an array's marker.                                      *)
VariableCmd(n, v) ==
  LET k    == VariableKey[n]
      link == [to |-> Global(k), dead |-> FALSE]
      f    == DegradedLink(Top, n, link)
  IN /\ op' = <<"variable", n, v>>
     /\ IF ~live
        THEN UNCHANGED <<frames, globals>> /\ Say("nons")
        ELSE /\ globals' = [globals EXCEPT ![k].val = First(v, @)]
             /\ SetTop([f EXCEPT !.links[n] = link,
                                 !.locals[n].val = First(globals'[k].val, @)])
             /\ Say("ok")
     /\ UNCHANGED <<traced, live>>

(* A link to a linked name becomes a link to what that one names.          *)
Hop(fs, link) ==
  IF link.dead \/ link.to.frame = 0 \/ fs[link.to.frame].links[link.to.name] = None
  THEN link ELSE fs[link.to.frame].links[link.to.name]
Ultimate(fs, link) ==
  LET hops[k \in 0 .. Len(fs) + 1] == IF k = 0 THEN link ELSE Hop(fs, hops[k - 1])
  IN  hops[Len(fs) + 1]

(* upvar level other n: the target's frame leaves its slots, then checks   *)
(* are made in between the steps that take n out of its own slot.          *)
Upvar(target, n) ==
  LET link == Ultimate(frames, [to |-> target, dead |-> FALSE])
      fs   == IF link.dead \/ link.to.frame = 0 THEN frames
              ELSE [frames EXCEPT ![link.to.frame] = DegradedFor(@, link.to.name)]
      f    == DegradedLink(fs[Depth], n, link)
      blocked == f.links[n] = None /\ (f.locals[n].val # Unset \/ f.locals[n].arr)
      copy == IF link.dead THEN Unset
              ELSE IF link.to.frame = 0 THEN globals[link.to.name].val
              ELSE fs[link.to.frame].locals[link.to.name].val
  IN /\ op' = <<"upvar", target, n>>
     /\ blocked /\ n \in DOMAIN f.slots => BlockedLinks
     /\ IF ~link.dead /\ link.to = Local(Depth, n) THEN frames' = fs /\ Say("self")
        ELSE IF Local(Depth, n) \in traced THEN frames' = fs /\ Say("traced")
        ELSE IF blocked THEN frames' = [fs EXCEPT ![Depth] = f] /\ Say("exists")
        ELSE /\ frames' = [fs EXCEPT ![Depth] =
                             [f EXCEPT !.links[n] = link, !.locals[n].val = copy]]
             /\ Say("ok")
     /\ UNCHANGED <<globals, traced, live>>

-----------------------------------------------------------------------------
(* Compiled operations: the slot, or the key its link left there, and the  *)
(* operation by name when neither will do.                                 *)

Key(n)    == IF Aliased(n) THEN Top.linkKeys[n] ELSE None
Direct(n) == Key(n) # None /\ globals[Key(n)].val # Unset
Held(n)   == ~Aliased(n) /\ Top.slots[n] # Unset

LoadLocal(n) ==
  /\ Slotted(n)
  /\ IF Direct(n) \/ Held(n)
     THEN /\ op' = <<"read", n>>
          /\ Answer("ok", IF Direct(n) THEN globals[Key(n)].val ELSE Top.slots[n], FALSE)
          /\ UNCHANGED <<frames, globals, traced, live>>
     ELSE ReadVar(n)

(* A write through a link whose target is missing goes by name, and its    *)
(* refusal is dropped.                                                     *)
StoreLocal(n, v) ==
  /\ Slotted(n)
  /\ op' = <<"write", n, v>>
  /\ IF Direct(n) THEN Put(Global(Key(n)), v) /\ Answer("ok", v, FALSE)
     ELSE IF Key(n) # None THEN WriteOr(n, v, Answer("ok", v, FALSE))
     ELSE IF Aliased(n) THEN SetVar(n, v)
     ELSE /\ SetTop([Top EXCEPT !.slots[n] = v]) /\ UNCHANGED globals
          /\ Answer("ok", v, FALSE)
  /\ UNCHANGED <<traced, live>>

(* In place only while no variable at all is traced.                       *)
IncrLocal(n) ==
  /\ Slotted(n)
  /\ op' = <<"incr", n>>
  /\ IF traced = {} /\ Direct(n) /\ globals[Key(n)].val # Marker
     THEN LET v == globals[Key(n)].val + 1
          IN v <= MaxVal /\ Put(Global(Key(n)), v) /\ Answer("ok", v, FALSE)
     ELSE IF traced = {} /\ Held(n)
     THEN LET v == Top.slots[n] + 1
          IN /\ v <= MaxVal /\ SetTop([Top EXCEPT !.slots[n] = v]) /\ UNCHANGED globals
             /\ Answer("ok", v, FALSE)
     ELSE IncrVar(n)
  /\ UNCHANGED <<traced, live>>

-----------------------------------------------------------------------------
(* Qualified names and the namespace, from any frame                       *)

Reachable(k) == k \in NsKeys => live

WriteKey(k, v) ==
  /\ op' = <<"write key", k, v>>
  /\ IF ~Reachable(k) THEN UNCHANGED globals /\ Say("nons")
     ELSE IF globals[k].arr THEN UNCHANGED globals /\ Say("array")
     ELSE globals' = [globals EXCEPT ![k].val = v] /\ Answer("ok", v, Global(k) \in traced)
  /\ UNCHANGED <<frames, traced, live>>

WriteKeyElement(k) ==
  /\ op' = <<"element key", k>>
  /\ IF ~Reachable(k) THEN UNCHANGED globals /\ Say("nons")
     ELSE IF globals[k].val # Unset /\ ~globals[k].arr THEN UNCHANGED globals /\ Say("notarray")
     ELSE /\ globals' = [globals EXCEPT ![k] = [val |-> Marker, arr |-> TRUE]]
          /\ Answer("ok", Unset, Global(k) \in traced)
  /\ UNCHANGED <<frames, traced, live>>

UnsetKey(k) ==
  /\ op' = <<"unset key", k>>
  /\ IF globals[k].val = Unset /\ ~globals[k].arr
     THEN UNCHANGED <<frames, globals>> /\ Say("missing")
     ELSE /\ globals' = [globals EXCEPT ![k] = NoVar]
          /\ frames' = IF globals[k].arr THEN frames ELSE WithoutSeeds(frames, k)
          /\ Answer("ok", Unset, Global(k) \in traced)
  /\ traced' = traced \ {Global(k)}
  /\ UNCHANGED live

TraceKey(k) ==
  /\ op' = <<"trace key", k>>
  /\ traced' = traced \cup {Global(k)}
  /\ Say("ok") /\ UNCHANGED <<frames, globals, live>>

(* namespace delete: links into it keep a copy of what they read, then die.*)
Dying(link) == link # None /\ ~link.dead /\ link.to.frame = 0 /\ link.to.name \in NsKeys
Deadened(f) ==
  [f EXCEPT !.locals = [n \in Names |->
              IF Dying(f.links[n])
              THEN [f.locals[n] EXCEPT !.val = First(@, globals[f.links[n].to.name].val)]
              ELSE f.locals[n]],
            !.links = [n \in Names |->
              IF Dying(f.links[n]) THEN [f.links[n] EXCEPT !.dead = TRUE] ELSE f.links[n]]]

NsDelete ==
  /\ live
  /\ op' = <<"delete">>
  /\ live' = FALSE
  /\ frames' = [i \in DOMAIN frames |-> Deadened(frames[i])]
  /\ globals' = [k \in Keys |-> IF k \in NsKeys THEN NoVar ELSE globals[k]]
  /\ traced' = {l \in traced : l.frame = 0 => l.name \notin NsKeys}
  /\ Say("ok")

NsCreate ==
  /\ ~live
  /\ op' = <<"create">>
  /\ live' = TRUE
  /\ Say("ok") /\ UNCHANGED <<frames, globals, traced>>

-----------------------------------------------------------------------------
(* The locations `upvar` can be asked for: the caller's variable (a global *)
(* one from the outermost frame), one of this frame, a global one.         *)
UpvarTargets ==
  {Local(i, n) : i \in {Depth - 1, Depth} \ {0}, n \in Names} \cup {Global(k) : k \in Keys}

Scalars    == \E n \in Names : ReadVar(n) \/ IncrVar(n) \/ UnsetVar(n) \/ \E v \in Vals : WriteVar(n, v)
Slots      == \E n \in Names : LoadLocal(n) \/ IncrLocal(n) \/ \E v \in Vals : StoreLocal(n, v)
Upvars     == \E n \in Names : \E t \in UpvarTargets : Upvar(t, n)
GlobalCmds == \E n \in DOMAIN GlobalKey : GlobalCmd(n)
Variables  == \E n \in DOMAIN VariableKey : \E v \in Vals \cup {Unset} : VariableCmd(n, v)
Namespaces == NsDelete \/ NsCreate
Keyed      == \E k \in Keys : UnsetKey(k) \/ \E v \in Vals : WriteKey(k, v)
Elements   == \/ \E n \in Names : frames # <<>> /\ WriteElement(n)
              \/ \E k \in Keys : WriteKeyElement(k)
Traces     == \/ \E n \in Names : frames # <<>> /\ TraceVar(n)
              \/ \E k \in Keys : TraceKey(k)
Calls      == Return \/ \E b \in Bodies : \E v \in Vals : Call(b, v)

Next ==
  \/ frames # <<>> /\ (Scalars \/ Slots \/ Upvars \/ GlobalCmds \/ Variables)
  \/ Namespaces \/ Keyed \/ Elements \/ Traces \/ Calls \/ InfoVars

Spec == Init /\ [][Next]_vars

-----------------------------------------------------------------------------
Location == {l \in [frame : 0 .. MaxFrames, name : Names \cup Keys] :
               l.name \in IF l.frame = 0 THEN Keys ELSE Names}
LinkType == [to : Location, dead : BOOLEAN]
Replies == {"ok", "missing", "array", "dead", "notint", "notarray", "nons",
            "self", "traced", "exists"}

FrameOK(f) ==
  /\ DOMAIN f = {"locals", "links", "slots", "aliased", "linkKeys"}
  /\ f.locals \in [Names -> Var]
  /\ f.links \in [Names -> LinkType \cup {None}]
  /\ DOMAIN f.slots \subseteq Names
  /\ f.slots \in [DOMAIN f.slots -> Vals \cup {Unset}]
  /\ f.linkKeys \in [DOMAIN f.slots -> Keys \cup {None}]
  /\ f.aliased \subseteq DOMAIN f.slots

(* Every variable, frame and answer has its type (CallFrame).              *)
TypeOK ==
  /\ Len(frames) <= MaxFrames
  /\ \A i \in DOMAIN frames : FrameOK(frames[i])
  /\ globals \in [Keys -> Var]
  /\ traced \subseteq Location
  /\ live \in BOOLEAN
  /\ out \in [res : Replies, val : Vals \cup {Unset, Marker}, fired : BOOLEAN]

(* A variable of a slotted frame has one home.  A slot that holds a value  *)
(* has nothing under its name and no link; a slot is marked linked exactly *)
(* while its name is a link, and the key it keeps is that link's target    *)
(* (the frame's slots, locals, upvars and link_keys change in different    *)
(* functions, over many commands).                                         *)
OneHome ==
  \A i \in DOMAIN frames : LET f == frames[i] IN
    \A n \in DOMAIN f.slots :
      /\ f.slots[n] # Unset => f.locals[n] = NoVar /\ f.links[n] = None
      /\ n \in f.aliased <=> f.links[n] # None
      /\ f.linkKeys[n] # None => f.links[n] # None /\ f.links[n].to = Global(f.linkKeys[n])

(* What can be reached from outside its frame, through another name's link *)
(* or by a trace, is kept by name: store_var writes a link's target there  *)
(* and slot writes fire nothing.                                           *)
KeptByName(l) ==
  l.frame # 0 => l.frame \in DOMAIN frames /\ l.name \notin DOMAIN frames[l.frame].slots
ReachedByName ==
  /\ \A l \in traced : KeptByName(l)
  /\ \A i \in DOMAIN frames : \A n \in Names :
       frames[i].links[n] # None => KeptByName(frames[i].links[n].to)
=============================================================================
