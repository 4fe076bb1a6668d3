------------------------------- MODULE Arrays -------------------------------
(***************************************************************************)
(* Arrays: their elements, the traces on them, the searches that walk them *)
(* and the commands that read or change many elements at once (array.rs,   *)
(* the element half of vars.rs, the variable half of trace.rs).            *)
(*                                                                         *)
(* A trace's script runs in the scope of the access that fires it and is   *)
(* itself a command: it may change the array, its traces or its searches   *)
(* while the command that fired it is half done.  The commands under way   *)
(* are a stack, work.  Nothing keeps a trace from firing inside itself.    *)
(*                                                                         *)
(* A variable lives at a location, a scope and a name; scope 0 is global,  *)
(* the others are call frames, used again by later calls.                  *)
(***************************************************************************)
EXTENDS Naturals, Sequences, FiniteSets, SequencesExt

CONSTANTS
  Names, Elems,
  None,        \* no element
  Programs,    \* the sets of commands a program keeps to (a bound of the model)
  Links,       \* <<n, m>>: a frame may link its n to the global m
  MaxFrames,   \* bound of the model: frames
  MaxNest,     \* max_call_depth, in commands inside commands
  MaxTraces,   \* bound of the model: traces on a variable
  MaxCount     \* bound of the model: stamps, generations and search numbers

VARIABLES
  program,     \* one of Programs, for good
  depth,       \* call frames
  links,       \* links[f][n]: where frame f's upvar link for n leads, if it has one
  table,       \* the variable at each location: none, a scalar or an array
  traces,      \* var_traces and elem_traces: [on, ops, script], oldest first
  searches,    \* array_searches: [ctr, active]
  stamps,      \* array_stamps
  gens,        \* array_generations
  work,        \* the commands under way, the innermost last
  ret          \* how the last command of the innermost one ended

vars == <<program, depth, links, table, traces, searches, stamps, gens, work, ret>>

Loc == (0..MaxFrames) \X Names
Gone == [kind |-> "none", elems |-> {}]
NoSearch == [ctr |-> 0, active |-> {}]

(* resolve_loc, and array_owner, which agree: upvar flattens its links.    *)
Resolve(n) == IF depth > 0 /\ n \in DOMAIN links[depth] THEN links[depth][n] ELSE <<depth, n>>

Fresh == /\ depth = 0 /\ links = <<>>
         /\ table = [l \in Loc |-> Gone] /\ traces = [l \in Loc |-> <<>>]
         /\ searches = [l \in Loc |-> NoSearch]
         /\ stamps = [l \in Loc |-> 0] /\ gens = [l \in Loc |-> 0]
         /\ work = <<>> /\ ret = "ok"
Init == program \in Programs /\ Fresh

-----------------------------------------------------------------------------
(* Commands inside commands *)

Top  == work[Len(work)]
Busy == work # <<>>
Idle == ~Busy
InTop(a) == [work EXCEPT ![Len(work)] = a]
(* What is under way when a command starts: its own script is taken.       *)
Below == IF Idle THEN work ELSE InTop([Top EXCEPT !.todo = Tail(@), !.ran = TRUE])

Answer(r)  == work' = Below /\ ret' = r
Start(a)   == work' = Append(Below, a) /\ ret' = "ok"
Finish(r)  == work' = Front(work) /\ ret' = r

(* collect_trace_scripts, in firing order: the element's own before those  *)
(* of the whole variable, the newest first.                                *)
Fired(l, e, op) ==
  LET on(x) == SelectSeq(traces[l], LAMBDA t : t.on = x /\ op \in t.ops)
      ts    == on(None) \o (IF e = None THEN <<>> ELSE on(e))
  IN  [i \in DOMAIN ts |-> Reverse(ts)[i].script]
Fire(l, e, op) ==
  Start([kind |-> "fire", loc |-> l, elem |-> e, op |-> op, todo |-> Fired(l, e, op), ran |-> FALSE])

SameSearches == UNCHANGED <<searches, stamps>>
SameVars     == UNCHANGED <<table, traces, gens>> /\ SameSearches

(* bump_stamp                                                              *)
NoBump(l) == SameSearches
Bump(l) == /\ stamps' = [stamps EXCEPT ![l] = @ + 1]
           /\ searches' = [searches EXCEPT ![l] = NoSearch]
NewContainer(l) == gens' = [gens EXCEPT ![l] = @ + 1]

-----------------------------------------------------------------------------
(* Variables *)

(* set_var of an element.  Creating the array is not a change that bumps.  *)
SetElem(n, e) ==
  LET l == Resolve(n) IN
  \/ /\ table[l].kind = "scalar" /\ Answer("error") /\ SameVars
  \/ /\ table[l].kind = "array"
     /\ table' = [table EXCEPT ![l].elems = @ \cup {e}]
     /\ IF e \in table[l].elems THEN SameSearches ELSE Bump(l)
     /\ Fire(l, e, "write") /\ UNCHANGED <<traces, gens>>
  \/ /\ table[l].kind = "none"
     /\ table' = [table EXCEPT ![l] = [kind |-> "array", elems |-> {e}]]
     /\ NewContainer(l) /\ SameSearches
     /\ Fire(l, e, "write") /\ UNCHANGED traces

Clash(l) == table[l].kind = "array"
SetScalar(n) ==
  LET l == Resolve(n) IN
  \/ Clash(l) /\ Answer("error") /\ SameVars
  \/ /\ ~Clash(l)
     /\ table' = [table EXCEPT ![l].kind = "scalar"]
     /\ Fire(l, None, "write") /\ UNCHANGED <<traces, gens>> /\ SameSearches

UnsetElem(n, e) ==
  LET l == Resolve(n) IN
  \/ e \notin table[l].elems /\ Answer("error") /\ SameVars
  \/ /\ e \in table[l].elems
     /\ table' = [table EXCEPT ![l].elems = @ \ {e}]
     /\ Bump(l) /\ Fire(l, e, "unset") /\ UNCHANGED <<traces, gens>>

(* Of a whole array, with its searches and stamp; of a scalar; of nothing, *)
(* which fails and still drops the traces.                                 *)
Unset(n) ==
  LET l == Resolve(n) IN
  \/ /\ table[l].kind = "none" /\ traces' = [traces EXCEPT ![l] = <<>>]
     /\ Answer("error") /\ UNCHANGED <<table, gens>> /\ SameSearches
  \/ /\ table[l].kind # "none"
     /\ table' = [table EXCEPT ![l] = Gone]
     /\ IF table[l].kind = "array"
        THEN /\ NewContainer(l)
             /\ searches' = [searches EXCEPT ![l] = NoSearch]
             /\ stamps' = [stamps EXCEPT ![l] = 0]
        ELSE UNCHANGED gens /\ SameSearches
     /\ Fire(l, None, "unset") /\ UNCHANGED traces

(* A read of an element fires only on an array, of a scalar always.        *)
Read(n, e) ==
  LET l == Resolve(n) IN
  /\ IF e = None \/ table[l].kind = "array" THEN Fire(l, e, "read") ELSE Answer("error")
  /\ SameVars

(* A trace on an element that is missing makes its variable an array.      *)
AddTrace(n, t) ==
  LET l == Resolve(n) IN
  \/ t.on # None /\ table[l].kind = "scalar" /\ Answer("error") /\ SameVars
  \/ /\ t.on # None => table[l].kind # "scalar"
     /\ traces' = [traces EXCEPT ![l] = Append(@, t)]
     /\ IF t.on # None /\ table[l].kind = "none"
        THEN table' = [table EXCEPT ![l].kind = "array"] /\ NewContainer(l)
        ELSE UNCHANGED <<table, gens>>
     /\ IF t.on # None /\ t.on \notin table[l].elems THEN Bump(l) ELSE SameSearches
     /\ Answer("ok")

RemoveTrace(n, t) ==
  /\ traces' = [traces EXCEPT ![Resolve(n)] = SelectSeq(@, LAMBDA u : u # t)]
  /\ Answer("ok") /\ UNCHANGED <<table, gens>> /\ SameSearches

-----------------------------------------------------------------------------
(* Searches *)

IsArray(n) == table[Resolve(n)].kind = "array"
Valid(l) == {s \in searches[l].active : s.stamp = stamps[l]}

(* The id carries the name the search was started by.  gen and seen are    *)
(* history: the array it was started on, what it has given so far.         *)
StartSearch(n) ==
  LET l == Resolve(n)
      k == searches[l].ctr + 1
  IN  IF IsArray(n)
      THEN /\ searches' = [searches EXCEPT ![l] =
                 [ctr |-> k, active |-> @.active \cup
                    {[id |-> <<k, n>>, left |-> table[l].elems, stamp |-> stamps[l],
                      gen |-> gens[l], seen |-> {}]}]]
           /\ Answer("ok") /\ UNCHANGED <<table, traces, gens, stamps>>
      ELSE Answer("error") /\ SameVars

Replace(l, s, t) == searches' = [searches EXCEPT ![l].active = (@ \ {s}) \cup t]

(* The elements come in the order of their names.                          *)
NextElement(n, id) ==
  LET l == Resolve(n) IN
  \/ /\ ~IsArray(n) \/ \A s \in Valid(l) : s.id # id
     /\ Answer("error") /\ SameVars
  \/ /\ IsArray(n)
     /\ \E s \in Valid(l) :
          /\ s.id = id
          /\ \/ s.left = {} /\ UNCHANGED searches
             \/ \E e \in s.left :
                  Replace(l, s, {[s EXCEPT !.left = @ \ {e}, !.seen = @ \cup {e}]})
     /\ Answer("ok") /\ UNCHANGED <<table, traces, gens, stamps>>

(* The number starts again when no search is left.                         *)
Restarts(active) == active = {}
DoneSearch(n, id) ==
  LET l == Resolve(n)
      rest == {s \in searches[l].active : s.id # id}
  IN
  \/ /\ ~IsArray(n) \/ \A s \in Valid(l) : s.id # id
     /\ Answer("error") /\ SameVars
  \/ /\ IsArray(n) /\ \E s \in Valid(l) : s.id = id
     /\ searches' = [searches EXCEPT ![l] =
           [ctr |-> IF Restarts(rest) THEN 0 ELSE @.ctr, active |-> rest]]
     /\ Answer("ok") /\ UNCHANGED <<table, traces, gens, stamps>>

-----------------------------------------------------------------------------
(* Commands on many elements *)

Orders(S) == {q \in [1..Cardinality(S) -> S] : \A i, j \in DOMAIN q : q[i] = q[j] => i = j}
Each(q, op, n) == [i \in DOMAIN q |-> [op |-> op, name |-> n, elem |-> q[i]]]

(* array set: element by element, stopping at the first failure; when the  *)
(* variable was missing, its array traces fire at the end.                 *)
ArraySet(n, elems) ==
  LET l == Resolve(n)
      made == table[l].kind = "none"
      touch == IF made THEN <<[op |-> "touch", name |-> n]>> ELSE <<>>
  IN
  \/ /\ elems = {} /\ table[l].kind = "scalar" /\ Answer("error") /\ SameVars
  \/ /\ elems = {} /\ made
     /\ table' = [table EXCEPT ![l].kind = "array"] /\ NewContainer(l)
     /\ Fire(l, None, "array") /\ UNCHANGED traces /\ SameSearches
  \/ /\ elems # {} \/ table[l].kind = "array"
     /\ \E q \in Orders(elems) :
          Start([kind |-> "seq", todo |-> Each(q, "set", n) \o touch, ran |-> FALSE])
     /\ SameVars

(* The array trace of array set, and of array names on nothing.            *)
Touch(n) == Fire(Resolve(n), None, "array") /\ SameVars
ArrayNames(n) ==
  /\ IF table[Resolve(n)].kind = "none" THEN Fire(Resolve(n), None, "array") ELSE Answer("ok")
  /\ SameVars

(* array unset: each element by the owner's name for the array, whatever   *)
(* that name means here; failures are dropped.                             *)
ArrayUnset(n, elems) ==
  LET l == Resolve(n) IN
  /\ \E q \in Orders(table[l].elems \cap elems) :
       Start([kind |-> "wipe", todo |-> Each(q, "unsetelem", l[2]), ran |-> FALSE])
  /\ SameVars

(* array get: from here on the array goes by the owner's name for it.      *)
(* born is history.                                                        *)
ArrayGet(n) ==
  LET l == Resolve(n) IN
  /\ Start([kind |-> "get", loc |-> l, key |-> l, elem |-> None, left |-> table[l].elems,
            got |-> {}, todo |-> <<>>, ran |-> FALSE, gen |-> 0, stale |-> FALSE,
            born |-> gens[l]])
  /\ SameVars

-----------------------------------------------------------------------------
(* The command under way *)

Getting == Busy /\ Top.kind = "get"
Moves == UNCHANGED <<program, depth, links>>

(* array_get_element: the traces of the variable the name means here.      *)
NextOfGet ==
  /\ Getting /\ Top.elem = None
  /\ \E e \in Top.left :
       LET key == Resolve(Top.loc[2]) IN
       work' = InTop([Top EXCEPT !.left = @ \ {e}, !.elem = e, !.key = key,
                        !.todo = Fired(key, e, "read"), !.gen = gens[key], !.stale = FALSE])
  /\ UNCHANGED ret /\ SameVars /\ Moves

(* After each trace: a failure drops the element, an array that is gone    *)
(* ends the command, one made anew hides the element.                      *)
Checked ==
  /\ Getting /\ Top.ran
  /\ \/ /\ ret = "error"
        /\ work' = InTop([Top EXCEPT !.elem = None, !.todo = <<>>, !.ran = FALSE])
        /\ ret' = "ok"
     \/ ret = "ok" /\ table[Top.loc].kind = "none" /\ Finish("error")
     \/ /\ ret = "ok" /\ table[Top.loc].kind # "none"
        /\ work' = InTop([Top EXCEPT !.ran = FALSE, !.stale = @ \/ gens[Top.key] # Top.gen])
        /\ UNCHANGED ret
  /\ SameVars /\ Moves

Shows == ~Top.stale /\ Top.elem \in table[Top.loc].elems
ElemOfGet ==
  /\ Getting /\ Top.elem # None /\ Top.todo = <<>> /\ ~Top.ran
  /\ work' = InTop([Top EXCEPT !.elem = None, !.got = IF Shows THEN @ \cup {Top.elem} ELSE @])
  /\ UNCHANGED ret /\ SameVars /\ Moves

GetDone == Getting /\ Top.elem = None /\ Top.left = {} /\ Finish("ok") /\ SameVars /\ Moves

Stops == Top.todo = <<>> \/ (ret = "error" /\ Top.kind # "wipe")

(* fire_traces returns: writes and reads pass a failure on, the others do  *)
(* not, and unset then drops the traces of the variable.                   *)
FireDone ==
  /\ Busy /\ Top.kind = "fire" /\ Stops
  /\ LET there == IF Top.elem = None THEN table[Top.loc].kind = "scalar"
                                     ELSE Top.elem \in table[Top.loc].elems
     IN  Finish(CASE Top.op = "write" -> ret
                  [] Top.op = "read" /\ ~there -> "error"
                  [] Top.op = "read" -> ret
                  [] OTHER -> "ok")
  /\ traces' = IF Top.op = "unset" /\ Top.elem = None THEN [traces EXCEPT ![Top.loc] = <<>>] ELSE traces
  /\ UNCHANGED <<table, gens>> /\ SameSearches /\ Moves

ManyDone ==
  /\ Busy /\ Top.kind \in {"seq", "wipe"} /\ Stops
  /\ Finish(IF Top.kind = "wipe" THEN "ok" ELSE ret)
  /\ SameVars /\ Moves

Do(c) ==
  \/ c.op = "set" /\ SetElem(c.name, c.elem)
  \/ c.op = "scalar" /\ SetScalar(c.name)
  \/ c.op = "unsetelem" /\ UnsetElem(c.name, c.elem)
  \/ c.op = "unset" /\ Unset(c.name)
  \/ c.op = "read" /\ Read(c.name, c.elem)
  \/ c.op = "trace" /\ AddTrace(c.name, c.trace)
  \/ c.op = "untrace" /\ RemoveTrace(c.name, c.trace)
  \/ c.op = "start" /\ StartSearch(c.name)
  \/ c.op = "next" /\ NextElement(c.name, c.id)
  \/ c.op = "done" /\ DoneSearch(c.name, c.id)
  \/ c.op = "pairs" /\ ArraySet(c.name, c.elems)
  \/ c.op = "touch" /\ Touch(c.name)
  \/ c.op = "names" /\ ArrayNames(c.name)
  \/ c.op = "wipe" /\ ArrayUnset(c.name, c.elems)
  \/ c.op = "get" /\ ArrayGet(c.name)
  \/ c.op = "script" /\ Start([kind |-> "seq", todo |-> c.todo, ran |-> FALSE]) /\ SameVars
  \/ c.op = "error" /\ Answer("error") /\ SameVars

(* The next script of the innermost command; one too deep fails.           *)
Script ==
  /\ Busy /\ ~Stops /\ (Top.kind = "get" => Top.elem # None /\ ~Top.ran)
  /\ IF Len(work) < MaxNest THEN Do(Head(Top.todo)) ELSE Answer("error") /\ SameVars
  /\ Moves

-----------------------------------------------------------------------------
(* The program *)

Room == \A l \in Loc : /\ stamps[l] < MaxCount /\ gens[l] < MaxCount
                       /\ searches[l].ctr < MaxCount
Ends == Idle /\ ~Room /\ UNCHANGED vars
CallProc == [op |-> "call"]
Command ==
  /\ Idle /\ Room
  /\ \E c \in program \ {CallProc} : (c.op = "trace" => Len(traces[Resolve(c.name)]) < MaxTraces) /\ Do(c)
  /\ Moves

Call == /\ Idle /\ CallProc \in program /\ depth < MaxFrames
        /\ depth' = depth + 1 /\ links' = Append(links, <<>>)
        /\ UNCHANGED <<program, work, ret>> /\ SameVars

Link(n, m) ==
  /\ Idle /\ depth > 0 /\ <<n, m>> \in Links
  /\ n \notin DOMAIN links[depth] /\ table[<<depth, n>>].kind = "none"
  /\ links' = [links EXCEPT ![depth] = [x \in DOMAIN @ \cup {n} |-> IF x = n THEN <<0, m>> ELSE @[x]]]
  /\ UNCHANGED <<program, depth, work, ret>> /\ SameVars

(* The frame goes with its variables and their traces; searches, stamps    *)
(* and generations stay for the next frame of this number.                 *)
TracesStay == traces
TracesOfTheLiving == [l \in Loc |-> IF l[1] = depth THEN <<>> ELSE traces[l]]
Return ==
  /\ Idle /\ depth > 0 /\ depth' = depth - 1
  /\ table' = [l \in Loc |-> IF l[1] = depth THEN Gone ELSE table[l]]
  /\ links' = Front(links)
  /\ traces' = TracesOfTheLiving
  /\ UNCHANGED <<program, searches, stamps, gens, work, ret>>

Continue == NextOfGet \/ Checked \/ ElemOfGet \/ GetDone \/ FireDone \/ ManyDone \/ Script
Next == \/ Continue \/ Command \/ Ends \/ Call \/ Return
        \/ \E n, m \in Names : Link(n, m)

Spec == Init /\ [][Next]_vars

-----------------------------------------------------------------------------
(* Properties *)

(* Only an array has elements, and only the commands the code nests nest.  *)
TypeOK ==
  /\ depth \in 0..MaxFrames
  /\ \A l \in Loc :
       /\ table[l].kind \in {"none", "scalar", "array"} /\ table[l].elems \subseteq Elems
       /\ table[l].elems # {} => table[l].kind = "array"
       /\ stamps[l] \in Nat /\ gens[l] \in Nat /\ searches[l].ctr \in Nat
  /\ \A i \in DOMAIN work : work[i].kind \in {"fire", "seq", "wipe", "get"}
  /\ ret \in {"ok", "error"}

(* A search that an array still answers to, started on this very array,    *)
(* has given and has left exactly the array's elements, each once: none is *)
(* missed, none is given that has gone (validate_search, bump_stamp).      *)
SearchCovers ==
  \A l \in Loc : table[l].kind = "array" =>
    \A s \in Valid(l) : s.gen = gens[l] =>
      s.seen \cup s.left = table[l].elems /\ s.seen \cap s.left = {}

(* Any change of an array's elements ends the searches on it: none is left *)
(* that would give an element the array has not.                           *)
NoGhostElement ==
  \A l \in Loc : table[l].kind = "array" => \A s \in Valid(l) : s.left \subseteq table[l].elems

(* A call does not see the traces of an earlier call in a frame of the     *)
(* same number.                                                            *)
FrameTracesGone == \A l \in Loc : l[1] > depth => traces[l] = <<>>

(* Once a callback has destroyed the array, an array get in flight shows   *)
(* none of the elements of the one made anew under its name.               *)
GetSkipsRecreated ==
  [][ (Getting /\ work' # <<>> /\ Len(work') = Len(work)) =>
        (Top.got # work'[Len(work)].got => gens[Top.loc] = Top.born) ]_vars
=============================================================================
