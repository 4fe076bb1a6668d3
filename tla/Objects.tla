------------------------------- MODULE Objects -------------------------------
(***************************************************************************)
(* TclOO: classes, objects and their commands, the resolution of methods   *)
(* and its memo, creation, destruction and the cascade from a class to     *)
(* everything built on it (oo.rs).                                         *)
(*                                                                         *)
(* What is under way is a stack, kont: bodies that scripts wrote (methods, *)
(* constructors, destructors, definition scripts) and cascades.  A body    *)
(* may issue any command of the program; a cascade works off a list of     *)
(* victims it took when it began.                                          *)
(*                                                                         *)
(* A bump of mutation_ctr retires every entry of chain_memo,               *)
(* chain_memo_priv, obj_cache and my_cache at once, and the last two hold  *)
(* copies of entries of the first two: here they are one table that a bump *)
(* empties.                                                                *)
(***************************************************************************)
EXTENDS Naturals, Sequences, FiniteSets, SequencesExt

CONSTANTS
  Keys,        \* names scripts give to classes and objects
  Root,        \* ::oo::object
  Exported,    \* method names that begin with a small letter
  Private,     \* the other ones, Cloned among them
  Destroy,     \* the method of Root
  Cloned,      \* the hook of oo::copy
  Bodies,      \* bodies scripts give to methods
  Programs,    \* the sets of commands a program keeps to (a bound of the model)
  MaxIds,      \* bound of the model: namespaces ever made
  MaxNest      \* max_call_depth, in things under way

VARIABLES
  program,     \* one of Programs, for good
  objects,     \* objects: key -> OoObject
  classes,     \* classes: key -> OoClass
  created,     \* creation_order
  commands,    \* the keys that still have their command
  spaces,      \* namespaces of objects, with their my, self and next; 0 is ::
  nextObj,     \* next_obj_id
  memo,        \* chain_memo and chain_memo_priv, what mutation_ctr leaves of them
  kont,        \* what is under way, the innermost last
  res          \* "run": a script goes on; else how the last thing ended

vars == <<program, objects, classes, created, commands, spaces, nextObj, memo, kont, res>>
tables == <<objects, classes, created, commands, spaces>>

Methods == Exported \cup Private
Global  == 0
Drop(f, k)   == [x \in DOMAIN f \ {k} |-> f[x]]
Put(f, k, v) == [x \in DOMAIN f \cup {k} |-> IF x = k THEN v ELSE f[x]]

NoClass  == [ns |-> Global, supers |-> <<>>, mixins |-> <<>>, methods |-> <<>>,
             hidden |-> {}, ctor |-> FALSE, dtor |-> FALSE]
RootClass == [NoClass EXCEPT !.methods = Put(<<>>, Destroy, [body |-> Destroy, exported |-> TRUE])]

Fresh == /\ objects = <<>> /\ classes = Put(<<>>, Root, RootClass) /\ created = <<Root>>
         /\ commands = {Root} /\ spaces = {Global} /\ nextObj = 0
         /\ memo = <<>> /\ kont = <<>> /\ res = "run"
Init == program \in Programs /\ Fresh

-----------------------------------------------------------------------------
(* The order of resolution *)

Without(q, x) == SelectSeq(q, LAMBDA y : y # x)
(* lin_rec: the first head that is in no tail comes next; when there is    *)
(* none the merge just stops.                                              *)
Candidates(lists) ==
  {i \in DOMAIN lists : /\ lists[i] # <<>>
                        /\ \A j \in DOMAIN lists : lists[j] # <<>> =>
                             ~Contains(Tail(lists[j]), Head(lists[i]))}
Merge(out, lists) ==
  LET Pick(acc) == LET c == Candidates(acc.lists) IN
        IF c = {} THEN acc
        ELSE LET p == Head(acc.lists[CHOOSE i \in c : \A j \in c : i <= j])
             IN  [out |-> Append(acc.out, p), lists |-> [l \in DOMAIN acc.lists |-> Without(acc.lists[l], p)]]
  IN FoldLeft(LAMBDA acc, i : Pick(acc), [out |-> out, lists |-> lists], [i \in 1..Cardinality(Keys) + 1 |-> i]).out

Supers(table, c) == IF c \in DOMAIN table THEN table[c].supers ELSE <<>>
(* The recursion stops at a depth no hierarchy without a circle reaches.   *)
LinearizeIn(table, class) ==
  LET linearised[n \in 0..Cardinality(Keys) + 1] ==
        [c \in Keys \cup {Root} |->
          IF n = 0 THEN <<c>>
          ELSE LET s == Supers(table, c)
               IN  Merge(<<c>>, Append([i \in DOMAIN s |-> linearised[n - 1][s[i]]], s))]
  IN  linearised[Cardinality(Keys) + 1][class]
Linearize(c) == LinearizeIn(classes, c)
Flat(q) == FlattenSeq([i \in DOMAIN q |-> Linearize(q[i])])

(* The classes push_class_entry is asked about, in its order: an object's  *)
(* mixins, then its class and the classes above, each after its mixins.    *)
Walk(o) ==
  LET up == Linearize(o.class)
      MixinsOf(c) == IF c \in DOMAIN classes THEN classes[c].mixins ELSE <<>>
  IN  Flat(o.mixins) \o FlattenSeq([i \in DOMAIN up |-> Append(Flat(MixinsOf(up[i])), up[i])])

Offers(methods, m, private) == m \in DOMAIN methods /\ (private \/ methods[m].exported)
(* push_class_entry: a class is asked once, and none behind one that hides *)
(* the method.                                                             *)
Pushed(w, i, m, private) ==
  /\ w[i] \in DOMAIN classes
  /\ \A j \in 1..i : w[j] \in DOMAIN classes => m \notin classes[w[j]].hidden
  /\ \A j \in 1..(i - 1) : w[j] # w[i]
  /\ Offers(classes[w[i]].methods, m, private)
Places(w, which) == SelectSeq([i \in DOMAIN w |-> i], LAMBDA i : i \in which)
ClassEntries(w, m, private) ==
  LET at == Places(w, {i \in DOMAIN w : Pushed(w, i, m, private)})
  IN  [i \in DOMAIN at |-> [owner |-> w[at[i]], body |-> classes[w[at[i]]].methods[m].body]]

(* build_chain.  A class as an object only has Root's method here.         *)
BuildChain(k, m, private) ==
  IF k \in DOMAIN objects
  THEN LET o == objects[k] IN
       (IF Offers(o.methods, m, private) THEN <<[owner |-> k, body |-> o.methods[m].body]>> ELSE <<>>)
         \o ClassEntries(Walk(o), m, private)
  ELSE IF k \in DOMAIN classes THEN ClassEntries(<<Root>>, m, private) ELSE <<>>

(* ctor_chain and dtor_chain                                               *)
Having(c, what) == SelectSeq(Linearize(c), LAMBDA x : x \in DOMAIN classes /\ classes[x][what])
Chain(c, what) == LET q == Having(c, what) IN [i \in DOMAIN q |-> [owner |-> q[i], body |-> what]]

(* chain_contains                                                          *)
RefsAbove(c, target) == Contains(Linearize(c), target)
ClassRefs(c, target) ==
  \E x \in ToSet(Linearize(c)) : x = target \/ (x \in DOMAIN classes /\ Contains(classes[x].mixins, target))
ChainContains(k, target) ==
  IF k \in DOMAIN objects
  THEN ClassRefs(objects[k].class, target) \/ Contains(Flat(objects[k].mixins), target)
  ELSE k \in DOMAIN classes /\ ClassRefs(k, target)
Victims(k, what) == SelectSeq(created, LAMBDA v : v # k /\ v \in what /\ ChainContains(v, k))

-----------------------------------------------------------------------------
(* Tables and stack *)

NsOf(k) == IF k \in DOMAIN objects THEN objects[k].ns
           ELSE IF k \in DOMAIN classes THEN classes[k].ns ELSE Global

(* detach_object                                                           *)
Detach(k, ns) ==
  /\ objects' = Drop(objects, k) /\ classes' = Drop(classes, k)
  /\ created' = Without(created, k) /\ commands' = commands \ {k} /\ spaces' = spaces \ {ns}
  /\ memo' = <<>>
Listed(k) == Append(created, k)
(* attach_object, after the new record went into its table                 *)
Attach(k) ==
  /\ created' = Listed(k) /\ commands' = commands \cup {k}
  /\ nextObj' = nextObj + 1 /\ spaces' = spaces \cup {nextObj + 1, Global}
  /\ memo' = <<>>
Keep(mem) == memo' = mem /\ UNCHANGED tables

Top == kont[Len(kont)]
IsBody(t) == t.role # "cascade"
(* Something ends above base: a script goes on unless it has an error to   *)
(* catch or to pass on, a cascade is told either way.                      *)
Land(base, out) ==
  /\ kont' = base
  /\ res' = IF base = <<>> \/ (out = "ok" /\ IsBody(Last(base))) THEN "run" ELSE out

(* A body ends: what its starter does then.  A constructor, a definition   *)
(* script or a <cloned> hook that fails takes with it what was made, by    *)
(* key; the destructors of a chain run one after the other.                *)
Undoes(t, out) == t.role = "make" /\ out = "err"
EndsIfOk(t, out) == t.role = "dtor" /\ out = "ok" /\ t.at = Len(t.chain)
EndsDestroy(t, out) == t.role = "dtor" /\ (out = "err" \/ t.at = Len(t.chain))
Leave(base, t, out, mem) ==
  \/ /\ Undoes(t, out)
     /\ Detach(t.key, t.ns) /\ Land(base, out)
  \/ /\ EndsDestroy(t, out)
     /\ Detach(t.key, NsOf(t.key)) /\ Land(base, out)
  \/ /\ t.role = "dtor" /\ ~EndsDestroy(t, out) /\ out = "ok"
     /\ kont' = Append(base, [t EXCEPT !.at = @ + 1, !.ns = NsOf(t.key)]) /\ res' = "run" /\ Keep(mem)
  \/ /\ ~Undoes(t, out) /\ ~EndsDestroy(t, out) /\ ~(t.role = "dtor" /\ out = "ok")
     /\ Land(base, out) /\ Keep(mem)

(* call_proc: at the limit of the depth the body fails before it begins.   *)
Enter(base, t, mem) ==
  IF Len(base) < MaxNest
  THEN kont' = Append(base, t) /\ res' = "run" /\ Keep(mem)
  ELSE Leave(base, t, "err", mem)

Body(role, k, ns, chain, at) == [role |-> role, key |-> k, ns |-> ns, chain |-> chain, at |-> at]
Cascade(k, phase, todo) == [role |-> "cascade", key |-> k, phase |-> phase, todo |-> todo]

(* destroy_object.  A class first takes the objects then the classes that  *)
(* were built on it; an object runs the destructors of its class.          *)
DestroyObject(base, k, mem) ==
  \/ k \notin DOMAIN objects \cup DOMAIN classes /\ Land(base, "ok") /\ Keep(mem)
  \/ /\ k \in DOMAIN classes
     /\ kont' = Append(base, Cascade(k, "objects", Victims(k, DOMAIN objects))) /\ res' = "ok" /\ Keep(mem)
  \/ /\ k \in DOMAIN objects \ DOMAIN classes
     /\ LET chain == Chain(objects[k].class, "dtor") IN
        IF chain = <<>> THEN Detach(k, NsOf(k)) /\ Land(base, "ok")
        ELSE Enter(base, Body("dtor", k, NsOf(k), chain, 1), mem)

(* exec_chain_entry: the core method or a body, in the namespace that the  *)
(* key has now.                                                            *)
ExecEntry(base, k, chain, at, mem) ==
  IF chain[at].body = Destroy THEN DestroyObject(base, k, mem)
  ELSE Enter(base, Body("method", k, NsOf(k), chain, at), mem)

(* invoke_method over chain_for                                            *)
Invoke(k, m, private) ==
  LET x     == <<k, m, private>>
      chain == IF x \in DOMAIN memo THEN memo[x] ELSE BuildChain(k, m, private)
      mem   == Put(memo, x, chain)
  IN  /\ IF chain = <<>> THEN Land(kont, "err") /\ Keep(mem) ELSE ExecEntry(kont, k, chain, 1, mem)
      /\ UNCHANGED <<program, nextObj>>

-----------------------------------------------------------------------------
(* Commands of scripts *)

Refused == Land(kont, "err") /\ Keep(memo) /\ UNCHANGED <<program, nextObj>>

(* oo_create, oo_new: the name may belong to an object whose command was   *)
(* renamed away.  Only the class's own constructor runs.                   *)
CreateObject(c) ==
  /\ c.op = "create" /\ c.class \in commands
  /\ IF c.key \in commands \/ c.class \notin DOMAIN classes THEN Refused
     ELSE /\ nextObj < MaxIds /\ Len(kont) < MaxNest
          /\ objects' = Put(objects, c.key, [ns |-> nextObj + 1, class |-> c.class, mixins |-> <<>>, methods |-> <<>>])
          /\ Attach(c.key)
          /\ IF classes[c.class].ctor
             THEN kont' = Append(kont, Body("make", c.key, nextObj + 1, Chain(c.class, "ctor"), 1)) /\ res' = "run"
             ELSE Land(kont, "ok")
          /\ UNCHANGED <<program, classes>>
(* oo::class create name script                                            *)
CreateClass(c) ==
  /\ c.op = "class"
  /\ IF c.key \in commands THEN Refused
     ELSE /\ nextObj < MaxIds /\ Len(kont) < MaxNest
          /\ classes' = Put(classes, c.key, [NoClass EXCEPT !.ns = nextObj + 1, !.supers = <<Root>>])
          /\ Attach(c.key)
          /\ kont' = Append(kont, Body("make", c.key, nextObj + 1, <<>>, 0)) /\ res' = "run"
          /\ UNCHANGED <<program, objects>>
(* cmd_oo_copy                                                             *)
CopyNs(src) == nextObj + 1
CopyObject(c) ==
  /\ c.op = "copy"
  /\ IF c.key \in commands \/ c.from \notin DOMAIN objects THEN Refused
     ELSE /\ nextObj < MaxIds /\ Len(kont) < MaxNest
          /\ objects' = Put(objects, c.key, [objects[c.from] EXCEPT !.ns = CopyNs(c.from)])
          /\ Attach(c.key)
          /\ LET o == objects[c.from]
                 own == IF Cloned \in DOMAIN o.methods THEN <<[owner |-> c.key, body |-> o.methods[Cloned].body]>> ELSE <<>>
                 chain == own \o ClassEntries(Walk(o), Cloned, TRUE)
             IN  IF chain = <<>> THEN Land(kont, "ok")
                 ELSE kont' = Append(kont, Body("make", c.key, nextObj + 1, chain, 1)) /\ res' = "run"
          /\ UNCHANGED <<program, classes>>

(* cmd_oo_object, cmd_oo_my: my is a command of the namespace that the     *)
(* body runs in and refuses when its object has another one by now.        *)
Call(c) == c.op = "call" /\ c.key \in commands /\ Invoke(c.key, c.method, FALSE)
My(c) ==
  /\ c.op = "my" /\ kont # <<>> /\ Top.chain # <<>>
  /\ IF Top.ns \in spaces \ {Global} /\ NsOf(Top.key) = Top.ns THEN Invoke(Top.key, c.method, TRUE) ELSE Refused
(* cmd_oo_next, along the chain the running body was called with           *)
NextMethod(c) ==
  /\ c.op = "next" /\ kont # <<>>
  /\ IF Top.at < Len(Top.chain) THEN ExecEntry(kont, Top.key, Top.chain, Top.at + 1, memo) ELSE Refused
  /\ UNCHANGED <<program, nextObj>>
(* rename: the tables of oo.rs do not hear of it.                          *)
Rename(c) ==
  /\ c.op = "rename" /\ c.key \in commands
  /\ commands' = commands \ {c.key}
  /\ UNCHANGED <<program, objects, classes, created, spaces, nextObj, memo, kont, res>>

(* Definition words: def_dispatch under oo::define (side class), under     *)
(* oo::objdefine (side object) or in the definition script of the target.  *)
Table(c)  == IF c.side = "class" THEN classes ELSE objects
Of(c)     == Table(c)[c.of]
Known(c)  == c.of \in DOMAIN Table(c)
Inside(c) == kont # <<>> /\ Top.role = "make" /\ Top.chain = <<>> /\ Top.key = c.of /\ c.side = "class"
Kept == memo
Retired == <<>>
Redefine(c, new) ==
  /\ Known(c) \/ Inside(c)
  /\ classes' = IF Known(c) /\ c.side = "class" THEN [classes EXCEPT ![c.of] = new] ELSE classes
  /\ objects' = IF Known(c) /\ c.side = "object" THEN [objects EXCEPT ![c.of] = new] ELSE objects
  /\ memo' = Retired
  /\ UNCHANGED <<program, created, commands, spaces, nextObj, kont, res>>

Method(m, b) == [body |-> b, exported |-> m \in Exported]
DefineMethod(c) ==
  c.op = "method" /\ Redefine(c, [Of(c) EXCEPT !.methods = Put(@, c.method, Method(c.method, c.body))])
DeleteMethod(c) == c.op = "deletemethod" /\ Redefine(c, [Of(c) EXCEPT !.methods = Drop(@, c.method)])
RenameMethod(c) ==
  /\ c.op = "renamemethod"
  /\ Redefine(c, IF c.method \in DOMAIN Of(c).methods
                 THEN [Of(c) EXCEPT !.methods = Put(Drop(@, c.method), c.to, Method(c.to, @[c.method].body))]
                 ELSE Of(c))
(* A class that unexports what it does not define hides what it inherits.  *)
Export(c) ==
  /\ c.op = "export"
  /\ Redefine(c, IF c.method \in DOMAIN Of(c).methods
                 THEN [Of(c) EXCEPT !.methods[c.method].exported = c.on]
                 ELSE IF c.side = "class" /\ ~c.on THEN [Of(c) EXCEPT !.hidden = @ \cup {c.method}] ELSE Of(c))
Mixin(c) ==
  /\ c.op = "mixin"
  /\ IF ToSet(c.list) \subseteq DOMAIN classes \ {c.of} THEN Redefine(c, [Of(c) EXCEPT !.mixins = c.list])
     ELSE Refused
Superclass(c) ==
  /\ c.op = "superclass"
  /\ IF \A x \in ToSet(c.list) : x \in DOMAIN classes \ {c.of} /\ ~Contains(Linearize(x), c.of)
     THEN Redefine(c, [Of(c) EXCEPT !.supers = c.list])
     ELSE Refused
Constructor(c) == c.op = "constructor" /\ Redefine(c, [Of(c) EXCEPT !.ctor = TRUE])
Destructor(c)  == c.op = "destructor" /\ Redefine(c, [Of(c) EXCEPT !.dtor = TRUE])

Do(c) ==
  \/ CreateObject(c) \/ CreateClass(c) \/ CopyObject(c) \/ Call(c) \/ My(c) \/ NextMethod(c) \/ Rename(c)
  \/ DefineMethod(c) \/ DeleteMethod(c) \/ RenameMethod(c) \/ Export(c) \/ Mixin(c) \/ Superclass(c)
  \/ Constructor(c) \/ Destructor(c)

(* Programs keep to other sets of commands while a definition script or a  *)
(* destructor runs.                                                        *)
Destroying == \E i \in DOMAIN kont : kont[i].role = "dtor"
Defining   == \E i \in DOMAIN kont : kont[i].role = "make" /\ kont[i].chain = <<>>
Script ==
  /\ res = "run"
  /\ \E c \in IF Destroying THEN program.last ELSE IF Defining THEN program.making ELSE program.all : Do(c)
Return ==
  /\ res = "run" /\ kont # <<>>
  /\ \E out \in {"ok", "err"} : Leave(Front(kont), Top, out, memo)
  /\ UNCHANGED <<program, nextObj>>
Catch ==
  /\ res = "err" /\ kont # <<>> /\ IsBody(Top)
  /\ res' = "run" /\ UNCHANGED <<program, objects, classes, created, commands, spaces, nextObj, memo, kont>>
PassOn ==
  /\ res = "err" /\ kont # <<>> /\ IsBody(Top)
  /\ Leave(Front(kont), Top, "err", memo) /\ UNCHANGED <<program, nextObj>>
(* The loops of destroy_object: an error of a victim ends the cascade      *)
(* where it is.                                                            *)
NextVictim ==
  /\ kont # <<>> /\ Top.role = "cascade" /\ res = "ok" /\ Top.todo # <<>>
  /\ DestroyObject([kont EXCEPT ![Len(kont)].todo = Tail(@)], Head(Top.todo), memo)
  /\ UNCHANGED <<program, nextObj>>
NextPhase ==
  /\ kont # <<>> /\ Top.role = "cascade" /\ res = "ok" /\ Top.todo = <<>> /\ Top.phase = "objects"
  /\ kont' = [kont EXCEPT ![Len(kont)] = Cascade(Top.key, "classes", Victims(Top.key, DOMAIN classes))]
  /\ UNCHANGED <<program, objects, classes, created, commands, spaces, nextObj, memo, res>>
EndCascade ==
  /\ kont # <<>> /\ Top.role = "cascade" /\ res = "ok" /\ Top.todo = <<>> /\ Top.phase = "classes"
  /\ Detach(Top.key, NsOf(Top.key)) /\ Land(Front(kont), "ok") /\ UNCHANGED <<program, nextObj>>
StopCascade ==
  /\ kont # <<>> /\ Top.role = "cascade" /\ res = "err"
  /\ Land(Front(kont), "err") /\ Keep(memo) /\ UNCHANGED <<program, nextObj>>

Next == Script \/ Return \/ Catch \/ PassOn \/ NextVictim \/ NextPhase \/ EndCascade \/ StopCascade
Spec == Init /\ [][Next]_vars

-----------------------------------------------------------------------------
(* Properties *)

Entries(chain) == \A i \in DOMAIN chain : chain[i].owner \in Keys \cup {Root}
(* State is of the shape the code's types give it.                         *)
TypeOK ==
  /\ \A k \in DOMAIN objects : k \in Keys /\ objects[k].ns \in 1..MaxIds /\ DOMAIN objects[k].methods \subseteq Methods
  /\ \A k \in DOMAIN classes : /\ k \in Keys \cup {Root} /\ DOMAIN classes[k].methods \subseteq Methods
                               /\ classes[k].hidden \subseteq Methods
  /\ ToSet(created) \subseteq Keys \cup {Root} /\ commands \subseteq Keys \cup {Root}
  /\ spaces \subseteq 0..MaxIds /\ nextObj \in 0..MaxIds
  /\ DOMAIN memo \subseteq (Keys \cup {Root}) \X Methods \X BOOLEAN /\ \A x \in DOMAIN memo : Entries(memo[x])
  /\ \A i \in DOMAIN kont : /\ kont[i].role \in {"make", "method", "dtor", "cascade"}
                            /\ IsBody(kont[i]) => kont[i].at <= Len(kont[i].chain) /\ Entries(kont[i].chain)
  /\ res \in {"run", "ok", "err"} /\ (res # "run" => kont # <<>>)

(* A call resolved through the memo or a dispatcher's cache reaches what   *)
(* resolving it afresh would, whatever words, creations and destructions   *)
(* came since (mutation_ctr is bumped at every mutation of the tables).    *)
MemoFresh == \A x \in DOMAIN memo : memo[x] = BuildChain(x[1], x[2], x[3])

(* No object is left of a class that is gone, no class below or mixing in  *)
(* one that is, as long as destructors make and define nothing, no class   *)
(* is renamed and no definition script builds on its class and then fails. *)
ReferencesLive ==
  /\ \A k \in DOMAIN objects : {objects[k].class} \cup ToSet(objects[k].mixins) \subseteq DOMAIN classes
  /\ \A k \in DOMAIN classes : ToSet(classes[k].supers \o classes[k].mixins) \subseteq DOMAIN classes

(* A making that fails and a destruction, however it ends, leave nothing   *)
(* of the object they were about.                                          *)
GoneStep ==
  \A i \in DOMAIN kont :
    /\ i > Len(kont') /\ (kont[i].role = "dtor" \/ (kont[i].role = "make" /\ res' = "err"))
    => kont[i].key \notin (DOMAIN objects' \cup DOMAIN classes')
GoneEitherWay == [][GoneStep]_vars

(* Stated of the code and not so, each shown by a run of its own or in the *)
(* README.  The global namespace is always there.                          *)
GlobalStays == Global \in spaces

Above[n \in 0..Cardinality(Keys)] ==
  [c \in Keys \cup {Root} |->
    IF n = 0 THEN {} ELSE UNION {{s} \cup Above[n - 1][s] : s \in ToSet(Supers(classes, c))}]
Ancestors(c) == Above[Cardinality(Keys)][c]
(* No class is above itself.                                               *)
NoCircle == \A c \in DOMAIN classes : c \notin Ancestors(c)
(* A method of a class comes before those of the classes above it.         *)
OverrideWins ==
  \A k \in DOMAIN objects, m \in Methods :
    LET chain == BuildChain(k, m, TRUE) IN
    \A i, j \in DOMAIN chain : i < j /\ chain[j].owner \in Keys => chain[i].owner \notin Ancestors(chain[j].owner)
=============================================================================
