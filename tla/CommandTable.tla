---------------------------- MODULE CommandTable ----------------------------
(***************************************************************************)
(* The command tables and everything that changes them, with a dispatcher  *)
(* that walks the resolution chain on every call.  This is what a script   *)
(* is promised; CommandCache adds the caches the interpreter really uses.  *)
(*                                                                         *)
(* The interpreter is single-threaded and re-entrant: a proc body, a       *)
(* `namespace eval` body or a trace callback may run any command before    *)
(* the command that started it goes on.  stack holds the commands in       *)
(* progress; the top is the one whose body is running, and every action is *)
(* a command of that body.                                                 *)
(***************************************************************************)
EXTENDS CommandNames

CONSTANTS
  Names,         \* the command names scripts use
  NsNames,       \* the namespace names scripts use
  Bodies,        \* proc bodies
  StaticBodies,  \* the bodies defined with the 4-argument proc: they keep statics
  StaticVals,    \* values of a proc's statics
  Funcs,         \* host functions of the builtin table
  NoDef,         \* no definition
  Script,        \* the mutating commands scripts use (a bound of the model)
  InsideDelete,  \* may a script delete a namespace it is running in?
  MaxEntries,    \* bound of the model: entries in the tables
  MaxDepth       \* commands in progress at a time

NoStatics == "none"
Def   == [body : Bodies, statics : StaticVals \cup {NoStatics}]

ASSUME CommandTableAssumption ==
  /\ Names \subseteq Name /\ NsNames \subseteq Name
  /\ StaticBodies \subseteq Bodies
  /\ StaticVals # {} /\ NoStatics \notin StaticVals
  /\ NoDef \notin Def \cup Funcs
  /\ Script \subseteq {"proc", "register", "ensemble", "rename", "import", "delete"}
  /\ InsideDelete \in BOOLEAN
  /\ MaxEntries \in Nat /\ MaxDepth \in Nat

VARIABLES
  procs,       \* key -> ProcDef
  commands,    \* key -> host function
  ensembles,   \* key -> backing namespace
  aliases,     \* import_aliases: alias key -> key
  namespaces,  \* the namespaces that exist
  stack,       \* commands in progress
  outcome      \* what the last dispatch ran

tables == <<procs, commands, ensembles, aliases>>
tvars  == <<procs, commands, ensembles, aliases, namespaces, stack, outcome>>

Frame == [kind : {"eval", "call", "unset", "traces"}, ns : Seq(Words),
          key : Name \cup {NoKey}, mark : BOOLEAN, target : Seq(Words)]

(* mark: a call, that its definition keeps statics; the traces of a         *)
(* deletion, that it came from inside the tree.                            *)
NsFrame(kind, ns, target) ==
  [kind |-> kind, ns |-> ns, key |-> NoKey, mark |-> FALSE, target |-> target]
CallFrame(key, def) ==
  [kind |-> "call", ns |-> Home(key), key |-> key,
   mark |-> def.statics # NoStatics, target |-> Root]

(* What a dispatch runs: a definition, under the key its frame goes by, or *)
(* a host function.                                                        *)
Run(kind, key, def) == [kind |-> kind, key |-> key, def |-> def]
NoRun == Run("unknown", NoKey, NoDef)

Top        == stack[Len(stack)]
CurrentNs  == IF stack = <<>> THEN Root ELSE Top.ns
Push(f)    == Len(stack) < MaxDepth /\ stack' = Append(stack, f)

(* outcome is a history variable: what a dispatch ran, in the step that     *)
(* dispatched; every other step clears it.                                 *)
Silent == outcome' = NoRun

TableInit ==
  /\ procs = <<>> /\ ensembles = <<>> /\ aliases = <<>>
  /\ \/ commands = <<>>
     \/ \E n \in Names, f \in Funcs :
          Simple(n) /\ ~n.abs /\ commands = [k \in {n} |-> f]
  /\ namespaces = {Root}
  /\ stack = <<>>
  /\ outcome = NoRun

-----------------------------------------------------------------------------
(* Definitions *)

(* The key `proc n` registers: qualified when n has a separator or a       *)
(* namespace is current, bare otherwise.                                   *)
DefinedKey(n) ==
  IF HasSep(n) \/ CurrentNs # Root THEN Qualify(CurrentNs, n) ELSE n

DefineProc(n, d) ==
  /\ procs' = Put(procs, DefinedKey(n), d)
  /\ Silent /\ UNCHANGED <<commands, ensembles, aliases, namespaces, stack>>

RegisterCommand(n, f) ==
  /\ commands' = Put(commands, n, f)
  /\ Silent /\ UNCHANGED <<procs, ensembles, aliases, namespaces, stack>>

DeleteCommand(n) ==
  /\ n \in DOMAIN commands
  /\ commands' = Without(commands, {n})
  /\ Silent /\ UNCHANGED <<procs, ensembles, aliases, namespaces, stack>>

(* The command goes in the parent of the current namespace (bare when that *)
(* is the global one), or where -command says.                             *)
EnsembleKeys ==
  {[abs |-> Len(CurrentNs) > 1, path |-> CurrentNs]}
  \cup {Qualify(CurrentNs, n) : n \in Names}

EnsembleCreate(k) ==
  /\ CurrentNs # Root
  /\ k \in EnsembleKeys
  /\ ensembles' = Put(ensembles, k, CurrentNs)
  /\ Silent /\ UNCHANGED <<procs, commands, aliases, namespaces, stack>>

-----------------------------------------------------------------------------
(* rename o n; n = NoKey deletes.  No arm asks whether the new key is      *)
(* taken: the entry moved there replaces the one of its own table, and the *)
(* other tables keep theirs.                                               *)

RenamedKey(n) == IF n = NoKey THEN NoKey ELSE DefinedKey(n)

RenameAlias(o, k) ==
  IF k = NoKey THEN Without(aliases, {o} \cup Dependents(Without(aliases, {o}), o))
  ELSE LET moved == Put(Without(aliases, {o}), Absolute(k), aliases[o])
       IN  [a \in DOMAIN moved |-> IF moved[a] = o THEN Absolute(k) ELSE moved[a]]

Rename(n, m) ==
  LET o == CommandKey(DOMAIN procs, DOMAIN commands, DOMAIN ensembles,
                      aliases, CurrentNs, n)
      k == RenamedKey(m)
  IN  /\ o # NoKey
      /\ namespaces' = IF k # NoKey /\ HasSep(k)
                       THEN namespaces \cup Ancestors(Home(k)) ELSE namespaces
      /\ \/ /\ o \in DOMAIN commands
            /\ commands' = Move(commands, o, k)
            /\ UNCHANGED <<procs, ensembles, aliases>>
         \/ /\ o \in DOMAIN procs \ DOMAIN commands
            /\ procs' = Move(procs, o, k)
            /\ aliases' = MoveOrigins(aliases, o, k)
            /\ UNCHANGED <<commands, ensembles>>
         \/ /\ o \in DOMAIN ensembles \ (DOMAIN commands \cup DOMAIN procs)
            /\ ensembles' = Move(ensembles, o, k)
            /\ aliases' = MoveOrigins(aliases, o, k)
            /\ UNCHANGED <<commands, procs>>
         \/ /\ o \in DOMAIN aliases
                     \ (DOMAIN commands \cup DOMAIN procs \cup DOMAIN ensembles)
            /\ aliases' = RenameAlias(o, k)
            /\ UNCHANGED <<commands, procs, ensembles>>
      /\ Silent /\ UNCHANGED <<stack>>

-----------------------------------------------------------------------------
(* Imports.  The pattern picks a set S of the source namespace's exported  *)
(* commands; an import binds all of S or, on a conflict, nothing.          *)

Candidates(src) ==
  {k \in DOMAIN procs \cup DOMAIN aliases \cup DOMAIN ensembles : Child(src, k)}
ImportTarget(k) == Qualify(CurrentNs, [abs |-> FALSE, path |-> <<Last(k.path)>>])

(* A command of that name the import would hide: only at the global level  *)
(* are the bare keys looked at.                                            *)
Taken(t) ==
  \/ t \in DOMAIN procs \cup DOMAIN ensembles
  \/ /\ CurrentNs = Root
     /\ Bare(t) \in DOMAIN procs \cup DOMAIN ensembles \cup DOMAIN commands

Import(src, S, force) ==
  LET fresh    == {k \in S : LET t == ImportTarget(k) IN
                     ~(t \in DOMAIN aliases /\ aliases[t] = k)}
      clash    == {k \in fresh : LET t == ImportTarget(k) IN
                     t \in DOMAIN aliases \/ Taken(t)}
      replaced == {ImportTarget(k) : k \in clash}
                  \cup (IF CurrentNs # Root THEN {} ELSE
                        {Bare(ImportTarget(k)) :
                           k \in {c \in clash : ImportTarget(c) \notin DOMAIN aliases}})
      kept     == Without(aliases, UNION {Dependents(aliases, r) : r \in replaced})
      bound    == {ImportTarget(k) : k \in fresh}
  IN  /\ src \in namespaces /\ src # CurrentNs
      /\ S \subseteq Candidates(src) /\ fresh # {}
      /\ force \/ clash = {}
      /\ procs' = Without(procs, replaced)
      /\ ensembles' = Without(ensembles, replaced)
      /\ aliases' = [a \in DOMAIN kept \cup bound |->
                       IF a \in bound THEN CHOOSE k \in fresh : ImportTarget(k) = a
                       ELSE kept[a]]
      /\ Silent /\ UNCHANGED <<commands, namespaces, stack>>

Forget(src, S) ==
  /\ src \in namespaces
  /\ S # {} /\ S \subseteq {a \in DOMAIN aliases : Child(CurrentNs, a) /\ Child(src, aliases[a])}
  /\ aliases' = Without(aliases, S)
  /\ Silent /\ UNCHANGED <<procs, commands, ensembles, namespaces, stack>>

-----------------------------------------------------------------------------
(* Namespaces *)

NsEval(n) ==
  LET q == Qualify(CurrentNs, n).path
  IN  /\ Push(NsFrame("eval", q, Root))
      /\ namespaces' = namespaces \cup Ancestors(q)
      /\ Silent /\ UNCHANGED <<tables>>

(* namespace delete, in three steps because two kinds of callbacks run in  *)
(* between: unset traces of the dying variables (in the namespace the      *)
(* command was given in), then delete traces of the dying procs (in ::).   *)
NsDelete(n) ==
  LET q == Qualify(CurrentNs, n).path
  IN  /\ q \in namespaces \ {Root}
      /\ Inside(q, CurrentNs) => InsideDelete
      /\ namespaces' = {s \in namespaces : ~Inside(q, s)}
      /\ Push(NsFrame("unset", CurrentNs, q))
      /\ Silent /\ UNCHANGED <<tables>>

DyingProcs(q) == {k \in DOMAIN procs : k = [abs |-> TRUE, path |-> q] \/ Under(q, k)}

(* From inside the tree the procs go before their traces run, from outside *)
(* after.  mark keeps which it was.                                     *)
NsDeleteProcs ==
  /\ stack # <<>> /\ Top.kind = "unset"
  /\ LET q == Top.target
         inside == Inside(q, Top.ns)
     IN  /\ procs' = IF inside THEN Without(procs, DyingProcs(q)) ELSE procs
         /\ stack' = [stack EXCEPT ![Len(stack)] =
                        [NsFrame("traces", Root, q) EXCEPT !.mark = inside]]
  /\ Silent /\ UNCHANGED <<commands, ensembles, aliases, namespaces>>

NsDeleteFinish ==
  /\ stack # <<>> /\ Top.kind = "traces"
  /\ LET q == Top.target
     IN  /\ procs' = IF Top.mark THEN procs ELSE Without(procs, DyingProcs(q))
         /\ aliases' = Without(aliases, {a \in DOMAIN aliases :
                                           Under(q, a) \/ Under(q, aliases[a])})
         /\ ensembles' = Without(ensembles, {k \in DOMAIN ensembles :
                                           Under(q, k) \/ Inside(q, ensembles[k])})
  /\ stack' = Front(stack)
  /\ Silent /\ UNCHANGED <<commands, namespaces>>

-----------------------------------------------------------------------------
(* Calls *)

RunOf(v) ==
  CASE v.kind = "proc"     -> Run("proc", v.key, procs[v.at])
    [] v.kind = "builtin"  -> Run("builtin", NoKey, commands[v.at])
    [] v.kind = "ensemble" -> Run("ensemble", v.key, NoDef)
    [] OTHER               -> NoRun

(* What the resolution chain makes of n in ns. *)
Chain(ns, n) ==
  RunOf(Resolve(DOMAIN procs, DOMAIN commands, DOMAIN ensembles, aliases, ns, n))

(* origin_of follows the aliases until it leaves them: from here it never  *)
(* returns, and neither does the dispatch that gets to it.                 *)
Hangs(ns, n) ==
  /\ First(OwnArms(ns, n), DOMAIN procs) = NoKey
  /\ Endless(aliases, EntryKey(DOMAIN procs, DOMAIN commands, aliases, ns, n))

Enter(r) ==
  /\ outcome' = r
  /\ IF r.kind = "proc" THEN Push(CallFrame(r.key, r.def)) ELSE UNCHANGED stack
  /\ UNCHANGED <<tables, namespaces>>

Call(n) == ~Hangs(CurrentNs, n) /\ Enter(Chain(CurrentNs, n))

(* A proc that keeps statics writes the values its frame ended with back   *)
(* into the definition found under its name at that moment.                *)
WritesBack == Top.kind = "call" /\ Top.mark /\ Top.key \in DOMAIN procs

Return ==
  /\ stack # <<>> /\ Top.kind \in {"eval", "call"}
  /\ \/ ~WritesBack /\ UNCHANGED procs
     \/ /\ WritesBack
        /\ \E v \in StaticVals : procs' = [procs EXCEPT ![Top.key].statics = v]
  /\ stack' = Front(stack)
  /\ Silent /\ UNCHANGED <<commands, ensembles, aliases, namespaces>>

-----------------------------------------------------------------------------
Defs == {d \in Def : d.statics # NoStatics <=> d.body \in StaticBodies}

Entries == Cardinality(DOMAIN procs) + Cardinality(DOMAIN commands)
           + Cardinality(DOMAIN ensembles) + Cardinality(DOMAIN aliases)

Mutate ==
  \/ "proc" \in Script /\ \E n \in Names, d \in Defs : DefineProc(n, d)
  \/ "register" \in Script /\ \E n \in Names :
       DeleteCommand(n) \/ \E f \in Funcs : RegisterCommand(n, f)
  \/ "ensemble" \in Script /\ \E k \in EnsembleKeys : EnsembleCreate(k)
  \/ "rename" \in Script /\ \E n \in Names, m \in Names \cup {NoKey} : Rename(n, m)
  \/ "import" \in Script /\ \E src \in namespaces :
       \/ \E force \in BOOLEAN, S \in SUBSET Candidates(src) : Import(src, S, force)
       \/ \E S \in SUBSET DOMAIN aliases : Forget(src, S)
  \/ NsDeleteFinish

Quiet ==
  \/ \E n \in NsNames : NsEval(n)
  \/ "delete" \in Script /\ \E n \in NsNames : NsDelete(n)
  \/ NsDeleteProcs

TableNext == (Mutate /\ Entries' <= MaxEntries) \/ Quiet \/ Return \/ \E n \in Names : Call(n)

TableSpec == TableInit /\ [][TableNext]_tvars

-----------------------------------------------------------------------------
(* Properties *)

(* Every table is keyed by names, the tables hold what they are for, and   *)
(* the commands in progress are well formed.                               *)
TableTypeOK ==
  /\ \A k \in DOMAIN procs : k \in Name /\ procs[k] \in Def
  /\ \A k \in DOMAIN commands : k \in Name /\ commands[k] \in Funcs
  /\ \A k \in DOMAIN ensembles : k \in Name /\ ensembles[k] \in Seq(Words)
  /\ \A k \in DOMAIN aliases : k \in Name /\ aliases[k] \in Name
  /\ Root \in namespaces /\ namespaces \subseteq Seq(Words)
  /\ stack \in Seq(Frame) /\ Len(stack) <= MaxDepth

(* Following the import aliases from anywhere leaves them after finitely   *)
(* many steps: origin_of returns (namespace.rs, "Follow the import-alias   *)
(* chain from a command name to the fully qualified name of the original   *)
(* command").                                                              *)
AliasesEnd == \A a \in DOMAIN aliases : ~Endless(aliases, a)
(* After a rename, to a key that is no import, every import of a proc that *)
(* the new key does not replace runs the definition it ran before, the     *)
(* imports of the renamed proc included.  A proc or an ensemble defined    *)
(* over an import keeps the import's entry, which its own rename turns     *)
(* aside.                                                                  *)
Renamed(n) == CommandKey(DOMAIN procs, DOMAIN commands, DOMAIN ensembles, aliases, CurrentNs, n)
RenameKeepsImports ==
  [][\A n, m \in Names :
       LET new == {RenamedKey(m), Absolute(RenamedKey(m))}
       IN  /\ Rename(n, m) /\ new \cap DOMAIN aliases = {}
           /\ Renamed(n) \notin DOMAIN aliases \cap (DOMAIN procs \cup DOMAIN ensembles)
           => \A a \in DOMAIN aliases \cap DOMAIN aliases' :
                LET o == ChainEnd(aliases, a)
                    k == ChainEnd(aliases', a)
                IN  ~Endless(aliases, a) /\ o \in DOMAIN procs \ new
                    => k \in DOMAIN procs' /\ procs'[k] = procs[o]]_tvars

(* Deleting a command with rename leaves no import of it dangling, direct  *)
(* or at several removes: an import that led to a proc or an ensemble      *)
(* still does, or is gone (move_alias_origins).                            *)
Leads(a) == ChainEnd(aliases, a) \in DOMAIN procs \cup DOMAIN ensembles
DeletionTakesImports ==
  [][\A n \in Names : Rename(n, NoKey) =>
       \A a \in DOMAIN aliases \cap DOMAIN aliases' :
         ~Endless(aliases, a) /\ Leads(a) => Leads(a)']_tvars
=============================================================================
