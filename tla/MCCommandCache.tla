--------------------------- MODULE MCCommandCache ---------------------------
(* Instances of CommandCache for TLC: one word for commands, one or two    *)
(* namespaces.  A program keeps to some of the commands that change the    *)
(* tables, each kind with bounds of its own.                               *)
EXTENDS CommandCache

CONSTANT Programs   \* [ops, spaces, depth, entries, gens, calls]
VARIABLE program

Rel(p) == [abs |-> FALSE, path |-> p]
Abs(p) == [abs |-> TRUE, path |-> p]

MCWords == {"x", "a", "b"}
(* From inside ::a the name x may be ::a::x or the global x; ::a::x may be  *)
(* imported by ::b, and called as b::x or from inside ::b.                 *)
MCNames   == {Rel(<<"x">>), Abs(<<"a", "x">>)}
MCNsNames == {Abs(<<"a">>), Abs(<<"b">>)}

OneSpace == {Root, <<"a">>}
Redefining == [ops |-> {"proc", "register", "rename"}, spaces |-> OneSpace,
               depth |-> 2, entries |-> 3, gens |-> 3, calls |-> TRUE]
Importing  == [ops |-> {"proc", "import", "ensemble"}, spaces |-> OneSpace \cup {<<"b">>},
               depth |-> 1, entries |-> 3, gens |-> 3, calls |-> TRUE]
Deleting   == [ops |-> {"proc", "delete"}, spaces |-> OneSpace,
               depth |-> 2, entries |-> 4, gens |-> 3, calls |-> TRUE]
(* Deep enough for a call from a callback of a deletion from inside.       *)
Dying      == [ops |-> {"proc", "delete"}, spaces |-> OneSpace,
               depth |-> 3, entries |-> 1, gens |-> 2, calls |-> TRUE]
Renaming   == [ops |-> {"proc", "rename", "import"}, spaces |-> OneSpace \cup {<<"b">>},
               depth |-> 1, entries |-> 3, gens |-> 6, calls |-> FALSE]
Unloading  == [ops |-> {"proc", "import", "delete"}, spaces |-> OneSpace \cup {<<"b">>},
               depth |-> 1, entries |-> 3, gens |-> 3, calls |-> TRUE]
MCPrograms == {Redefining, Importing, Deleting, Dying, Renaming, Unloading}

Does(op) ==
  \/ op = "register" /\ gen' # gen
     /\ \E n \in Names : DeleteCommand(n) \/ \E f \in Funcs : RegisterCommand(n, f)
  \/ op = "rename" /\ gen' # gen /\ \E n \in Names, m \in Names \cup {NoKey} : Rename(n, m)
  \/ op = "import" /\ aliases' # <<>>
  \/ op = "ensemble" /\ ensembles' # <<>>
  \/ op = "delete" /\ \E i \in DOMAIN stack' : stack'[i].kind \in {"unset", "traces"}

MCInit == CacheInit /\ program \in Programs
MCNext == /\ CacheNext /\ UNCHANGED program
          /\ \A op \in Script \ program.ops : ~Does(op)
          /\ namespaces' \subseteq program.spaces
          /\ Len(stack') <= program.depth /\ Entries' <= program.entries
          /\ gen' <= program.gens
          /\ program.calls \/ UNCHANGED <<cache, sites>>
MCSpec == MCInit /\ [][MCNext]_<<vars, program>>
=============================================================================
