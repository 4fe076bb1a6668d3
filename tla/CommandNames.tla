---------------------------- MODULE CommandNames ----------------------------
(***************************************************************************)
(* Command names, the keys commands are registered under, and the chain    *)
(* that takes an invoked name to the registered command.                   *)
(*                                                                         *)
(* The interpreter keeps four tables, each a map from a key to a           *)
(* definition: procs, commands (host functions), ensembles and             *)
(* import_aliases.  A key and an invoked name have the same shape: a path  *)
(* of words, absolute when it is written with a leading "::".  The global  *)
(* proc x is registered under the bare key x, the proc x of namespace a    *)
(* under ::a::x, and nothing in the source makes x and ::x one key.        *)
(* Names are normalised: a run of colons is one separator.                 *)
(***************************************************************************)
EXTENDS Naturals, FiniteSets, Sequences, SequencesExt

CONSTANT Words     \* the words paths are made of

Root == <<>>       \* the path of the global namespace "::"

Name  == [abs : BOOLEAN, path : Seq(Words) \ {<<>>}]
NoKey == [abs |-> FALSE, path |-> <<>>]         \* Option::None

Qualify(ns, n) == IF n.abs THEN n ELSE [abs |-> TRUE, path |-> ns \o n.path]
Absolute(n)    == Qualify(Root, n)
Bare(n)        == [n EXCEPT !.abs = FALSE]
Simple(n)      == Len(n.path) = 1
HasSep(n)      == n.abs \/ ~Simple(n)           \* name.contains("::")

Home(k)        == Front(k.path)                 \* the namespace part of a key
Inside(q, ns)  == IsPrefix(q, ns)               \* ns is q or below it
Under(q, k)    == k.abs /\ IsStrictPrefix(q, k.path)
Child(q, k)    == k.abs /\ Home(k) = q
Ancestors(q)   == {SubSeq(q, 1, i) : i \in 0 .. Len(q)}

-----------------------------------------------------------------------------
(* Tables as functions on a subset of the keys. *)

Without(f, S)  == [k \in DOMAIN f \ S |-> f[k]]
Put(f, k, v)   == [x \in DOMAIN f \cup {k} |-> IF x = k THEN v ELSE f[x]]
Move(f, o, n)  == IF n = NoKey THEN Without(f, {o})
                  ELSE Put(Without(f, {o}), n, f[o])

(* The first key of a list of candidates that D holds. *)
First(arms, D) ==
  LET hits == {i \in DOMAIN arms : arms[i] \in D}
  IN  IF hits = {} THEN NoKey
      ELSE arms[CHOOSE i \in hits : \A j \in hits : i <= j]

-----------------------------------------------------------------------------
(* Import aliases: A maps an alias key to the key it was imported from,    *)
(* itself possibly an alias.                                               *)

Hops(A, k) ==
  LET hop[i \in 0 .. Cardinality(DOMAIN A)] ==
        IF i = 0 THEN k
        ELSE IF hop[i - 1] \in DOMAIN A THEN A[hop[i - 1]] ELSE hop[i - 1]
  IN  hop

ChainEnd(A, k)   == IF k \in DOMAIN A THEN Hops(A, k)[Cardinality(DOMAIN A)] ELSE k
Endless(A, k)    == ChainEnd(A, k) \in DOMAIN A
DirectDependents(A, k) == {a \in DOMAIN A : A[a] = k}   \* mutant: not transitive
Dependents(A, k) == {a \in DOMAIN A :
                       \E i \in 1 .. Cardinality(DOMAIN A) : Hops(A, a)[i] = k}

(* Aliases follow a rename of their origin and go with its deletion. *)
(* Mutant: imports are deleted with their origin but do not follow it.      *)
LeaveOrigins(A, o, n) == IF n = NoKey THEN Without(A, Dependents(A, o)) ELSE A

MoveOrigins(A, o, n) ==
  IF o = n THEN A
  ELSE IF n = NoKey THEN Without(A, Dependents(A, o))
  ELSE [a \in DOMAIN A |-> IF A[a] = o THEN n ELSE A[a]]

-----------------------------------------------------------------------------
(* The resolution chain.  P, C, E and A are the key sets of procs,         *)
(* commands, ensembles, and the alias map; ns is the current namespace.    *)

LookupKey(P, C, A, ns, n) ==
  LET q    == Qualify(ns, n)
      held == P \cup DOMAIN A \cup C
  IN  IF q \in held THEN q
      ELSE IF n \in held THEN Absolute(n)
      ELSE IF Simple(q) /\ Bare(q) \in C THEN q
      ELSE NoKey

(* Where the lookup of n enters the alias map, and where it leaves it. *)
EntryKey(P, C, A, ns, n) ==
  LET found == LookupKey(P, C, A, ns, n)
  IN  IF found = NoKey THEN NoKey ELSE LookupKey(P, C, A, ns, found)

ImportedKey(P, C, A, ns, n) == ChainEnd(A, EntryKey(P, C, A, ns, n))

(* The proc keys tried before the imports: inside a namespace a simple     *)
(* name is that namespace's first.                                         *)
OwnArms(ns, n) ==
  LET q == Qualify(ns, n)
  IN  IF n.abs THEN <<n>>
      ELSE IF ~Simple(n) THEN <<n, q, Absolute(n)>>
      ELSE IF ns = Root THEN <<n>> ELSE <<q, n>>

EnsArms(P, C, A, ns, n) ==
  LET i == ImportedKey(P, C, A, ns, n)
  IN  IF n.abs THEN IF Simple(n) THEN <<n, Bare(n), i>> ELSE <<n, i>>
      ELSE <<n, Qualify(ns, n), Absolute(n), i>>

CmdArms(ns, n) ==
  IF n.abs THEN IF Simple(n) THEN <<n, Bare(n)>> ELSE <<n>>
  ELSE IF ~Simple(n) THEN <<n, Qualify(ns, n), Absolute(n)>>
  ELSE IF ns = Root THEN <<n>> ELSE <<n, Qualify(ns, n)>>

(* A resolution is what the dispatcher runs: kind, the key it goes by and  *)
(* the key it is registered under (they differ for ::x, which reaches the  *)
(* bare key x and keeps the name it was invoked by).                       *)
Verdict(kind, key, at) == [kind |-> kind, key |-> key, at |-> at]
Unknown == Verdict("unknown", NoKey, NoKey)

Resolve(P, C, E, A, ns, n) ==
  LET p == First(OwnArms(ns, n), P)
      i == ImportedKey(P, C, A, ns, n)
      e == First(EnsArms(P, C, A, ns, n), E)
      c == First(CmdArms(ns, n), C)
  IN  IF p # NoKey THEN Verdict("proc", p, p)
      ELSE IF i \in P THEN Verdict("proc", i, i)
      ELSE IF ~n.abs /\ Absolute(n) \in P THEN Verdict("proc", Absolute(n), Absolute(n))
      ELSE IF n.abs /\ Simple(n) /\ Bare(n) \in P THEN Verdict("proc", n, Bare(n))
      ELSE IF e # NoKey THEN Verdict("ensemble", e, e)
      ELSE IF c # NoKey THEN Verdict("builtin", c, c)
      ELSE Unknown

(* rename finds the command by a chain of its own. *)
CommandKey(P, C, E, A, ns, n) ==
  LET q      == Qualify(ns, n)
      own    == IF n.abs THEN <<n>> ELSE IF ns = Root /\ Simple(n) THEN <<n>>
                ELSE IF Simple(n) THEN <<n, q>> ELSE <<n, q, Absolute(n)>>
      plain  == First(own, P \cup C)
      ens    == First(IF n.abs THEN <<n>> ELSE <<n, q, Absolute(n)>>, E)
  IN  IF plain # NoKey THEN plain
      ELSE IF n.abs /\ Simple(n) /\ Bare(n) \in P \cup C \cup E THEN Bare(n)
      ELSE IF ens # NoKey THEN ens
      ELSE IF q \in DOMAIN A THEN q ELSE NoKey
=============================================================================
