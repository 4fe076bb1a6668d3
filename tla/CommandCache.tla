---------------------------- MODULE CommandCache ----------------------------
(***************************************************************************)
(* The dispatcher the interpreter runs.  Two caches stand in front of the  *)
(* resolution chain:                                                       *)
(*                                                                         *)
(*   cache  (cmd_cache, cmd_cache_root) by current namespace and invoked   *)
(*          name, the verdict the chain gave; shared by every call;        *)
(*   sites  one token per call site of a compiled unit, with the name, the *)
(*          namespace, the verdict, and for a proc the definition itself,  *)
(*          which a hit calls without looking at the tables.               *)
(*                                                                         *)
(* Both are aged out by one counter, cmd_generation: an entry is live when *)
(* it was made under the current generation, and every change of the       *)
(* tables is meant to raise it.                                            *)
(***************************************************************************)
EXTENDS CommandTable

CONSTANTS
  Sites,      \* call sites of the compiled units
  NoSite,     \* a call the tree-walker makes: no token
  CacheMax,   \* cmd_cache capacity (8192 in the code)
  MaxGen      \* bound of the model on the generation

ASSUME CacheAssumption ==
  /\ NoSite \notin Sites
  /\ CacheMax \in Nat \ {0}
  /\ MaxGen \in Nat \ {0}

VARIABLES
  gen,        \* cmd_generation
  cache,      \* <<namespace, name>> -> [gen, verdict]
  sites,      \* site -> token
  callers     \* for each command in progress, the site and name that called it

cvars == <<gen, cache, sites, callers>>
vars  == <<tvars, cvars>>


(* A memoised winner: the name a proc goes by, or the host function.       *)
(* Ensembles and unknown names are never memoised.                         *)
Winner(r) ==
  CASE r.kind = "proc"    -> Run("proc", r.key, NoDef)
    [] r.kind = "builtin" -> r
    [] OTHER              -> NoRun
Memo(w) ==
  \/ w.kind = "builtin" /\ w \in [kind : {"builtin"}, key : {NoKey}, def : Funcs]
  \/ w.kind = "proc" /\ w \in [kind : {"proc"}, key : Name, def : {NoDef}]

NoToken == [gen |-> 0, ns |-> Root, name |-> NoKey, winner |-> NoRun, def |-> NoDef]
Token(t) == /\ t.gen \in Nat /\ t.ns \in Seq(Words) /\ t.name \in Names
            /\ Memo(t.winner) /\ t.def \in Def \cup {NoDef}

Caller   == [site : Sites \cup {NoSite}, name : Names \cup {NoKey}]
NoCaller == [site |-> NoSite, name |-> NoKey]

CacheInit ==
  /\ TableInit
  /\ gen = 1
  /\ cache = <<>>
  /\ sites = [s \in Sites |-> NoToken]
  /\ callers = <<>>

-----------------------------------------------------------------------------
(* cmd_cache_get and cmd_cache_put *)

(* Mutant: the current namespace is not part of the key.                    *)
CacheGetAnywhere(ns, n) ==
  IF \E e \in DOMAIN cache : e[2] = n /\ cache[e].gen = gen
  THEN cache[CHOOSE e \in DOMAIN cache : e[2] = n /\ cache[e].gen = gen].winner
  ELSE NoRun

CacheGet(ns, n) ==
  IF <<ns, n>> \in DOMAIN cache /\ cache[<<ns, n>>].gen = gen
  THEN cache[<<ns, n>>].winner ELSE NoRun

CachePut(ns, n, w) ==
  LET full == Cardinality(DOMAIN cache) >= CacheMax
      room == IF full THEN <<>> ELSE cache
  IN  cache' = Put(room, <<ns, n>>, [gen |-> gen, winner |-> w])

(* A memoised proc is kept by name only: when the tables no longer hold    *)
(* that name the chain decides.                                            *)
Serves(w) == \/ w.kind = "builtin"
             \/ w.kind = "proc" /\ w.key \in DOMAIN procs
Served(w) == IF w.kind = "proc" THEN Run("proc", w.key, procs[w.key]) ELSE w

-----------------------------------------------------------------------------
(* Calls *)

(* dispatch_values: the memoised winner, or the chain and its winner       *)
(* memoised.                                                               *)
Dispatch(n) ==
  LET w == CacheGet(CurrentNs, n)
      r == Chain(CurrentNs, n)
  IN  IF Serves(w) THEN Enter(Served(w)) /\ UNCHANGED cache
      ELSE /\ ~Hangs(CurrentNs, n)
           /\ Enter(r)
           /\ IF Winner(r) = NoRun THEN UNCHANGED cache
              ELSE CachePut(CurrentNs, n, Winner(r))

(* Mutant: a token is honoured in any namespace.                            *)

(* A token is honoured when generation, name and namespace are the ones it *)
(* was made under.  A proc token made when its name was not in the tables  *)
(* carries no definition and looks it up.                                  *)
Hit(s, n) ==
  LET t == sites[s]
  IN  /\ s \in Sites
      /\ t.gen = gen /\ t.name = n /\ t.ns = CurrentNs
      /\ t.winner.kind = "builtin" \/ t.def # NoDef \/ t.winner.key \in DOMAIN procs

TokenRun(t) ==
  IF t.winner.kind = "builtin" THEN t.winner
  ELSE Run("proc", t.winner.key, IF t.def # NoDef THEN t.def ELSE procs[t.winner.key])

(* After the full path the site takes over what the cache holds by then,   *)
(* with the definition the tables hold by then.                            *)
Refill(s, ns, n, ps, c, g) ==
  IF <<ns, n>> \in DOMAIN c /\ c[<<ns, n>>].gen = g
  THEN LET w == c[<<ns, n>>].winner
       IN  [sites EXCEPT ![s] =
              [gen |-> g, ns |-> ns, name |-> n, winner |-> w,
               def |-> IF w.kind = "proc" /\ w.key \in DOMAIN ps
                       THEN ps[w.key] ELSE NoDef]]
  ELSE sites

CallSite(s, n) ==
  /\ \/ /\ Hit(s, n)
        /\ Enter(TokenRun(sites[s]))
        /\ callers' = IF outcome'.kind = "proc" THEN Append(callers, NoCaller)
                      ELSE callers
        /\ UNCHANGED <<cache, sites>>
     \/ /\ ~Hit(s, n)
        /\ Dispatch(n)
        /\ IF outcome'.kind = "proc"
           THEN /\ callers' = Append(callers, [site |-> s, name |-> n])
                /\ UNCHANGED sites
           ELSE /\ sites' = IF s = NoSite THEN sites
                            ELSE Refill(s, CurrentNs, n, procs, cache', gen)
                /\ UNCHANGED callers
  /\ UNCHANGED gen

(* Mutant: writing statics back does not raise the generation.              *)

CacheReturn ==
  LET c == callers[Len(callers)]
      ns == IF Len(stack) = 1 THEN Root ELSE stack[Len(stack) - 1].ns
  IN  /\ Return
      /\ gen' = IF WritesBack THEN gen + 1 ELSE gen
      /\ gen' <= MaxGen
      /\ sites' = IF c.site = NoSite THEN sites
                  ELSE Refill(c.site, ns, c.name, procs', cache, gen')
      /\ callers' = Front(callers)
      /\ UNCHANGED cache

-----------------------------------------------------------------------------
(* note_cmd_mutation: every change of the tables raises the generation,    *)
(* but the first half of a namespace deletion does not.                    *)
Bump == gen < MaxGen /\ gen' = gen + 1

(* Mutants: a change that touches no proc, or deletes none, does not raise  *)
(* the generation.                                                         *)
CacheMutateProcsOnly ==
  /\ Mutate /\ Entries' <= MaxEntries
  /\ IF procs' = procs THEN UNCHANGED gen ELSE Bump
  /\ callers' = IF Len(stack') < Len(stack) THEN Front(callers) ELSE callers
  /\ UNCHANGED <<cache, sites>>
CacheMutateNoDeletion ==
  /\ Mutate /\ Entries' <= MaxEntries
  /\ IF DOMAIN procs' \subseteq DOMAIN procs THEN UNCHANGED gen ELSE Bump
  /\ callers' = IF Len(stack') < Len(stack) THEN Front(callers) ELSE callers
  /\ UNCHANGED <<cache, sites>>

CacheMutate ==
  /\ Mutate /\ Entries' <= MaxEntries /\ Bump
  /\ callers' = IF Len(stack') < Len(stack) THEN Front(callers) ELSE callers
  /\ UNCHANGED <<cache, sites>>

CacheQuiet ==
  /\ Quiet
  /\ callers' = IF Len(stack') > Len(stack) THEN Append(callers, NoCaller) ELSE callers
  /\ UNCHANGED <<gen, cache, sites>>

CacheNext ==
  \/ CacheMutate
  \/ CacheQuiet
  \/ CacheReturn
  \/ \E s \in Sites \cup {NoSite}, n \in Names : CallSite(s, n)

CacheSpec == CacheInit /\ [][CacheNext]_vars

-----------------------------------------------------------------------------
(* Properties *)

TypeOK ==
  /\ gen \in 1 .. MaxGen
  /\ DOMAIN cache \subseteq Seq(Words) \X Names
  /\ Cardinality(DOMAIN cache) <= CacheMax
  /\ \A e \in DOMAIN cache : cache[e].gen \in 1 .. gen /\ Memo(cache[e].winner)
  /\ DOMAIN sites = Sites
  /\ \A s \in Sites : sites[s] = NoToken \/ (Token(sites[s]) /\ sites[s].gen <= gen)
  /\ callers \in Seq(Caller) /\ Len(callers) = Len(stack)

(* A memoised winner that would be used is the one the resolution chain    *)
(* gives at this moment: the two probes of dispatch_values can stand for   *)
(* the whole chain (mod.rs, "reproduces the winner the chain produced").   *)
CacheCoherent ==
  \A e \in DOMAIN cache :
    cache[e].gen = gen /\ Serves(cache[e].winner)
      => Served(cache[e].winner) = Chain(e[1], e[2])

(* A namespace deletion is between its two halves: the procs of the tree   *)
(* the script runs in are gone and the generation is still the old one.    *)
TreeHalfDeleted ==
  \E i \in DOMAIN stack : stack[i].kind = "traces" /\ stack[i].mark

(* A token the call site would honour runs what the resolution chain gives *)
(* at this moment (vm_exec.rs, "the carried def IS the live map entry").   *)
TokensLive ==
  \A s \in Sites :
    sites[s].gen = gen
      => LET t == sites[s]
         IN  t.winner.kind = "builtin" \/ t.def # NoDef \/ t.winner.key \in DOMAIN procs
               => TokenRun(t) = Chain(t.ns, t.name)

(* ... except while a namespace is being deleted from inside.              *)
TokensCurrent == ~TreeHalfDeleted => TokensLive

(* A call runs what the resolution chain gives at that moment.             *)
DispatchesLive ==
  [][\A s \in Sites, n \in Names :
       CallSite(s, n) => outcome' = Chain(CurrentNs, n)]_vars

(* The exception: a warm call site runs the proc its token carries, which  *)
(* the deletion of a namespace from inside has taken away.                 *)
RunsTheGone ==
  /\ TreeHalfDeleted
  /\ outcome'.kind = "proc" /\ outcome'.key \notin DOMAIN procs /\ outcome'.def \in Def
  /\ Enter(outcome')

(* Seen from the script the caches are not there: every step of the cached *)
(* interpreter is a step of the one that walks the chain on every call,    *)
(* that exception apart.                                                   *)
UncachedBehaviour == TableInit /\ [][TableNext \/ RunsTheGone]_tvars
=============================================================================
