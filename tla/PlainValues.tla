---------------------------- MODULE PlainValues ----------------------------
(***************************************************************************)
(* What the commands on values promise: a variable holds a text, a command *)
(* changes the variables it names and no other, and what it makes of them  *)
(* is a matter of the texts alone.  There is no sharing here, nothing is   *)
(* cached and nothing is changed in place.                                 *)
(***************************************************************************)
EXTENDS Texts

CONSTANTS
  Commands,    \* what scripts do: [do, var, at, with, to]
  Missing      \* the variable does not exist

VARIABLES
  store,       \* variable -> text
  bodies,      \* the dict commands whose bodies run, innermost last
  did          \* the command of the last step

pvars == <<store, bodies, did>>

Names == DOMAIN store
Named(t) == t[2]                     \* the variable a key names
IsName(t) == t[1] = "word" /\ t[2] \in Names

(* An operand of a command: a literal, a computed number, a variable.      *)
Has(s, src) == src[1] = "var" => s[src[2]] # Missing
Val(s, src) == CASE src[1] = "lit" -> src[2]
                 [] src[1] = "num" -> Num(src[2])
                 [] src[1] = "var" -> s[src[2]]
OrEmpty(t) == IF t = Missing THEN Empty ELSE t

(* lset at a path of indices, dict set at a path of keys, dict unset: the  *)
(* text with the change, Missing when the command fails.                   *)
RECURSIVE SetAt(_, _, _)
SetAt(t, path, v) ==
  IF path = <<>> THEN v
  ELSE IF ~IsList(t) THEN Missing
  ELSE LET s == Elements(t)
           i == path[1] + 1
       IN  IF i > Len(s) + 1 THEN Missing
           ELSE LET e == SetAt(IF i > Len(s) THEN Empty ELSE s[i], Tail(path), v)
                IN  IF e = Missing THEN Missing
                    ELSE ListText(IF i > Len(s) THEN Append(s, e) ELSE [s EXCEPT ![i] = e])

RECURSIVE PutAt(_, _, _)
PutAt(t, keys, v) ==
  IF keys = <<>> THEN v
  ELSE IF ~IsDict(t) THEN Missing
  ELSE LET d == Pairs(t)
           e == PutAt(IF keys[1] \in KeysOf(d) THEN Get(d, keys[1]) ELSE Empty, Tail(keys), v)
       IN  IF e = Missing THEN Missing ELSE DictText(Put(d, keys[1], e))

RECURSIVE DelAt(_, _)
DelAt(t, keys) ==
  IF ~IsDict(t) THEN Missing
  ELSE LET d == Pairs(t)
       IN  IF Len(keys) = 1 THEN DictText(Del(d, keys[1]))
           ELSE IF keys[1] \notin KeysOf(d) THEN Missing
           ELSE LET e == DelAt(Get(d, keys[1]), Tail(keys))
                IN  IF e = Missing THEN Missing ELSE DictText(Put(d, keys[1], e))

RECURSIVE GetAt(_, _)
GetAt(t, keys) ==
  IF keys = <<>> THEN t
  ELSE IF ~IsDict(t) \/ keys[1] \notin KeysOf(Pairs(t)) THEN Missing
  ELSE GetAt(Get(Pairs(t), keys[1]), Tail(keys))

(* What a command leaves in its variable, from what is there and from its  *)
(* operand; Missing when it fails.                                         *)
Made(c, x, v) ==
  LET k == c.at[1]
      d == IF IsDict(OrEmpty(x)) THEN Pairs(OrEmpty(x)) ELSE <<>>
  IN
  CASE c.do = "set"     -> v
    [] c.do = "lappend" -> IF x = Missing THEN ListText(<<v>>)
                           ELSE IF IsList(x) THEN ListText(Append(Elements(x), v)) ELSE Missing
    [] c.do = "lset"    -> IF x = Missing THEN Missing ELSE SetAt(x, c.at, v)
    [] c.do = "lindex"  -> IF ~IsList(v) THEN Missing
                           ELSE IF k < Len(Elements(v)) THEN Elements(v)[k + 1] ELSE Empty
    [] c.do = "incr"    -> IF ~IsInt(v) THEN Missing
                           ELSE IF x = Missing THEN v
                           ELSE IF IsInt(x) THEN Num(Wrap(x[2] + v[2])) ELSE Missing
    [] c.do = "dict set"     -> PutAt(OrEmpty(x), c.at, v)
    [] c.do = "dict unset"   -> DelAt(OrEmpty(x), c.at)
    [] c.do = "dict get"     -> GetAt(v, c.at)
    [] c.do = "dict exists"  -> Num(IF IsDict(v) /\ k \in KeysOf(Pairs(v)) THEN 1 ELSE 0)
    [] c.do = "dict merge"   -> IF x = Missing \/ ~IsDict(v) THEN Missing
                                ELSE IF ~IsDict(x) THEN Missing
                                ELSE IF Elements(v) = <<>> THEN x
                                ELSE DictText(FoldLeft(LAMBDA e, p : Put(e, p[1], p[2]), d, Pairs(v)))
    [] c.do = "dict lappend" -> IF ~IsDict(OrEmpty(x)) THEN Missing
                                ELSE LET e == IF k \in KeysOf(d) THEN Get(d, k) ELSE Empty
                                         s == IF IsList(e) THEN Elements(e) ELSE <<>>
                                     IN  DictText(Put(d, k, ListText(Append(s, v))))
    [] c.do = "dict incr"    -> IF ~IsDict(OrEmpty(x)) \/ ~IsInt(v) THEN Missing
                                ELSE LET n == IF k \in KeysOf(d) /\ IsInt(Get(d, k)) THEN Get(d, k)[2] ELSE 0
                                     IN  DictText(Put(d, k, Num(Wrap(n + v[2]))))

Change(c) ==
  LET v == Val(store, c.with)
      t == IF Has(store, c.with) THEN Made(c, store[c.var], v) ELSE Missing
  IN  /\ store' = IF t = Missing THEN store ELSE [store EXCEPT ![c.var] = t]
      /\ UNCHANGED bodies

Unset(c) == store' = [store EXCEPT ![c.var] = Missing] /\ UNCHANGED bodies
Read(c)  == UNCHANGED <<store, bodies>>

-----------------------------------------------------------------------------
(* Dict commands with a body.  dict with sets a variable for each key and  *)
(* reads them back, dict update does it for the keys it is told, and for,  *)
(* map and filter go through the pairs the dict had.                       *)

SetAll(s, d) == FoldLeft(LAMBDA t, p : [t EXCEPT ![Named(p[1])] = p[2]], s, d)
Enter(b) == bodies' = Append(bodies, b)
Leave    == bodies' = Front(bodies)

With(c) ==
  LET t == IF store[c.var] = Missing THEN Missing ELSE GetAt(store[c.var], c.at)
  IN  IF t = Missing \/ ~IsDict(t) THEN UNCHANGED <<store, bodies>>
      ELSE /\ \A k \in KeysOf(Pairs(t)) : IsName(k)
           /\ store' = SetAll(store, Pairs(t))
           /\ Enter([cmd |-> c, dict |-> Pairs(t), got |-> <<>>])

(* The pair of the update: the key at[1] in the variable to[1].            *)
Update(c) ==
  LET t == OrEmpty(store[c.var])
  IN  IF ~IsDict(t) THEN UNCHANGED <<store, bodies>>
      ELSE /\ store' = IF c.at[1] \in KeysOf(Pairs(t))
                       THEN [store EXCEPT ![c.to[1]] = Get(Pairs(t), c.at[1])] ELSE store
           /\ Enter([cmd |-> c, dict |-> Pairs(t), got |-> <<>>])

Bind(s, c, p) == [s EXCEPT ![c.to[1]] = p[1], ![c.to[2]] = p[2]]

(* The result of a map or a filter goes to the command's variable.         *)
Given(c, d) == IF c.do = "for" THEN store ELSE [store EXCEPT ![c.var] = DictText(d)]

Each(c) ==
  IF ~Has(store, c.with) \/ ~IsDict(Val(store, c.with)) THEN UNCHANGED <<store, bodies>>
  ELSE LET d == Pairs(Val(store, c.with))
       IN  IF d = <<>> THEN store' = Given(c, <<>>) /\ UNCHANGED bodies
           ELSE /\ store' = Bind(store, c, d[1])
                /\ Enter([cmd |-> c, dict |-> d, got |-> <<>>])

(* The variables that hold keys, read back into the dict found at the path *)
(* now; a variable that is gone takes its key with it.                     *)
RECURSIVE Gathered(_, _, _, _)
Gathered(s, t, path, from) ==
  IF ~IsDict(t) THEN Missing
  ELSE LET d == Pairs(t)
       IN  IF path = <<>>
           THEN DictText(FoldLeft(LAMBDA e, p : IF s[p[2]] = Missing THEN Del(e, p[1])
                                                ELSE Put(e, p[1], s[p[2]]), d, from))
           ELSE LET e == Gathered(s, IF path[1] \in KeysOf(d) THEN Get(d, path[1]) ELSE Empty,
                                  Tail(path), from)
                IN  IF e = Missing THEN Missing ELSE DictText(Put(d, path[1], e))

WroteBack(c, path, from) ==
  LET t == IF store[c.var] = Missing THEN Missing ELSE Gathered(store, store[c.var], path, from)
  IN  store' = IF t = Missing THEN store ELSE [store EXCEPT ![c.var] = t]

EndWith(b, end) ==
  /\ Leave
  /\ IF end = "error" THEN UNCHANGED store
     ELSE WroteBack(b.cmd, b.cmd.at, [i \in DOMAIN b.dict |-> <<b.dict[i][1], Named(b.dict[i][1])>>])
EndUpdate(b, end) == Leave /\ WroteBack(b.cmd, <<>>, <<<<b.cmd.at[1], b.cmd.to[1]>>>>)

EndEach(b, end, src) ==
  LET c == b.cmd
      p == b.dict[1]
      v == Val(store, src)
      fails == \/ end = "error"
               \/ end = "ok" /\ ~Has(store, src)
               \/ end = "ok" /\ c.do = "filter" /\ ~IsInt(v)
      got == IF end # "ok" \/ c.do = "for" THEN b.got
             ELSE IF c.do = "map" THEN Put(b.got, p[1], v)
             ELSE IF v[2] # 0 THEN Put(b.got, p[1], p[2]) ELSE b.got
  IN  IF fails THEN Leave /\ UNCHANGED store
      ELSE IF end = "break" \/ Len(b.dict) = 1
      THEN Leave /\ store' = Given(c, got)
      ELSE /\ bodies' = [bodies EXCEPT ![Len(bodies)] = [b EXCEPT !.dict = Tail(b.dict), !.got = got]]
           /\ store' = Bind(store, c, b.dict[2])

End(c) ==
  LET b == Last(bodies)
  IN  /\ bodies # <<>>
      /\ CASE b.cmd.do = "with"   -> EndWith(b, c.to[1])
           [] b.cmd.do = "update" -> EndUpdate(b, c.to[1])
           [] OTHER               -> EndEach(b, c.to[1], c.with)

-----------------------------------------------------------------------------
Do(c) ==
  /\ did' = c
  /\ CASE c.do = "unset"  -> Unset(c)
       [] c.do = "read"   -> Read(c)
       [] c.do = "with"   -> With(c)
       [] c.do = "update" -> Update(c)
       [] c.do \in {"for", "map", "filter"} -> Each(c)
       [] c.do = "end"    -> End(c)
       [] OTHER           -> Change(c)

PlainInit == /\ \A x \in DOMAIN store : store[x] = Missing
             /\ bodies = <<>> /\ did = Missing
PlainNext == \E c \in Commands : Do(c)
PlainSpec == PlainInit /\ [][PlainNext]_pvars
=============================================================================
