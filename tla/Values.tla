------------------------------- MODULE Values -------------------------------
(***************************************************************************)
(* Values as the interpreter has them (value.rs), and the commands that    *)
(* change them in place (list.rs, dict.rs, vars.rs).                       *)
(*                                                                         *)
(* A value is a word: a small integer, or the address of a box that other  *)
(* words share.  A box counts its words and has a text, a representation   *)
(* (an integer, a list or a dict of words), or both, one made of the other *)
(* when it is asked for.  A box with one word may be changed where it is;  *)
(* a shared one is copied first.                                           *)
(*                                                                         *)
(* A command takes operands that it owns.  The free list only says which   *)
(* box is used next; here it is the first that is free.                    *)
(***************************************************************************)
EXTENDS Texts

CONSTANTS
  Vars,        \* plain variables: no links, traces or arrays
  Boxes,       \* addresses, numbers from 1 (a bound of the model)
  Commands, Missing   \* as in PlainValues

ASSUME ValuesAssumption == IsFiniteSet(Boxes) /\ Boxes = 1..Cardinality(Boxes) /\ 3 \in Boxes

VARIABLES
  heap,        \* address -> box
  slots,       \* variable -> word
  bodies,      \* dict commands whose bodies run, with the words they hold
  did          \* the command of the last step

vars == <<heap, slots, bodies, did>>

Free   == [rc |-> 0]
NoText == <<"none">>
NoRep  == <<"none">>
Unset  == <<"unset">>
Imm(n) == <<"imm", n>>
Ptr(b) == <<"ptr", b>>
IsPtr(w) == w[1] = "ptr"
IsImm(w) == w[1] = "imm"

(* The shared values of the thread.                                        *)
EmptyBox == 1
TrueBox  == 2
FalseBox == 3
Cell(s, r) == [rc |-> 1, str |-> s, rep |-> r]
Cached == <<Cell(Empty, NoRep), Cell(Num(1), <<"bool", 1>>), Cell(Num(0), <<"bool", 0>>)>>

-----------------------------------------------------------------------------
(* Boxes.  An operator that makes a value returns the heap and the word.   *)

Made(h, w) == [h |-> h, w |-> w]

(* What is done with a value that was made: Op of it.                      *)
Then(m, Op(_)) == Op(m)

Boxed(h, s, r) == Then(Min({c \in Boxes : h[c] = Free}),
                       LAMBDA b : Made([h EXCEPT ![b] = Cell(s, r)], Ptr(b)))
OfStr(h, t)  == Boxed(h, t, NoRep)
OfList(h, l) == Boxed(h, NoText, <<"list", l>>)
OfDict(h, d) == Boxed(h, NoText, <<"dict", d>>)
FitsAWord(n) == n >= -(2 ^ (Bits - 2)) /\ n < 2 ^ (Bits - 2)
OfInt(h, n)  == IF FitsAWord(n) THEN Made(h, Imm(n)) ELSE Boxed(h, NoText, <<"int", n>>)

Dup(h, w)     == IF IsPtr(w) THEN [h EXCEPT ![w[2]].rc = @ + 1] ELSE h
DupAll(h, ws) == FoldLeft(Dup, h, ws)
Shared(h, w)  == Made(Dup(h, w), w)

Rep(h, w)   == IF IsPtr(w) THEN h[w[2]].rep ELSE NoRep
IsRep(h, w, kind) == Rep(h, w)[1] = kind
Values(d)   == [i \in DOMAIN d |-> d[i][2]]
RepWords(r) == CASE r[1] = "list" -> r[2] [] r[1] = "dict" -> Values(r[2]) [] OTHER -> <<>>

RECURSIVE Drop(_, _)
Drop(h, w) ==
  IF ~IsPtr(w) THEN h
  ELSE IF h[w[2]].rc > 1 THEN [h EXCEPT ![w[2]].rc = @ - 1]
  ELSE FoldLeft(Drop, [h EXCEPT ![w[2]] = Free], RepWords(Rep(h, w)))
DropAll(h, ws) == FoldLeft(Drop, h, ws)

(* heap_make_mut: a box of this word alone, with what is in it now.        *)
Own(h, w) ==
  IF h[w[2]].rc = 1 THEN Made(h, w)
  ELSE Boxed([DupAll(h, RepWords(Rep(h, w))) EXCEPT ![w[2]].rc = @ - 1], h[w[2]].str, h[w[2]].rep)

(* as_list_mut, as_dict_mut, set_int_rep: the text goes.  (Its mutant      *)
(* keeps it.)                                                              *)
WithRepAndText(h, w, r) == [h EXCEPT ![w[2]].rep = r]
WithRep(h, w, r) == [h EXCEPT ![w[2]].str = NoText, ![w[2]].rep = r]

SetInt(h, w, n) ==
  IF IsImm(w) THEN OfInt(h, n)
  ELSE Then(Own(h, w), LAMBDA o :
         Made(WithRep(DropAll(o.h, RepWords(Rep(o.h, o.w))), o.w, <<"int", n>>), o.w))

TextOf(h, w) ==
  LET of[b \in Boxes] ==
        LET c == h[b]
            Leaf(u) == IF IsImm(u) THEN Num(u[2]) ELSE of[u[2]]
        IN  CASE c.str # NoText -> c.str
              [] c.str = NoText /\ c.rep[1] = "list" ->
                   ListText([i \in DOMAIN c.rep[2] |-> Leaf(c.rep[2][i])])
              [] c.str = NoText /\ c.rep[1] = "dict" ->
                   DictText([i \in DOMAIN c.rep[2] |-> <<c.rep[2][i][1], Leaf(c.rep[2][i][2])>>])
              [] OTHER -> Num(c.rep[2])
  IN  IF IsImm(w) THEN Num(w[2]) ELSE of[w[2]]

(* as_str: an integer moves into a box for its text; the words of a list   *)
(* are written where they stand, those of a dict from a copy.              *)
RECURSIVE Render(_, _)
Render(h, w) ==
  LET AddTo(g, m) == [h |-> m.h, l |-> Append(g.l, m.w)]
      List(l) == Then(FoldLeft(LAMBDA g, e : AddTo(g, Render(g.h, e)), [h |-> h, l |-> <<>>], l),
                      LAMBDA g : [g.h EXCEPT ![w[2]].rep = <<"list", g.l>>])
      Dict(l) == FoldLeft(LAMBDA g, e : IF IsPtr(e) THEN Render(g, e).h ELSE g, h, l)
      In(r)   == IF r[1] = "list" THEN List(r[2]) ELSE Dict(RepWords(r))
  IN  IF IsImm(w) THEN Boxed(h, Num(w[2]), <<"int", w[2]>>)
      ELSE IF h[w[2]].str # NoText THEN Made(h, w)
      ELSE Made([In(Rep(h, w)) EXCEPT ![w[2]].str = TextOf(h, w)], w)

Written(h, w) == IF IsPtr(w) THEN Render(h, w).h ELSE h

-----------------------------------------------------------------------------
(* Lists and dicts of a word that stays: their words are new or shared.    *)

Strings(h, ts) == FoldLeft(LAMBDA g, t : Then(OfStr(g.h, t), LAMBDA m : [h |-> m.h, l |-> Append(g.l, m.w)]),
                           [h |-> h, l |-> <<>>], ts)

Listable(h, w) == IsRep(h, w, "list") \/ IsList(TextOf(h, w))

(* as_list_strict.                                                         *)
ListOf(h, w) ==
  CASE IsRep(h, w, "list") -> [h |-> DupAll(h, Rep(h, w)[2]), l |-> Rep(h, w)[2]]
    [] IsRep(h, w, "dict") ->
         LET d == Rep(h, w)[2]
         IN  Then(Strings(DupAll(h, Values(d)), [i \in DOMAIN d |-> d[i][1]]), LAMBDA k :
                  [h |-> k.h, l |-> FlattenSeq([i \in DOMAIN d |-> <<k.l[i], d[i][2]>>])])
    [] OTHER -> Strings(Written(h, w), Elements(TextOf(h, w)))

(* A dict under way: its heap and its pairs.                               *)
Pairing(h, d)   == [h |-> h, d |-> d]
DropNone(g, k)  == g.h                  \* mutant of DropOf
DropOf(g, k)    == IF k \in KeysOf(g.d) THEN Drop(g.h, Get(g.d, k)) ELSE g.h
Insert(g, k, w) == Pairing(DropOf(g, k), Put(g.d, k, w))
Without(g, k)   == Pairing(DropOf(g, k), Del(g.d, k))

Dictable(h, w) ==
  CASE IsRep(h, w, "dict") -> TRUE
    [] IsRep(h, w, "list") -> Len(Rep(h, w)[2]) % 2 = 0
    [] OTHER -> IsDict(TextOf(h, w))

(* as_dict; the keys of a list are written where they stand.               *)
EveryOther(l, n) == [i \in 1..(Len(l) \div 2) |-> l[2 * i + n - 2]]
KeyWritten(h, w, i) == Then(Render(h, Rep(h, w)[2][2 * i - 1]), LAMBDA m :
                            [m.h EXCEPT ![w[2]].rep = <<"list", [@[2] EXCEPT ![2 * i - 1] = m.w]>>])
KeysWritten(h, w) == FoldLeft(LAMBDA g, i : KeyWritten(g, w, i), h,
                              [i \in 1..(Len(Rep(h, w)[2]) \div 2) |-> i])
Zipped(h, keys, ws) == FoldLeft(LAMBDA m, i : Insert(m, keys[i], ws[i]), Pairing(h, <<>>),
                                [i \in DOMAIN keys |-> i])
OfWords(h, l) == Zipped(DupAll(h, EveryOther(l, 2)),
                        [i \in 1..(Len(l) \div 2) |-> TextOf(h, l[2 * i - 1])], EveryOther(l, 2))

DictOf(h, w) ==
  CASE IsRep(h, w, "dict") -> Pairing(DupAll(h, Values(Rep(h, w)[2])), Rep(h, w)[2])
    [] IsRep(h, w, "list") -> Then(KeysWritten(h, w), LAMBDA g : OfWords(g, Rep(g, w)[2]))
    [] OTHER -> Then(Elements(TextOf(h, w)), LAMBDA e :
                Then(Strings(Written(h, w), EveryOther(e, 2)), LAMBDA s : Zipped(s.h, EveryOther(e, 1), s.l)))

(* lset_nested, dict_set_nested and dict_unset_nested build the value anew *)
(* along the path.  A failure gives no word, and the copies are dropped.   *)
Failed(h)        == Made(h, Unset)
FailedList(h, l) == Failed(DropAll(h, l))
FailedDict(h, d) == Failed(DropAll(h, Values(d)))
OrEmpty(d, k)    == IF k \in KeysOf(d) THEN Get(d, k) ELSE Ptr(EmptyBox)

RECURSIVE SetAt(_, _, _, _)
SetAt(h, w, path, v) ==
  LET Below(l, n, i) ==
        IF i > n + 1 THEN FailedList(l.h, l.l)
        ELSE Then(SetAt(l.h, IF i > n THEN Ptr(EmptyBox) ELSE l.l[i], Tail(path), v), LAMBDA s :
               IF s.w = Unset THEN FailedList(s.h, l.l)
               ELSE IF i > n THEN OfList(s.h, Append(l.l, s.w))
               ELSE OfList(Drop(s.h, l.l[i]), [l.l EXCEPT ![i] = s.w]))
  IN  IF path = <<>> THEN Shared(h, v)
      ELSE IF ~Listable(h, w) THEN Failed(h)
      ELSE Then(ListOf(h, w), LAMBDA l : Below(l, Len(l.l), path[1] + 1))

(* The dict m with the value s under k, unless there is none.              *)
Into(m, s, k) == IF s.w = Unset THEN FailedDict(s.h, m.d)
                 ELSE Then(Insert(Pairing(s.h, m.d), k, s.w), LAMBDA g : OfDict(g.h, g.d))

RECURSIVE PutAt(_, _, _, _)
PutAt(h, w, keys, v) ==
  IF keys = <<>> THEN Shared(h, v)
  ELSE IF ~Dictable(h, w) THEN Failed(h)
  ELSE Then(DictOf(h, w), LAMBDA m :
         Into(m, PutAt(m.h, OrEmpty(m.d, keys[1]), Tail(keys), v), keys[1]))

RECURSIVE DelAt(_, _, _)
DelAt(h, w, keys) ==
  IF ~Dictable(h, w) THEN Failed(h)
  ELSE Then(DictOf(h, w), LAMBDA m :
         IF Len(keys) = 1 THEN Then(Without(m, keys[1]), LAMBDA g : OfDict(g.h, g.d))
         ELSE IF keys[1] \notin KeysOf(m.d) THEN FailedDict(m.h, m.d)
         ELSE Into(m, DelAt(m.h, Get(m.d, keys[1]), Tail(keys)), keys[1]))

(* dict get, with the word shared; what had to be parsed is dropped.       *)
RECURSIVE GetAt(_, _, _)
GetAt(h, w, keys) ==
  IF keys = <<>> THEN Shared(h, w)
  ELSE IF ~Dictable(h, w) THEN Failed(h)
  ELSE Then(DictOf(h, w), LAMBDA m :
         IF keys[1] \notin KeysOf(m.d) THEN FailedDict(m.h, m.d)
         ELSE Then(GetAt(m.h, Get(m.d, keys[1]), Tail(keys)), LAMBDA s :
                Made(DropAll(s.h, Values(m.d)), s.w)))

(* dict_set_inplace: down the dicts that are there as dicts.  It stops at  *)
(* the first other value, with the boxes above it made this word's own.    *)
RECURSIVE InPlace(_, _, _, _)
InPlace(h, w, keys, v) ==
  LET Below(o, d) ==
        IF Len(keys) = 1
        THEN Then(Insert(Pairing(Dup(o.h, v), d), keys[1], v), LAMBDA g :
               [h |-> WithRep(g.h, o.w, <<"dict", g.d>>), w |-> o.w, ok |-> TRUE])
        ELSE Then(IF keys[1] \in KeysOf(d) THEN Made(o.h, Get(d, keys[1])) ELSE OfDict(o.h, <<>>), LAMBDA n :
             Then(InPlace(n.h, n.w, Tail(keys), v), LAMBDA s :
               [h |-> WithRep(s.h, o.w, <<"dict", Put(d, keys[1], s.w)>>), w |-> o.w, ok |-> s.ok]))
  IN  IF ~IsRep(h, w, "dict") THEN [h |-> h, w |-> w, ok |-> FALSE]
      ELSE Then(Own(h, w), LAMBDA o : Below(o, Rep(o.h, o.w)[2]))

-----------------------------------------------------------------------------
(* Commands: the heap and the variables that the variable x, the operand v *)
(* and what the command says make of a heap and the variables.             *)

Left(h, s) == [h |-> h, s |-> s]
Keep(h, s, x, w) == Left(Drop(h, s[x]), [s EXCEPT ![x] = w])
Stored(m, s, x)  == IF m.w = Unset THEN Left(m.h, s) ELSE Keep(m.h, s, x, m.w)
EmptyIfUnset(w)  == IF w = Unset THEN Ptr(EmptyBox) ELSE w

(* cmd_lappend and the slot's lappend: a list is changed where it is.      *)
Lappend(h, s, x, v) ==
  CASE s[x] = Unset -> Stored(OfList(Dup(h, v), <<v>>), s, x)
    [] IsRep(h, s[x], "list") ->
         Then(Own(h, s[x]), LAMBDA o :
           Left(WithRep(Dup(o.h, v), o.w, <<"list", Append(Rep(o.h, o.w)[2], v)>>), [s EXCEPT ![x] = o.w]))
    [] s[x] # Unset /\ ~Listable(h, s[x]) -> Left(h, s)
    [] OTHER -> Then(ListOf(h, s[x]), LAMBDA l : Stored(OfList(Dup(l.h, v), Append(l.l, v)), s, x))

Element(l, k) == IF k < Len(l) THEN l[k + 1] ELSE Ptr(EmptyBox)
Lindex(h, v, k) ==
  IF ~Listable(h, v) THEN Failed(h)
  ELSE Then(ListOf(h, v), LAMBDA l : Made(DropAll(Dup(l.h, Element(l.l, k)), l.l), Element(l.l, k)))

(* as_int reads an integer off a text, so it writes one.                   *)
AsRead(h, w) == IF Rep(h, w)[1] \in {"int", "bool"} THEN h ELSE Written(h, w)

(* incr_var_fast and frame_slot_incr, with cmd_incr for the rest.          *)
Sum(h, s, x, sum) ==
  IF s[x] # Unset /\ Wrap(sum) = sum
  THEN Then(SetInt(h, s[x], sum), LAMBDA n : Left(n.h, [s EXCEPT ![x] = n.w]))
  ELSE Stored(OfInt(h, Wrap(sum)), s, x)
Incr(h, s, x, v) ==
  LET old == IF s[x] = Unset THEN Num(0) ELSE TextOf(h, s[x])
  IN  Then(AsRead(h, s[x]), LAMBDA g :
        IF ~IsInt(old) THEN Left(g, s)
        ELSE IF ~IsInt(TextOf(g, v)) THEN Left(AsRead(g, v), s)
        ELSE Sum(AsRead(g, v), s, x, old[2] + TextOf(g, v)[2]))

(* dict set: the value is taken out of its variable, changed in place as   *)
(* far as it is a dict, and put back; else it is rebuilt.                  *)
DictSet(h, s, x, keys, v) ==
  Then(InPlace(h, s[x], keys, v), LAMBDA i :
    IF i.ok THEN Left(i.h, [s EXCEPT ![x] = i.w])
    ELSE Stored(PutAt(i.h, EmptyIfUnset(i.w), keys, v), [s EXCEPT ![x] = i.w], x))

DictExists(h, v, k) ==
  LET Bool(g, is) == Shared(g, Ptr(IF is THEN TrueBox ELSE FalseBox))
  IN  IF Dictable(h, v)
      THEN Then(DictOf(h, v), LAMBDA m : Bool(DropAll(m.h, Values(m.d)), k \in KeysOf(m.d)))
      ELSE Bool(h, FALSE)

(* dict merge with nothing to add is the first dict itself.                *)
Extended(m, d) == Then(FoldLeft(LAMBDA g, p : Insert(g, p[1], p[2]), m, d), LAMBDA g : OfDict(g.h, g.d))
DictMerge(h, w, v) ==
  IF w = Unset THEN Failed(h)
  ELSE IF ~Dictable(h, w) THEN Failed(h)
  ELSE Then(DictOf(h, w), LAMBDA m :
         IF ~Dictable(m.h, v) THEN FailedDict(m.h, m.d)
         ELSE Then(DictOf(m.h, v), LAMBDA e :
                IF e.d = <<>> THEN Shared(DropAll(e.h, Values(m.d)), w)
                ELSE Extended(Pairing(e.h, m.d), e.d)))

(* The value of a key, as a list or an integer, or nothing of the kind.    *)
ListIn(h, e) == IF Listable(h, e) THEN ListOf(h, e) ELSE [h |-> h, l |-> <<>>]
IntIn(h, e)  == IF IsInt(TextOf(h, e)) THEN TextOf(h, e)[2] ELSE 0

DictLappend(h, w, k, v) ==
  IF ~Dictable(h, w) THEN Failed(h)
  ELSE Then(DictOf(h, w), LAMBDA m :
       Then(ListIn(m.h, OrEmpty(m.d, k)), LAMBDA l :
         Into(m, OfList(Dup(l.h, v), Append(l.l, v)), k)))

DictIncr(h, w, k, v) ==
  LET Plus(m, e, n) == Into(m, OfInt(AsRead(m.h, e), Wrap(IntIn(m.h, e) + n)), k)
  IN  IF ~IsInt(TextOf(h, v)) THEN Failed(AsRead(h, v))
      ELSE IF ~Dictable(AsRead(h, v), w) THEN Failed(AsRead(h, v))
      ELSE Then(DictOf(AsRead(h, v), w), LAMBDA m : Plus(m, OrEmpty(m.d, k), TextOf(h, v)[2]))

Result(c, h, s, v) ==
  LET x == c.var
      w == EmptyIfUnset(s[x])
  IN
  CASE c.do = "set"          -> Stored(Shared(h, v), s, x)
    [] c.do = "lappend"      -> Lappend(h, s, x, v)
    [] c.do = "lset"         -> Stored(IF s[x] = Unset THEN Failed(h) ELSE SetAt(h, w, c.at, v), s, x)
    [] c.do = "lindex"       -> Stored(Lindex(h, v, c.at[1]), s, x)
    [] c.do = "incr"         -> Incr(h, s, x, v)
    [] c.do = "dict set"     -> DictSet(h, s, x, c.at, v)
    [] c.do = "dict unset"   -> Stored(DelAt(h, w, c.at), s, x)
    [] c.do = "dict get"     -> Stored(GetAt(h, v, c.at), s, x)
    [] c.do = "dict exists"  -> Stored(DictExists(h, v, c.at[1]), s, x)
    [] c.do = "dict merge"   -> Stored(DictMerge(h, s[x], v), s, x)
    [] c.do = "dict lappend" -> Stored(DictLappend(h, w, c.at[1], v), s, x)
    [] c.do = "dict incr"    -> Stored(DictIncr(h, w, c.at[1], v), s, x)

(* The operands of a command, which it owns and drops when it is done.     *)
Has(src) == src[1] = "var" => slots[src[2]] # Unset
Operand(src) == CASE src[1] = "lit" -> OfStr(heap, src[2])
                  [] src[1] = "num" -> OfInt(heap, src[2])
                  [] src[1] = "var" -> Shared(heap, slots[src[2]])

Becomes(r) == heap' = r.h /\ slots' = r.s
Nothing    == Becomes(Left(heap, slots))

Change(c) ==
  /\ IF ~Has(c.with) THEN Nothing
     ELSE Becomes(Then(Operand(c.with), LAMBDA v :
                  Then(Result(c, v.h, slots, v.w), LAMBDA r : Left(Drop(r.h, v.w), r.s))))
  /\ UNCHANGED bodies

UnsetVar(c) == Becomes(Keep(heap, slots, c.var, Unset)) /\ UNCHANGED bodies
Read(c)     == /\ heap' = IF slots[c.var] = Unset THEN heap ELSE Written(heap, slots[c.var])
               /\ UNCHANGED <<slots, bodies>>

-----------------------------------------------------------------------------
(* Dict commands with a body.  The dict that the command read is held, as  *)
(* words, until it ends, whatever the body does to the variable.           *)

Named(k)  == k[2]
IsName(k) == k[1] = "word" /\ k[2] \in Vars
Bound(r, x, w) == Keep(Dup(r.h, w), r.s, x, w)
Body(c, held, d) == [cmd |-> c, held |-> held \o Values(d), dict |-> d, got |-> <<>>]
Released(h, b) == DropAll(h, b.held \o Values(b.got))

(* What a command with a body does first: the heap, the variables and the  *)
(* bodies under way.                                                       *)
Goes(r, q)  == [h |-> r.h, s |-> r.s, q |-> q]
Stays(h)    == Goes(Left(h, slots), bodies)
Enters(r, b) == Goes(r, Append(bodies, b))
Leaves(r)   == Goes(r, Front(bodies))
Follows(g)  == heap' = g.h /\ slots' = g.s /\ bodies' = g.q

NamesOnly(t) == t.w # Unset /\ Dictable(t.h, t.w) =>
                  \A k \in KeysOf(Pairs(TextOf(t.h, t.w))) : IsName(k)
AllBound(m) == FoldLeft(LAMBDA r, p : Bound(r, Named(p[1]), p[2]), Left(m.h, slots), m.d)

Unpack(c, t) ==
  IF t.w = Unset THEN Stays(t.h)
  ELSE IF ~Dictable(t.h, t.w) THEN Stays(Drop(t.h, t.w))
  ELSE Then(DictOf(t.h, t.w), LAMBDA m : Enters(AllBound(m), Body(c, <<t.w>>, m.d)))

With(c) ==
  IF slots[c.var] = Unset THEN Follows(Stays(heap))
  ELSE /\ Then(GetAt(heap, slots[c.var], c.at), NamesOnly)
       /\ Follows(Unpack(c, GetAt(heap, slots[c.var], c.at)))

Update(c) ==
  LET w == EmptyIfUnset(slots[c.var])
      k == c.at[1]
      Local(m) == IF k \in KeysOf(m.d) THEN Bound(Left(m.h, slots), c.to[1], Get(m.d, k)) ELSE Left(m.h, slots)
  IN  IF ~Dictable(heap, w) THEN Follows(Stays(heap))
      ELSE Follows(Then(DictOf(Dup(heap, w), w), LAMBDA m : Enters(Local(m), Body(c, <<w>>, m.d))))

(* The key is a new string, the value is shared.                           *)
Bind(h, s, c, p) == Then(OfStr(h, p[1]), LAMBDA k : Bound(Keep(k.h, s, c.to[1], k.w), c.to[2], p[2]))

Given(h, c, d) == IF c.do = "for" THEN Left(h, slots) ELSE Stored(OfDict(h, d), slots, c.var)

Begins(c, v) ==
  IF ~Dictable(v.h, v.w) THEN Stays(Drop(v.h, v.w))
  ELSE Then(DictOf(v.h, v.w), LAMBDA m :
         IF m.d = <<>> THEN Goes(Given(Drop(m.h, v.w), c, <<>>), bodies)
         ELSE Enters(Bind(m.h, slots, c, m.d[1]), Body(c, <<v.w>>, m.d)))

Each(c) == Follows(IF Has(c.with) THEN Begins(c, Operand(c.with)) ELSE Stays(heap))

(* dict_with_writeback: into the dict the variable has now.                *)
ReadBack(m, p) == Then(slots[p[2]], LAMBDA e : IF e = Unset THEN Without(m, p[1])
                                               ELSE Insert(Pairing(Dup(m.h, e), m.d), p[1], e))
RECURSIVE Gathered(_, _, _, _)
Gathered(h, w, path, from) ==
  IF ~Dictable(h, w) THEN Failed(h)
  ELSE Then(DictOf(h, w), LAMBDA m :
         IF path = <<>> THEN Then(FoldLeft(ReadBack, m, from), LAMBDA g : OfDict(g.h, g.d))
         ELSE Into(m, Gathered(m.h, OrEmpty(m.d, path[1]), Tail(path), from), path[1]))

WroteBack(h, c, path, from) ==
  IF slots[c.var] = Unset THEN Left(h, slots)
  ELSE Stored(Gathered(h, slots[c.var], path, from), slots, c.var)

EndWith(b, end) ==
  Leaves(IF end = "error" THEN Left(Released(heap, b), slots)
         ELSE WroteBack(Released(heap, b), b.cmd, b.cmd.at,
                        [i \in DOMAIN b.dict |-> <<b.dict[i][1], Named(b.dict[i][1])>>]))
EndUpdate(b) == Leaves(WroteBack(Released(heap, b), b.cmd, <<>>, <<<<b.cmd.at[1], b.cmd.to[1]>>>>))

(* One turn of a loop over a dict: what its body gave goes into the result *)
(* of a map, the pair itself into that of a filter.                        *)
Collect(b, v, p) ==
  CASE b.cmd.do = "for" -> Pairing(Drop(v.h, v.w), b.got)
    [] b.cmd.do = "map" -> Insert(Pairing(v.h, b.got), p[1], v.w)
    [] b.cmd.do = "filter" /\ TextOf(v.h, v.w)[2] = 0 -> Pairing(Drop(v.h, v.w), b.got)
    [] OTHER -> Insert(Pairing(Drop(Dup(v.h, p[2]), v.w), b.got), p[1], p[2])

Turns(b, g, end) ==
  IF end = "break" \/ Len(b.dict) = 1
  THEN Leaves(Given(DropAll(g.h, b.held), b.cmd, g.d))
  ELSE Goes(Bind(g.h, slots, b.cmd, b.dict[2]),
            [bodies EXCEPT ![Len(bodies)] = [b EXCEPT !.dict = Tail(b.dict), !.got = g.d]])
Fails(b) == Leaves(Left(Released(heap, b), slots))

EndEach(b, end, src) ==
  IF end = "error" \/ (end = "ok" /\ ~Has(src)) THEN Fails(b)
  ELSE IF end # "ok" THEN Turns(b, Pairing(heap, b.got), end)
  ELSE Then(Operand(src), LAMBDA v :
         IF b.cmd.do = "filter" /\ ~IsInt(TextOf(v.h, v.w)) THEN Leaves(Left(Released(Drop(v.h, v.w), b), slots))
         ELSE Turns(b, Collect(b, v, b.dict[1]), end))

End(c) ==
  /\ bodies # <<>>
  /\ LET b == Last(bodies)
     IN  Follows(CASE b.cmd.do = "with"   -> EndWith(b, c.to[1])
                   [] b.cmd.do = "update" -> EndUpdate(b)
                   [] OTHER               -> EndEach(b, c.to[1], c.with))

-----------------------------------------------------------------------------
TextIn(h, w)  == IF w = Unset THEN Missing ELSE TextOf(h, w)
TextsIn(h, d) == [i \in DOMAIN d |-> <<d[i][1], TextOf(h, d[i][2])>>]

Do(c) ==
  /\ did' = c
  /\ CASE c.do = "unset"  -> UnsetVar(c)
       [] c.do = "read"   -> Read(c)
       [] c.do = "with"   -> With(c)
       [] c.do = "update" -> Update(c)
       [] c.do \in {"for", "map", "filter"} -> Each(c)
       [] c.do = "end"    -> End(c)
       [] OTHER           -> Change(c)

Init == /\ heap = [b \in Boxes |-> IF b <= 3 THEN Cached[b] ELSE Free]
        /\ slots = [x \in Vars |-> Unset]
        /\ bodies = <<>> /\ did = Missing
Next == \E c \in Commands : Do(c)
Spec == Init /\ [][Next]_vars

-----------------------------------------------------------------------------
Plain == INSTANCE PlainValues WITH
  store  <- [x \in Vars |-> TextIn(heap, slots[x])],
  bodies <- [i \in DOMAIN bodies |-> [cmd  |-> bodies[i].cmd,
                                      dict |-> TextsIn(heap, bodies[i].dict),
                                      got  |-> TextsIn(heap, bodies[i].got)]]

(* Sharing, copies on write, caches of texts and changes in place are not  *)
(* to be seen: each command does to the texts of the variables what it     *)
(* says, leaves every other variable alone, and a body that changes the    *)
(* variable of its dict command does not disturb the dict it goes through. *)
ValuesArePlain == Plain!PlainSpec

(* A box counts the words that lead to it, so that one word is all there   *)
(* is when it is changed in place, and none when it is used for the next   *)
(* value: the words of variables, of lists and dicts, of dict commands     *)
(* under way, and the thread's own of its three shared values.             *)
CountsAreExact ==
  LET In(q, b) == Quantify(DOMAIN q, LAMBDA i : q[i] = Ptr(b))
  IN  \A b \in Boxes :
        heap[b].rc = (IF b <= 3 THEN 1 ELSE 0)
                     + Quantify(Vars, LAMBDA x : slots[x] = Ptr(b))
                     + MapThenSumSet(LAMBDA c : In(RepWords(heap[c].rep), b),
                                     {c \in Boxes : heap[c] # Free})
                     + MapThenSumSet(LAMBDA i : In(bodies[i].held \o Values(bodies[i].got), b),
                                     DOMAIN bodies)
=============================================================================
