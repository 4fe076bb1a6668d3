------------------------------- MODULE Lists -------------------------------
(***************************************************************************)
(* The commands that take lists apart and put them together (list.rs).  A  *)
(* list is the sequence of its elements, an element is a text, which may   *)
(* be that of a list.  Before them, numbers and indices as commands read   *)
(* them (list.rs, list_sort.rs, string_cmds.rs): integers in four bases,   *)
(* an index as a number or the end, plus or minus a number, and the second *)
(* reader of indices, the one of -index, that keeps an index for lists it  *)
(* has not seen.                                                           *)
(***************************************************************************)
EXTENDS ListText

CONSTANTS IntBits,          \* width of an integer: 64 in the code
          IndexBits         \* width of an index: 32 in the code

Some(v) == [ok |-> TRUE, val |-> v]
None    == [ok |-> FALSE, val |-> 0]

TrimLeft(s, set)  == SubSeq(s, SkipAll(s, 1, set), Len(s))
TrimRight(s, set) == Reverse(TrimLeft(Reverse(s), set))
Trim(s) == TrimLeft(TrimRight(s, TclSpace), TclSpace)

-----------------------------------------------------------------------------
(* Integers.                                                               *)

RadixOf == [x |-> 16, X |-> 16, b |-> 2, B |-> 2, o |-> 8, O |-> 8]

MaxInt == 2 ^ (IntBits - 1) - 1
Saturated(n) == Max({-MaxInt - 1, Min({MaxInt, n})})

(* scan_tcl_int: the integer that a text begins with, and what is used of  *)
(* it (nothing: none).  A zero before anything is a base eight; a number   *)
(* is read before its sign is applied.                                     *)
Based(radix, from, zero) == [radix |-> radix, from |-> from, zero |-> zero]
BaseAt(s, i) ==
  CASE At(s, i) # "0" \/ At(s, i + 1) = "end" -> Based(10, i, FALSE)
    [] At(s, i) = "0" /\ At(s, i + 1) \in DOMAIN RadixOf -> Based(RadixOf[s[i + 1]], i + 2, FALSE)
    [] OTHER -> Based(8, i + 1, TRUE)
ScanInt(s) ==
  Then(BaseAt(s, IF At(s, 1) \in {"+", "-"} THEN 2 ELSE 1), LAMBDA base :
  Then(SkipAll(s, base.from, {Digits[k] : k \in 1..base.radix}), LAMBDA to :
  Then(Number(s, base.from, to, base.radix, 0), LAMBDA number :
    CASE to > base.from /\ number <= MaxInt -> [used |-> to - 1, val |-> IF At(s, 1) = "-" THEN -number ELSE number]
      [] to = base.from /\ base.zero -> [used |-> to - 1, val |-> 0]
      [] OTHER -> [used |-> 0, val |-> 0])))

(* tcl_get_int: of a whole text.                                           *)
GetInt(s) ==
  Then(Trim(s), LAMBDA t : Then(ScanInt(t), LAMBDA r : IF r.used # 0 /\ r.used = Len(t) THEN Some(r.val) ELSE None))

(* is_tcl_integer, which does not read the number.                         *)
Signless(s) == IF At(s, 1) \in {"+", "-"} THEN Tail(s) ELSE s
IsTclInteger(s) ==
  Then(Signless(TrimLeft(TrimRight(s, TclSpace \ {"vt"}), TclSpace \ {"vt"})), LAMBDA t :
  Then(IF At(t, 1) = "0" /\ At(t, 2) \in DOMAIN RadixOf
       THEN [radix |-> RadixOf[t[2]], body |-> SubSeq(t, 3, Len(t))]
       ELSE [radix |-> IF Len(t) > 1 /\ t[1] = "0" THEN 8 ELSE 10, body |-> t], LAMBDA d :
    /\ d.body # <<>> /\ Range(d.body) \subseteq {Digits[k] : k \in 1..d.radix}
    /\ Number(d.body, 1, Len(d.body) + 1, d.radix, 0) <= MaxInt + IF "-" \in Range(s) THEN 1 ELSE 0))

-----------------------------------------------------------------------------
(* Indices.                                                                *)

EndText == <<"e", "n", "d">>
MaxTerm == 2 ^ IndexBits - 1
Within(n) == n \in -MaxTerm..MaxTerm
(* wrap_i32.                                                               *)
WrapIndex(n) == ((n + 2 ^ (IndexBits - 1)) % 2 ^ IndexBits) - 2 ^ (IndexBits - 1)

AddedBy(op, n, m) == IF op = "+" THEN n + m ELSE n - m

(* parse_tcl_index, of a list of len elements.                             *)
FirstTerm(t, len) == IF IsPrefix(EndText, t) THEN [used |-> 3, val |-> len - 1] ELSE ScanInt(t)
(* The second term, after an operator that ends at i, no blank between.    *)
SecondTerm(t, i) ==
  IF At(t, i) \in {"+", "-"} /\ At(t, i + 1) \notin TclSpace THEN GetInt(SubSeq(t, i + 1, Len(t))) ELSE None
ParseIndex(s, len) ==
  Then(Trim(s), LAMBDA t : Then(FirstTerm(t, len), LAMBDA first : Then(SecondTerm(t, first.used + 1), LAMBDA second :
    CASE first.used = 0 \/ (~IsPrefix(EndText, t) /\ ~Within(first.val)) -> None
      [] OTHER ->
         CASE first.used = Len(t) -> Some(WrapIndex(first.val))
           [] first.used # Len(t) /\ second.ok /\ Within(second.val) ->
                Some(WrapIndex(AddedBy(t[first.used + 1], first.val, second.val)))
           [] OTHER -> None)))

(* validate_index_spec, and the same of lsearch: an index that cannot be   *)
(* before the first element nor, from the end, after the last.             *)
Plain(n)     == [why |-> "ok", from |-> "start", n |-> n]
FromEnd(n)   == [why |-> "ok", from |-> "end", n |-> n]
BadSpec(why) == [why |-> why, from |-> "start", n |-> 0]
SpecOf(n) == IF n < 0 THEN BadSpec("cannot select") ELSE Plain(n)
EncodeEnd(rest) ==
  Then(GetInt(Tail(rest)), LAMBDA off :
    CASE rest[1] \notin {"+", "-"} \/ ~off.ok -> BadSpec("bad index")
      [] OTHER -> IF AddedBy(rest[1], 0, off.val) > 0 THEN BadSpec("cannot select")
                  ELSE FromEnd(AddedBy(rest[1], 0, off.val)))
SumOf(t) ==
  Then(ScanInt(t), LAMBDA first : Then(SecondTerm(t, first.used + 1), LAMBDA second :
    IF first.used # 0 /\ second.ok THEN Some(AddedBy(t[first.used + 1], first.val, second.val)) ELSE None))
Encode(s) ==
  Then(Trim(s), LAMBDA t : Then(GetInt(t), LAMBDA whole : Then(SumOf(t), LAMBDA sum :
    CASE whole.ok -> SpecOf(whole.val)
      [] ~whole.ok /\ sum.ok -> SpecOf(Saturated(sum.val))
      [] ~whole.ok /\ ~sum.ok /\ s = EndText -> FromEnd(0)
      [] ~whole.ok /\ ~sum.ok /\ s # EndText /\ IsPrefix(EndText, s) -> EncodeEnd(SubSeq(s, 4, Len(s)))
      [] OTHER -> BadSpec("bad index"))))

(* IndexSpec.decode.                                                       *)
Decode(spec, last) == IF spec.from = "end" THEN last + spec.n ELSE spec.n

-----------------------------------------------------------------------------
(* Elements and ranges.                                                    *)

Answer(x)   == [why |-> "ok", x |-> x]
Refuse(why) == [why |-> why, x |-> <<>>]

(* What F makes of an index, or of two.                                    *)
OnIndex(t, len, F(_)) ==
  Then(ParseIndex(t, len), LAMBDA i : IF i.ok THEN F(i.val) ELSE Refuse("bad index"))
OnRange(t, u, len, F(_, _)) == OnIndex(t, len, LAMBDA i : OnIndex(u, len, LAMBDA j : F(i, j)))
OnList(t, F(_)) == Then(ParseList(t), LAMBDA l : IF l.why = "ok" THEN F(l.items) ELSE Refuse(l.why))

Before(l, i) == SubSeq(l, 1, i)              \* the elements before index i
From(l, i)   == SubSeq(l, i + 1, Len(l))     \* those from index i on

-----------------------------------------------------------------------------
(* Elements and ranges.                                                    *)

(* One index is itself a list of indices, unless it is no list.            *)
IndexPath(args) ==
  IF Len(args) # 1 THEN args
  ELSE Then(ParseList(args[1]), LAMBDA l : IF l.why = "ok" THEN l.items ELSE args)

RECURSIVE Descend(_, _)
Descend(t, path) ==
  IF path = <<>> THEN Answer(t)
  ELSE OnList(t, LAMBDA l : OnIndex(Head(path), Len(l), LAMBDA i :
         IF i \in 0..(Len(l) - 1) THEN Descend(l[i + 1], Tail(path)) ELSE Answer(<<>>)))
Lindex(t, args) == Descend(t, IndexPath(args))

Lrange(l, t, u) ==
  OnRange(t, u, Len(l), LAMBDA i, j :
    Then(Max({i, 0}), LAMBDA first : Then(Min({j, Len(l) - 1}), LAMBDA last :
      Answer(IF first <= last THEN SubSeq(l, first + 1, last + 1) ELSE <<>>))))

Linsert(l, t, items) ==
  OnIndex(t, Len(l) + 1, LAMBDA i :
    Then(Max({0, Min({i, Len(l)})}), LAMBDA at : Answer(Before(l, at) \o items \o From(l, at))))

(* A mutant: the end is not compared with the beginning.                   *)
LreplaceFromLast(l, t, u, items) ==
  OnRange(t, u, Len(l), LAMBDA i, j :
    Then(Max({0, Min({i, Len(l)})}), LAMBDA first : Then(Min({j, Len(l) - 1}), LAMBDA last :
      Answer(Before(l, first) \o items \o From(l, Max({last + 1, 0}))))))
(* A range that ends before it begins takes out nothing.                   *)
Lreplace(l, t, u, items) ==
  OnRange(t, u, Len(l), LAMBDA i, j :
    Then(Max({0, Min({i, Len(l)})}), LAMBDA first : Then(Min({j, Len(l) - 1}), LAMBDA last :
      Answer(Before(l, first) \o items \o From(l, IF last >= first THEN last + 1 ELSE first)))))

(* lset_nested: an index of the length adds an element.                    *)
RECURSIVE LsetNested(_, _, _)
LsetNested(l, path, value) ==
  OnIndex(Head(path), Len(l), LAMBDA i :
    IF i \notin 0..Len(l) THEN Refuse("list index out of range")
    ELSE Then(IF Len(path) = 1 THEN Answer(value)
              ELSE OnList(IF i = Len(l) THEN <<>> ELSE l[i + 1], LAMBDA sub :
                     Then(LsetNested(sub, Tail(path), value), LAMBDA r :
                       IF r.why = "ok" THEN Answer(SerializeList(r.x)) ELSE r)), LAMBDA new :
           IF new.why = "ok" THEN Answer(Before(l, i) \o <<new.x>> \o From(l, i + 1)) ELSE new))
(* lset, of a variable whose value is t; nothing is written on an error.   *)
Lset(t, args, value) ==
  Then(IF args = <<>> THEN <<>> ELSE IndexPath(args), LAMBDA path :
    IF path = <<>> THEN Answer(value)
    ELSE OnList(t, LAMBDA l : Then(LsetNested(l, path, value), LAMBDA r :
           IF r.why = "ok" THEN Answer(SerializeList(r.x)) ELSE r)))

-----------------------------------------------------------------------------
(* Whole lists.                                                            *)

(* lassign: what the variables are set to, and the elements left.          *)
Lassign(l, nvars) ==
  [sets |-> [k \in 1..nvars |-> IF k <= Len(l) THEN l[k] ELSE <<>>], rest |-> From(l, Min({nvars, Len(l)}))]

Lrepeat(count, items) ==
  Then(GetInt(count), LAMBDA n :
    CASE ~n.ok -> Refuse("expected integer")
      [] n.ok /\ n.val < 0 -> Refuse("bad count")
      [] OTHER -> Answer(FlattenSeq([k \in 1..n.val |-> items])))

(* lappend, to a variable that has a list, a text, or nothing.             *)
Lappend(exists, t, items) ==
  IF exists THEN OnList(t, LAMBDA l : Answer(l \o items)) ELSE Answer(items)

(* split at each of the characters chars, or after every character.        *)
Fields(s, chars) ==
  Then(<<0>> \o SetToSortSeq({i \in DOMAIN s : s[i] \in Range(chars)}, <) \o <<Len(s) + 1>>, LAMBDA cuts :
    [k \in 1..(Len(cuts) - 1) |-> SubSeq(s, cuts[k] + 1, cuts[k + 1] - 1)])
Split(s, chars) ==
  CASE s = <<>> -> <<>>
    [] s # <<>> /\ chars = <<>> -> [i \in DOMAIN s |-> <<s[i]>>]
    [] OTHER -> Fields(s, chars)
Join(l, sep) == FlattenSeq([i \in DOMAIN l |-> (IF i > 1 THEN sep ELSE <<>>) \o l[i]])

(* lmap, of groups of variables and lists: the rounds it makes, what the   *)
(* variables are in one, and what is collected when the bodies complete as *)
(* ends says; a break or continue for an outer loop leaves this one.       *)
Rounds(groups) == Max({0} \cup {(Len(g.data) + g.nvars - 1) \div g.nvars : g \in Range(groups)})
Bound(groups, round) ==
  [g \in DOMAIN groups |-> [v \in 1..groups[g].nvars |->
     Then((round - 1) * groups[g].nvars + v, LAMBDA k : IF k <= Len(groups[g].data) THEN groups[g].data[k] ELSE <<>>)]]
RECURSIVE Collected(_, _)
Collected(ends, got) ==
  CASE ends = <<>> -> [why |-> "ok", x |-> got]
    [] ends # <<>> /\ Head(ends).code = "ok"    -> Collected(Tail(ends), Append(got, Head(ends).value))
    [] ends # <<>> /\ Head(ends).code = "error" -> Refuse("error")
    [] ends # <<>> /\ Head(ends).code \in {"break", "continue"} /\ Head(ends).level > 1 -> Refuse(Head(ends).code)
    [] ends # <<>> /\ Head(ends).code = "break" /\ Head(ends).level = 1 -> Answer(got)
    [] OTHER -> Collected(Tail(ends), got)
=============================================================================
