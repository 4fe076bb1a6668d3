------------------------------ MODULE Sorting ------------------------------
(***************************************************************************)
(* lsort and lsearch (list_sort.rs).  Options come resolved, as records of *)
(* a name and a value; a list is the sequence of its elements.             *)
(*                                                                         *)
(* The sort merges runs as it reads the list: run j has 2^j elements, and  *)
(* a new element is merged with the runs that are in its way, as a binary  *)
(* counter is incremented.                                                 *)
(***************************************************************************)
EXTENDS Strings

RE == INSTANCE RegexpCommands

CONSTANT NumLists           \* runs at a time: 30 in the code

-----------------------------------------------------------------------------
(* Comparing.                                                              *)

(* dict_compare, from i of l and j of r on: runs of digits as numbers, and *)
(* letters without case; what leading zeros and case tell is kept second,  *)
(* for texts that are the same otherwise.                                  *)
ZerosEnd(s, i) == Then(SkipAll(s, i, {"0"}), LAMBDA e : IF At(s, e) \in Decimal \/ e = i THEN e ELSE e - 1)
CompareCase(c, d) ==
  CASE Lower(c) # c /\ Upper(d) # d -> -1
    [] Lower(d) # d /\ Upper(c) # c -> 1
    [] OTHER -> 0
CompareRuns(l, i, r, j) ==
  LET ends == <<SkipAll(l, i, Decimal), SkipAll(r, j, Decimal)>>
  IN IF ends[1] - i # ends[2] - j THEN (ends[1] - i) - (ends[2] - j)
     ELSE CompareSeqs(Codes(Slice(l, i, ends[1])), Codes(Slice(r, j, ends[2])))
RECURSIVE DictFrom(_, _, _, _, _)
DictFrom(l, i, r, j, second) ==
  CASE At(l, i) \in Decimal /\ At(r, j) \in Decimal ->
         Then(ZerosEnd(l, i), LAMBDA a : Then(ZerosEnd(r, j), LAMBDA b :
           IF CompareRuns(l, a, r, b) # 0 THEN CompareRuns(l, a, r, b)
           ELSE DictFrom(l, SkipAll(l, a, Decimal), r, SkipAll(r, b, Decimal),
                         IF second = 0 THEN (a - i) - (b - j) ELSE second)))
    [] i <= Len(l) /\ j <= Len(r) /\ ~(At(l, i) \in Decimal /\ At(r, j) \in Decimal) ->
         Then(Code[Lower(l[i])] - Code[Lower(r[j])], LAMBDA diff :
           IF diff # 0 THEN diff
           ELSE DictFrom(l, i + 1, r, j + 1, IF second = 0 THEN CompareCase(l[i], r[j]) ELSE second))
    [] OTHER -> CASE i <= Len(l) -> 1 [] j <= Len(r) -> -1 [] i > Len(l) /\ j > Len(r) -> second
DictCompare(l, r) == DictFrom(l, 1, r, 1, 0)

(* parse_tcl_double, of numbers without a fraction.                        *)
GetDouble(s) ==
  Then(Signless(Trim(s)), LAMBDA t :
  Then(IF At(t, 1) = "0" /\ At(t, 2) = "x" THEN [radix |-> 16, body |-> SubSeq(t, 3, Len(t))]
       ELSE [radix |-> 10, body |-> t], LAMBDA d :
    IF d.body # <<>> /\ Range(d.body) \subseteq IF d.radix = 16 THEN Hex ELSE Decimal
    THEN Then(Number(d.body, 1, Len(d.body) + 1, d.radix, 0), LAMBDA n : Some(IF At(Trim(s), 1) = "-" THEN -n ELSE n))
    ELSE None))

(* The key of an element under a mode: its text, or a number.              *)
Numeric == {"integer", "real"}
KeyOf(mode, t) ==
  CASE mode = "integer" -> GetInt(t) [] mode = "real" -> GetDouble(t) [] OTHER -> Some(t)
CompareKeys(mode, a, b) ==
  CASE mode \in Numeric      -> a - b
    [] mode = "ascii"        -> CompareSeqs(Codes(a), Codes(b))
    [] mode = "ascii nocase" -> CompareSeqs(Codes(Folded(a, TRUE)), Codes(Folded(b, TRUE)))
    [] mode = "dictionary"   -> DictCompare(a, b)

(* select_from_sublist.                                                    *)
RECURSIVE Select(_, _)
Select(t, specs) ==
  IF specs = <<>> THEN Answer(t)
  ELSE OnList(t, LAMBDA l : Then(Decode(Head(specs), Len(l) - 1), LAMBDA i :
         IF i \in 0..(Len(l) - 1) THEN Select(l[i + 1], Tail(specs)) ELSE Refuse("element missing from sublist")))

(* The specs that an -index names, and the value of a -stride.             *)
IndexSpecs(o, t) ==
  Then(ParseList(t), LAMBDA l : Then([k \in DOMAIN l.items |-> Encode(l.items[k])], LAMBDA specs :
    Then({k \in DOMAIN specs : specs[k].why # "ok"}, LAMBDA bad :
      CASE l.why # "ok" -> [o EXCEPT !.why = l.why]
        [] l.why = "ok" /\ bad # {} -> [o EXCEPT !.why = specs[Min(bad)].why]
        [] OTHER -> [o EXCEPT !.specs = specs])))
Stride(o, t, least) ==
  Then(GetInt(t), LAMBDA n :
    CASE ~n.ok -> [o EXCEPT !.why = "expected integer"]
      [] n.ok /\ n.val < least -> [o EXCEPT !.why = "bad stride"]
      [] OTHER -> [o EXCEPT !.stride = n.val])

(* With a stride the first spec chooses in the group, the rest inside.     *)
Grouped(o) == o.stride > 1 /\ o.specs # <<>>
OffsetIn(o) == IF Grouped(o) THEN Decode(o.specs[1], o.stride - 1) ELSE 0
SpecsIn(o)  == IF Grouped(o) THEN Tail(o.specs) ELSE o.specs
GroupFault(o, l) ==
  CASE Len(l) % o.stride # 0 -> "bad stride"
    [] Len(l) % o.stride = 0 /\ OffsetIn(o) \notin 0..(o.stride - 1) -> "bad index"
    [] OTHER -> "ok"
(* The compared text of the group that begins at p.                        *)
ItemAt(o, l, p) == Select(l[p + OffsetIn(o) + 1], SpecsIn(o))

-----------------------------------------------------------------------------
(* lsort.                                                                  *)

NoSortOptions ==
  [mode |-> "ascii", nocase |-> FALSE, increasing |-> TRUE, unique |-> FALSE, indices |-> FALSE,
   answers |-> <<>>, specs |-> <<>>, stride |-> 1, why |-> "ok"]
SortOption(o, a) ==
  CASE a.opt \in {"ascii", "integer", "real", "dictionary"} -> [o EXCEPT !.mode = a.opt]
    [] a.opt = "command" -> [o EXCEPT !.mode = a.opt, !.answers = a.val]
    [] a.opt \in {"increasing", "decreasing"} -> [o EXCEPT !.increasing = (a.opt = "increasing")]
    [] a.opt = "index"  -> IndexSpecs(o, a.val)
    [] a.opt = "stride" -> Stride(o, a.val, 2)
    [] a.opt \in {"nocase", "unique", "indices"} -> [o EXCEPT ![a.opt] = TRUE]
SortOptions(args) ==
  Then(FoldLeft(LAMBDA o, a : IF o.why = "ok" THEN SortOption(o, a) ELSE o, NoSortOptions, args), LAMBDA o :
    IF o.nocase /\ o.mode = "ascii" THEN [o EXCEPT !.mode = "ascii nocase"] ELSE o)

(* sort_compare, of elements a and b of s; what a -command answers is in   *)
(* answers, a number or an error.                                          *)
Directed(s, n) == IF s.o.increasing THEN n ELSE -n
SortCompare(s, a, b) ==
  IF s.o.mode # "command" THEN Answer(Directed(s, CompareKeys(s.o.mode, s.keys[a], s.keys[b])))
  ELSE Then(s.o.answers[<<s.keys[a], s.keys[b]>>], LAMBDA r :
         IF r.ok THEN Answer(Directed(s, r.val)) ELSE Refuse("comparison failed"))

(* merge_lists: equal elements stay in their order, or the left one goes.  *)
(* After an error, which is a run of its own, nothing is compared.         *)
Failed == <<0>>
RECURSIVE Merge(_, _, _)
Merge(s, left, right) ==
  CASE left = Failed \/ right = <<>> -> left
    [] left # Failed /\ right # <<>> /\ (right = Failed \/ left = <<>>) -> right
    [] OTHER -> Then(SortCompare(s, left[1], right[1]), LAMBDA c :
         CASE c.why # "ok" -> Failed
           [] c.why = "ok" /\ (c.x > 0 \/ (c.x = 0 /\ s.o.unique)) ->
                Then(Merge(s, IF c.x = 0 THEN Tail(left) ELSE left, Tail(right)), LAMBDA rest :
                  IF rest = Failed THEN Failed ELSE <<right[1]>> \o rest)
           [] OTHER ->
                Then(Merge(s, Tail(left), right), LAMBDA rest :
                  IF rest = Failed THEN Failed ELSE <<left[1]>> \o rest))

(* One more element: the runs in its way are merged with it.               *)
AddTo(s, runs, e) ==
  LET taken == Min({k \in 0..NumLists : k = NumLists \/ runs[k + 1] = <<>>})
      run   == FoldLeft(LAMBDA right, left : Merge(s, left, right), <<e>>, SubSeq(runs, 1, taken))
  IN [k \in DOMAIN runs |-> CASE k = Min({taken + 1, NumLists}) -> run [] k <= taken /\ k # NumLists -> <<>> [] OTHER -> runs[k]]
(* A mutant: the later run comes first.                                    *)
MergeAllSwapped(s, runs) == FoldLeft(LAMBDA right, left : Merge(s, right, left), <<>>, runs)
MergeAll(s, runs) == FoldLeft(LAMBDA right, left : Merge(s, left, right), <<>>, runs)
Sorted(s) ==
  MergeAll(s, FoldLeft(LAMBDA runs, e : AddTo(s, runs, e), [k \in 1..NumLists |-> <<>>],
                       [e \in DOMAIN s.keys |-> e]))

(* What the answer shows of the element e.                                 *)
Shown(o, l, e) ==
  Then([k \in 1..o.stride |-> (e - 1) * o.stride + k], LAMBDA at :
    IF o.indices THEN [k \in DOMAIN at |-> at[k] - 1] ELSE [k \in DOMAIN at |-> l[at[k]]])

(* cmd_lsort.                                                              *)
Lsort(args, l) ==
  Then(SortOptions(args), LAMBDA o : Then(GroupFault(o, l), LAMBDA fault :
    CASE o.why # "ok" -> Refuse(o.why)
      [] o.why = "ok" /\ l = <<>> -> Answer(<<>>)
      [] o.why = "ok" /\ l # <<>> /\ fault # "ok" -> Refuse(fault)
      [] OTHER ->
         Then([e \in 1..(Len(l) \div o.stride) |-> ItemAt(o, l, (e - 1) * o.stride)], LAMBDA items :
         Then([e \in DOMAIN items |-> KeyOf(o.mode, items[e].x)], LAMBDA keys :
         Then({e \in DOMAIN items : items[e].why # "ok" \/ ~keys[e].ok}, LAMBDA bad :
           IF bad # {}
           THEN Refuse(IF items[Min(bad)].why # "ok" THEN items[Min(bad)].why ELSE "expected number")
           ELSE Then([o |-> o, keys |-> [e \in DOMAIN keys |-> keys[e].val]], LAMBDA s : Then(Sorted(s), LAMBDA order :
                  IF order = Failed THEN Refuse("comparison failed")
                  ELSE Answer(FlattenSeq([k \in DOMAIN order |-> Shown(o, l, order[k])])))))))))

-----------------------------------------------------------------------------
(* lsearch.                                                                *)

NoSearchOptions ==
  [mode |-> "glob", data |-> "ascii", increasing |-> TRUE, all |-> FALSE, inline |-> FALSE,
   subindices |-> FALSE, not |-> FALSE, nocase |-> FALSE, bisect |-> FALSE, bool |-> FALSE,
   answers |-> <<>>, specs |-> <<>>, stride |-> 1, start |-> <<>>, prog |-> <<>>, why |-> "ok"]
SearchOption(o, a) ==
  CASE a.opt \in {"ascii", "integer", "real", "dictionary"} -> [o EXCEPT !.data = a.opt]
    [] a.opt \in {"exact", "glob", "regexp", "sorted"} -> [o EXCEPT !.mode = a.opt]
    [] a.opt = "bisect"  -> [o EXCEPT !.mode = "sorted", !.bisect = TRUE]
    [] a.opt = "command" -> [o EXCEPT !.answers = a.val]
    [] a.opt \in {"increasing", "decreasing"} -> [o EXCEPT !.increasing = (a.opt = "increasing")]
    [] a.opt = "index"  -> IndexSpecs(o, a.val)
    [] a.opt = "stride" -> Stride(o, a.val, 1)
    [] a.opt = "start"  -> [o EXCEPT !.start = <<a.val>>]
    [] OTHER -> [o EXCEPT ![a.opt] = TRUE]
SearchOptions(args) ==
  Then(FoldLeft(LAMBDA o, a : IF o.why = "ok" THEN SearchOption(o, a) ELSE o, NoSearchOptions, args), LAMBDA o :
    IF /\ o.why = "ok"
       /\ (o.subindices /\ o.specs = <<>>) \/ (o.bisect /\ (o.all \/ o.not))
    THEN [o EXCEPT !.why = "bad option mix"] ELSE o)

LeftOf(o, p) == p - (p % o.stride)          \* where the group of p begins
(* Where the search begins: at the first of a group, or past every one.    *)
StartAt(o, l) ==
  IF o.start = <<>> THEN Some(0)
  ELSE Then(ParseIndex(o.start[1], Len(l)), LAMBDA i :
         IF ~i.ok THEN None
         ELSE Then(Max({0, i.val}), LAMBDA at : Some(IF at >= Len(l) THEN at ELSE LeftOf(o, at))))

DataMode(o) == IF o.data = "ascii" /\ o.nocase THEN "ascii nocase" ELSE o.data
(* The pattern against an item, as numbers or as texts; what is no number  *)
(* ends the search.                                                        *)
Against(o, pat, item) ==
  Then(KeyOf(DataMode(o), item), LAMBDA key :
    IF key.ok THEN Answer(CompareKeys(DataMode(o), KeyOf(DataMode(o), pat).val, key.val)) ELSE Refuse("expected number"))

NoSwitch(nocase) == [nocase |-> nocase, expanded |-> FALSE, lineanchor |-> FALSE, linestop |-> FALSE]
(* The options with the compiled pattern.                                  *)
Prepared(o, pat) ==
  IF o.why # "ok" \/ o.mode # "regexp" THEN o
  ELSE Then(RE!Compile(pat, NoSwitch(o.nocase)), LAMBDA prog : [o EXCEPT !.prog = prog, !.why = prog.why])
Matches(o, pat, item) ==
  CASE o.answers # <<>> -> Answer(o.answers[<<pat, item>>])
    [] o.answers = <<>> /\ o.mode \in {"exact", "sorted"} ->
         IF o.data = "ascii" /\ Len(pat) # Len(item) THEN Answer(FALSE)
         ELSE Then(Against(o, pat, item), LAMBDA c : IF c.why = "ok" THEN Answer(c.x = 0) ELSE c)
    [] o.answers = <<>> /\ o.mode = "glob" -> Answer(GlobMatch(Folded(pat, o.nocase), Folded(item, o.nocase)))
    [] o.answers = <<>> /\ o.mode = "regexp" ->
         Answer(RE!Attempt(pat, o.prog, item, 1) # <<>>)

(* The groups from p on that match, all of them or the first.              *)
RECURSIVE Scanned(_, _, _, _)
Scanned(o, l, pat, p) ==
  IF p >= Len(l) THEN Answer(<<>>)
  ELSE Then(ItemAt(o, l, p), LAMBDA item :
    IF item.why # "ok" THEN item
    ELSE Then(Matches(o, pat, item.x), LAMBDA m :
      CASE m.why # "ok" -> m
        [] m.why = "ok" /\ m.x # o.not /\ ~o.all -> Answer(<<p>>)
        [] OTHER -> Then(Scanned(o, l, pat, p + o.stride), LAMBDA rest :
             IF rest.why = "ok" /\ m.x # o.not THEN Answer(<<p>> \o rest.x) ELSE rest)))

(* The binary search: lower is before the pattern or, when bisecting, not  *)
(* after it; index is the last that was equal.                             *)
RECURSIVE Halved(_, _, _, _, _, _)
Halved(o, l, pat, lower, upper, index) ==
  IF lower + o.stride = upper THEN Answer(IF o.bisect /\ index < 0 THEN lower ELSE index)
  ELSE Then(LeftOf(o, (lower + upper) \div 2), LAMBDA mid :
       Then(ItemAt(o, l, mid), LAMBDA item :
         IF item.why # "ok" THEN item
         ELSE Then(Against(o, pat, item.x), LAMBDA c :
           CASE c.why # "ok" -> c
             [] c.why = "ok" /\ c.x = 0 ->
                  IF o.bisect THEN Halved(o, l, pat, mid, upper, mid) ELSE Halved(o, l, pat, lower, mid, mid)
             [] c.why = "ok" /\ c.x # 0 ->
                  IF (c.x > 0) = o.increasing THEN Halved(o, l, pat, mid, upper, index)
                  ELSE Halved(o, l, pat, lower, mid, index))))
(* The positions found: one of them, negative if there is none, unless all *)
(* are asked for.                                                          *)
Found(o, l, pat, start) ==
  IF o.mode = "sorted" /\ ~o.all /\ ~o.not
  THEN Then(Halved(o, l, pat, start - o.stride, Len(l), -1), LAMBDA r :
         IF r.why # "ok" THEN r ELSE Answer(<<r.x>>))
  ELSE Then(Scanned(o, l, pat, start), LAMBDA r :
         IF r = Answer(<<>>) /\ ~o.all THEN Answer(<<-1>>) ELSE r)

(* What is shown of the group found at p.                                  *)
PathTo(o, l, p) ==
  <<p + OffsetIn(o)>> \o [k \in DOMAIN SpecsIn(o) |-> Decode(SpecsIn(o)[k], Len(l))]
FoundIn(o, l, p) ==
  CASE ~o.inline -> IF o.subindices THEN PathTo(o, l, p) ELSE <<p>>
    [] o.inline /\ p < 0 -> <<>>
    [] o.inline /\ p >= 0 /\ o.subindices -> <<ItemAt(o, l, p).x>>
    [] OTHER -> SubSeq(l, p + 1, p + o.stride)
(* -all shows a group from its compared element on.                        *)
AllIn(o, l, p) ==
  IF o.inline /\ ~o.subindices
  THEN Then(p + OffsetIn(o), LAMBDA at : SubSeq(l, at + 1, Min({at + o.stride, Len(l)})))
  ELSE FoundIn(o, l, p)

(* cmd_lsearch.                                                            *)
Lsearch(args, l, pat) ==
  Then(Prepared(SearchOptions(args), pat), LAMBDA o : Then(StartAt(o, l), LAMBDA start : Then(GroupFault(o, l), LAMBDA fault :
    CASE o.why # "ok" -> Refuse(o.why)
      [] o.why = "ok" /\ fault # "ok" -> Refuse(fault)
      [] o.why = "ok" /\ ~start.ok -> Refuse("bad index")
      [] o.why = "ok" /\ o.start # <<>> /\ start.ok /\ start.val >= Len(l) ->
           Answer(IF o.all \/ o.inline THEN <<>> ELSE <<-1>>)
      [] o.why = "ok" /\ o.mode \in {"exact", "sorted"} /\ ~KeyOf(o.data, pat).ok -> Refuse("expected number")
      [] OTHER -> Then(Found(o, l, pat, start.val), LAMBDA r :
           CASE r.why # "ok" -> r
             [] r.why = "ok" /\ o.bool -> Answer(\E p \in Range(r.x) : p >= 0)
             [] r.why = "ok" /\ ~o.bool /\ o.all -> Answer(FlattenSeq([k \in DOMAIN r.x |-> AllIn(o, l, r.x[k])]))
             [] OTHER -> Answer(FoundIn(o, l, r.x[1]))))))
=============================================================================
