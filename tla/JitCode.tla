------------------------------ MODULE JitCode -------------------------------
(* What rtcl-jit makes of a unit (rtcl-jit/src/pass).  One walk through the *)
(* code, as if control only ever fell through, gives every instruction its  *)
(* registers, its loops and its open regions (alloc_locals).  The jumps     *)
(* become ifs, loops and blocks (lower), which are laid out with every      *)
(* branch resolved to the innermost label of its target (phase B, and the   *)
(* meaning of wasm's br).  A unit that does not fit is refused, and runs on *)
(* the executor.                                                            *)
EXTENDS Bytecode, SequencesExt, FiniteSets, TLC

(* stack_effect: the values an instruction takes and leaves.                *)
Takes(i) == CASE i.op = "call" -> i.x.n
              [] i.op \in {"pop", "jumpfalse", "return", "foreachstart", "collect",
                           "evalscript", "storevar"} -> 1
              [] OTHER -> 0
Gives(i) == IF i.op \in {"push", "test", "call", "evalscript", "storevar", "incrvar", "foreachend"}
            THEN 1 ELSE 0
After(depth, i) == (IF depth > Takes(i) THEN depth - Takes(i) ELSE 0) + Gives(i)

(* --- alloc_locals --------------------------------------------------------- *)
Bare == [depth |-> 0, site |-> <<>>, bodies |-> <<>>, loops |-> <<>>]
Inside(s, kind) == [s EXCEPT !.bodies = Append(@, [kind |-> kind, site |-> s.site])]
Outside(s) == IF s.bodies = <<>> THEN s
              ELSE [s EXCEPT !.site = Last(s.bodies).site, !.bodies = Front(@)]
Looping(s, pc, cont, brk) ==
  [s EXCEPT !.loops = Append(@, [cont |-> pc + cont, brk |-> pc + brk,
                                 bodies |-> Len(s.bodies), owner |-> s.site])]
Unlooped(s) == IF s.loops = <<>> THEN s ELSE [s EXCEPT !.loops = Front(@)]
Kept(s, n) == IF n < Len(s) THEN SubSeq(s, 1, n) ELSE s
Truncated(s) == IF s.loops = <<>> THEN s
                ELSE [s EXCEPT !.bodies = Kept(@, Last(s.loops).bodies), !.site = Last(s.loops).owner]

Advanced(s, pc, i) ==
  LET t == [s EXCEPT !.depth = After(@, i)]
  IN CASE i.op = "begincmd" -> [t EXCEPT !.site = i.at.own]
       [] i.op = "nextmark" -> Inside(t, "next")
       [] i.op \in {"submark", "exprmark", "bodymark", "jumpfalse"} -> Inside(t, "other")
       [] i.op \in {"subend", "jump"} -> Outside(t)
       [] i.op = "loopenter" -> Looping(t, pc, i.x.cont, i.x.brk)
       [] i.op = "foreachstart" -> Looping(t, pc, i.x.next, i.x.end)
       [] i.op \in {"loopexit", "foreachend"} -> Unlooped(t)
       [] i.op \in {"foreachnext", "break", "continue"} -> Truncated(t)
       [] OTHER -> t
Contexts(code) == FoldLeftDomain(LAMBDA all, pc : Append(all, Advanced(Last(all), pc, code[pc])), <<Bare>>, code)

(* Where a continue that comes out of a call in a next script goes: past    *)
(* its loop, and past every loop in whose next script that loop stands.     *)
NoEscape == -1
EscUnit == 0
NextIn(s, from, to) == \E i \in from + 1 .. to : i <= Len(s.bodies) /\ s.bodies[i].kind = "next"
RECURSIVE EscapeTo(_, _, _)
EscapeTo(s, k, upper) ==
  IF k = 0 THEN EscUnit
  ELSE IF NextIn(s, s.loops[k].bodies, upper) THEN EscapeTo(s, k - 1, s.loops[k].bodies)
  ELSE s.loops[k].cont
Esc(s) == IF s.loops = <<>> \/ ~NextIn(s, Last(s.loops).bodies, Len(s.bodies)) THEN NoEscape
          ELSE EscapeTo(s, Len(s.loops) - 1, Last(s.loops).bodies)

Edges(code, at, pc) ==
  LET i == code[pc]
      on == {pc + 1} \cap 1..Len(code)
  IN CASE i.op = "jump" -> {pc + i.x}
       [] i.op = "jumpfalse" -> {pc + i.x} \cup on
       [] i.op = "return" -> {}
       [] i.op \in {"break", "continue"} ->
            {IF i.op = "break" THEN l.brk ELSE l.cont : l \in {at[pc].loops[k] : k \in {Len(at[pc].loops)} \ {0}}}
       [] OTHER -> on

(* A jump may arrive with fewer values than its target is laid out for only *)
(* where they are dropped at once; a break or continue also with more.      *)
Fits(code, at, pc, t) ==
  LET have == at[pc + 1].depth
      want == at[t].depth
  IN \/ want = have
     \/ want < have /\ code[pc].op \in {"break", "continue"}
     \/ want > have /\ \A q \in t .. t + (want - have) - 1 : q <= Len(code) /\ code[q].op = "pop"

(* check_l2: no target past the end, no loop on the spot.                   *)
Checked(code, at, edges) ==
  \A pc \in DOMAIN code : \A t \in edges[pc] : t \in DOMAIN code /\ t # pc /\ Fits(code, at, pc, t)
(* escape: foreach is not taken in a proc's body.                           *)
Escapes(code, locals) == locals => \A pc \in DOMAIN code : code[pc].op # "foreachstart"

(* --- lower ---------------------------------------------------------------- *)
RECURSIVE Reached(_, _)
Reached(edges, set) == LET more == set \cup UNION {edges[pc] : pc \in set}
                       IN IF more = set THEN set ELSE Reached(edges, more)

(* post_dominate: what every way from a place to the end goes through, and  *)
(* of it the nearest.                                                       *)
RECURSIVE Dominated(_, _)
Dominated(edges, dom) ==
  LET end  == Len(dom)
      meet(v) == IF edges[v] = {} THEN {end} ELSE {b \in 1..end : \A t \in edges[v] : b \in dom[t]}
      next == [v \in 1..end |-> IF v = end THEN {end} ELSE meet(v) \cup {v}]
  IN IF next = dom THEN dom ELSE Dominated(edges, next)
PostDominators(edges) == Dominated(edges, [v \in 1..Len(edges) + 1 |-> IF v > Len(edges) THEN {v} ELSE 1..Len(edges) + 1])
Joins(dom, pc, end) ==
  LET after == dom[pc] \ {pc}
      ip == CHOOSE a \in after : \A b \in after :
              \/ Cardinality(dom[b]) < Cardinality(dom[a])
              \/ Cardinality(dom[b]) = Cardinality(dom[a]) /\ b <= a
  IN IF after # {} /\ ip > pc THEN ip ELSE end

(* The tree.                                                                *)
Do1(do, pc)       == [n |-> "op", do |-> do, pc |-> pc]
Br(pc, t, back)   == [n |-> "br", pc |-> pc, to |-> t, back |-> back]
IfDone(do, pc, counter, t) == [n |-> "ifdone", do |-> do, pc |-> pc, counter |-> counter, to |-> t]
Bind(pc, counter) == [n |-> "op", do |-> "bind", pc |-> pc, counter |-> counter]
LoopOf(header, exit, body) == [n |-> "loop", header |-> header, exit |-> exit, body |-> body]
Block(cont, body) == [n |-> "block", cont |-> cont, body |-> body]
Silent == {"begincmd", "pop", "submark", "exprmark", "bodymark", "nextmark", "subend", "loopexit"}

RECURSIVE Structure(_, _, _, _, _), Node(_, _, _, _, _), Onwards(_, _, _, _)
Piece(items, placed, next) == [items |-> items, placed |-> placed, next |-> next]

Prefixed(items, r) == [r EXCEPT !.items = items \o @]

(* seq: the instructions of [pc, end) that are reached and have no place.   *)
Structure(u, pc, end, placed, loops) ==
  IF pc >= end THEN Piece(<<>>, placed, end)
  ELSE IF pc \notin u.reached \/ pc \in placed THEN Structure(u, pc + 1, end, placed, loops)
  ELSE Onwards(u, Node(u, pc, end, placed \cup {pc}, loops), end, loops)
Onwards(u, p, end, loops) == Prefixed(p.items, Structure(u, p.next, end, p.placed, loops))

LoopBody(u, header, cont, brk, placed, loops) ==
  IF cont > header /\ cont < brk
  THEN LET a == Structure(u, header, cont, placed, loops)
           b == Structure(u, cont, brk, a.placed, loops)
       IN Piece(<<Block(cont, a.items)>> \o b.items, b.placed, brk)
  ELSE Structure(u, header, brk, placed, loops)

LowerLoop(u, pc, placed, loops) ==
  LET x == u.code[pc].x
      l == [cont |-> pc + x.cont, brk |-> pc + x.brk]
      b == LoopBody(u, pc + 1, l.cont, l.brk, placed, Append(loops, l))
  IN Piece(<<LoopOf(pc + 1, l.brk, b.items)>>, b.placed \cup {l.brk}, l.brk + 1)

LowerForeach(u, pc, placed, loops) ==
  LET x == u.code[pc].x
      l == [cont |-> pc + x.next, brk |-> pc + x.end]
      b == LoopBody(u, pc + 1, l.cont, l.brk, placed, Append(loops, l))
  IN Piece(<<Do1("foreachstart", pc),
             LoopOf(pc + 1, l.brk, <<IfDone("entry", pc, pc, l.brk)>> \o b.items),
             Do1("foreachend", l.brk)>>, b.placed \cup {l.brk}, l.brk + 1)
LowerForeachNext(u, pc, placed, loops) ==
  LET header == pc + u.code[pc].x
  IN Piece(<<IfDone("step", pc, header - 1, Last(loops).brk), Bind(pc, header - 1), Br(pc, header, TRUE)>>,
           placed, pc + 1)

LowerJump(u, pc, end, placed, loops) ==
  LET t == pc + u.code[pc].x
      skipped == Structure(u, pc + 1, t, placed, loops)
  IN CASE t = pc + 1 \/ t >= end -> Piece(<<>>, placed, pc + 1)
       [] t <= pc -> Piece(<<Br(pc, t, TRUE)>>, placed, pc + 1)
       [] OTHER -> Piece(<<Block(t, <<Br(pc, t, FALSE)>> \o skipped.items)>>, skipped.placed, pc + 1)

(* The arms of an if end where both meet; one that leaves the range goes to *)
(* a label around it.                                                       *)
LowerIf(u, pc, end, placed, loops) ==
  LET t    == pc + u.code[pc].x
      j    == Joins(u.dom, pc, end)
      join == IF t >= end \/ j > end THEN end ELSE j
      far  == IF t >= end THEN Piece(<<Br(pc, t, FALSE)>>, placed, end) ELSE Structure(u, t, join, placed, loops)
      near == Structure(u, pc + 1, join, far.placed, loops)
  IN Piece(<<[n |-> "if", pc |-> pc, j |-> join, then |-> near.items, else |-> far.items]>>, near.placed, join)

LowerLeap(u, pc, placed) ==
  IF u.edges[pc] = {} THEN Piece(<<Do1(u.code[pc].op, pc)>>, placed, pc + 1)
  ELSE LET t == CHOOSE t \in u.edges[pc] : TRUE IN Piece(<<Br(pc, t, t <= pc)>>, placed, pc + 1)

(* template.  A call knows the loops it stands in, by the tree's account.   *)
LowerCall(u, pc, placed, loops) ==
  LET in == loops # <<>>
  IN Piece(<<[n |-> "call", pc |-> pc, brk |-> IF in THEN Last(loops).brk ELSE 0,
              cont |-> IF in THEN Last(loops).cont ELSE 0, esc |-> Esc(u.at[pc])]>>, placed, pc + 1)

Node(u, pc, end, placed, loops) ==
  LET op == u.code[pc].op
  IN CASE op = "loopenter" -> LowerLoop(u, pc, placed, loops)
       [] op = "foreachstart" -> LowerForeach(u, pc, placed, loops)
       [] op = "foreachnext" -> LowerForeachNext(u, pc, placed, loops)
       [] op = "jump" -> LowerJump(u, pc, end, placed, loops)
       [] op = "jumpfalse" -> LowerIf(u, pc, end, placed, loops)
       [] op \in {"break", "continue"} -> LowerLeap(u, pc, placed)
       [] op = "call" -> LowerCall(u, pc, placed, loops)
       [] OTHER -> Piece(IF op \in Silent THEN <<>> ELSE <<Do1(op, pc)>>, placed, pc + 1)

(* --- phase B, instrument, assemble ---------------------------------------- *)
(* The tree laid out in a row, from its end: a place is the number of       *)
(* instructions from it to the end.                                         *)
RECURSIVE Width(_), Lay(_, _, _), LayOne(_, _, _)
WidthOf(x) == CASE x.n = "if" -> 2 + Width(x.then) + Width(x.else)
                [] x.n \in {"loop", "block"} -> Width(x.body)
                [] x.n = "br" /\ x.back -> 2
                [] OTHER -> 1
Width(s) == IF s = <<>> THEN 0 ELSE WidthOf(Head(s)) + Width(Tail(s))

(* The place of the innermost label of t, 0 when there is none.             *)
Label(pc, to) == [pc |-> pc, to |-> to]
Find(labels, t) == LET same == {i \in DOMAIN labels : labels[i].pc = t}
                   IN IF same = {} THEN 0 ELSE labels[CHOOSE i \in same : \A j \in same : j <= i].to

(* A branch back has its fuel taken first; the test of the epoch woven in   *)
(* after it is never reached.                                               *)
Goto(pc, to) == [do |-> "goto", pc |-> pc, to |-> to]
LayIf(x, then, else, after) ==
  <<[do |-> "unless", pc |-> x.pc, to |-> after + Len(else)]>> \o then \o <<Goto(x.pc, after)>> \o else
LayOne(x, labels, after) ==
  CASE x.n = "if" ->
         LET ls == Append(labels, Label(x.j, after))
         IN LayIf(x, Lay(x.then, ls, after + Width(x.else) + 1), Lay(x.else, ls, after), after)
    [] x.n = "loop" ->
         Lay(x.body, labels \o <<Label(x.exit, after), Label(x.header, after + Width(x.body))>>, after)
    [] x.n = "block" -> Lay(x.body, Append(labels, Label(x.cont, after)), after)
    [] x.n = "br" -> (IF x.back THEN <<[do |-> "fuel", pc |-> x.pc, t |-> x.to]>> ELSE <<>>)
                     \o <<Goto(x.pc, Find(labels, x.to))>>
    [] x.n = "ifdone" -> <<[do |-> x.do, pc |-> x.pc, counter |-> x.counter, to |-> Find(labels, x.to)]>>
    [] x.n = "call" -> <<[do |-> "call", pc |-> x.pc, brk |-> Find(labels, x.brk), cont |-> Find(labels, x.cont),
                          back |-> x.cont <= x.pc, esc |-> x.esc,
                          escape |-> IF x.esc > 0 THEN Find(labels, x.esc) ELSE 0]>>
    [] OTHER -> <<x>>
Lay(s, labels, after) ==
  IF s = <<>> THEN <<>>
  ELSE LayOne(Head(s), labels, after + Width(Tail(s))) \o Lay(Tail(s), labels, after)

(* The value of a unit is the register its code, walked through, leaves on  *)
(* top (final_depth does not count what foreach takes and leaves).          *)
FinalDepth(code) ==
  FoldLeft(LAMBDA d, i : IF i.op \in {"foreachstart", "foreachend"} THEN d ELSE After(d, i), 0, code)

(* pass::run.  Every instruction of the wasm has what it was made of, with  *)
(* the depth of its registers and the command it belongs to.                *)
Refused == [ok |-> FALSE]
Lost(flat) == \E i \in DOMAIN flat : flat[i].do \in {"goto", "entry", "step"} /\ flat[i].to = 0
Sourced(m, w) == w @@ [source |-> m.code[w.pc], depth |-> m.at[w.pc].depth, site |-> m.at[w.pc].site]
Wasm(m) ==
  [ok |-> TRUE, high |-> Max({m.at[pc].depth : pc \in DOMAIN m.at}),
   counters |-> {pc \in DOMAIN m.code : m.code[pc].op = "foreachstart"},
   flat |-> Reverse(Append([i \in DOMAIN m.flat |-> Sourced(m, m.flat[i])],
                           [do |-> "result", depth |-> FinalDepth(m.code)]))]
Passes == <<"escape", "alloc_locals", "edges", "check", "post_dominate", "lower", "lay", "assemble">>
Pass(m, pass) ==
  CASE ~m.ok -> m
    [] m.ok /\ pass = "escape" -> IF Escapes(m.code, m.locals) THEN m ELSE Refused
    [] m.ok /\ pass = "alloc_locals" -> m @@ [at |-> Contexts(m.code)]
    [] m.ok /\ pass = "edges" -> m @@ [edges |-> [pc \in DOMAIN m.code |-> Edges(m.code, m.at, pc)]]
    [] m.ok /\ pass = "check" -> IF Checked(m.code, m.at, m.edges) THEN m ELSE Refused
    [] m.ok /\ pass = "post_dominate" -> m @@ [reached |-> Reached(m.edges, {1}), dom |-> PostDominators(m.edges)]
    [] m.ok /\ pass = "lower" -> m @@ [tree |-> Structure(m, 1, Len(m.code) + 1, {}, <<>>).items]
    [] m.ok /\ pass = "lay" -> m @@ [flat |-> Lay(m.tree, <<>>, 1)]
    [] m.ok /\ pass = "assemble" -> IF Lost(m.flat) THEN Refused ELSE Wasm(m)
Assembled(code, locals) ==
  FoldLeft(Pass, [ok |-> TRUE, code |-> code, locals |-> locals], Passes)
=============================================================================
