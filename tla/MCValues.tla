------------------------------ MODULE MCValues ------------------------------
(* Commands over two or three variables that share their values, with      *)
(* nested lists and dicts among the literals, integers of five bits, and   *)
(* bodies.  A run is one of several programs: the commands that one writes *)
(* together, in any order and as often as the bound on sizes lets them.    *)
EXTENDS Values

VARIABLE program

a == Word("a")
b == Word("b")
Pair == Listing(<<a, Num(1)>>)
Nest == Listing(<<a, Pair>>)

C(do, var, at, with, to) == [do |-> do, var |-> var, at |-> at, with |-> with, to |-> to]
Lit(t) == <<"lit", t>>
N(n)   == <<"num", n>>
V(x)   == <<"var", x>>
Set(x, src)    == C("set", x, <<>>, src, <<>>)
Unset_(x)      == C("unset", x, <<>>, <<>>, <<>>)
Read_(x)       == C("read", x, <<>>, <<>>, <<>>)
App(x, src)    == C("lappend", x, <<>>, src, <<>>)
Inc(x, src)    == C("incr", x, <<>>, src, <<>>)
End_(end, src) == C("end", "a", <<>>, src, <<end>>)

P(max, nest, does) == [max |-> max, nest |-> nest, does |-> does]
Programs == {
  P(4, 0, {Set("a", V("b")), Set("b", V("a")), App("a", V("b")), App("b", N(1)), Read_("a"),
           C("lset", "a", <<1, 0>>, V("b"), <<>>)}),
  P(3, 0, {Set("a", V("b")), App("b", V("a")), C("lindex", "a", <<1>>, V("b"), <<>>), Inc("a", N(6)), Read_("b")}),
  P(7, 0, {Set("b", V("a")), C("dict set", "a", <<a, b>>, N(0), <<>>), C("dict set", "b", <<a, a>>, N(1), <<>>),
           C("dict get", "b", <<a>>, V("a"), <<>>), C("dict unset", "a", <<a, b>>, N(0), <<>>), Read_("a")}),
  P(4, 0, {Set("a", V("b")), C("dict lappend", "b", <<a>>, V("b"), <<>>), C("dict incr", "b", <<b>>, N(5), <<>>),
           C("dict merge", "a", <<>>, V("b"), <<>>), C("dict exists", "b", <<b>>, V("a"), <<>>)}),
  P(4, 0, {Set("a", Lit(Torn)), App("a", V("b")), Inc("b", V("a")), C("dict set", "b", <<a, b>>, V("a"), <<>>),
           C("dict unset", "b", <<a>>, N(0), <<>>), Unset_("a")}),
  P(5, 1, {C("with", "a", <<>>, N(0), <<>>), C("dict set", "a", <<b>>, N(1), <<>>), Set("b", V("a")), Read_("a"),
           End_("ok", N(0)), Unset_("b"), End_("error", N(0))}),
  P(7, 1, {C("with", "a", <<a>>, N(0), <<>>), C("dict set", "a", <<a, b>>, V("b"), <<>>), C("dict set", "b", <<b>>, N(1), <<>>),
           End_("ok", N(0)), Unset_("a")}),
  P(4, 1, {C("update", "a", <<b>>, N(0), <<"b">>), C("dict set", "a", <<b>>, V("b"), <<>>), Set("b", V("a")),
           App("b", N(1)), End_("error", N(0)), Unset_("b"), Unset_("a")}),
  P(5, 1, {C("map", "a", <<>>, V("b"), <<"a", "b">>), C("dict set", "b", <<b>>, V("b"), <<>>), C("dict set", "b", <<a>>, N(0), <<>>),
           App("b", V("b")), End_("ok", V("b")), End_("break", N(0))}),
  P(5, 1, {C("filter", "a", <<>>, V("b"), <<"a", "b">>), C("dict set", "b", <<b>>, N(0), <<>>), App("b", N(1)),
           End_("ok", V("b")), End_("continue", N(0)), C("for", "a", <<>>, V("b"), <<"b", "a">>)})
  }
MCCommands == UNION {p.does : p \in Programs}

(* The bounds: a program goes on while its texts and its nesting fit.      *)
Fits(p) == /\ \A x \in Vars : slots[x] # Unset => Size(TextOf(heap, slots[x])) <= p.max
           /\ Len(bodies) <= p.nest

MCInit == Init /\ program \in Programs
MCNext == /\ Fits(program)
          /\ \E c \in program.does : Do(c)
          /\ UNCHANGED program
MCSpec == MCInit /\ [][MCNext]_<<vars, program>>
MCView == <<heap, slots, bodies, program>>
=============================================================================
