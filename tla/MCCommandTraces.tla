--------------------------- MODULE MCCommandTraces ---------------------------
(* Instances of CommandTraces: two procs that call, rename, redefine and   *)
(* trace each other, by hand and from callbacks.                           *)
EXTENDS CommandTraces

On2(op, k)      == [op |-> op, key |-> k]
Ren(k, new)     == [op |-> "rename", key |-> k, new |-> new]
Tr(exec, ops, s) == [exec |-> exec, ops |-> ops, script |-> s]
AddTr(t, k)     == [op |-> "add", trace |-> t, key |-> k]
RemTr(t, k)     == [op |-> "remove", trace |-> t, key |-> k]
Fail            == [op |-> "fail"]

Call(k) == On2("call", k)
Define1(k) == On2("proc", k)

(* Execution traces: callbacks that call, fail and take a trace away and   *)
(* put it back.                                                            *)
Steps   == Tr(TRUE, {"enterstep", "leavestep"}, Call("q"))
Around  == Tr(TRUE, {"enter", "leave"}, Fail)
Leaves  == Tr(TRUE, {"leavestep"}, Fail)
Retrace == Tr(TRUE, {"enterstep"}, AddTr(Leaves, "p"))
Stepping1 == {Call("p"), Call("q"), AddTr(Steps, "p"), RemTr(Steps, "p"), AddTr(Around, "q"), Define1("p")}
Bracket == {Call("p"), Call("q"), AddTr(Retrace, "p"), AddTr(Leaves, "p"), RemTr(Leaves, "p"), Fail}

(* Rename and delete traces.                                               *)
Follows == Tr(FALSE, {"rename"}, Ren("q", "p"))
Deletes == Tr(FALSE, {"delete"}, Define1("p"))
Naming  == {Ren("p", "q"), Ren("p", None), Ren("q", None), Define1("p"), AddTr(Follows, "p"), AddTr(Deletes, "p"),
            AddTr(Around, "p"), RemTr(Deletes, "p"), Call("q")}

AllPrograms == {Stepping1, Bracket, Naming}
TwoKeys == {"p", "q"}
=============================================================================
