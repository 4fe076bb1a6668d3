------------------------------ MODULE MCArrays ------------------------------
(* Instances of Arrays: one array or two, of two elements, each read,      *)
(* changed, searched and traced, by scripts that do the same.              *)
EXTENDS Arrays

Cmd(op, n)        == [op |-> op, name |-> n]
OnElem(op, n, e)  == [op |-> op, name |-> n, elem |-> e]
OnElems(op, n, s) == [op |-> op, name |-> n, elems |-> s]
Traced(op, n, t)  == [op |-> op, name |-> n, trace |-> t]
OnId(op, n, id)   == [op |-> op, name |-> n, id |-> id]
Trace(on, ops, script) == [on |-> on, ops |-> ops, script |-> script]

Elements(n) == {OnElem("set", n, e) : e \in Elems} \cup {OnElem("unsetelem", n, "x"), Cmd("unset", n)}
(* Searches, by calls that use one frame after another.                    *)
Searching == {CallProc} \cup UNION {{Cmd("start", n)} \cup Elements(n)
                    \cup {OnId(op, n, <<k, n>>) : op \in {"next", "done"}, k \in 1..2} : n \in Names}

(* Commands on many elements, and traces whose scripts change the array,   *)
(* read it and fail.                                                       *)
Renew == [op |-> "script", name |-> "a", todo |-> <<Cmd("unset", "a"), OnElem("set", "a", "x"), OnElem("set", "a", "y")>>]
Reads  == {Trace(None, {"read"}, s) : s \in
             {OnElem("set", "a", "y"), Cmd("unset", "a"), OnElems("pairs", "a", {"x", "y"}), Renew, Cmd("error", "a")}}
Writes == {Trace("y", {"write", "unset"}, Cmd("get", "a")),
           Trace(None, {"write", "array"}, OnElem("set", "a", "x")),
           Trace(None, {"unset"}, OnElem("set", "a", "y"))}
Many == {OnElems("pairs", "a", Elems), OnElems("pairs", "a", {}), OnElems("wipe", "a", Elems),
         Cmd("get", "a"), Cmd("names", "a")}
Tracing(ts) == {Traced(op, "a", t) : op \in {"trace", "untrace"}, t \in ts}
Reading == Many \cup Tracing(Reads) \cup {Cmd("unset", "a"), OnElem("read", "a", "x")}
Writing == Many \cup Tracing(Writes) \cup {OnElem("unsetelem", "a", "x"), Cmd("scalar", "a"), Cmd("start", "a")}

(* Traces and searches in frames that are used again.                      *)
Watch == Trace("y", {"read", "unset"}, Cmd("get", "a"))
Calling == {CallProc, Traced("trace", "a", Watch), OnElem("set", "a", "y"), Cmd("unset", "a"),
            OnElem("read", "a", "y")}

AllPrograms == {Searching, Calling, Reading, Writing}
OneName == {"a"}
TwoElems == {"x", "y"}
SameName == {<<"a", "a">>}
=============================================================================
