------------------------------ MODULE MCObjects ------------------------------
(* Instances of Objects: two or three names that programs make classes and *)
(* objects of.                                                             *)
EXTENDS Objects

New(class, k)    == [op |-> "create", class |-> class, key |-> k]
NewClass(k)      == [op |-> "class", key |-> k]
CopyOf(from, k)  == [op |-> "copy", from |-> from, key |-> k]
Send(k, m)       == [op |-> "call", key |-> k, method |-> m]
MyOwn(m)         == [op |-> "my", method |-> m]
NextOne          == [op |-> "next"]
Away(k)          == [op |-> "rename", key |-> k]
Def(side, k, m, b) == [op |-> "method", side |-> side, of |-> k, method |-> m, body |-> b]
Undef(side, k, m)  == [op |-> "deletemethod", side |-> side, of |-> k, method |-> m]
Ren(side, k, m, to) == [op |-> "renamemethod", side |-> side, of |-> k, method |-> m, to |-> to]
Exp(side, k, m, on) == [op |-> "export", side |-> side, of |-> k, method |-> m, on |-> on]
Mix(side, k, l)    == [op |-> "mixin", side |-> side, of |-> k, list |-> l]
Super(k, l)        == [op |-> "superclass", side |-> "class", of |-> k, list |-> l]
Ctor(k)            == [op |-> "constructor", side |-> "class", of |-> k]
Dtor(k)            == [op |-> "destructor", side |-> "class", of |-> k]

Kill(k) == Send(k, Destroy)
(* What a method means changes under callers and under running bodies.     *)
Meaning == {NewClass("A"), NewClass("B"), New("B", "o"), Send("o", "m"), NextOne, MyOwn("M"),
            Def("class", "A", "m", "b1"), Def("class", "B", "m", "b2"), Undef("class", "B", "m"),
            Ren("class", "B", "m", "M"), Exp("class", "B", "m", FALSE), Super("B", <<"A">>)}
Mixing  == {NewClass("A"), NewClass("B"), New("B", "o"), CopyOf("o", "p"), Send("o", "m"), MyOwn("m"),
            Def("class", "A", "m", "b1"), Mix("class", "B", <<"A">>), Mix("object", "o", <<"A">>),
            Def("object", "o", Cloned, "b1"), Kill("A"), Kill("o"), Away("o")}
(* Classes go with everything on them, destructors run, fail and destroy.  *)
Ending  == {NewClass("A"), NewClass("B"), Super("B", <<"A">>), New("A", "o"), New("B", "p"), Ctor("A"), Dtor("A"), Dtor("B"),
            Kill("A"), Kill("B"), Kill("o"), Kill("p"), NextOne}
EndingLast == {Kill("o"), Kill("A"), NextOne}
InScript == {Def("class", "A", "m", "b1"), Exp("class", "B", "m", FALSE), Kill("A"), Send("o", "m")}
AllPrograms == {[all |-> Meaning, making |-> Meaning \cap InScript, last |-> {}],
                [all |-> Mixing, making |-> InScript \cap Mixing, last |-> {}],
                [all |-> Ending, making |-> {Kill("A"), Dtor("A")}, last |-> EndingLast]}

(* What a hierarchy can become.                                            *)
Lists     == {<<Root>>, <<"A">>, <<"B">>, <<"o">>, <<"A", "B">>, <<"B", "A">>}
Hierarchy == {NewClass(k) : k \in {"A", "B", "o"}} \cup {Super(k, l) : k \in {"A", "B", "o"}, l \in Lists}
Circular  == {[all |-> Hierarchy, making |-> {}, last |-> {}]}
Overrides == {[all |-> {NewClass("A"), NewClass("B"), NewClass("o"), Super("B", <<"A">>), Super("o", <<"A">>), Mix("class", "B", <<"o">>),
                        Def("class", "A", "m", "b1"), Def("class", "B", "m", "b2"), New("B", "p")}, making |-> {}, last |-> {}]}

SmallLetters == {"m", Destroy}
Others  == {"M", Cloned}
TwoBodies == {"b1", "b2"}
FourKeys == {"A", "B", "o", "p"}
=============================================================================
