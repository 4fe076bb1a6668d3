----------------------------- MODULE MCChannels -----------------------------
(* Instances of Channels: handlers that close, push and write on the       *)
(* channel they are called for, a file read while it grows, pipes.         *)
EXTENDS Channels

Rc == <<"rc", 0>>
On(op, id)         == [op |-> op, id |-> id]
OpenAs(r, w, app)  == [op |-> "open", r |-> r, w |-> w, append |-> app]
Making(op, h)      == [op |-> op, handler |-> h, r |-> TRUE, w |-> TRUE]
Pushing(id, h)     == [op |-> "push", id |-> id, handler |-> h]
Putting(id, d)     == [op |-> "puts", id |-> id, data |-> d]
Reading(id, n)     == [op |-> "read", id |-> id, n |-> n, all |-> FALSE, line |-> FALSE]
ReadAll(id)        == [op |-> "read", id |-> id, n |-> 0, all |-> TRUE, line |-> FALSE]
Gets(id)           == [op |-> "read", id |-> id, n |-> 1, all |-> FALSE, line |-> TRUE]
Copying(a, b)      == [op |-> "copy", from |-> a, to |-> b]
Seeking(id, at)    == [op |-> "seek", id |-> id, at |-> at, here |-> FALSE]
Telling(id)        == [op |-> "seek", id |-> id, at |-> 0, here |-> TRUE]
Half(id, read)     == [op |-> "half", id |-> id, read |-> read]

Methods == {"initialize", "finalize", "watch", "read", "write", "drain", "flush"}
(* A handler that runs acts in its method m, and gives two lines back.     *)
Handler(methods, m, acts, fails) ==
  [methods |-> methods, acts |-> [x \in Methods |-> IF x = m THEN acts ELSE <<>>],
   gives |-> [x \in Methods |-> IF x \in {"read", "write"} THEN <<1, 2>> ELSE <<>>],
   fails |-> fails]
Plain == Handler(Methods, "watch", <<>>, {})

(* Channels scripts implement, one of them called from its own methods.    *)
Implementers ==
  {Plain, Handler(Methods, "write", <<On("close", Rc)>>, {}),
   Handler(Methods, "write", <<Putting(Rc, <<1>>)>>, {}),
   Handler(Methods, "finalize", <<On("close", Rc)>>, {}),
   Handler(Methods, "finalize", <<Putting(Rc, <<1>>)>>, {"finalize"}),
   Handler(Methods, "finalize", <<Pushing(Rc, Plain)>>, {}),
   Handler(Methods, "initialize", <<Making("create", Plain)>>, {}),
   Handler(Methods \ {"read"}, "read", <<>>, {}),
   Handler(Methods, "read", <<On("close", Rc)>>, {})}
Rc1 == <<"rc", 1>>
Implementing(h, k) ==
  {Making("create", h), Making("create", k), Putting(Rc1, <<1>>), On("close", Rc1), On("close", Rc), Putting(Rc, <<1>>), Reading(Rc, 1), Gets(Rc), On("eof", Rc),
   Pushing(Rc, Plain), Telling(Rc)}

(* Transforms on the write end of a pipe, and on its read end.             *)
Filters ==
  {Plain, Handler(Methods, "write", <<On("close", File(2))>>, {}),
   Handler(Methods, "drain", <<On("close", File(2))>>, {"drain"}),
   Handler(Methods, "drain", <<Pushing(File(2), Plain)>>, {}),
   Handler(Methods, "initialize", <<On("close", File(2))>>, {}),
   Handler(Methods \ {"write"}, "read", <<Gets(File(1))>>, {}),
   Handler(Methods, "finalize", <<Putting(File(2), <<2>>)>>, {"initialize"})}
Filtering(h) ==
  {On("pipe", Rc), Pushing(File(2), h), Pushing(File(2), Plain), On("pop", File(2)), On("close", File(2)), Putting(File(2), <<1>>),
   On("eof", File(1)), Reading(File(1), 1), Half(File(1), TRUE), Half(File(2), FALSE)}
Listening(h) ==
  {On("pipe", Rc), Pushing(File(1), h), On("close", File(1)), Putting(File(2), <<1>>),
   Gets(File(1)), ReadAll(File(1)), On("close", File(2))}

(* A file that grows while it is read; a file read and written by one; the *)
(* same with others truncating it.                                         *)
Growing == {OpenAs(TRUE, FALSE, FALSE), OpenAs(FALSE, TRUE, TRUE), Gets(File(1)), Reading(File(1), 2),
            Putting(File(2), <<1>>), Putting(File(2), <<2>>), Seeking(File(1), 0), Telling(File(1)),
            ReadAll(File(1)), On("eof", File(1)), On("close", File(1))}
Updating == {OpenAs(TRUE, TRUE, FALSE), OpenAs(TRUE, TRUE, TRUE), Gets(File(1)), Putting(File(1), <<1, 2>>),
             Seeking(File(1), 0), On("truncate", File(1)), Telling(File(1)), On("close", File(1))}
Children == {[op |-> "child", r |-> TRUE, w |-> FALSE], [op |-> "child", r |-> FALSE, w |-> TRUE],
             On("pipe", Rc), Gets(File(7)), On("eof", File(7)), Putting(File(7), <<1>>), On("close", File(7)),
             Half(File(7), TRUE), Copying(File(1), File(7)), Putting(File(2), <<1>>)}
Copies == {Making("create", Plain), On("pipe", Rc), Putting(File(2), <<1>>), Copying(File(1), Rc),
           Copying(Rc, File(2)), On("close", Rc), On("close", File(2))}

AllPrograms == {Implementing(h, k) : h, k \in Implementers} \cup {Filtering(h) : h \in Filters}
               \cup {Listening(h) : h \in {Plain, Handler(Methods, "read", <<On("close", File(1))>>, {})}}
               \cup {Growing, Updating, Children, Copies}
CopyPrograms == {Copies}
UpdatePrograms == {Updating}
ChildPrograms == {Children}
OwnPids == {7}
LowPids == {1, 7}
=============================================================================
