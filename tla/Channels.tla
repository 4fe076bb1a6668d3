------------------------------ MODULE Channels ------------------------------
(***************************************************************************)
(* Channels (channel.rs, chan_io.rs and puts): the table of open channels, *)
(* files with their read-ahead buffer, pipes inside the program, children  *)
(* behind a pipe, and the two kinds that run scripts: channels a handler   *)
(* implements (chan create) and transforms a handler stacks on a channel   *)
(* (chan push).                                                            *)
(*                                                                         *)
(* A handler's method is a script: it may use, close or push on any        *)
(* channel, its own included, while the command that called it is half     *)
(* done.  The commands and methods under way are a stack, active.  Data is *)
(* a sequence of lines, each one token.                                    *)
(***************************************************************************)
EXTENDS Naturals, Sequences, FiniteSets, SequencesExt

CONSTANTS
  Programs,    \* the sets of commands a program keeps to (a bound of the model)
  Data,        \* lines
  Pids,        \* process ids the children of open |command may get
  Cap,         \* lines a BufReader reads ahead
  Chunk,       \* lines chan copy, and read through a transform, take at a time
  MaxNest,     \* max_call_depth, in commands inside commands
  MaxIds,      \* bound of the model: file<n> names
  MaxHandles,  \* bound of the model: rc<n> names, and rt<n> names
  MaxLen       \* bound of the model: lines in the file, and in a pipe, when a write begins

VARIABLES
  program,     \* one of Programs, for good
  chans,       \* channels: the open channels, by name
  order,       \* their names in the order they were opened
  nextId,      \* number of the next file<n>
  handles,     \* refl_counter and trans_counter: [rc, rt]
  reflected,   \* handlers of the channels scripts implement: [handler, eof]
  transforms,  \* handlers stacked on channels: [of, handler]
  pipes,       \* what chan pipe made: [data, open]
  file,        \* the contents of the file
  active,      \* commands and methods under way, the innermost last
  result,      \* how the last one ended: [code, data]
  finalized    \* history: handles whose finalize has been called

tables == <<chans, order, nextId>>
hooks  == <<handles, reflected, transforms, finalized>>
stores == <<pipes, file>>
vars   == <<program, tables, hooks, stores, active, result>>

File(n) == <<"file", n>>
Open    == DOMAIN chans
Without(f, id) == [x \in DOMAIN f \ {id} |-> f[x]]
With(f, id, v) == [x \in DOMAIN f \cup {id} |-> IF x = id THEN v ELSE f[x]]

Fresh == /\ chans = <<>> /\ order = <<>> /\ nextId = 1
         /\ handles = [rc |-> 0, rt |-> 0] /\ reflected = <<>> /\ transforms = <<>>
         /\ pipes = <<>> /\ file = <<>>
         /\ active = <<>> /\ result = [code |-> "ok", data |-> <<>>] /\ finalized = {}
Init == program \in Programs /\ Fresh

-----------------------------------------------------------------------------
(* Commands, and methods inside them *)

Idle  == active = <<>>
Top   == active[Len(active)]
InTop(w) == [active EXCEPT ![Len(active)] = w]
Below == IF Idle THEN active ELSE InTop([Top EXCEPT !.todo = Tail(@)])

Result(code, data) == result' = [code |-> code, data |-> data]
Answer(code, data) == active' = Below /\ Result(code, data)
Fail               == Answer("error", <<>>)
Finish(code, data) == active' = Front(active) /\ Result(code, data)

(* invoke_handler: h.method runs, on top of the command that waits for it. *)
Method(of, h, m) ==
  [kind |-> "method", of |-> of, method |-> m, todo |-> h.acts[m],
   gives |-> h.gives[m], fails |-> m \in h.fails]
Invoke(under, waits, of, h, m) ==
  /\ active' = under \o <<waits, Method(of, h, m)>>
  /\ Result("ok", <<>>)
  /\ finalized' = IF m = "finalize" THEN finalized \cup {of} ELSE finalized

MethodEnds ==
  /\ ~Idle /\ Top.kind = "method" /\ (Top.todo = <<>> \/ result.code = "error")
  /\ IF result.code = "error" \/ Top.fails THEN Finish("error", <<>>) ELSE Finish("ok", Top.gives)
  /\ UNCHANGED <<program, tables, hooks, stores>>

Waiting(kind) == ~Idle /\ Top.kind = kind
Failed == result.code = "error"

-----------------------------------------------------------------------------
(* Files and pipes *)

NewChan(kind, r, w, at) ==
  [kind |-> kind, r |-> r, w |-> w, append |-> FALSE, at |-> at, pos |-> 0, buf |-> <<>>, eof |-> FALSE]

Past(s, n) == SubSeq(s, n + 1, Len(s))
FirstOf(s, n) == IF n \in 0 .. Len(s) THEN SubSeq(s, 1, n) ELSE s
Most(a, b) == IF a < b THEN b ELSE a

(* BufReader: one fill at most; a large read into an empty buffer goes by. *)
Fetched(ch, n) ==
  IF ch.buf # <<>> THEN ch
  ELSE LET got == FirstOf(Past(file, ch.pos), n)
       IN  [ch EXCEPT !.buf = got, !.pos = @ + Len(got)]

(* read_bytes of up to n lines, read_all; the lines, and the channel after.*)
Got(ch, n) ==
  LET full == CASE ch.kind = "file"  -> Fetched(ch, Most(n, Cap)).buf
                [] ch.kind = "pipeR" -> Past(pipes[ch.at].data, ch.pos)
                [] OTHER             -> <<>>
  IN  FirstOf(full, n)
After(ch, n) ==
  LET got == Got(ch, n) IN
  CASE ch.kind = "file" ->
         LET f == Fetched(ch, Most(n, Cap))
         IN  [f EXCEPT !.buf = Past(f.buf, Len(got)), !.eof = @ \/ got = <<>>]
    [] ch.kind = "pipeR" -> [ch EXCEPT !.pos = @ + Len(got)]
    [] ch.kind = "child" -> [ch EXCEPT !.eof = TRUE]
    [] OTHER             -> ch
GotAll(ch) == CASE ch.kind = "file"  -> ch.buf \o Past(file, ch.pos)
                [] ch.kind = "pipeR" -> Past(pipes[ch.at].data, ch.pos)
                [] OTHER             -> <<>>
AfterAll(ch) ==
  CASE ch.kind = "file"  -> [ch EXCEPT !.buf = <<>>, !.pos = Most(@, Len(file)), !.eof = TRUE]
    [] ch.kind = "pipeR" -> [ch EXCEPT !.pos = Len(pipes[ch.at].data)]
    [] ch.kind = "child" -> [ch EXCEPT !.eof = TRUE]
    [] OTHER             -> ch

(* channel_write_str.  A file is written where the system stands, which is *)
(* past the lines that were read ahead.  A reflected channel's own object  *)
(* takes everything and keeps nothing.                                     *)
Overlaid(s, at, d) ==
  [i \in 1..Most(Len(s), at + Len(d)) |->
     IF i > at /\ i <= at + Len(d) THEN d[i - at] ELSE IF i <= Len(s) THEN s[i] ELSE 0]
Write(ch, id, d) ==
  LET at == IF ch.append THEN Len(file) ELSE ch.pos IN
  CASE ch.kind = "file" /\ d # <<>> ->
         /\ file' = Overlaid(file, at, d)
         /\ chans' = [chans EXCEPT ![id].pos = at + Len(d)]
         /\ UNCHANGED pipes
    [] ch.kind = "pipeW" ->
         /\ pipes' = [pipes EXCEPT ![ch.at].data = @ \o d]
         /\ UNCHANGED <<chans, file>>
    [] OTHER -> UNCHANGED <<chans, stores>>

(* Mutant: a pipe that has been drained is at its end.                     *)
AtEndDrained(ch) ==
  CASE ch.kind = "pipeR" -> ch.pos >= Len(pipes[ch.at].data)
    [] OTHER -> ch.eof
(* eof of a channel that is not reflected.                                 *)
AtEnd(ch) ==
  CASE ch.kind = "pipeR"     -> ~pipes[ch.at].open /\ ch.pos >= Len(pipes[ch.at].data)
    [] ch.kind = "reflected" -> TRUE
    [] OTHER                 -> ch.eof

-----------------------------------------------------------------------------
(* Opening *)

Tracked(names, id) == IF id \in Range(names) THEN names ELSE Append(names, id)
Register(id, ch) == chans' = With(chans, id, ch) /\ order' = Tracked(order, id)

OpenFile(c) ==
  /\ nextId <= MaxIds
  /\ Register(File(nextId), [NewChan("file", c.r, c.w, 0) EXCEPT !.append = c.append])
  /\ nextId' = nextId + 1
  /\ Answer("ok", <<>>) /\ UNCHANGED <<hooks, stores>>

(* open |command: the name is made from the process id.                    *)
OpenPipe(c) ==
  \E pid \in Pids :
    /\ ~\E id \in Open : chans[id].kind = "child" /\ chans[id].at = pid
    /\ Register(File(pid), NewChan("child", c.r, c.w, pid))
    /\ Answer("ok", <<>>) /\ UNCHANGED <<nextId, hooks, stores>>

ChanPipe(c) ==
  LET p == Len(pipes) + 1 IN
  /\ nextId < MaxIds
  /\ pipes' = Append(pipes, [data |-> <<>>, open |-> TRUE])
  /\ chans' = With(With(chans, File(nextId), NewChan("pipeR", TRUE, FALSE, p)),
                   File(nextId + 1), NewChan("pipeW", FALSE, TRUE, p))
  /\ order' = Tracked(Tracked(order, File(nextId)), File(nextId + 1))
  /\ nextId' = nextId + 2
  /\ Answer("ok", <<>>) /\ UNCHANGED <<hooks, file>>

(* chan create: the handler says what it can do before anything is made.   *)
Create(c) ==
  LET h == <<"rc", handles.rc>> IN
  /\ handles' = [handles EXCEPT !.rc = @ + 1]
  /\ Invoke(Below, [kind |-> "create", of |-> h, handler |-> c.handler, r |-> c.r, w |-> c.w],
            h, c.handler, "initialize")
  /\ UNCHANGED <<tables, reflected, transforms, stores>>
Needed(r, w) == {"initialize", "finalize", "watch"} \cup (IF r THEN {"read"} ELSE {})
                  \cup (IF w THEN {"write"} ELSE {})
Created ==
  /\ Waiting("create")
  /\ \/ /\ Failed \/ ~(Needed(Top.r, Top.w) \subseteq Top.handler.methods)
        /\ Finish("error", <<>>) /\ UNCHANGED <<tables, reflected>>
     \/ /\ ~Failed /\ Needed(Top.r, Top.w) \subseteq Top.handler.methods
        /\ Register(Top.of, NewChan("reflected", Top.r, Top.w, 0))
        /\ reflected' = With(reflected, Top.of, [handler |-> Top.handler, eof |-> FALSE])
        /\ Finish("ok", <<>>) /\ UNCHANGED nextId
  /\ UNCHANGED <<program, handles, transforms, finalized, stores>>

(* chan push: what is pushed replaces what was there, and is pushed on a   *)
(* channel its own initialize may have closed.                             *)
Push(c) ==
  LET h == <<"rt", handles.rt>> IN
  \/ c.id \notin Open /\ Fail /\ UNCHANGED <<tables, hooks, stores>>
  \/ /\ c.id \in Open
     /\ handles' = [handles EXCEPT !.rt = @ + 1]
     /\ Invoke(Below, [kind |-> "push", id |-> c.id, of |-> h, handler |-> c.handler],
               h, c.handler, "initialize")
     /\ UNCHANGED <<tables, reflected, transforms, stores>>
Pushed ==
  /\ Waiting("push")
  /\ IF Failed THEN Finish("error", <<>>) /\ UNCHANGED transforms
     ELSE /\ transforms' = With(transforms, Top.id, [of |-> Top.of, handler |-> Top.handler])
          /\ Finish("ok", <<>>)
  /\ UNCHANGED <<program, handles, reflected, finalized, tables, stores>>

(* chan pop takes the transform off, and calls nothing.                    *)
Pop(c) == /\ transforms' = Without(transforms, c.id)
          /\ Answer("ok", <<>>) /\ UNCHANGED <<handles, reflected, finalized, tables, stores>>

-----------------------------------------------------------------------------
(* close: the handler's finalize, or the transform's drain, flush and      *)
(* finalize, run first; each is taken out of its table before it is called.*)
(* A finalize that fails leaves the channel open, with no handler.         *)

(* Mutant: the name stays listed.                                          *)
ShutListed(id) ==
  /\ chans' = Without(chans, id) /\ order' = order
  /\ pipes' = IF chans[id].kind = "pipeW" THEN [pipes EXCEPT ![chans[id].at].open = FALSE] ELSE pipes
  /\ UNCHANGED <<nextId, file>>
(* Vec::retain: a sequence without the elements of a set, in order.        *)
Dropped(s, gone) ==
  LET kept[k \in 0 .. Len(s)] ==
        IF k = 0 THEN <<>>
        ELSE IF s[k] \in gone THEN kept[k - 1] ELSE Append(kept[k - 1], s[k])
  IN  kept[Len(s)]
Shut(id) ==
  /\ chans' = Without(chans, id) /\ order' = Dropped(order, {id})
  /\ pipes' = IF chans[id].kind = "pipeW" THEN [pipes EXCEPT ![chans[id].at].open = FALSE] ELSE pipes
  /\ UNCHANGED <<nextId, file>>

Closing == <<"drain", "flush", "finalize">>

CloseReflected(c) ==
  /\ c.id \in Open /\ c.id \in DOMAIN reflected
  /\ reflected' = Without(reflected, c.id)
  /\ Invoke(Below, [kind |-> "finalizing", id |-> c.id], c.id, reflected[c.id].handler, "finalize")
  /\ UNCHANGED <<tables, handles, transforms, stores>>
Close(c) ==
  \/ c.id \notin Open /\ Fail /\ UNCHANGED <<tables, hooks, stores>>
  \/ CloseReflected(c)
  \/ /\ c.id \in Open \ DOMAIN reflected /\ c.id \in DOMAIN transforms
     /\ transforms' = Without(transforms, c.id)
     /\ LET t == transforms[c.id] IN
        active' = Append(Below, [kind |-> "draining", id |-> c.id, of |-> t.of, handler |-> t.handler,
                  left |-> Dropped(Closing, Range(Closing) \ t.handler.methods)])
     /\ Result("ok", <<>>) /\ UNCHANGED <<tables, handles, reflected, finalized, stores>>
  \/ /\ c.id \in Open \ (DOMAIN reflected \cup DOMAIN transforms)
     /\ Shut(c.id) /\ Answer("ok", <<>>) /\ UNCHANGED hooks

(* chan close with a direction: only of a channel that has no other.       *)
HalfClose(c) ==
  LET ch == chans[c.id] IN
  IF c.id \in Open /\ (IF c.read THEN ch.r /\ ~ch.w ELSE ch.w /\ ~ch.r)
  THEN Close(c) ELSE Fail /\ UNCHANGED <<tables, hooks, stores>>

(* Whoever closed the channel meanwhile makes this close fail.             *)
Shuts == IF Top.id \in Open THEN Shut(Top.id) /\ Finish("ok", <<>>)
         ELSE Finish("error", <<>>) /\ UNCHANGED <<tables, stores>>
Finalized ==
  /\ Waiting("finalizing")
  /\ IF Failed THEN Finish("error", <<>>) /\ UNCHANGED <<transforms, tables, stores>>
     ELSE transforms' = Without(transforms, Top.id) /\ Shuts
  /\ UNCHANGED <<program, handles, reflected, finalized>>
Drained ==
  /\ Waiting("draining")
  /\ \/ /\ Top.left # <<>>
        /\ Invoke(Front(active), [Top EXCEPT !.left = Tail(@)], Top.of, Top.handler, Head(Top.left))
        /\ UNCHANGED <<tables, stores>>
     \/ Top.left = <<>> /\ Shuts /\ UNCHANGED finalized
  /\ UNCHANGED <<program, handles, reflected, transforms>>

-----------------------------------------------------------------------------
(* Reading and writing.  A handler writes a line in two calls, the text    *)
(* and the newline; the channel is looked at again in between.             *)

SameHooks == UNCHANGED <<handles, reflected, transforms>>

Puts(c) ==
  \/ /\ c.id \in Open /\ c.id \in DOMAIN reflected /\ chans[c.id].w
     /\ Invoke(Below, [kind |-> "puts", id |-> c.id], c.id, reflected[c.id].handler, "write")
     /\ SameHooks /\ UNCHANGED <<tables, stores>>
  \/ /\ c.id \in Open \ DOMAIN reflected /\ c.id \in DOMAIN transforms
     /\ "write" \in transforms[c.id].handler.methods
     /\ LET t == transforms[c.id] IN
        Invoke(Below, [kind |-> "filtered", id |-> c.id], t.of, t.handler, "write")
     /\ SameHooks /\ UNCHANGED <<tables, stores>>
  \/ /\ c.id \in Open \ DOMAIN reflected /\ chans[c.id].w
     /\ c.id \in DOMAIN transforms => "write" \notin transforms[c.id].handler.methods
     /\ Write(chans[c.id], c.id, c.data) /\ Answer("ok", <<>>)
     /\ UNCHANGED <<order, nextId, hooks>>
  \/ /\ c.id \in Open =>
          /\ ~chans[c.id].w
          /\ c.id \in DOMAIN transforms \ DOMAIN reflected
             => "write" \notin transforms[c.id].handler.methods
     /\ Fail /\ UNCHANGED <<tables, hooks, stores>>

PutText ==
  /\ Waiting("puts")
  /\ IF ~Failed /\ Top.id \in DOMAIN reflected
     THEN Invoke(Front(active), [kind |-> "newline"], Top.id, reflected[Top.id].handler, "write")
     ELSE Finish(result.code, <<>>) /\ UNCHANGED finalized
  /\ SameHooks /\ UNCHANGED <<program, tables, stores>>
PutNewline ==
  /\ Waiting("newline") /\ Finish(result.code, <<>>)
  /\ UNCHANGED <<program, hooks, tables, stores>>
PutFiltered ==
  /\ Waiting("filtered")
  /\ IF ~Failed /\ Top.id \in Open /\ chans[Top.id].w
     THEN Write(chans[Top.id], Top.id, result.data) /\ Finish("ok", <<>>)
     ELSE Finish("error", <<>>) /\ UNCHANGED <<chans, stores>>
  /\ UNCHANGED <<program, order, nextId, hooks>>

(* read of n lines or of all there is, and gets (n = 1, line).  With a     *)
(* transform there is no read of all, a block is read instead.             *)
Transformed(c) == c.id \in DOMAIN transforms /\ "read" \in transforms[c.id].handler.methods
ReadsAll(c) == c.all /\ ~Transformed(c)
Count(c) == IF c.all THEN Chunk ELSE c.n
Taken(c) == IF ReadsAll(c) THEN GotAll(chans[c.id]) ELSE Got(chans[c.id], Count(c))
Take(c) ==
  chans' = [chans EXCEPT ![c.id] = IF ReadsAll(c) THEN AfterAll(@) ELSE After(@, Count(c))]
Read(c) ==
  \/ /\ c.id \in DOMAIN reflected /\ chans[c.id].r
     /\ Invoke(Below, [kind |-> "answering", id |-> c.id, line |-> c.line],
               c.id, reflected[c.id].handler, "read")
     /\ SameHooks /\ UNCHANGED <<tables, stores>>
  \/ /\ c.id \in Open \ DOMAIN reflected /\ chans[c.id].r
     /\ Take(c) /\ UNCHANGED <<order, nextId>>
     /\ IF Transformed(c) /\ (c.line => Taken(c) # <<>>)
        THEN LET t == transforms[c.id] IN
             Invoke(Below, [kind |-> "through"], t.of, t.handler, "read")
        ELSE Answer("ok", Taken(c)) /\ UNCHANGED finalized
     /\ SameHooks /\ UNCHANGED stores
  \/ /\ c.id \in Open => ~chans[c.id].r
     /\ Fail /\ UNCHANGED <<tables, hooks, stores>>
(* gets keeps the first line of what the handler gave; the rest is lost.   *)
Answered ==
  /\ Waiting("answering")
  /\ \/ Failed /\ Finish("error", <<>>) /\ UNCHANGED reflected
     \/ /\ ~Failed
        /\ reflected' = IF Top.id \in DOMAIN reflected
                        THEN [reflected EXCEPT ![Top.id].eof = result.data = <<>>] ELSE reflected
        /\ Finish("ok", IF Top.line THEN FirstOf(result.data, 1) ELSE result.data)
  /\ UNCHANGED <<program, handles, transforms, finalized, tables, stores>>
Through == /\ Waiting("through") /\ Finish(result.code, result.data)
           /\ UNCHANGED <<program, hooks, tables, stores>>

(* chan copy asks no handler and no transform.                             *)
Copy(c) ==
  IF c.from \in Open /\ c.to \in Open /\ chans[c.from].r /\ chans[c.to].w
  THEN /\ active' = Append(Below, [kind |-> "copy", from |-> c.from, to |-> c.to, chunk |-> <<>>])
       /\ Result("ok", <<>>) /\ UNCHANGED <<tables, hooks, stores>>
  ELSE Fail /\ UNCHANGED <<tables, hooks, stores>>
CopyReads ==
  /\ Waiting("copy") /\ Top.chunk = <<>>
  /\ chans' = [chans EXCEPT ![Top.from] = After(@, Chunk)]
  /\ LET got == Got(chans[Top.from], Chunk) IN
     IF got = <<>> THEN Finish("ok", <<>>)
     ELSE active' = InTop([Top EXCEPT !.chunk = got]) /\ UNCHANGED result
  /\ UNCHANGED <<program, order, nextId, hooks, stores>>
CopyWrites ==
  /\ Waiting("copy") /\ Top.chunk # <<>>
  /\ Write(chans[Top.to], Top.to, Top.chunk)
  /\ active' = InTop([Top EXCEPT !.chunk = <<>>])
  /\ UNCHANGED <<program, order, nextId, hooks, result>>

-----------------------------------------------------------------------------
(* seek and tell of a file drop what was read ahead; tell stays where      *)
(* reading stood, and fails where that is before the file (its end moved   *)
(* there by writing).  A pipe can tell; a reflected channel's object does  *)
(* neither and lets both succeed.                                          *)
(* SeekKeeps is a mutant: what was read ahead stays.                       *)
SeekKeeps(ch, at) == [ch EXCEPT !.pos = at]
Settled(ch, at) == [ch EXCEPT !.pos = at, !.buf = <<>>]
Stands(ch) == ch.pos - Len(ch.buf)
Seek(c) ==
  /\ IF c.id \in Open /\ chans[c.id].kind = "file" /\ (c.here => Stands(chans[c.id]) >= 0)
     THEN /\ chans' = [chans EXCEPT ![c.id] = Settled(@, IF c.here THEN Stands(@) ELSE c.at)]
          /\ Answer("ok", <<>>)
     ELSE LET does == IF c.here THEN {"pipeR", "pipeW", "reflected"} ELSE {"reflected"}
          IN  /\ Answer(IF c.id \in Open /\ chans[c.id].kind \in does THEN "ok" ELSE "error", <<>>)
              /\ UNCHANGED chans
  /\ UNCHANGED <<order, nextId, hooks, stores>>

Eof(c) ==
  /\ \/ c.id \in DOMAIN reflected /\ Answer(IF reflected[c.id].eof THEN "eof" ELSE "ok", <<>>)
     \/ /\ c.id \in Open \ DOMAIN reflected
        /\ Answer(IF AtEnd(chans[c.id]) THEN "eof" ELSE "ok", <<>>)
     \/ c.id \notin Open /\ Fail
  /\ UNCHANGED <<tables, hooks, stores>>

(* chan truncate, here to nothing.                                         *)
Truncate(c) ==
  /\ IF c.id \in Open /\ chans[c.id].w /\ chans[c.id].kind = "file"
     THEN file' = <<>> /\ Answer("ok", <<>>) ELSE Fail /\ UNCHANGED file
  /\ UNCHANGED <<tables, hooks, pipes>>

-----------------------------------------------------------------------------
Do(c) ==
  \/ (c.op = "open" /\ OpenFile(c))  \/ (c.op = "child" /\ OpenPipe(c))
  \/ (c.op = "pipe" /\ ChanPipe(c))  \/ (c.op = "create" /\ Create(c))
  \/ (c.op = "push" /\ Push(c))      \/ (c.op = "pop" /\ Pop(c))
  \/ (c.op = "close" /\ Close(c))    \/ (c.op = "half" /\ HalfClose(c))
  \/ (c.op = "puts" /\ Puts(c))      \/ (c.op = "read" /\ Read(c))
  \/ (c.op = "copy" /\ Copy(c))      \/ (c.op = "seek" /\ Seek(c))
  \/ (c.op = "eof" /\ Eof(c))        \/ (c.op = "truncate" /\ Truncate(c))

(* The next command: of the program, or of the method that is running.     *)
Offered ==
  IF Idle THEN program
  ELSE IF Top.kind = "method" /\ result.code # "error" /\ Top.todo # <<>> THEN {Head(Top.todo)} ELSE {}
(* The bounds of the model hold back what a program starts, not a method.  *)
Room(c) ==
  /\ c.op \in {"puts", "copy"} =>
       Len(file) < MaxLen /\ \A p \in DOMAIN pipes : Len(pipes[p].data) < MaxLen
  /\ c.op = "puts" /\ c.id \in Open => chans[c.id].pos < MaxLen
  /\ c.op = "create" => handles.rc < MaxHandles
  /\ c.op = "push" => handles.rt < MaxHandles
Command(c) == Len(active) < MaxNest /\ (Idle => Room(c)) /\ Do(c) /\ UNCHANGED program
TooDeep == /\ Len(active) >= MaxNest /\ Offered # {}
           /\ Fail /\ UNCHANGED <<program, tables, hooks, stores>>

Resumes == \/ MethodEnds \/ Created \/ Pushed \/ Finalized \/ Drained \/ PutText \/ PutNewline
           \/ PutFiltered \/ Answered \/ Through \/ CopyReads \/ CopyWrites

Next == Resumes \/ TooDeep \/ \E c \in Offered : Command(c)
Spec == Init /\ [][Next]_vars

-----------------------------------------------------------------------------
(* Properties *)

(* The table and its order agree; a channel a script implements is open,   *)
(* for as long as its handler has not been asked to finalize; and a place  *)
(* taken for one has its handler, or has been asked.                       *)
TablesAgree ==
  /\ Range(order) = Open /\ Len(order) = Cardinality(Open)
  /\ DOMAIN reflected \subseteq Open \ finalized
  /\ \A id \in Open : chans[id].kind = "reflected" => id \in DOMAIN reflected \cup finalized

(* When eof has told that a pipe is at its end, nothing more comes out of  *)
(* it (PipeShared, "after that, reads at the end of the buffer report      *)
(* EOF"), unless a child's channel takes the name.                         *)
EndStaysEnd == \A id \in Open \cap DOMAIN chans' :
                 chans[id].kind = "pipeR" /\ AtEnd(chans[id])
                   => AtEnd(chans[id])' \/ chans'[id].kind = "child"
EofIsFinal == [][EndStaysEnd]_vars

(* What a channel has read ahead is what the file holds there, so that     *)
(* reads go on where they stood and a write lands there: of channels open  *)
(* for reading only, when the others only append to the file.  It is never *)
(* more than the capacity.                                                 *)
BufferCurrent(ch) == Len(ch.buf) <= ch.pos /\ ch.buf = SubSeq(file, Stands(ch) + 1, ch.pos)
BufferFollows ==
  \A id \in Open : /\ Len(chans[id].buf) <= Cap
                  /\ chans[id].kind = "file" /\ ~chans[id].w => BufferCurrent(chans[id])

(* Violated: "Reads and writes go straight through to the OS, so nothing   *)
(* is ever buffered inside the interpreter for a healthy channel"          *)
(* (chan_pending).                                                         *)
StraightThrough == \A id \in Open : chans[id].buf = <<>>

(* Violated: "A unique channel identifier" (ChannelId).                    *)
NoneReplaced ==
  [][\A id \in Open \cap DOMAIN chans' : chans'[id].kind = chans[id].kind]_vars

(* Violated: "Actual I/O is routed through the handler script by the       *)
(* command layer; this object only carries the direction flags"            *)
(* (PlaceholderChannel).                                                   *)
RoutedThroughHandler ==
  [][CopyWrites => chans[Top.to].kind # "reflected"]_vars
=============================================================================
