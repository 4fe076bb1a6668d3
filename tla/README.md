# rtcl in TLA+

rtcl is a Tcl interpreter in Rust: a parser and a bytecode compiler, a
single-threaded virtual machine with a tree-walking evaluator beside it, a
method JIT, a browser build, and a command line.  This directory holds a
specification of its stateful core, TLC models of small instances of it, and
TLAPS proofs about every instance.

All paths below are relative to the repository; `interp/` stands for
`crates/rtcl-vm/src/interp/`.

- [What the system is](#what-the-system-is)
- [The modules](#the-modules)
- [What the runs check](#what-the-runs-check)
- [Fairness](#fairness)
- [What is proved](#what-is-proved)
- [Where code and documents disagree](#where-code-and-documents-disagree)
- [What is not modelled](#what-is-not-modelled)
- [Plan](#plan)

## What the system is

The interpreter (`Interp`, interp/mod.rs) is one big value used by one thread.
There is no locking and no data race.  What makes it hard is *re-entrancy*:
nearly every command can run a script before it has finished (a proc body, a
trace, an event's script, a deferred script, `namespace eval`, an operator
method), and that script may run any command, including one that changes the
table, frame or queue the outer command is in the middle of using.  An
interleaving in these models is therefore a nesting: a stack of commands in
progress, the innermost of which acts.

| Component | State | Operations | Talks to | What makes it correct |
|---|---|---|---|---|
| Command tables and dispatch (interp/eval.rs, registry.rs, commands/proc.rs, commands/namespace.rs) | `procs`, `commands`, `ensembles`, `import_aliases`, namespaces | proc, rename, register, import, forget, ensemble create, namespace eval/delete, dispatch of a name | caches (generation), traces (callbacks in deletions), frames | a name resolves as documented; imports follow their origin; deletion leaves nothing |
| Resolution caches (interp/mod.rs, vm_exec.rs) | `cmd_cache`, call-site tokens, `cmd_generation` | probe, store, clear when full, refill of a site after the call | every operation of the tables | invisible: a cached call runs what the chain would find |
| Proc calls and frames (interp/call.rs, commands/introspect.rs) | frames, frame pool, statics, deferred scripts, local procs, armed tail calls | call, tail call, defer, local, exit; a second copy for compiled code | dispatch, JIT | namespace and depth balanced; everything a frame owes is paid when it goes |
| Event loop (commands/event.rs) | event queue, variable waited for, loops in progress | after, after idle, after cancel, vwait, update, post, pump | host clock, browser bridge | each event once; update drains; vwait gives up only when it must; loops return |
| Variables, links, slot frames (interp/vars.rs, commands/proc.rs, varmap.rs) | name-keyed or slot-indexed frames, links, namespace variables | set, unset, upvar, global, variable, degradation | traces, frames, JIT | a slot frame behaves as a name-keyed one |
| Traces (commands/trace.rs) | variable, command and execution traces | add, remove, fire | everything, by callback | a trace fires as listed although scripts change the list |
| Ensembles, namespace introspection (commands/namespace.rs) | subcommand maps | create, configure, dispatch | tables | prefix and map resolution |
| TclOO (commands/oo.rs) | classes, objects, method chains | define, new, next, destroy | tables, frames | resolution order; destruction during a call |
| Control flow (commands/control.rs, loops.rs, error.rs) | completion codes, return levels | return, catch, try, tailcall, loops | frames | a completion reaches its target level |
| Bytecode executor (vm_exec.rs, vm_bridge.rs) | operand stack, sites | opcodes | all of the above | agrees with the tree walker |
| Parser, compiler, IR (rtcl-parser, rtcl-ir) | none between calls | source to bytecode | executor | a pure translation |
| Expressions (types/expr_check.rs, expr.rs, expr_compile.rs) | the checker's stack of operators; a position in the text | check, evaluate, skip, compile | parser, executor | three readers of one grammar agree; an operand that is not needed is not evaluated |
| Values, lists, dicts (value.rs, commands/list.rs, commands/dict.rs) | boxes with counts, cached texts, representations | clone, drop, change in place, conversion; lappend, lset, dict commands | variables, bodies of dict commands | sharing, caching and change in place cannot be seen |
| Strings, regexp, json, binary, clock | none | pure functions | - | unit-testable |
| Array searches (commands/array.rs) | searches of an array | startsearch, nextelement, donesearch | variables | a search does not outlive a change |
| Channels (channel.rs, commands/io.rs, chan_io.rs) | channel table, transforms, reflected channels | open, read, write, push, pop, close | scripts, by callback | order of bytes, closing during a callback |
| exec, child interpreters, expect, REPL | processes; interpreters and aliases | | | |
| JIT (rtcl-jit) | code cache, epochs | compile, run, leave | executor, frames | agrees with the executor and the tree walk |
| Browser bridge (rtcl-wasm) | handlers | dispatch_event, pump | event loop | |
| Tcl libraries (log.tcl, rules.tcl, ui.tcl, http.tcl, stdlib.tcl) | log ring, rule sets | | | |

`PROJECT.json` repeats this list with the state of each part, and lists the
hazards, each at the line where it bites.

## The modules

    CommandNames                names, keys, the resolution chain, alias chains
      CommandTable              the tables and everything that changes them
        CommandCache            the two caches in front of the chain
    Deferral                    what `defer` promises (abstract)
      ProcCall                  frames and the two copies of the call machinery
    EventLoop                   after, vwait, update
    FrameVars                   variables in slots, by name and by link
      SlotPromise               what slots promise (abstract)
    Arrays                      elements, variable traces, searches
    CommandTraces               rename, delete and execution traces
    Objects                     TclOO
    Channels                    files, pipes, handlers and transforms
    Texts                       the texts of values: words, numbers, lists, dicts
      PlainValues               what commands on values promise (abstract)
      Values                    words, boxes, counts, change in place
    Bytecode                    scripts as trees, the code compiled from them
      JitCode                   the structured wasm the JIT makes of that code
        Engines                 the tree walk, the executor and the wasm side by side
    ListText                    characters read from a position, lists written and read
      Parser                    the parser of scripts
      Lists                     numbers, indices, list commands
        Strings                 string commands, glob patterns
          Sorting               lsort and lsearch
      Regexp                    the backtracking engine
        RegexpCommands          regexp, regsub and the choice of the engine
    Expressions                 the syntax check of expressions, lexeme by lexeme
      ExprReaders               the evaluator, the compiler, the grammar

    SequenceLemmas              what several proofs need of sequences and of induction
    <name>Proofs                the theorems about module <name>
    CallbacksProofs             the theorems of the machines as MCCallbacks runs them,
                                and about Objects and Arrays
    MC<name>                    the instance of module <name> for TLC
    MCCallbacks, MCTexts        the instances of several modules, one per behaviour

### CommandNames

Pure operators.  A name is `[abs, path]`: a path of words, absolute when it is
written with a leading `::`.  A *key* of a table has the same shape, and the code
does not make the bare `x` and `::x` one key; both occur.  Strings, `split("::")`
and runs of colons are abstracted to paths; nothing the chain decides is.
`Resolve` is the order in which `dispatch_values` (interp/eval.rs:508-706) tries
the tables; `OwnArms`, `EnsArms` and `CmdArms` are its arms; `CommandKey` is the
chain of its own `rename` uses.  Alias chains are followed with a recursive
function (`Hops`) of as many steps as there are aliases, which reaches the end
when there is one; where there is none the code does not return, and the model
(`Hangs`) does not take that step.

### CommandTable

| Variable | Code |
|---|---|
| `procs`, `commands`, `ensembles`, `aliases` | `Interp.procs`, `commands`, `ensembles`, `import_aliases` |
| `namespaces` | the namespaces that exist |
| `stack` | the Rust call stack: `namespace eval` bodies, calls and the two callback windows of a namespace deletion, each with the namespace it runs in |
| `outcome` | history: what the last dispatch ran |

Each command is one action; a namespace deletion is three, because unset traces
and command traces run scripts between its parts (interp/commands/namespace.rs:392-537).
A definition is a body and the value of its statics; the write-back of statics
when a proc returns (`Return`) is there because it changes `procs`.

### CommandCache

Adds `gen`, `cache` and `sites` and replaces the call: a call site looks at its
token, then at the cache, then walks the chain, and after the called command has
returned it is refilled with what the cache holds *then*, from the definition the
table holds *then*.  `callers` remembers, per command in progress, the site to
refill.  `CacheMutate` is any change of the tables with `note_cmd_mutation`;
`CacheQuiet` the ones without (the first halves of a namespace deletion).
The generation starts at 1 instead of 0 so that 0 can stand for a site without
a token (`Option::None` in the code).

The abstract specification is CommandTable itself: `UncachedBehaviour` says that
every behaviour with the caches is a behaviour of the dispatcher without them,
`outcome` included, but for one step (`RunsTheGone`): while a namespace is being
deleted from inside, a warm call site runs a proc the deletion has taken away.
CommandTable and CommandCache share their variables, so the
refinement mapping is the identity.

### Deferral and ProcCall

A frame of ProcCall goes through phases: `body`, `tail` (a tail call is about to
replace it), `eval` (the tail call named a builtin, whose script runs in the frame,
after the armed marker was looked at and the statics were written back), `done`,
`exit`, `script` (one of its deferred scripts is running).
While a script is in the frame's hands it may call further procs.  `engine` says
which copy of the machinery runs it: `call_proc` (interp/call.rs:28-713) or
`jit_call_proc_direct` (887-1163).  The copies differ in where the namespace
comes from, in when local procs are listed, and in what a tail call does; the
model has each as the code has it.

| Variable | Code |
|---|---|
| `procs` | the statics of each definition (`ProcDef.statics`) |
| `frames` | `Interp.frames`, with the locals of `call_proc` that belong to the frame |
| `pool` | frames kept for reuse |
| `ns`, `depth` | `current_namespace`, `call_depth` |
| `redo` | the target of a tail call the direct copy dispatches after popping |
| `raised`, `escaped` | the tail call completion a frame ends with, in the frame and on its way to the caller |
| `last`, `stale` | history: last value assigned to a proc's static; redefined while running |
| `mode` | which copies and which habits of scripts a behaviour has, chosen in Init |

`depth` counts frames.  `call_depth` counts builtins in progress as well, on every
path there is to one (eval.rs:526, call.rs:815), and goes back with them: what the
model leaves out is that the limit is met with fewer frames.

`mode` is a bound of the model.  The properties that hold only without certain
habits (calling by a simple name, tail calls, redefinition during the call...)
say so in their statements; the disagreements below are what happens with them.

`Deferral` is the abstract promise of `defer`: activations with a list of
scripts, run from the last, each once, the activation gone only when none is
left.  `DefersRun` is its specification under the mapping
`todo <- queue \o kept.deferred`; a frame is leaving once its scripts are being run
(`Stage`).

### EventLoop

| Variable | Code |
|---|---|
| `queue` | `Interp.event_queue`, with `left` = fire time minus now |
| `loops` | the calls of vwait, update and pump_events in progress |
| `var` | the variable vwait waits for |
| `canSleep` | whether `HostClock::sleep_ms` works (not in a browser worker) |
| `work` | bound of the model on the commands scripts run |

Time is relative, so that no clock value need grow.  A round of `process_events`
reads the clock once: `reached` is the set of events that reading has reached,
and an event that becomes due later (`left = 0` but not in `reached`) waits for
the next round.  `fresh` is true while no tick has passed since the reading, and
only then an event scheduled without delay joins the round.  `Tick` may happen
between any two steps, also in the middle of a script.  `Dropped` is `Vec::retain`,
written as a recursive function for the proofs.

### FrameVars and SlotPromise

| Variable | Code |
|---|---|
| `frames` | `Interp.frames`: `locals` with `array_locals`, `upvars` (`links`), `slots` with the names of `slot_table`, `slot_aliased` (`aliased`), `link_keys` |
| `globals` | `Interp.globals` with `array_globals` |
| `traced` | the keys of `Interp.var_traces` |
| `live` | whether the one namespace exists |
| `op`, `out` | history: the last operation, its answer, whether a trace fired |

A proc's compiled body reads and writes its variables by index (`LoadLocal`,
`StoreLocal`, `IncrLocal`); every command that is not compiled in goes by name
(`ReadVar`, `WriteVar`...).  `global`, `variable` and `upvar` take one name out of
its slot (`DegradedLink`), leaving with the slot the key of a global link, so that
compiled code still reaches it in one probe; arrays and traces send the frame back
to names as soon as they concern one of its slots (`DegradedFor`), `info vars`
always (`Degraded`).  An array is a flag and the marker the code stores under its
plain name; a trace is the fact that one is set, and `out` says whether it fired.
A program is a sequence of operations in any order, on any frame that runs; what
compiled code may interleave with is therefore everything.

`SlotPromise` is the abstract specification: the same program on frames that have
no slots.  It is FrameVars itself with `SlotLocals <- FALSE`, under the mapping
that degrades every frame.  `AnswersAsWalked` says that every step of the program
with slots is that program's step for the same operation, answer and traces
included.  One exception is the code's own and is named (`Shortcut`): an
instruction on a slot linked to a global goes straight to the global's key even
when that is traced, an array, or reached by a link that has died; all it may
then do is read that global or overwrite its value.

### Arrays

| Variable | Code |
|---|---|
| `table` | the variable at each location (scope and name): none, a scalar, an array with its elements |
| `links` | `CallFrame.upvars`, to globals |
| `traces` | `var_traces` and `elem_traces`, as one list per variable |
| `searches` | `array_searches` of array.rs: the counter and the searches under way |
| `stamps`, `gens` | `array_stamps`, `array_generations`, which tell a search that its array changed |
| `work`, `ret` | the Rust stack of commands in progress and how the innermost ended |

A command is one step where the code runs no script, and otherwise a stack
element with its remaining work, one step per script it fires: the scripts of a
trace (`Fire`) run between the parts of the command that fires them, may be any
command of the program, and nothing stops them from firing themselves again.
The lists a command took before (names, scripts) are in its element.  A program
is a set of commands, a behaviour keeps to one of them.

### CommandTraces

| Variable | Code |
|---|---|
| `cmds` | the procs there are |
| `cmdTraces`, `execTraces`, `ids` | `Interp.cmd_traces`, `exec_traces`, `exec_trace_ids` |
| `steps`, `running` | `exec_step_stack`, `exec_step_running` |
| `doing`, `ended` | calls, bracketed commands and batches of callbacks in progress |

A call goes through `enter` traces, frame, body, `leave` traces; a command of a
body is bracketed by enterstep and leavestep traces of the proc on top of
`steps`.  A batch of callbacks is the snapshot the code takes, and each callback
is looked up again by id before it fires, as `exec_fire_ids` does.

### Objects

| Variable | Code |
|---|---|
| `objects`, `classes`, `created` | `objects`, `classes`, `creation_order` of the OO state |
| `commands`, `spaces`, `nextObj` | commands of objects, their namespaces, `next_obj_id` |
| `memo` | `chain_memo`, `chain_memo_priv`, `obj_cache`, `my_cache`: what `mutation_ctr` has not retired |
| `kont`, `res` | bodies and cascades in progress, how the last one ended |

`LinearizeIn` is the C3 merge of `lin_rec`, `Chain` the order in which a method's
implementations are tried.  A cascade (`destroy` of a class) works off the list
it made when it began, one victim per step, and destructors run in between.

### Channels

| Variable | Code |
|---|---|
| `chans`, `order`, `nextId` | the channel table of channel.rs |
| `reflected`, `transforms`, `handles` | channels scripts implement, handlers stacked on channels, the counters of their names |
| `pipes`, `file` | what `chan pipe` made, the one file |
| `active`, `result`, `finalized` | commands and handler methods in progress; history of finalize calls |

Data is a sequence of lines.  `BufReader` is a list of lines read ahead, at most
`Cap` of them.  A handler is a record of what each method does: which channel
commands it issues, what it gives back, whether it fails.

### MCCallbacks

The four modules above are checked together: `MCCallbacks` declares the variables
of all, and a behaviour is one of a machine, chosen at the start, in which the
others rest as the interpreter starts them (`Fresh`).

### Texts, Values and PlainValues

| Variable | Code |
|---|---|
| `heap` | the boxes (`ValueInner`): count, text (`string`), representation (`rep`); `Free` those of the free list |
| `slots` | a variable's `Value`: unset, an integer in the word itself, or the address of a box |
| `bodies` | the dict commands whose bodies are being evaluated, with the dict each of them holds |
| `did` | history: the command of the last step |

An operator of `Values` takes a heap and gives the heap it leaves, with what else
it makes; `Then` hands that on.  An operand is a word the command owns (`Operand`),
so a command on the variable its operand came from finds the box shared, as in
`lappend x $x`.  The numbers a box counts, the texts it caches and the moment an
integer becomes a box are those of value.rs; a text is a word, a number or a list
(`Texts`), written and read as serialize_list and parse_list do.

`PlainValues` has texts only.  `ValuesArePlain` says that the texts of the
variables, and the dicts that commands with bodies go through, change as
`PlainValues` changes them, with the same command: sharing, copies on write, change
in place and cached texts cannot be seen.  `did` is part of both, so that a step
is compared with its own command and with no other.

### Bytecode, JitCode and Engines

`Bytecode` has scripts as trees (leaf commands, `set` and `incr` of one variable,
`if`, `while`, `for`, `foreach`, `lmap`, `eval`, `catch`, `try`, `return`, `break`,
`continue`, brackets) and `CompileUnit`, the code rtcl-parser/src/compiler.rs makes
of them: which bodies are taken into the unit, with their jumps, loop frames and
region marks, and which commands are dispatched by name.

`JitCode` is rtcl-jit/src/pass, pass by pass (`Passes`), up to wasm laid out flat:
the contexts one walk through the code gives its instructions (`Contexts`), the
edges and the check of the values that arrive on each, what is reached and where
ways meet again (`PostDominators`), the tree of blocks, loops and ifs (`Structure`),
the branches resolved to labels (`Lay`), fuel on branches back.  A unit the check
does not take, or whose branch finds no label, is `Refused` and stays with the
executor, as is a proc's body with a `foreach` (`Escapes`).

`Engines` runs the tree in one engine, the code in the second, the wasm in the third.

| Variable | Code |
|---|---|
| `acts` | per engine, the Rust stack: units with their operand stack, loop frames and region marks; wasm with its registers, the cached variable (`caching`, `kept`, `dirty`), its fuel, the host's foreach frames and the wasm's own counters of their rounds; scripts of the tree walk; builtins in progress |
| `sig` | per engine, the completion on its way up (a Rust `Err`) |
| `var` | per engine, the variable of loops, `set` and `incr` |
| `spent` | whether `Interp.steps` has reached `max_steps` |
| `bumped` | whether `Interp.tier1_epoch` is past the units': `if` has been redefined |
| `prog`, `mode` | what the instance chooses: the script, and which engines run it |

A command the model knows nothing of (`leaf`) completes in any way it may, writes
the variable or redefines `if` where it is one that does, and does all that alike
in the engines: that is the only place where they meet, and it is where
`Interchangeable` compares them, step by step of what can be observed: the order
of leaf commands, their arguments, the variable each of them sees, the completion
at the end.

### Expressions and ExprReaders

| Variable | Code |
|---|---|
| `lexicon`, `outcome` | what the instance chooses: the lexemes of a text, and whether computed numbers count as true |
| `text` | the lexemes `scan_lexeme` has given so far |
| `stack` | the incomplete nodes of `Checker`, from START up, linked through `parent` in the code |
| `complete` | `Complete`: a leaf, a subtree whose root is a colon, another one |
| `operand` | `last_operand` |
| `verdict` | open, ok, or the error `check_expr` returns |

A step of `Expressions` is one turn of the loop of `check_expr`, so that TLC goes
through every text of a lexicon and stops at the lexeme that rejects it.  A lexeme
is a token; of operators that rank alike one or two stand for all.

`ExprReaders` has no step of its own: `Evaluated` is what the recursive descent of
expr.rs makes of `text` (value, position reached, leaves read), with the skips that
pass over operands (`Skip`, `SkipTernary`) as the scans they are; `Compiled` is the
stack code of expr_compile.rs, `Peephole` the one rule of bytecode.rs that changes
values, `Run` the executor on it.  A value is the postfix code that computes it and
what it counts as, so that two values are equal only if they are computed alike.
`Fits` and `Meaning` say what the text is by the ranks alone, splitting it at the
operator that binds least: they share nothing with the readers but the ranks.

### Texts of lists, scripts and patterns

`MCTexts` lets a text grow out of a lexicon, lexeme by lexeme, and asks of each
what its readers make of it.  The readers have no state; they are recursive
operators over a sequence of characters and a position (`ListText`).

| Module | Code |
|---|---|
| `ListText` | the list writer (`scan_element`, `convert_element`), the list reader (`find_element`, `scan_backslash`), `concat`, `tcl_quote` |
| `Parser` | rtcl-parser/src/rd: tokens, words with their parts, brackets, `$name(index)`, expression sugar, comments, `{*}`; `is_complete` |
| `Regexp` | regexp_bt.rs: the compiler, with flags, bounds, classes, look-around and the digits that wait for the number of groups; the matcher, in which what is left to match is a list where the code passes closures, and the one table of groups goes through every attempt |
| `RegexpCommands` | regexp_cmds.rs: what is rejected before, which engine runs, `collect_matches`, `regexp`, `regsub`; `Search` stands for the regex crate (external): the states of its automaton, tried in the order of preference and once at a position; `Ways` is the reference for the backtracking engine: all the ways to match, in the order it prefers them |
| `Lists` | numbers and indices (list.rs; list_sort.rs: the indices of `-index`, kept for lists of any length); list.rs: elements, ranges, changes, `split`, `join`, `lmap` |
| `Strings` | string_cmds.rs; `glob_match` (util.rs) |
| `Sorting` | list_sort.rs: `lsort`, a merge sort whose runs are added like a binary counter, and `lsearch`, scanning and halving |

In all of them an error is a value (`why`), as are Rust's `Err`.

## What the runs check

Every property has a mutant: a definition changed the way a plausible mistake
would, on which TLC finds the property violated.  Mutants stand beside the
definition they change and are marked so.

| Run | Question | Properties | Instance, and why it is enough |
|---|---|---|---|
| `cache` | Are the caches invisible, and what do renames, imports and namespace deletions leave? | CacheCoherent, TokensCurrent, UncachedBehaviour, RenameKeepsImports, DeletionTakesImports | six programs: redefining (`x` means two things, statics, a proc that redefines or renames its caller), importing (two namespaces, ensembles), deleting (from inside and outside, with callbacks that define and call; once more with fewer entries and depth 3, so that a callback of a deletion from inside calls from a warm site) and unloading (callbacks that define in the dying tree), each with 1 site, a cache of 1 and two or three generations; renaming, without calls and with six generations: an import of an import, a rename of either |
| `calls` | Do frames pay what they owe? | Balanced, FrameAtHome, StaticsPersist, LocalsOwned, MarkersFire, DefersRun | p with statics, q in a namespace, h local; two frames deep, two deferred scripts, a pool of 1; six modes, in two of which scripts assign and tail-call when the body is over |
| `events` | Does each event run once, do loops end? | RunsOnce, UpdateDrains, VwaitHoldsOut, LoopsReturn | 3 events, delays up to 2 ticks, loops three deep, 5 commands; clocks that can sleep and that cannot |
| `vars` | Is a slot frame a name-keyed one? | OneHome, ReachedByName, AnswersAsWalked | names x and y, a global x, a namespace variable n::x, a body with slots for both and one without; two frames, two values, six operations; five programs, each with the compiled operations and three of the groups of commands.  Six operations are a call, a link in the outer frame, a call, a link in the inner one, and two uses |
| `values` | Are sharing, change in place and caching of texts invisible, and are counts exact? | CountsAreExact, ValuesArePlain | ten programs of five to seven commands over two variables: a list that is put into itself, a dict two deep, integers of 4 bits that outgrow their word, each dict command with a body that changes its own dict; texts of up to seven words, 24 boxes (never all in use) |
| `callbacks` | Do traces, methods and handlers that act on what they are called for leave it in order? | SearchCovers, FrameTracesGone, StepContext, LeaveStepPairs, MemoFresh, ReferencesLive, GoneEitherWay, TablesAgree, BufferFollows, EofIsFinal | one machine per behaviour.  Arrays: one array of two elements, one frame used again and again, two traces, four commands deep: a trace in a trace in a command on many elements.  Command traces: two procs that call and trace each other, two traces, five things in progress.  Objects: four names, four namespaces, three deep: a class, a subclass, an object of each, and bodies that change, call and destroy them.  Channels: every handler habit with every second handler, a pipe with transforms on either end, a file read while it grows, children; six things in progress |
| `engines` | Do the executor and the wasm do what the tree walk does? | Interchangeable, FramesMatchText, BudgetEnds | every command with a place for a script, in every such place of every other, two deep, around scripts that break, continue, fail and return; `set` and `incr` before, in and after what runs on the host, with commands that write the variable; commands that redefine `if`, in the unit and below it; one engine alone where only the budget matters.  Three engines run what the passes take and the wasm runs as the others do; `Agrees` (MCEngines) names the rest, which the first two run |
| `texts` | Do the readers of a text agree? | ReadersAgree, ListsReadBack, EnginesAgree, IndicesAgree, SortsStably | every text of up to 7 lexemes of what skips operands (`?:`, `||`, `&&`, calls) and of the ladder of ranks, up to 6 and 5 of what is compiled and of signs, strings and word operators: seven lexemes hold two operators that skip inside a third, or four ranks; lists of up to 6 characters out of every kind the writer tells apart, in four mixtures; patterns of up to 6 lexemes (groups, alternatives, repetitions, back references, look-ahead, anchors) on every text of up to 3 of two letters: a group in a repetition that is left and entered again (the crate and the other engine find the same groups unless something that may be empty is repeated, and then matches that start at the same place); glob patterns of up to 4 lexemes on the same texts; two indices of up to 5 lexemes in all (two terms, signs, bases, blanks) on lists and texts of up to three, with integers of 5 bits and indices of 3, so that sums wrap; lists of up to five characters sorted by text, without case, as numbers, by dictionary and by a command, forwards and backwards, with two runs at a time where the code has 30, so that the table of runs is full |

Every command that has been started may end, and a script may do nothing more,
so runs of the command tables switch deadlock checking off: with the bounds on
entries and on the generation reached, no step may be left; in `texts` a
text ends at its bound or with its verdict; in `values` a program stops once a text is larger
than its bound.  In `vars` a
behaviour is cut after `MaxSteps` operations, and states that differ in `op` and
`out` alone, which no action reads, are one state (`MCView`; so are states of `values`
that differ in `did`).  All others are
checked for deadlock.

Bounds of the model, all in guards: `MaxEntries`, `MaxDepth`, `Script`,
`InsideDelete` (CommandTable), `MaxGen` (CommandCache), `MaxDefer`, `Modes`
(ProcCall), `Work`, `Cmds`, `MaxLoops`, `Ids` (EventLoop), `MaxVal`, `MaxFrames`,
`BlockedLinks` (FrameVars), `MaxSteps`, `Programs` (MCSlotPromise), `Programs`,
`MaxFrames`, `MaxTraces`, `MaxCount` (Arrays), `Programs`, `MaxIds`
(CommandTraces, Objects), `Programs`, `MaxIds`, `MaxHandles`, `MaxLen`
(Channels), `Boxes`, `Bits`, `Programs` (Values), `Programs`, `Lone`, `Most` (Engines), `Lexicons` (Expressions, MCTexts), `IntBits`, `IndexBits` (Lists), `NumLists` (Sorting).  `CacheMax`, `MaxCallDepth` and `MaxNest`,
`PoolMax`, `Cap` and `Chunk` are limits the code has (8192, 1000, 32, a buffer
of BufReader, a block of `chan copy` and, in Engines, the jumps back a `refuel` pays for),
made small.

Four more runs show a disagreement each:

| Run | Property | What happens |
|---|---|---|
| `engines_part` | Interchangeable | a `continue` written in a `foreach` body that itself stands in the next script of a `for`: compiled, it closes the wrong loop frame and the next script repeats without end |
| `handler` | ArgumentsQuoted | the argument of a handler has a brace that is not balanced: `tcl_quote` puts it in braces, the script falls apart |
| `continuation` | ContinuationEndsWord | a continued line after `$x`, `[cmd]` or an escape does not end the word |
| `emptied` | FoundAlike | `()*`: a group that is repeated and matches nothing is set by the regex crate (`x*` of a body that may be empty is `(x+)?` there) and left unset by the guard of the backtracking engine; of `(|a)*` on `aa` the crate matches nothing, the other engine all |

## Fairness

EventLoop and Engines have a liveness property each.

EventLoop, for `LoopsReturn`:

- `WF(Step)`: the code of a loop (read the queue, run an event, return, sleep)
  goes on; it is straight-line Rust.
- `WF(ScriptEnds)`: a script ends.  This is an assumption about scripts, not
  about the code: one that loops forever holds up the interpreter as it should.
- `WF(Tick)`: the clock runs.  Without it a loop would wait for a timer forever.

`LoopsReturn` assumes moreover that scripts do not schedule new events forever
(`Work`); without that (`Endless`) it fails, see below.

Engines, for `BudgetEnds` (a script ends once its step budget is used up, in
any engine, whatever it catches and however it loops):

- `WF(Work)`: each engine goes on, which is straight-line Rust again.
- `WF(Answer)`: commands the model knows nothing of complete.

## What is proved

By TLAPS, for every value of the constants that satisfies the ASSUMEs, which are
TLC-checked on every run that uses the module:

| Theorem | Module | Says |
|---|---|---|
| `TableTypes` | CommandCacheProofs | `TableSpec => []TableTypeOK` |
| `CacheTypes` | CommandCacheProofs | `CacheSpec => []TypeOK` |
| `CoherentCache` | CommandCacheProofs | `CacheSpec => []CacheCoherent` |
| `CurrentTokens` | CommandCacheProofs | `CacheSpec => []TokensCurrent` |
| `CachesAreInvisible` | CommandCacheProofs | `CacheSpec => UncachedBehaviour`, a refinement |
| `CallTypes` | ProcCallProofs | `Spec => []TypeOK` |
| `CallsBalance` | ProcCallProofs | `Spec => []Balanced` |
| `FramesAtHome` | ProcCallProofs | `Spec => []FrameAtHome` |
| `LocalsHaveOwners` | ProcCallProofs | `Spec => []LocalsOwned` |
| `ArmedCallsFire` | ProcCallProofs | `Spec => MarkersFire` |
| `StaticsSurvive` | ProcCallProofs | `Spec => []StaticsPersist` |
| `DeferredScriptsRun` | ProcCallProofs | `Spec => DefersRun`, a refinement, where `Deferring(m)` for every mode m |
| `LoopTypes` | EventLoopProofs | `Spec => []TypeOK` |
| `EventsRunOnce` | EventLoopProofs | `Spec => []RunsOnce` |
| `UpdatesDrain` | EventLoopProofs | `Spec => UpdateDrains` |
| `VwaitsHoldOut` | EventLoopProofs | `Spec => VwaitHoldsOut` |
| `FrameTypes` | FrameVarsProofs | `Spec => []TypeOK` |
| `VariablesHaveOneHome` | FrameVarsProofs | `Spec => []OneHome`, where `~BlockedLinks` |
| `NamesAreReached` | FrameVarsProofs | `Spec => []ReachedByName` |
| `SlotsKeepTheirPromise` | FrameVarsProofs | `Spec => AnswersAsWalked`, a refinement, where `~BlockedLinks` |
| `ContextsMatchCalls` | CommandTracesProofs | `Spec => []StepContext` |
| `LeaveStepsArePaired` | CommandTracesProofs | `Spec => []LeaveStepPairs` |
| `CallbacksAreCounted` | CommandTracesProofs | `Spec => []RunningCounts` |
| `MemoIsFresh` | CallbacksProofs | `MemoFresh` of any behaviour of Objects, whatever its programs |
| `GoneForGood` | CallbacksProofs | `GoneEitherWay`, of the same |
| `TablesInStep` | ChannelsProofs | `Spec => []TablesAgree` |
| `ReadAheadIsCurrent` | ChannelsProofs | `Spec => []BufferFollows`, where programs are `Proper` with `Habits` |
| `EndsAreFinal` | ChannelsProofs | `Spec => EofIsFinal`, where commands are well-formed |
| `ContextsAsRun`, `LeaveStepsAsRun`, `MemoAsRun`, `GoneAsRun` | CallbacksProofs | `StepContext`, `LeaveStepPairs`, `MemoFresh`, `GoneEitherWay` of `MCSpec` of MCCallbacks |
| `SearchesAsRun`, `FrameTracesAsRun` | CallbacksProofs | `MCSpec => []SearchCovers`, `MCSpec => []FrameTracesGone` |
| `TablesAsRun`, `BufferAsRun` | CallbacksProofs | `MCSpec => []TablesAgree`, `MCSpec => []BufferFollows` |
| `EofAsRun` | CallbacksProofs | `MCSpec => EofIsFinal` |

**The caches.**  `CacheCoherent` is not inductive on its own: the step of a call
relies on the types of the tables, on the entries being of generations already
given out, and on `TokensCurrent`.  The invariant is

    IInv == TableTypeOK /\ TypeOK /\ IsFiniteSet(DOMAIN cache)
            /\ CacheCoherent /\ TokensCurrent

Its steps are of three kinds.  A *mutation* raises the generation, so that no
entry and no token is live any more (`RaisedIsCoherent`).  A *call* leaves the
tables alone, stores a winner the chain has just given (`PutCoherent`), or
refills a site from a coherent cache (`RefillLive`, `RefillSites`).  The hard
step is the *quiet* one, the first half of a namespace deletion, which removes
procs without raising the generation: `ResolveStable` shows that removing procs
from the tables leaves every verdict that names a surviving proc as it was, so
that a memoised winner that still `Serves` is still the chain's; a token that
carries its definition is not covered by this, which is why `TokensCurrent`
excludes that window; `DispatchesLive` is what fails in it.

**No caches.**  That a cached answer is the chain's does not make a cached call a
call: on a chain of aliases without an end the walk would not return, and
`Call` is not enabled.  `Ends` adds to `IInv` that a memoised winner was put there
by a walk that came to an end and that the walk still does (`HangsStable`), and
says what `TokensCurrent` leaves open, that in the middle of a deletion a token is
either the chain's or carries a proc that is gone, which is the exception
`RunsTheGone`.  With it a call is `Call` or the exception, whichever of the three
answers it (`CallUncached`).

**The frames.**  `Balanced` says nothing of where a frame returns to, so it is not
inductive: popping the innermost frame restores the namespace *it* saved.  `Linked`
adds that every frame saved the namespace of the one below it.  The other facts
are of one frame at a time (`FrameOK`): what a frame of the mode may look like in
each phase.  Two of them carry the properties: a frame of `call_proc` on its way
out has no armed marker, unless a script that runs when the body is over arms it
(a deferred one, or a tail-called builtin's; only then are there `raised` and
`escaped` tail calls), which gives `MarkersFire` once it is shown that only `Exit`
and `TailDirect` take a frame away (`ExitsPop`); and what the direct copy has listed for removal is what the
frame owns, unless its deferred scripts make procs local, which with the marker
facts gives `LocalsOwned`.  The stack of frames changes in three ways, one lemma
each (`Replaced`, `Pushed`, `Popped`); an action's proof then only shows the new
innermost frame to be `FrameOK`.

**The statics.**  `StaticsPersist` speaks of definitions no frame runs; while one
does, the value the last assignment gave is in the frame and the definition is
behind.  `Safe` says where it is then, under the habits the property allows
(`Careful`): at most one frame *keeps* a static proc, it is the one whose value is
`last`, and it holds the key the definition has, so that the write-back meets it.
A tail call makes the frame another proc's, and is the hard step: the write-back
must come before the frame changes hands.

**The promise of `defer`.**  Under the mapping of `Promise`, a frame's scripts are in
one place at a time (`OnePlace`): in the frame until it is left, then in the
queue; every action is one of `Deferral`'s steps or a stutter.  The hypothesis
names the two things the code does otherwise, which are disagreements below: what
a deferred script defers is dropped, and the direct copy drops what was deferred
when it makes a tail call.  The run's modes satisfy it.

**The event loop.**  `RunsOnce` needs to know that numbers in the queue differ
(`Pending`), that what a round has `reached` or owes is in the queue and was ready
(`Knows`), and that every loop but the innermost is in a script.  The three action
properties follow from it: each is a fact of a few actions, and
the rest is that no other action takes a loop away or lets time pass.  `Dropped` (Vec::retain) and
the numbering of sequences are treated once, in `SequenceLemmas`.

**The variables.**  The invariant has the types, `OneHome` with what it leaves open (a
name that is a link keeps nothing in its slot; without a link nothing is under the
name), `ReachedByName`, and where a link can lead: to its own frame or one below,
and to a global if it is dead (`LinkOK`).  Without the last `upvar` could follow a
link into a frame that has returned.  Each operation puts a value, installs a link,
degrades a name or degrades a frame, and there is one lemma for each of these.
`BlockedLinks` is the disagreement about `upvar` onto a name with a slot value;
with it `OneHome` fails.  The walk from link to link that `upvar` does is bounded by
the frames there are, and the proof unrolls it.

**The promise of slots.**  The refinement maps the stack to the stack by names:
`Flat(frames)` degrades every frame, and what degrading leaves of a frame is fixed by
its variables by name and its links (`Plain`, `SamePlain`).  Two frames are
therefore the same to the walked program when they agree on those, and there is
one lemma for each way a frame changes: a value under a name, a value in a slot, a
name that leaves its slots (which changes nothing), a link installed
(`NameByNames`, `SlotByNames`, `LeftSlots`, `RelinkedByNames`).  The reads come first
(`WalkedReads`): under the invariant the walked program finds what the slots
give.  Then every operation is shown to be the same operation of the walked
program; two need more.  `unset` of a global drops the copies that links were
seeded with, frame by frame; `upvar` walks from link to link, and both programs take
the same hops since links are the same by names (`HopFlat`, `OneHops`).  The
instructions on a linked slot are where the two part: short of `Shortcut`'s three
cases the key is what the name stands for (`KeyPlain`); in them the step is the
exception and no more.

**The traces.**  What is under way is one stack, and callbacks can do anything to the
tables while it stands, so the invariant `Good` is of the stack, the contexts and the
counter together and says next to nothing of the tables (`Registered`).  Every
action takes the top off, puts something on, or both: `PopGood` and `PushGood` say what
each does to the three, and an action's proof shows what it puts on to be of one of the
five shapes and, where it alters the top, whether it carries a context, counts as
running, or holds a snapshot.  `StepContext` counts the calls that have a
context; that `Entered` pushes the name a call was entered by needs to know that no
tail call has happened yet (the clause of `Shape` on the stage `enter`), and that
`BodyEnds` and `TailCall` touch the context of their own call is `PopContext`.  `LeaveStepPairs` needs that the
thing below a batch of leavestep is the step it was fired for, with its snapshot.

**The memo.**  `MemoFresh` is inductive as it stands: every step either retires
the memo or leaves the classes and objects alone (`Settled`), and `BuildChain`
reads nothing else (`ResolutionReads`).  What it takes is to follow every path of
every operation, through constructors, cascades and the end of a body, to where it
retires the memo; and to see that an entry that a call adds before the body runs is
added before anything the same step changes.

**Gone.**  The frames on `kont` are bodies and cascades.  A step only pushes
frames, changes the top in place, or takes the top off; the last is `Leave`
or `Land`, which detach the object first when it was being destroyed or its
constructor failed (`LeaveGone`).  The invariant needed is that `kont` is a sequence.

**The searches.**  `AllCovered` asks the same of every search, whether its stamp is
current or not, and adds that a search is of no array younger than the one there is.
Stamps then play no part: an operation that changes the elements of an array has
ended its searches, and one that makes an array anew has left them behind
(`RemadeCovered`).  Each operation changes one location, wherever its name may lead
(`At`).  For the traces of frames it does matter where a name leads: a link leads to
the global frame, every other name into the innermost one (`ResolveInside`), so that
nothing is traced above it.

**The channels.**  A method can do anything to the tables while commands below it on
the stack are half done, so `ChannelsOK` says of each kind of half-done command what
it relies on (`FrameOK`): the name a creation is for has been given out and is
neither open nor finalized, and no two creations are for the same; a channel that is
being drained has no handler any more; one that is being finalized is known to be.
Every step but a registration of a created channel is `Steady`: it may take handlers,
channels and transforms away, and give names out, but what the stack relies on stays
(`SteadyStack`, `SteadyTables`).  An action's proof shows it `Steady` and what it
pushes to be of one of the shapes.  The registration is the one step that puts a
handler into the table, and it needs all of `FrameOK` of its own creation and `Apart`
of the others.

**What channels hold.**  `BufferFollows` and `EofIsFinal` are of the data, and need every
command to be what its kind of command is (`CommandOK`), those in the methods of handlers included:
`DataOK(G, q)` says that the program and all its handlers keep to a set G of such commands, and
what they do with the file (q).  q is `"append"` when writers only append and nothing truncates,
`"write"` when no channel only reads the file, `"any"` otherwise.  `BufferFollows` holds of the first two, which
are the `Habits`: a write into the middle, or a truncation, is a line read ahead that is
no longer the file's, and `Settled` is what a seek does about it.  `EofIsFinal` needs none of them.
The invariant has four parts.  The *stores* are lines.  Each *channel* is typed, and one that
only reads has read ahead what the file holds (`Current`); for that a fill of the buffer, a
read and a seek are each shown to keep what was read ahead in front of the position
(`FetchedCurrent`, `AfterFile`, `SettledMoved`).  The *pipes*: the end a channel writes
to is open, it is the only one that writes there, and the names of pipes have been given out (`WritersOK`), so that
no new channel but a child's takes one and nothing is written after the writer has gone.  On the *stack*, `chan copy` is
innermost for as long as it goes on, with two open channels; it calls nothing, so that no
method can close one of them (`CopyUnder`).  A step changes the table in one of a few ways (a channel goes, is added, moves; a
write; a truncation; a pair of ends), one lemma each, and `Goes` is that the table is then still as it should be and every
pipe at its end still is.  That the programs of the run have the `Habits` is
`ProgramsKeep`.

MCCallbacks, the module the run checks, takes the machines of commands and channels from CommandTracesProofs
and ChannelsProofs, so that the facts about them can be cited there: CallbacksProofs
shows that the run's specification has the properties too.  Objects and Arrays are
treated there directly, as instances.

**Induction.**  The library's induction theorems cannot be used, but a least
counterexample can: `SequenceLemmas` derives from the well-foundedness of `<` that a
property that holds at 0 and is passed on holds up to any number (`Steps`), for a
set instead of a predicate.  The recursive functions of the models (`Dropped`,
`Ultimate`) are unrolled with it.

**The types** of the tables, the caches, the calls, the loops and the variables
are proved and not run: they
are the first conjuncts of the invariants above, and every step of a proof uses them.

**Model-checked only.**  Liveness under fairness (`LoopsReturn`, `BudgetEnds`) and
ENABLED are beyond the prover.  What `Hops` computes for alias chains is not
proved: the properties
on alias chains (`RenameKeepsImports`, `DeletionTakesImports`) are left to TLC, and
`Bytecode` and `JitCode`, which are recursive over the tree of a script and of its
code, declare RECURSIVE operators, so that nothing is proved in them and in `Engines`; nor in `Expressions` and
`ExprReaders`, whose readers descend over a text, nor in the modules of `MCTexts`.
The refinement `ValuesArePlain` is checked.  `Values` declares RECURSIVE operators
too, so `CountsAreExact` stays with TLC.  `ReferencesLive` of Objects holds only of programs with the
habits the run's programs have: destructors make no class and no class is renamed.  A
proof would first have to state these habits of a program and of every body in it, and there is
none yet.

## Where code and documents disagree

Four are runs (above), quoted in `PROJECT.json`.  The others are present in the
models as the code has them.  For some of them the violated formula stands in the
module, so that a run that checks it shows the trace; it is named in parentheses,
with the instance where that is not the usual one.

Violated when checked:

- While a namespace is being deleted from inside, its procs are gone and the
  generation is not yet raised: a warm call site runs a proc that no longer exists,
  from a delete trace (`DispatchesLive`; namespace.rs:489 against vm_exec.rs:2671).  It is the one step
  in which the caches show (`CachesAreInvisible`).
- An operand that is skipped after `||` or `&&` is skipped too far: the scans halt at
  `||`, `&&`, `?` and a closing parenthesis, and not at `:` or `,`
  (`SkipsOneOperand`; expr.rs:1100-1114).  `expr {1 ? 1 || 0 : 2}` fails with
  "expected ':'", `expr {max(1 || 0, 5)}` loses its second argument.
- `rename` onto the key of an import closes a chain of aliases, and `origin_of`
  never returns (`AliasesEnd`; namespace.rs:2057, proc.rs:1018).
- `update` never returns when a script ends in `after 0 [itself]` (`LoopsReturn`
  with `Endless`; event.rs:267 against 247, 343).
- A tail call from compiled code pops its frame before deferred scripts run, and
  drops them (`DefersRun` with `Modes <- MCDirectTail`; call.rs:1092 against
  1128-1140, and 871-874, which says the epilogue is replicated item by item).
- An `upvar` that fails because the name is taken leaves the name's slot marked as
  linked, and the variable is lost to compiled code (`AnswersAsWalked` with
  `BlockedLinks = TRUE`; proc.rs:733 against 735-746, mod.rs:194-198).
- A search may still give an element the array no longer has (`NoGhostElement`);
  `array get` shows elements of the array a callback has made anew under the name
  (`GetSkipsRecreated`).
- Execution traces stay under the name of a deleted command (`NoExecTracesOfTheDead`;
  trace.rs:293-296), and a call made while no trace exists does not push its context,
  so that its commands fire the step traces of another proc (`StepsOfOwnBody`;
  call.rs:57-59).
- An object destroyed again from its own destructor is gone when the outer
  destruction resumes, which then takes the global namespace away (`GlobalStays`;
  mod.rs:575); `superclass` closes circles (`NoCircle` with
  `Programs <- Circular`; oo.rs:2109); a mixin that is also a subclass of the class's
  parent can put the parent's method before it (`OverrideWins` with `Overrides`;
  oo.rs:9-11).
- A channel open for reading and writing keeps lines read ahead, so that what it
  writes lands past them (`StraightThrough` with `UpdatePrograms`; chan_io.rs:1132);
  a child's channel takes the name of a file's when its process id is that number
  (`NoneReplaced` with `ChildPrograms`, `LowPids`; channel.rs:20); `chan copy`
  to a channel a script implements bypasses its handler (`RoutedThroughHandler`
  with `CopyPrograms`; channel.rs:858).
- A `for` in the next script of another, with a `continue` in its own next or
  start script, and a `break` out of a bracket in a loop's condition: compiled,
  they are the inner loop's, walked, they are the enclosing one's
  (`Interchangeable` with `Programs <- OtherStrays`).

Seen while modelling:

- `incr` past 64 bits: vars.rs:229 and 1304 leave the sum to "the real `incr` (ARITH
  IOVERFLOW error)", and the real `incr` adds without a check (misc.rs:543), as
  `dict incr` does (dict.rs:484): the sum wraps in a release build and panics in a
  debug build (`Sum` wraps).
- A continued line inside a braced element: value.rs:1387 says "Backslash-newline
  cannot be brace-quoted", and the writer looks at the backslash before the line end
  only; with a backslash or a carriage return in between the element is put in
  braces, and the parser joins the lines (word.rs:70 says "no substitution").
- `lsearch -all -inline -stride -index` shows each group from its compared element on,
  and without `-all` the group (list_sort.rs:480-482 against 526-529); `-bisect` with
  `-stride` answers minus the stride when nothing fits (`Halved`).
- `-index` takes terms past 2^32-1, which other indices reject (list_sort.rs:90-111
  against list.rs:144-163); the least 64-bit integer is an integer to `string is`
  (string_cmds.rs:556) and to no other reader (list.rs:114-115).
- `is_complete` takes every brace for an opener: `a{` is a command and incomplete
  to it; `a" "b` and `$a(` are complete to it and refused by the parser.
- A script that is a continued line alone is a command of one empty word.
- A third octal digit may make 256 and more in the parser (then the character 0) and
  not in the list reader.
- Regular expressions: the header of regexp_bt.rs says `(?<=` and `(?<!` where the code
  takes `(<=` and `(<!`; `\316` is read as a decimal number; `(?q)` leaves
  quantifiers, bars and closing parentheses special; the basic syntax has no groups;
  `(?=+)` passes the validator and does not compile; `regexp -about` counts the
  groups of a pattern two ways (`CountGroups`); `regsub -command` puts groups in
  braces as they are; `-start {}` panics (parse_start_index).  An attempt of `-all` in
  the backtracking engine, or in the other with `\A`, is given a slice of the text:
  `^`, `\m` and the like hold where the attempt starts (regexp_cmds.rs:374-399), where
  569-575 says so of `\A` only.
- Expressions (the first three are exceptions that `ReadsTheGrammar` and
  `CompiledAgrees` name): a minus before `"5"` or `{5}` is not taken for a sign
  (expr.rs:406-426), so that the evaluator stops before it, with no error, as it does
  whatever text it leaves unread; `lt`, `gt`, `le`, `ge` are evaluated on the level of
  `==` while the check ranks them with `<` (expr_check.rs:117-119); compiled, `($x)`
  is the string as it is where the evaluator makes it a number, although
  expr_compile.rs:57-60 leaves bare operands to the evaluator for that reason, and
  `!!$x` is `$x` (bytecode.rs:1281-1287), any true number and not 1.
- The check takes a comment as a lexeme, the evaluator does not skip it.
- `proc x` and `proc ::x` register two commands (`DefinedKey`): the comment at
  interp/commands/proc.rs:74-76 says both spellings "must land on the SAME
  registered key", which holds for qualified names only (line 77).
- An import without `-force` hides a host command registered as `::b::x`
  (`Taken`): interp/commands/namespace.rs:907-909 promises a conflict, and the
  builtin table is consulted at the global level only (917-919).
- Tail calls from `jit_call_proc_direct` also leave local procs behind
  (call.rs:1092 against 608-620), are looked up in the caller's namespace (1101
  against 538-544), and a marker that a `catch` left armed never fires (1083
  against 464-480).  The direct copy's namespace is that of the name as invoked
  (962), and it lists local procs before the deferred scripts run (1129).
- A builtin that a tail call names runs in the frame after the marker was looked at
  and the statics were written back (call.rs:538-546, 808-826 against 464-508).  A
  tail call that its script makes and catches never fires (`tailcall catch {tailcall
  q}`), where mod.rs:229-231 says a `catch` "still lets it fire"; one that is not caught
  is the frame's completion and replaces the caller; a static that it changes
  (`tailcall incr n`) is lost.  The modes with the habit `late` have all three.
- A proc defined over an import leaves the entry of the alias (proc.rs:149-165), so
  that renaming the proc turns the chains that went through the import aside (1018).
- A script deferred by a deferred script is dropped (602); mod.rs:190 says
  scripts registered by `defer` run on frame exit.
- Inside a namespace, `rename x y` takes the global x where a call of x runs the
  namespace's (`CommandKey` against `Resolve`): proc.rs:1059-1060 says the key is
  found "mirroring dispatch's fallback chain", and tries the exact key first.
- Statics: a recursive call's statics are overwritten by its caller's, each frame
  writing back its own copy (call.rs:581), where mod.rs:58 says "persist across
  calls"; a proc redefined by its own body gets the old definition's statics
  (593); a global proc called as `::p` does not persist them (593); what a
  deferred script assigns is lost (600, after the write-back at 581).
- An event that becomes due in the middle of a round waits for the next, and idle
  events that reschedule themselves keep the round going (event.rs:322).
- vwait compares values (192-203): a variable set to the value it had goes
  unnoticed, where 180-181 says "modified (set or unset)".
- `exit` in an event's script is dropped with the script's other completions (348-353).
- docs/UI-DSL.md:158-160 allows timers under vwait in the worker; a clock that
  cannot sleep makes vwait fail on a timer that is not yet due (222-228).
- Compiled code on a slot linked to a global fires no trace of that global
  (vars.rs:67-71, 96-105), overwrites the marker of an array where `set` refuses,
  and writes through a link that a namespace deletion has killed, once the
  namespace is there again; a refused write is dropped (vars.rs:110).  trace.rs:127-129
  sends a traced local back to names because "slot writes don't run the trace
  machinery"; a traced global behind a link is not thought of.
- Unsetting a whole global array leaves the copies linked frames have of its
  marker, which a read through the link then finds (vars.rs:1355-1372); unsetting
  a scalar removes them (787-812).
- `upcall` looks in a table nothing fills (introspect.rs:146), and `local proc`
  marks nothing because `proc` returns the empty string (introspect.rs:123).
- `now + delay` is an unchecked 64-bit sum (event.rs:84).
- A delete trace that defines the command again loses the new command's traces
  (trace.rs:459-461).
- `array unset` and `array get` through a link of another name resolve the name of
  the array's owner in the current frame when they fire traces; `array unset a`
  leaves the array existing; a legacy `trace variable a(x)` never fires.
- A failing script of `oo::class create` detaches the class without its cascade;
  a destructor that creates an instance during the cascade leaves an orphan;
  `rename` leaves the OO tables as they are; destructors run all in order *and*
  `next` runs the later ones again; only an object's own constructor runs; a
  hierarchy C3 cannot order loses `destroy`.
- A handler whose `finalize` fails leaves a channel open that has none; a second
  `chan push` or `chan pop` from `drain` drops the transform without `finalize`;
  `read f n` is a single buffered read and may be short; `gets` on a channel a
  script implements loses the lines after the first; `tell` changes where the next
  write lands; `eof` of a file is not cleared by `seek`; copying a channel onto
  itself never ends.
- `finally` is skipped when a handler clause is malformed or its variable cannot
  be set (control.rs:915-1027).
- The wasm of a unit (rtcl-jit/src) parts from the executor, all in
  `JitCode` and `Engines`, where the run's programs keep clear of them:
  - the contexts (`Contexts`) are those of one walk through the code, which ir.rs:99-100
    and alloc_locals.rs:5 call the same on every path.  After a literal `break` or
    `continue` in an inner loop, a bracket or a start script they are not, and calls
    behind it have the wrong site or loop;
  - a `set` or `incr` that stays in the cache is lost when the unit ends or fails
    before the next call (assemble.rs:1165-1179 returns without `emit_flush`; `JitStore`,
    `JitResult`);
  - a builtin redefined in a body or bracket ends the unit with an error, where the
    executor goes on (`Redispatched`), and the epoch is compared only when the command
    ended well (exec.rs:753): a redefinition that completes with `break` or `continue`
    goes on in the old code.  The test of the epoch woven in after a branch back is
    never reached;
  - `return [break]` returns the empty string: assemble.rs:606 says only call sites
    see such a completion, and `eval_script` fails the same way (`JitEvaluated`);
  - a `break` or `continue` out of a call with no loop around it in the unit is an
    internal error ("failed without pending error"; `JitRouted`);
  - the value of a unit is looked for as if `foreach` took and left nothing
    (lower.rs:101, `FinalDepth`);
  - a body that always ends in a literal `break` has no place to continue to, and a
    call's `continue` in it leaves the loop (lower.rs; `LoopBody`).

  Of what is not in the model: two names of one variable have a cache place each, and
  a product with a large factor leaves by the label of the fast path (assemble.rs:1372
  against the comment at 648-650), a left shift can wrap before its range is looked at
  (1411-1415).

## What is not modelled

- The text of messages, error codes and stack traces.
- Expressions: how lexemes are scanned (quotes, brackets, variables, comments,
  numbers), functions by name, the arithmetic itself.
- Of the pure commands: json, binary, clock, `format`, `scan`, `subst`, `lsubst`, real
  numbers with fractions, Unicode tables.
- Regular expressions: \u escapes, Unicode classes, the flags only the regex crate has.
- Values: floating point and big integers, dicts without order, `append`,
  `dict append`, `replace`, `remove`, `create` and filters by pattern, a `dict set`
  through a link (`take_var_fast_link`).
- In the modelled parts: the `unknown` handler, subcommand maps of ensembles,
  export lists (an import may pick any command of the namespace), binding of
  arguments other than that it may fail, uplevel and apply, the parse and body
  caches (keyed by immutable text), `after info`; of the variables, links to
  elements and their death, eval-level aliases, TclOO variables.
- Objects: class-side `objdefine`, filters, forwards, the hook of namespace
  deletion, `info class` and `info object`.
- Channels: the standard streams, `fconfigure`, encodings, `chan event` and
  `postevent`, memory pipes, `blocked`, `pending`, `names`.
- Engines: fused instructions, `errorInfo`, `switch`, several variables per
  `foreach`, more than one variable of `set` and `incr`; of the JIT, the fast tier (`proc_main`,
  `resolve_proc`), numbers and their tags, wasmtime.
- Operating-system processes, terminals, the JavaScript glue.

## Plan

1. Proofs: `ReferencesLive` under stated habits of the programs.
2. `unknown` handler and child interpreters' aliases; uplevel and return levels.
3. Links to elements and eval-level aliases, slots TclOO methods link beforehand.
4. JIT: the fast tier, with procs that call each other in wasm.
5. The log ring and the rules engine of the Tcl libraries; `atomic_write`
   against a crash between its steps.
