# SystemCore in TLA+

A verification development for the Rust port of SystemCore (`src/`): TLA+ modules that follow the
code operation by operation, TLC configurations that check them on small instances, and TLAPS
proofs of what matters most for every instance. Paths below are relative to `src/`, so
`src/pipe.rs` is `src/src/pipe.rs` of the repository.

## 1. The system

The library runs an application as a *tree of processes*. A process is a `ProcessHandle` around a
behaviour (`initialize`, `process`, `shutdown`). It has no stack of its own: somebody *ticks* it, and
every tick first ticks the children, then takes one step of the process itself. Who ticks is the
*driver*: the parent, a thread of the child's own, or the application.

| Component | File | State | Operations | Talks to |
|---|---|---|---|---|
| Process tree | `src/processing.rs` | one `RuntimeState` per handle (children, state, driver mode, flags, result, worker) behind a mutex; the behaviour behind another | `tree_tick`, `start_child`, `cancel`, `repel`, `when_finished_repel`, `unused_set`, `drive_until_finished`, `internal_drive_loop` | behaviours through callbacks; the threads of the system |
| Global destructors | `src/processing.rs` | a list of functions behind a mutex | `register_global_destructor`, `application_close` | the application |
| Rendering of the tree | `src/processing.rs` | a cache per handle | `process_tree_string`, `refresh_render_cache` | behaviours (`process_info`), debugging server |
| Broadcast pipes | `src/pipe.rs` | a bounded queue with parents and children per pipe, behind a mutex | `commit`, `get`, `to_push_try`, `connect`, `disconnect`, `parent_disconnect`, setters | other pipes |
| Command registry | `src/system_commanding.rs` | the sorted table of commands, behind a mutex | `cmd_reg`, `register`, `execute_line`, `candidates` | debugging server, application |
| Terminal session | `src/system_commanding.rs` | line, cursor, history, parser state, completion, mode | `ingest` of bytes | a copy of the registry |
| Sockets | `src/net.rs` | queue of accepted peers; per connection `done`, `pending_write` | `accept_ready`, `next_peer`, `read_available`, `queue_send`, `flush_pending`, `done_set` | the operating system |
| Debugging server | `src/system_debugging.rs` | listeners, peers, command peers, tree cache | one `process` callback that accepts, reads, executes and broadcasts | everything above |
| Logging | `src/logging.rs` | level, list of subscribers | `emit`, `subscribe_logs`, `level_log_set` | debugging server |
| Single wire | `src/single_wire.rs` | none: constants of a protocol | none | none |
| Library root, example | `src/lib.rs`, `examples/hello_world.rs` | none | declarations; an application | all |

### What is hard, and what makes each component correct

* **Process tree.** The threads share the tree and `tree_tick` takes no lock for its whole length;
  driver and flags are read in one critical section and acted on in a later one. Correct means: a
  process is ticked by one thread at a time; callbacks come in their order and never again; a child
  leaves the tree only when it is done; released children finish, their threads end, and then, not
  earlier, `drive_until_finished` of the root returns.
* **Broadcast pipes.** `to_push_try` takes and gives back locks four times per entry. Correct means: a
  blocking pipe loses, repeats and reorders nothing; a queue keeps its limit; the close comes after
  the last entry and does come; a pipe hangs from one parent.
* **Registry and session.** Sequential, but with many small pieces of state that fifteen keys must keep
  consistent, and a table that other threads extend. Correct means: indices stay in range whatever
  keys come, a broken escape sequence does not lock the keyboard (what is left of it is typed, a hazard
  listed), completion never decides between two commands and a Tab completes before it lists, and a
  command that is registered can be called.
* **Sockets, debugging server.** Partial reads and writes, peers that close or never read; correct
  means that an answer that was produced is sent before the connection goes.
* **Logging.** A subscriber that is gone is forgotten, one that lives misses nothing it should see.

`PROJECT.json` lists each hazard at its line with the properties that would catch it.

## 2. The modules

| Module | Models | Configurations |
|---|---|---|
| `Processing` | the process tree and its threads | `ProcessingTask`, `ProcessingRestart`, `ProcessingExternal` over `MCProcessing` |
| `Lifecycle` | abstract: what a handle promises; `Processing` implements it | `KeepsPromise` of two of those runs |
| `Rendering` | the rendering of a tree that is being driven; EXTENDS `Processing` | by `HelloWorld` |
| `Destructors` | the global destructors | by `HelloWorld` |
| `HelloWorld` | the example from `main` to its end; EXTENDS both | `HelloWorld` over `MCHelloWorld` |
| `Pipe` | the broadcast pipes | `PipeTree`, `PipeWiring`, `PipeTwoPushers` over `MCPipe` |
| `Channel` | abstract: a reliable broadcast; a tree of pipes implements it | `Delivers` of `PipeTree` |
| `CommandRegistry` | the table of commands | `RegistryNames`, `RegistryClash` over `MCCommandRegistry` |
| `SystemCommanding` | a terminal session; EXTENDS `CommandRegistry` | `Session` over `MCSystemCommanding` |
| `Net` | a connection and a listener, as operators | by `SystemDebugging` |
| `Logging` | the log and its subscribers | by `SystemDebugging` |
| `SystemDebugging` | the debugging server with its clients; EXTENDS both | `DebugServer`, `DebugHalfClose` over `MCSystemDebugging` |
| `Retaining` | `Vec::retain`, as the pipes, the log and the server use it | by `Pipe`, `Logging`, `SystemDebugging` |
| `ProcessingProofs` | proofs: types, and one driver per process | `tlapm` |
| `LifeProofs` | proofs: the life of a process, that `Processing` implements `Lifecycle`, how children leave a tree and how it ends; EXTENDS `ProcessingProofs` | `tlapm` |
| `ExampleProofs` | proofs: drawing, destructors and exit of the example; EXTENDS `LifeProofs` | `tlapm` |
| `SequenceLemmas` | proofs: what `Retain` returns, and other lemmas about sequences that the next four modules need | `tlapm` |
| `PipeProofs` | proofs: types, bounds and links of the pipes | `tlapm` |
| `FlowProofs` | proofs: what goes through the pipes, and that a tree of them implements `Channel`; EXTENDS `PipeProofs` | `tlapm` |
| `SessionProofs` | proofs: the table of commands, and the line editor with its parser, history and completion | `tlapm` |
| `DebuggingProofs` | proofs: the connections, and what the debugging server promises to the clients at its four ports | `tlapm` |

Definitions named `Mutant...` are plausible mistakes in the definition that follows them. They are
not part of any specification; each shows that a property can fail.

### Processing

`rt[p]` is the `RuntimeState` of handle `p`, field by field but for what no transition reads (the
levels, the render caches, `tree_hidden`). `behavior[p]` is the behaviour mutex. A thread has the name
of the process whose loop it runs: `Root` for the application's `drive_until_finished(root)`, `c` for
the worker of child `c`, or for the application thread that drives an external child `c`. The stack of
recursive `tree_tick` calls is `pc[t][p]`, `todo[t][p]` (the rest of the snapshot of children) and
`cur[t][p]` (the child being driven, joined or started).

An action is a critical section, together with those next to it that commute with every other
thread; the head of the module says which do not and stand alone. The correspondence:

| Code | Actions |
|---|---|
| `tree_tick`, loop over children, `parental_drive` | `ParentalDrive`, `DriveReturn`, `PassChild`, `JoinWorker` |
| `tree_tick`, the match over the state | `LeaveExistent`, `SeeCanceled`, `SeeNotCanceled`, `EnterInitialize`/`EnterProcess`/`EnterShutdown`, `ReturnPending`, `ReturnInitialize`, `ReturnProcess`, `ReturnShutdown`, `ReleaseChildren`, `ReleaseChild`, `EndRelease`, `Finish`, `TickFinished` |
| `ProcessContext::start` / `start_child` | `StartChild`, `SpawnWorker`, `StoreWorker`, `SpawnFails` |
| other calls of a context | `Cancel`, `Repel`, `WhenFinishedRepel`, `UnusedSet` |
| `unused_set` by the application | `AppUnusedSet` |
| `drive_until_finished`, `internal_drive_loop` | `FirstTick`, `NextTick`, `LoopCheck`, `LoopMark`, `DriveUntilFinished` |

What a behaviour does is left open: in each callback it may make any of the calls that the constants
`Starts` and `Calls` permit, any number of times, and return any result. Children of a snapshot are
visited in any order, which is more than the code does; nothing proved or checked depends on the
order. A failing callback is `Success::Error(n)`; the number is left out ("Negative").

`Restarts` says whether a handle may be started again, `Retries` whether also with another driver mode
than it has come to have; the second is `FALSE` in every run (section 5).

`Promise == INSTANCE Lifecycle WITH ...` maps the tree to the abstract handle: the states of the code to
six phases, the frames of all threads to the callback a process is in, `success` and `canceled` to
themselves. `Lifecycle` knows no driver, no thread and no tree, so `KeepsPromise` says that none of them
shows in the life of a process.

### Rendering, Destructors, HelloWorld

`Rendering` adds to a thread what it has still to draw (`toDraw`) and whose behaviour it has locked
(`details`). `DrawProcess` is a call of `render_into` up to its `try_lock`; the children it goes on to
are those of the copy it took, which may have left the tree by then. A thread that draws does not step
the tree, since it is inside a callback.

`HelloWorld` puts the answers of the example's behaviours where `Processing` leaves them open
(`BehaviorStep` restricts a `TreeStep`), lets the debugging server draw the tree from its root in each
of its callbacks, and ends with `application_close`. The example itself registers no destructor and
hides no process; `Registrations` and `Displays` give its behaviours some calls to do so, because the
mutex of the list and `tree_hidden` matter only then.

### Pipe

`pipe[p]` is the locked state of `p`; an entry is the number of its commit, so that loss, repetition
and order can be seen. `commit`, `get` and the setters are one action each. `to_push_try`, `connect`,
`disconnect` and `parent_disconnect` are sequences of steps of a caller `t`, one per lock, with the
local variables in `call[t]`. `alive` are the pipes a `Weak` reference can still be upgraded to.
`committed`, `accepted`, `received` and `ended` are history and are read by properties only.
A pipe goes only while no caller has it in hand (`Holds`): a push that has upgraded its children keeps
them alive until it has stored.

Several properties of the pipes need something of the application that the code neither asks for nor
tests. It is stated, beside the specification, as operators on the constants: `OneHand` (a pipe is
connected and disconnected by one caller), `OwnParent` (`disconnect` is called for what cannot hang
from elsewhere: `src/pipe.rs:161`, a hazard listed), `OneFeed` (of all a pipe may hang from one is pushed,
and by one caller), `SourcesAreRoots` (nobody commits to a pipe that is fed by another), `Steady` (no
wiring, tuning or drop after the start; a pipe with children blocks and is read by its pusher only, and
its children are filled by nobody else) and `OneSource`. `RunsAreCareful` of `MCPipe` has TLC check that the runs keep to them, `OneFeed` apart in
`PipeTwoPushers`, which shows what happens without it.

`Broadcast == INSTANCE Channel WITH ...` shows a tree of pipes as those at its ends see it: what the
source accepted, what each reader got, whether the source is closed and who was told so.

### CommandRegistry and SystemCommanding

Texts are sequences of bytes. `Registered` is the push and the stable sort at once: the row goes
behind every row that is not greater. `Decoding` is the table of `feed_byte`, a row for each set of
bytes that means something in a state, and `Decode` looks a byte up in it; every key of `ingest` is an
action that feeds a byte. That each command is reachable needs of the application that no id is the
shortcut of another command (`NamesApart`, of the constants). That the built-in commands are reachable
needs less: commands of other groups may have any names, as `command_sort` puts those of the internal
group first, and only those of that group, which is public, must leave the names of the built-in ones
alone (`BuiltinsApart`). `RunsAreApart` of `MCCommandRegistry` has TLC check that `RegistryNames` keeps to
the one and `RegistryClash` to the other. What is echoed to the terminal is left out, as is the text of
`help`.
The session reads the table while `Register` extends it, as another thread may with `cmd_reg`.
`ingest` is handed a snapshot for a slice of bytes; as a slice may be one byte long, letting the table
change between any two bytes covers every slicing.

### Net, Logging, SystemDebugging

A connection is a record of what `TcpTransfering` keeps (`done`, `pending`) and what the operating system
keeps for it (`inbox`, `wire`, `eof`, `reset`); `ReadAvailable`, `QueueSend`, `FlushPending`, `DoneSet`
and `AcceptReady` map it to the record afterwards. Bytes are counted in messages, which are what a
partial write may be cut between. `Logging` has the level of the console, the list of senders and a
channel per receiver; an entry is its number.

| Code of `SystemDebugging::process` | Actions |
|---|---|
| `ensure_started` | `EnsureStarted`, `BindFails`, `Announce` |
| `accept_peers` | `AcceptPeers` |
| `peer_check` | `PeerCheck` |
| `command_peers_pump` | `CommandPeersPump` with `Pump`, `PumpOpen`, `PumpClosing` per peer |
| `send_process_tree` | `SendProcessTree`, `KeepProcessTree` |
| `send_log_entries` | `SendLogEntry` for each entry, `EndLogEntries` |
| drop of the process | `Stop` |

Between two of these steps clients connect, send, read, end their side, close or are reset, the tree
changes, other threads emit, subscribe and drop receivers. The session of a command peer is what
`SystemCommanding` shows of it: whole lines are executed in turn, `^C` ends it, an automatic one ends
with its first line (`AutoLine`). What a client does is a habit that is chosen at the start:
its port, what it sends, how it may leave.

## 3. What is checked

| Run | Question | Instance |
|---|---|---|
| `ProcessingTask` | outcome, release, removal and the life of a handle in every interleaving | root, a service with a thread, a task the service drives; the service repels the task or releases itself; the spawn may fail; 0.7 million states |
| `ProcessingRestart` | does a handle that is started again stay with one driver, get joined, keep its promise, and end, and does a dismissed one leave its parent? | root and one child with a thread; every call of a context; the spawn may fail; bursts of 1 and 2; fair; 0.1 million states |
| `ProcessingExternal` | what does a child with `ExternalDriver` do to its parent? | root, an external child, and a grandchild with a thread; 0.8 million states, three threads |
| `HelloWorld` | does the example end, with success and in order, while its tree is drawn? | the five processes of the example, two threads, three registrations of two destructors, one process that hides itself; fair; 60 thousand states |
| `PipeTree` | is a tree of blocking pipes a reliable broadcast that ends? | four pipes on two levels, sizes 1, 1 (asked for 0), 2 and 1, two callers, 6 entries, fair |
| `PipeWiring` | do limits, order and links stand while a pipe is moved under a push? | four pipes, every connect and disconnect along an edge, one dropped, one shrunk, blocking turned off; 3 entries; 0.3 million states |
| `PipeTwoPushers` | *violated*: does every entry reach all children with two callers? | one pipe, two children, 3 entries |
| `RegistryNames` | reachability of commands | 48 commands over clashing names |
| `RegistryClash` | can a command of another group take the name of a built-in one? | 16 commands with ids and shortcuts of the built-in ones, in groups before and behind theirs, and one in theirs |
| `Session` | the line editor, history, completion, automatic mode, parser | 10 bytes between keys, 13 within sequences, lines of 2, history of 2, fair |
| `DebugServer` | do answers arrive whole, do broadcasts miss nobody, is everyone accepted? | eight pairs of clients, one over IPv6; one accepted at a time; a send buffer of one message; one change of the tree, two log entries; fair; 0.2 million states |
| `DebugHalfClose` | *violated*: is a script that ends its side after its line answered? | one such client and one that does not |

The safety properties are stated, with the code they are about, above their definitions in the
modules. The ones a reviewer should look at first: `OneDriver`, `RemovedIsSettled`, `OutcomeJustified`,
`KeepsPromise`, `ReleasedLeaves` (`Processing`); `VerdictStable`, `Ends` (the example); `StreamConserved`,
`Delivers`, `OneFeeder` (`Pipe`); `NoAnswerLost`, `LogPeersComplete`, `TreePeersCurrent`
(`SystemDebugging`); `TabCompletesFirst`, `CompletionAgrees` (`SystemCommanding`), `BuiltinsReachable` (`CommandRegistry`).

**The two refinements.** `KeepsPromise` covers what would else be several invariants: callbacks come in
their order, one at a time and never again; a cancel is heeded between two of them; a result is given
once and stays. `Delivers` includes the fairness of `Channel`: that a reader gets every entry in the end,
and `Closed` after the last, is part of what is implemented. That nothing else overtakes the close, and
that it comes at all, needs no property of its own.

**Why the bounds are enough.** Processing: three processes give a parent that is itself a child, a
driver per kind, two threads that run at once next to the application's, and a child that changes its
driver; `MaxBurst` of 2 makes the round of a loop longer than one tick. Nothing else is bounded: the
runs are closed, of any length. `ProcessingRestart` has no release by the application, which
`ProcessingExternal` has. HelloWorld: the behaviours are deterministic but for when
the second child ends and whether the server finds its ports, and a callback draws at most once. Pipe:
with sizes of 1 and 2 and up to 6 entries each queue fills, blocks and drains several times;
`MaxCommits` is the only bound. Session: `MaxLine` bounds what is typed (a completion or a recalled line
may go to it and one beyond); a history of two lines overflows; `ab` and the later `aa` give no, one and
two candidates. DebugServer: two clients of a port, of which one can be accepted at a time, make one
wait; an answer of two messages and a farewell do not fit a buffer of one, so that every answer is
written in parts; `MaxTrees` and `MaxEntries` bound what goes on elsewhere, and it goes on only where a
client would see it (`Watched`).

**Deadlock** is checked in the Processing runs: a stuck thread that no other can free would be found,
and `Terminated` is the only stop, after `drive_until_finished(root)` has returned. So it is in
`HelloWorld`, which stops after `application_close`, and in the Debug runs, where the callback goes on
until the process has failed or was dropped. In the Pipe and Session runs the application may stop at
any time (all entries committed and read, the session closed), so `CHECK_DEADLOCK` is `FALSE`. The
Registry runs go on for ever, since a refused registration is a step.

**Fairness.** Processing: `WF` of each thread, because the system schedules threads and callbacks
return; `SF` of the return of `shutdown` with a result, because a shutdown that is called again and
again ends some day. Without the second nothing finishes, and the code relies on it; nothing is
assumed of `initialize` and `process`, which may pend for ever, nor of the application.
HelloWorld: `WF` of the main thread; `SF` of the worker, since the mutex of a behaviour it waits for
may be taken again and again by a drawing, and mutexes do not starve a thread for ever; `SF` of the end
of the waiting of the second child, which is over after a time. That the server's drawing gives a mutex
back, and does not wait for one it holds itself, is shown, not assumed.
Pipe: `WF` of each caller of `to_push_try`, which is called in a loop, and of the readers. The
source need not be closed; if it is, its close arrives. Session: inside a sequence, bytes go on
arriving. DebugServer: the process is called again and again until it fails or is dropped, as the
driver loop does, and a client that is connected reads what arrives; nothing else of a client.

### Disagreements the runs show

* `PipeTwoPushers`: two callers of `to_push_try` on one (cloneable) pipe peek the same entry and each
  pop one; the second entry is lost and the first delivered twice. With one caller per pipe the
  stream is conserved (`PipeTree`).
* `DebugHalfClose`: `read_available` takes the line of a client and the end of its side in one call and
  sets `done`; `flush_pending` then writes nothing and the peer is dropped with its answer. A script that
  pipes its command gets no answer, one that keeps its side open does (`AnswersArrive`).

## 4. What is proved

Every theorem holds for every value of the constants that meets the assumptions of the module and the
hypotheses of its row: any set of handles or pipes, any tree or wiring, any calls, bursts and sizes, any table of commands, any
bytes and lines, any clients with any habits, any limit of a queue and any size of a send buffer.

| Theorem | States | Hypotheses | Module |
|---|---|---|---|
| `TypeCorrect` | `TypeOK` of `Processing` | | `ProcessingProofs` |
| `OneDriverAlways` | `OneDriver` | `~Retries` | `ProcessingProofs` |
| `OutcomeAlwaysJustified` | `OutcomeJustified` | `~Retries` | `LifeProofs` |
| `ChildrenAlwaysReleased` | `ChildrenReleased` | `~Retries` | `LifeProofs` |
| `VerdictAlwaysStable` | `VerdictStable` | `~Retries` | `LifeProofs` |
| `PromiseAlwaysKept` | `KeepsPromise`: `Spec => Promise!Spec` | `~Retries` | `LifeProofs` |
| `RemovedAlwaysSettled` | `RemovedIsSettled` | `~Retries` | `LifeProofs` |
| `NoThreadEverOutlivesRoot` | `NoThreadOutlivesRoot` | `~Retries` | `LifeProofs` |
| `ExternalChildAlwaysHolds` | `ExternalChildHoldsRoot` | `~Retries` | `LifeProofs` |
| `AlwaysUnwoundInReverse` | `UnwoundInReverse` | `~Retries`, the example | `ExampleProofs` |
| `ExitAlwaysSucceeds` | `ExitSucceeds` | `~Retries`, the example | `ExampleProofs` |
| `PipesTypeCorrect` | `TypeOK` of `Pipe` | | `PipeProofs` |
| `QueuesAlwaysBounded` | `Bounded` | | `PipeProofs` |
| `AlwaysOneFeeder` | `OneFeeder` | `OneHand`, `OwnParent` | `PipeProofs` |
| `LinksAlwaysAgree` | `LinksAgree` | `OneHand`, `OwnParent` | `PipeProofs` |
| `ClosedAlwaysFinal` | `ClosedIsFinal` | these, `OneFeed`, `SourcesAreRoots` | `FlowProofs` |
| `AlwaysInOrder` | `InOrder` | these, `OneFeed`, `SourcesAreRoots` | `FlowProofs` |
| `StreamAlwaysConserved` | `StreamConserved` | `Steady`, `OneFeed` | `FlowProofs` |
| `TreeIsChannel` | `Broadcast!Spec`, the safety half of `Delivers` | `Steady`, `OneFeed`, `OneSource` | `FlowProofs` |
| `EachAlwaysReachable` | `EachReachable` | `NamesApart` | `SessionProofs` |
| `BuiltinsAlwaysReachable` | `BuiltinsReachable` | `BuiltinsApart` | `SessionProofs` |
| `SessionTypeCorrect` | `TypeOK` of `SystemCommanding` | | `SessionProofs` |
| `IndexesAlwaysValid` | `IndexesValid` | | `SessionProofs` |
| `HistoryAlwaysInOrder` | `HistoryInOrder` | | `SessionProofs` |
| `TabAlwaysCompletesFirst` | `TabCompletesFirst` | | `SessionProofs` |
| `CompletionAlwaysAgrees` | `CompletionAgrees` | | `SessionProofs` |
| `DebuggingTypeCorrect` | `TypeOK` of `SystemDebugging` | | `DebuggingProofs` |
| `AnswersNeverLost` | `NoAnswerLost` | | `DebuggingProofs` |
| `AutoAlwaysAnswersOnce` | `AutoAnswersOnce` | | `DebuggingProofs` |
| `TreePeersAlwaysCurrent` | `TreePeersCurrent` | | `DebuggingProofs` |
| `LogPeersAlwaysComplete` | `LogPeersComplete` | | `DebuggingProofs` |

### Assumptions

* `ProcsAssumption`, `StartsAssumption` (`Processing`): the second says that a handle is started by one
  parent and nobody starts the root. The code does not check it; without it `OneDriver` fails at
  once.
* `~Retries`: a handle is not started a second time with another driver than it has come to have. A
  handle may be started again and again (`Restarts`), and a spawn may fail; what is excluded is both of
  one handle, in that order: a child that got no thread is handed to its parent, and started once
  more it gets one after all (`src/processing.rs:665`, a hazard listed; section 5). `OneDriver` is then
  false, and the other proofs rest on it.
* `HelloWorldAssumption`: the example has the five processes it has and the starts that
  `examples/hello_world.rs` makes, with any set of behaviours that draw, hide themselves and register.
* `PipesAssumption`, `WiringAssumption` (`Pipe`): the types of the constants, and that the first wiring is
  one `connect` can have made. The conditions of the table are described in section 2.
* `CommandsAssumption`, `SessionAssumption`: the types of the constants, that the history may hold a line,
  and that the classes of bytes are what they are called. `NamesApart` and `BuiltinsApart` are described in section 2.
* `NetAssumption`, `LoggingAssumption`, `DebuggingAssumption`: at least one connection is accepted at a time
  and one message taken by the system, severities are severities, habits are habits, and the receiver of the
  server is one of those that may be subscribed. Nothing is assumed of what clients do.

### The arguments

Each invariant below was checked with TLC on the instances of the runs before it was proved.

**Types.** `TypeOK` of `Processing` alone is not inductive: `DriveReturn` and `StoreWorker` write to
`rt[cur[t][p]]`, which is a handle only because a frame waits at `Drive`, at `Join` or in a start with a
child. `TypeInv` is `TypeOK /\ Framed`, where `Framed` says that. In `Pipe` the frames of callers need the
same: `Frames` ties the local variables of a call to its label.

**One driver** (`DriverInv`). The critical sections that decide who drives (`parental_drive`,
`start_child`) and the ticks they lead to are apart, so it must be known why each frame is there.
Whoever is in a list of children, in the rest of a snapshot or being driven was started by the one parent
`StartsAssumption` gives it; a loop belongs to a process that was started with a thread or an external
driver; and a frame of `t` at `p` is the bottom of the stack of `t`'s own loop, or is called by a frame of
`t` at the parent of `p` while `p` is driven by its parent, so that drives lead from `t` to each of its
frames (`FramesRooted`). If two threads ticked the same process, either both frames come from the
parent, and both threads tick the parent, or one is a loop of a process that its parent drives, which the
invariant excludes. A handle that is started again gets no second thread: the handle of the first one is
stored, or about to be (`WorkerHeld`).

**The life of a process** (`LifeInv`). `StepsOfLife` sorts the actions by what they do to a life: most
leave every life as it is (`Calm`), some raise a flag of one process (`Raises`), thirteen take one
process further (`LifeStep`). With `OneDriver` the label of a frame fits the state it was read in even
though the lock was given back (`Placed`); the state tells which callbacks have run and where a result
comes from (`Stories`); and `ReleasedBy` follows `ReleaseChildren` through its loop. The outcome, the
release, the verdict and each step of the refinement of `Lifecycle` follow.

**The tree** (`TreeInv`). A started process is a child of somebody until it is undriven and released
(`Held`); it is marked only when it has finished and has no children (`UndrivenSettled`); a thread that
still runs when its process is no child is being joined (`Joined`). That nothing is left when the root is
over speaks of trees of any depth. Instead of an induction over the depth the invariant says that out of
any set of started processes a parent leads (`WellRooted`): take the set of those that are not over; one of
them has a parent outside, which is over or is the root, but a parent whose child is not over is not over.

**The example** (`RenderInv`, `EndInv`, `ExitInv`). A step of the example is one of the tree, for which
the invariants above hold, or one that moves nothing of the tree but the mutex of a behaviour. A drawing
happens inside a callback and never locks a mutex its thread has; destructors are run when `main` has left
its loop, and by `NoThreadOutlivesRoot` no thread registers any more; and nobody cancels the root, so that
it succeeds as soon as its second child has.

**Bounds and links of pipes** (`BoundInv`, `LinkInv`). `Bounded` needs that `size_max` is one of those that
were asked for. The links need what holds between the locks of `connect` and of the two disconnects
(`HalfWired`) and that one caller is between them (`HandsOn`). What `retain` leaves is stated of the
recursive function `Retain` (`RetainProperties` of `SequenceLemmas`, which the log and the backlog of the
server use as well), by a least counterexample in place of an induction.

**The flow** (`FramesKnown`, `DoneInv`, `OrderInv`). What a push found under one lock it uses under the next.
A pipe that is done has no feeder with anything left for it, be it queued or in hand (`DoneInv`), and what
has come to a child is before all its feeder still has (`OrderInv`), because only one pipe feeds it and
one caller pushes that pipe. A pipe that is moved takes no entry twice, since of
the pipes it is moved between only one is pushed.

**Conservation and the channel** (`Static`, `StreamInv`, `SourceInv`). When nothing is rewired, the children
that were found to have room have it still when they are given the entry (`HasRoom`), and what was
peeked is still the front (`PeeksFront`). For the refinement of `Channel`, what any pipe has accepted is
the beginning of what the source has, all of it once the pipe is done: a statement over single links,
so that no induction over the tree is needed.

**The table of commands** (`Table`). A registration puts a row into the table and takes none out, and
refuses a row whose id or shortcut is there (`Distinct`). With ids and shortcuts apart, a name then
belongs to one row, and the lookup finds it wherever the sort has put it. Without that a name of a
built-in command may belong to several rows, but the internal group is first in the table (`Grouped`): a
row of it is sorted before all others, one of another group behind all of it (`GroupedKept`), so that the
first row of the name is in that group, where only the built-in command has it. That the recursive function
of `RegistryInit` exists for all built-in commands (`RegistersExist`) and yields a table is shown by the
least number of them for which it would not, in place of an induction.

**The session** (`SessionInv`). `TypeOK`, `IndexesValid`, `HistoryInOrder` and `TabCompletesFirst` are
inductive together, with `AutoStill`: an automatic session uses nothing but its line. Each action keeps
them by what it does to the cursor, the line, the history or the completion (`MovesKeep`, `EditsKeep`,
`RecallsKeep`, `EnterKeeps`, `TabKeeps`, `AutoKeeps`). A Tab that completes leaves the longest common
beginning of the candidates as the word (`CommonPrefixIs`), and completed once more it stays what it is;
more commands have no more in common, so that the word stays all they share when the table grows
(`WholeGrows`); whatever else changes the word or moves the cursor from its end clears `tab_last`, but for
`history_down`, which leaves nothing before the cursor.
`CompletionAgrees` follows since a longest beginning of all candidates exists and the word is one.

**The debugging server** (`IInv` of `DebuggingProofs`: `TypeOK`, `ClientInv`, `Waits`, `Phases`, `LogInv`
and `TreePeersCurrent`). An operation of `Net` takes nothing back of what a connection was given to send
(`Sends`, lemma by lemma from `WritableFits` to `QueueSendSends`): while the peer reads, what was queued is
what it got, what is on the wire and what is pending (`Sound`). A step of the callback is for every client
one of four things: it leaves it alone, accepts it, keeps it or drops it (`Turn`), and what the client does
itself is an `OwnMove`; each keeps `ClientOK`, though the pass over the sessions is one action with a branch
for every way a session may go. That a command peer which is let go has everything needs more than the
farewell: a connection that is not dropped is only ever done because it was reset, or a pass would go on with
one that writes nothing. An automatic session has answered when it is closing or gone (`Unanswered`), whatever
its client still sends. The observers are told things by broadcasts only (`ObserversStay`). For the tree this
is enough, as `accept_peers` sets the dirty flag. For the log, what a peer was sent rises and stays below
what waits in the channel of the server, and together with what was filtered they miss nothing (`Tells`);
emitting an entry and taking one keep that (`TellsEmitted`, `TellsTaken`), but only because the receiver of
the server is subscribed and not dropped while there are peers (`Phases`).

### What stays with TLC

* Liveness, which this prover does not do: `Settles`, `CancelFinishes`, `ReleasedLeaves`, `Ends`, `ParserRecovers`,
  `EveryoneAccepted`, `AnswersArrive`, and the fairness of `Channel` in `Delivers`.
* Of the order of the table only `Grouped` is proved; nothing above depends on the rest.

## 5. What is not modelled

* `refresh_render_cache` and the text, layout and limit of eleven children of a rendering: no control.
  That behaviour code which asks its own handle from `process_info` waits for itself is a hazard listed.
* A promise about `when_finished_repel` that comes after the tick of `FinishedPrepare`: the model loses it as
  the code does (`src/processing.rs:457`), and `ReleasedLeaves` leaves it out.
* A promise about the tail of a sequence that the parser has left early. `ESC[5~` is left at the `5`, the `~`
  is a key like any other (`src/system_commanding.rs:768`), and so in the model, which has `ESC[5`; what
  should become of it is not said anywhere, so this is listed as a hazard.
* Panics. A panic in a callback poisons a mutex and ends a thread; the code has no answer to it.
* A destructor that registers another one waits for the mutex `application_close` holds.
* `single_wire.rs`, `lib.rs`: no behaviour.
* Times of pipe entries, the two periods of the loops (sleep), the text of any output.
* Sockets: addresses, counters and the connecting side, which the library does not use; a `write` that
  returns 0 for bytes that are there; a reset that overtakes what a client has not read when the server
  closes with bytes unread. An error of `accept` ends a round of `accept_ready`; whoever is left is as one
  who came later. As a client connects once, IPv4 cannot fill the queue for ever and starve IPv6.
* The lines `process_tree_extra_lines` adds to the tree. What a peer of the tree or the log could not take
  is sent on with the next broadcast only, and kept without a limit; the model has it so, and states no
  more of it than `NoAnswerLost`.
* Starting a handle again whose worker could not be spawned (`Retries`). With it, `OneDriver` fails: the
  failed spawn hands the child to its parent (`src/processing.rs:677`), the second start spawns a worker
  after all (line 665), and both tick it. Nothing in the repository says that a handle may be started
  twice, so this is listed as a hazard.

## 6. Where the plan stands

Every component with behaviour has its module and its runs; both abstract specifications are
implemented, `Lifecycle` by proof, `Channel` by proof for its safety and by TLC for its liveness; every
safety property that a passing run checks is a theorem. What could follow:

1. *Abstract views of the session and the server*: a line as what is left and right of the cursor, and a
   connection as a channel of messages, each implemented by the module there is.
2. *The hazards without a property* in `PROJECT.json`, once the code says what should happen there: a
   second start after a spawn that failed, `disconnect` of a pipe that hangs from elsewhere, an observer
   that cannot take what it is sent, the tail of a sequence the parser does not know.
