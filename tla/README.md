# Verification of Arth

TLA+ models of the parts of Arth whose behaviour is hard to test: the
concurrency of the virtual machine and of the native runtime, the services the
host keeps connections for, and the tools that must agree with the language.
TLC checks them on small instances; TLAPS proves the main safety properties for
every value of the constants. `PROJECT.json` lists the components, the runs, the
source lines behind every definition, the mutants each property must reject, the
hazards, the findings and the theorems.

Contents: [inventory](#inventory), [modules and code](#modules-and-code),
[runs](#runs), [bounds](#bounds), [fairness](#fairness), [findings](#findings),
[proofs](#proofs), [hazards beyond the list](#hazards-beyond-the-list),
[not modelled](#what-is-not-modelled), [plan](#plan).

## Inventory

Arth is a compiler (`src/src`), a virtual machine (`src/crates/arth-vm`), a
runtime library for natively compiled programs (`src/crates/arth-rt`), a
TypeScript front end and tools. What is hard to test is where threads share
state through atomics, locks, lock-free queues and callbacks, where a call of
several steps can fail in the middle, and where two pieces of code written apart
(lowering and interpreter, checker and run time) must mean the same.

| Component | State | Operations | Interacts with | Hard behaviour | Correct when |
|---|---|---|---|---|---|
| Concurrent thread pool `runtime/executor.inc.rs` | task table, injector, per task state, result, saved frame, waiters; shutdown flag, counters | spawn, join, suspend and resume, shutdown | programs | claim by compare-and-swap, wake-up racing suspension, lost notifications | a task runs once at a time, is never stranded, completes with the sequential value |
| MPMC channels `runtime/ffi.inc.rs` 830-1450 | queue, closed flag, waiting senders and receivers; woken task ids per thread | create, close, 4 ways to send, 4 to receive, registration, wake-up | actors, select, executor | calls of two critical sections, blocking outside the lock, close in the middle | no message lost, duplicated or out of order; no sleeper beside what it waits for |
| Channel select `ffi.inc.rs` 1455-1733 | list of channels, registration on several | add, try, suspend, block, deregister | channels | registration after the receive pass, stale registrations | sleeps only if nothing was ready; the index names the source |
| Actors `ffi.inc.rs` 1735-2110 | life-cycle state, message count | create, send, receive (blocking or not), stop, mark stopped, mark failed | a channel as mailbox | the state is checked under one lock and used under another | the count is right; an ended actor is quiet |
| Threaded executor `executor.rs` | tasks, waiters by reason, timers, injector, thread-local queues, callback, counters | spawn, start, block, wake, complete, cancel, panic, timers, worker loops, shutdown | embedding program, task bodies | registration after blocking, state read after the callback, affinity | a started task is not stranded, affine tasks stay, awaiting tasks are woken |
| Event loops and timers `ffi.inc.rs` C21, C22 | loops, registrations, timers, events of a poll | create, register, poll, deregister, close; sleep, check, cancel, remove | programs | one lock for all loops, held while a poll waits | a timer fires once or is cancelled, not both |
| Network requests `ffi.inc.rs` C23-C25 | tables of requests, sockets, connections, answers | accept, connect, read, get, serve, send, check, poll, remove | operating system | the attempt is made without the lock; duplicates of a socket share its mode; an attempt may wait for an HTTP request | nothing that arrives is lost, an attempt waits for nothing that is not its own, nothing is answered twice |
| Native asynchronous runtime `arth-rt/async_rt.rs`, `ir/async_lower.rs` | registry of tasks, frames of bodies | spawn, await, join, cancel; generated poll functions | compiled programs | a poll runs without the lock; errors between awaits | outcomes settle once and reach the awaiter |
| Crypto operations and nonces `arth-rt/crypto.rs` | registry of operations, their status and result; set of nonces | start, poll, wait, fetch, clean up; enable, check, mark, clear | worker threads | status and result are stored apart; flag read before the lock | announced results are there; a nonce is fresh once |
| Database pools and transaction scopes `host.rs` 9249-9760 | available and used connections; depth, savepoints, scope ids per connection | create, acquire, release, close; begin, end | databases | check and insertion in two critical sections; one statement of several fails | limit kept, nobody shares, none leaked; scopes nest |
| Asynchronous PostgreSQL calls `host.rs`, `arth-rt/postgres.rs` | queries, connections, state of libpq | connect, seven kinds of command, is_ready, get, cancel, disconnect | libpq | completion under another lock than the poll | a query gets its own result, the connection is usable again |
| Mail sessions `host.rs` | SMTP, IMAP, POP3 connections | every call that talks to a server | servers | several commands per call, lock per command, readers that drop what they read ahead | replies belong to their commands, messages are intact |
| HTTP, WebSocket, SSE servers `host.rs`, `arth-rt/net.rs` | servers, requests, connections, sockets | accept, respond, send, receive, close | clients | a socket is used after its table is unlocked; sends write parts | messages arrive whole, nothing follows a close |
| Incremental build `driver/cli.rs`, `driver/incremental` | cache index and artifacts, fingerprints; external packages | build, clean, collect | file system, other processes, the linker | processes overlap and die; a file is truncated before it is written; compiler and cache read different things | what runs is what was fingerprinted, and what a compiler would run |
| Dependency graph `incremental/dep_graph.rs` | graph, work lists | build order, invalidation, cycle search, plan | the build | cycles, imports of packages that are no node | exactly the affected packages are rebuilt, in order |
| Control flow of compiled programs `lower/hir_to_ir.rs`, `driver/vm.rs`, interpreter | blocks; frames, handlers, exception | lowering of statements; instructions | each other | unwinding across frames, finally on every path | programs do what the guide says |
| SSA promotion `ir/cfg.rs`, `dom.rs`, `ssa.rs` | dominators, frontiers, phis, renaming stacks | passes | lowering | loops, unreachable blocks | a promoted load gives what the slot held |
| Operand stack `driver/vm.rs`, interpreter, `host.inc.rs` | one stack for all functions | every opcode that is emitted | host | pushes and pops are written by hand in two places | every opcode finds its operands and leaves its answers |
| Ownership checks `typeck/mod.rs`, `defassign.rs`, `lifetime.rs` | scopes, move states, initialisation, borrows | statements and expressions | run time | joins of branches, loops, exceptions | an accepted body misuses no variable |
| Front end, types, code generation, JIT, linker, host I/O, HTML, tools | trees, text, tables | sequential | | unbounded data | see [not modelled](#what-is-not-modelled) |

The hazards, each at the line where it bites and with the properties that would
catch it, are in `PROJECT.json`; [below](#hazards-beyond-the-list) are odd spots
that no property is about.

## Modules and code

A step of a model is what other threads can see as one step: one atomic access,
one critical section, or one operation of a lock-free queue. A call that takes
a lock twice is two steps, and a thread's `pc` says which one is next. Code
outside `src/` (crossbeam, libpq, databases, servers, clients, the operating
system) is modelled by what the code in `src/` sees of it and marked external in
the map.

| Module | Code | Content |
|---|---|---|
| `ConcurrentPool` | `runtime/executor.inc.rs` | the pool |
| `TaskFutures` | what spawn and join promise | abstract specification: write-once futures |
| `MpmcChannel` | `ffi.inc.rs` 830-1450 | the channels |
| `Actor`, `ChannelSelect` (extend `MpmcChannel`) | `ffi.inc.rs` 1455-2110 | actors and selects, composed with the channels they use |
| `ThreadedExecutor` | `executor.rs` | the executor |
| `EventTimers`, `NetRequests` | `ffi.inc.rs` C21-C25 | event loops, timers, network requests |
| `NativeAsync` | `async_rt.rs`, `async_lower.rs` | registry and generated poll functions |
| `CryptoTasks`, `NonceTracking` | `crypto.rs` | background operations, nonce registry |
| `NestedTx` | what transaction scopes promise | abstract specification: nested transactions |
| `TxScope`, `DbPool` (extends `TxScope`) | `host.rs` | scopes over a database, pools of connections |
| `PgAsync`, `MailSessions`, `WebServers` | `host.rs`, `postgres.rs`, `net.rs` | services with connections |
| `IncrementalBuild`, `DepGraph` | `driver/cli.rs`, `driver/incremental` | builds and their cache, plans |
| `StructuredCode` | the language guide | what statements mean, as a recursive definition |
| `Lowering`, `VmControl` | `hir_to_ir.rs`, `driver/vm.rs`, interpreter | statements to blocks; execution with handlers |
| `SsaPromotion` | `ir/` | mem2reg, executed before and after |
| `VmEffects`, `VmEmission`, `VmOperands` | interpreter, `driver/vm.rs` | what opcodes take and leave, what instructions emit, the stack |
| `OwnershipCheck` | `typeck/` | the checks beside the runs of a body |
| `MC...` | | constants, programs, bounds and symmetry for TLC |
| `Retaining` | `Vec::retain`, `Iterator::filter` | what a condition keeps of a list, for `DepGraph` and `ChannelSelect` |
| `ConcurrentPoolProofs`, `ThreadedExecutorProofs` | | theorems about `ConcurrentPool` and `ThreadedExecutor` |
| `ChannelProofs` | | theorems about `MpmcChannel`, `Actor` and `ChannelSelect` |
| `EventNetProofs` | | theorems about `EventTimers`, `NetRequests` and `WebServers` |
| `NativeRuntimeProofs` | | theorems about `NativeAsync`, `CryptoTasks` and `NonceTracking` |
| `HostServicesProofs` | | theorems about `TxScope`, `DbPool` and `PgAsync` |
| `BuildProofs` | | theorems about `IncrementalBuild` and `DepGraph` |
| `SequenceFacts` | | lemmas about sequences and natural numbers that `BuildProofs` and `ChannelProofs` cite |

### ConcurrentPool

`status`, `result`, `saved`, `waiting_on`, `waiters` are the fields of
`ConcurrentTask`; `injector`, `tasks`, `shutdown`, `active_workers`, `counts`
those of `ConcurrentPoolState`. Clients call `Spawn`/`ClientPush` and
`JoinStart`/`JoinPoll`/`JoinRead`; anybody may call `Shutdown`. A worker goes
round `LoopTop`, `try_steal`, `Park`/`Unpark`, `Claim` and then through
`execute_concurrent_task`: `Begin`, `Resume`, `RunLeaf`, or `RunSpawn`,
`PushSub`, `CheckSub`, `Suspend`, `AddWaiter`; then `SetResult`,
`SetCompleted`, `TakeWaiters` and, for every waiter, `CheckWaiter`,
`SetPending`, `Requeue`.

- Jobs are (function id, arguments). The CPU-bound work types are an opaque
  operator `Cpu`; `Eval` is the value of a job evaluated sequentially. A chain
  of sub-jobs has at most three levels below the first task because of the
  default arguments of work type 3, so `Eval` needs no recursion.
- The workers' own deques are left out: no code path pushes to them, so stealing
  always ends at the injector.
- A notification may always be lost (`notify_one` is called without the mutex
  of the condition variable), so `Unpark` models the 10 ms timeout and does not
  depend on one.
- No code path of the pool sets `Cancelled`.
- `budget` reserves ids for the sub-jobs of what was spawned: the bound
  `MaxTasks` limits what clients start, never what a running job does.

`TaskFutures` says that a task is created once with its job, resolved at most
once with the value of that job, and that a join returns this value.
`ImplementsFutures` is the refinement: `work` is `job` restricted to the ids
created so far, `outcome` is the result of a `Completed` task.

### MpmcChannel, Actor and ChannelSelect

A channel is the crossbeam queue, a closed flag and two FIFO lists of suspended
tasks. A non-blocking call is one step; `send_and_wake` is `SendAndWake` and
`WakeReceiver`, `recv_and_wake` is `RecvAndWake` and `WakeSender`; a blocking
call looks at the map in its first step and completes on the queue in
`CompleteSend` or `CompleteRecv`, outside the lock. A payload is an integer and
so is a status code: `Payload` says which integer a message carries, and
`RecvAndWake` decides from that integer, as the code does. Messages are numbered
so that the properties can tell two equal payloads apart.

The executor that suspends and resumes tasks is outside this file: a task told
to suspend makes no call until a thread that woke it has read its id
(`GetWokenSender`, `GetWokenReceiver`); a woken receiver tries again (`retry`).

The calls can be mixed freely, and some mixes break what others keep. `Programs`
is the set of programs an instance looks at, a program being the set of
operations it uses; `Init` picks one (`ops`) and a call is only made if it is in
it. Nothing else about the calls changes, and properties that only some programs
have say which ones (`ReceiversWake`, `SendersWake`, `StreamsEnd`).

`Actor` adds the life cycle; an actor is named by the handle of its mailbox.
`ActorSend` and `ActorRecv` hold the lock of the actor map around the whole
call. The blocking calls check the state in one step, enter the mailbox in
another, complete there and count the message in a last one (`CountSent`).
`ActorStop`, `MarkStopped` and `MarkFailed` look at no earlier state, as in the
code. `ChannelSelect` adds threads that build a list of channels and try them in
order, one lock acquisition each, then register on all open ones.

### ThreadedExecutor

`state`, `reason`, `markers`, `parent` are fields of `MTTaskInfo`; `waiters` is
one function for the four maps of waiting tasks, keyed by what they wait for;
`timers` is `timer_deadlines`, where the passage of time is a choice. Calls that
several callers share (`WakeTask`, `Push`, `TakeWaiters`, `Count`) are steps a
thread enters with `Call`, which pushes where to go on, and leaves with
`Return`. A worker goes round `LoopTop`, `PopLocal`, `Steal`, `Unpark`, `Claim`,
`EnterBody`, `LeaveBody`, `AfterBody`, `CompleteExecuted`; with
`SingleThreaded` one thread goes round `Run`, `PollTimers`, ..., `Quiet`, the
loop of `run_until_quiescent`. Task bodies and embedding threads are external: a
body makes API calls, may block or finish its own task as the last of them, and
returns. The callback runs while `task_callback` is locked, so bodies of several
workers never overlap.

### EventTimers and NetRequests

All event loops are behind one lock, which a poll keeps until it has an event or
its time is over (`polling`). `fate` remembers how every timer ended. In
`NetRequests` an item is whatever comes from outside and has one taker; `sock`
is the operating system's side (what waits, which mode a socket is in), `held`
what the process holds, `thread` where each thread is in an attempt, `seen` what
the program has been told. An attempt reads the kind of a pending request under
the lock, acts without it and writes the outcome if the request is still there.

- The HTTP server accepts with a listener that does not block and then reads the
  request from a connection that does (`parse_http_request`, 5 s for each read):
  `TakeItem` takes the connection, and `ReadRequest` or `NoRequest` come when the
  peer has sent a request, or has not. In between the attempt waits, and the
  connection is in no table. Without a request it is dropped; the blocking accept
  does the same (`BlockingTake`, then the same two actions).
- A blocking call sets the mode of the socket and leaves it (`nonblocking`); only an
  attempt of the HTTP server sets it back (`Looked`). An attempt at a socket that
  blocks waits in `act`, without the lock, until something arrives.
- `Dial` is one step: nobody can name a connection before the attempt returns it.
- `takenFor` remembers the request an item was taken for, and `raced` the requests
  that two attempts at once were made at, or that were removed during one.

### NativeAsync, CryptoTasks, NonceTracking

`NativeAsync` has the registry of `async_rt.rs` and, as actions over a frame,
the code that `async_lower.rs` generates: entry check, dispatch, state 0, the
states between, the last one. Poll functions that are not lowered bodies answer
as they like. In `CryptoTasks` a worker stores the result, then the status; in
`NonceTracking` a call reads the flag before it takes the lock.

### TxScope, DbPool, PgAsync, MailSessions, WebServers

`TxScope` keeps the host's depth and stacks beside a database that is a stack of
named levels with the writes made above them; every statement may fail, and a
commit may fail on its own. `NestedTx` is what scopes promise and `ScopesNest`
the refinement, step by step, through `ScopeWrites`. `DbPool` adds the pool with
the separate critical sections of acquire (`Attempt`, `FetchString`,
`OpenConnection`, `Insert`, `Exhausted`, `Retry`) and the panics of calls that
find the pool gone, which poison its lock. `PgAsync`, `MailSessions` and
`WebServers` model the calls as the locks they take and the lines, results or
parts they move, against a peer that follows its protocol and refuses, hangs up
or is late as it likes.

### The tools

`IncrementalBuild` has overlapping processes that write files in two steps, die
and meet edits. A project is its sources and the external packages its `arth.toml`
names (`Project`); the fingerprint is of the sources only. app.abc and the
artifacts hold programs before linking; a process that compiled runs the `Linked`
program, one that hit the cache the `Unlinked` one. `Install` changes the packages.
`DepGraph` runs the three graph algorithms step by step over all graphs of an
instance. `Lowering` translates statements to blocks as
`lower_stmt` does, `VmControl` executes them as the interpreter does, and
`StructuredCode` says what they should print. `SsaPromotion` computes dominators
by the sweeps of the code, places phis, renames, and then executes a function
before and after at once. `VmEffects` and `VmEmission` are tables by opcode and
instruction, `VmOperands` runs any sequence of instructions over them.
`OwnershipCheck` checks and runs one statement per step.

## Runs

Ten runs pass, and two end in a counterexample (see [findings](#findings)). Parts that share no state are checked in one run: a behaviour is
that of one part, chosen in its first state, so the run has as many states as the
parts together and no interleaving is lost.

| Run | Instance | Shows |
|---|---|---|
| `pool_safety` | 2 workers, 2 clients, 3 tasks; a leaf job, one that awaits, one whose sub-task awaits | no task is in flight twice (`InFlightOnce`) or `Pending` without somebody who will run it (`PendingNotStranded`); a resumed task finds its sub-task done (`ResumeFindsTargetDone`), `Completed` tasks have the sequential value (`CompletedHasValue`), the pool implements `TaskFutures` (`ImplementsFutures`) |
| `pool_liveness` | 2 workers, 1 client, 3 tasks | tasks that await nothing complete despite lost notifications (`LeafTasksComplete`); shutdown ends every worker (`ShutdownStopsWorkers`) |
| `chan_safety` | 3 threads, unbounded or capacity 1 or 2, 3 messages; programs with all nine operations, with suspended senders, with suspended receivers | no message duplicated (`MessagesOnce`), none lost whose send returned 0 (`SentIsKept`), each sender's messages in order (`SenderOrder`); a waiting sender has a waker if all receivers wake (`SenderHasWaker`); no receiver sleeps beside a message nobody was woken for if all senders wake (`ReceiverHasWaker`); end of stream is final where no send waits (`EndOfStreamIsFinal`) |
| `chan_backpressure` | capacity 1, 4 messages | suspended senders resume while somebody receives (`WaitingSendersResume`) |
| `runtime_services` | one actor and 3 threads, or a selector over 2 channels and 2 others, 2 messages; or 2 threads with network requests, 2 items, 3 calls each; or 2 threads with a loop, 2 timers, a pipe | `message_count` is the number of messages the mailbox took (`CountsDelivered`) and only calls under way reach an actor that ended (`EndedActorIsQuiet`); a select reports the source of its value, "all closed" is final, it sleeps beside a message only if that came between its two passes (`SelectSafe`); what arrives from the network is lost only if the attempts at its own request overlap, or that is removed during one; an attempt waits only where a blocking call left the mode, or for the request of a connection it has for itself (`AttemptsSafe`); no connection is answered twice (`AnsweredOnce`); a timer has one fate (`OneFate`) |
| `exec_single` | one thread, 3 tasks that block for every reason, await, cancel and finish each other | a blocked execution is not completed, completion wakes those that await (`ExecutorSafe`); `run_until_quiescent` returns when its tasks wait for nothing from outside (`QuiescentRunEnds`) |
| `exec_multi` | 2 workers, 1 client, 2 tasks, sendable and affine; tasks that wait for messages, are woken and cancelled; a client that completes tasks and shuts down | a started `Pending` task has a queue entry its worker sees, and affine tasks stay on their worker (`QueuesSafe`) |
| `host_services` | a pool of one connection and 2 threads; a PostgreSQL connection, 2 threads, 2 commands; a mail session, 2 threads, 2 to 4 calls; 2 web clients, 2 threads, 3 calls | nobody shares a connection, none is leaked, the limit holds unless two threads open at once, idle ones are clean, the stacks of scopes agree (`ConnectionsSafe`); scopes are nested transactions (`ScopesNest`); a query gets its own result or error (`QueriesSafe`); replies belong to their commands and a message is sent whole (`MailSafe`); messages reach clients whole and nothing follows a close (`WebSafe`) |
| `native_runtime` | 2 threads, 2 tasks; bodies with 0, 1 or 2 awaits or foreign; or 2 threads with crypto operations; or with 2 nonces | an error reaches the awaiter (`ErrorIsPropagated`), an outcome settles once (`SettlesOnce`), every await returns (`AwaitReturns`); an announced result is there and is cleaned up once (`OperationsSafe`); a nonce is fresh once (`FreshOnce`) |
| `toolchain` | 2 processes, one edit or change of the packages, one fault and one overlap; graphs of 3 and 4 packages; 2,900 programs; 2,000 functions of 4 blocks; 15,000 bodies; any sequence of instructions | builds run a program of the source they fingerprinted, and the very one a compiler would run in a project without packages (`BuildSafe`); plans rebuild exactly the changed packages and what imports them (`RecompilesExactly`), in an order that respects imports, or report a cycle (`OrderOrCycle`); programs print what their statements say (`ControlSafe`); a promoted load gives what the slot held (`PromotionSound`); opcodes find their operands (`OperandsMatch`); accepted bodies misuse no variable (`AcceptedIsSafe`) |

`PROJECT.json` pairs each property with a mutant: a definition changed the way a
plausible bug would change it, under which TLC finds the property violated.

Deadlock is checked in the pool runs, where `Stopped` is the only state without
a successor. The other instances may really stop: all messages are sent, every
thread is suspended, or nobody makes another call.

## Bounds

Bounds only limit what programs ask for (tasks spawned, messages sent, calls
made), never a step of a call in progress.

- Pool: two workers are the smallest number with which one completes a sub-task
  while another suspends the task that awaits it; two clients join and spawn in
  parallel; three tasks are a chain of two sub-jobs, or a job with one sub-job
  beside a rival. The longest chain the code can build has four tasks; the
  theorems cover it. `Workers` and `Clients` are symmetric.
- Channels: three threads give two rivals for the slot a third one frees.
  Capacity 1 makes every second message meet a full channel, capacity 2 leaves
  messages behind a receiver, capacity 0 asks for no bound. Three messages fill
  a queue of two and make one sender wait, or a queue of one with a waiting
  sender and a rival. One channel is enough where channels do not interact; a
  select has two. `Threads` are symmetric; runs of liveness properties use no
  symmetry.
- Actors: a sender, a receiver and a supervisor; one actor (`OneActor`).
- Executor: `MaxQueue` bounds how many entries the queues hold when another task
  is started, `MaxCompletes` how many completions happen before the last calls;
  both stop a program that completes and restarts a task for ever. Two workers
  race for one task; an origin of 3 with two workers exercises the modulus of
  the home worker.
- Network, timers: two threads attempt the same request; three calls each are a
  request, a check and a removal, or a blocking call and a request after it. `MaxNow`
  lets both timers expire.
- Database pools: a limit of one connection is reached by one thread while the
  other waits, and passed when both open; three handles let a broken connection
  be replaced twice; three scopes nest with one left behind by a rollback. Two
  writes tell a kept from an undone scope.
- PostgreSQL, mail, web: two threads share one connection; two commands are one
  that is cancelled or fails and one after it; a message of a raw session takes
  four calls.
- Builds: one process that dies or is overtaken and one that finds what it left. Of
  three states of the sources one compiles only with the library and one never; one
  `Install` (`MaxInstalls`), or one edit or new command line (`MaxChanges`), never
  both (`OneChange`), comes before, between or after the builds.
- Programs, functions, bodies, graphs are sets of inputs, enumerated: a try in
  each place of another with every way out of it, every graph of four blocks with
  at most two ways out of a block, declarations followed by one compound
  statement and its uses. They are samples of what a user may write; what is
  outside them (labels, deeper nesting) is not checked.

## Fairness

The operating system schedules every runnable thread: weak fairness of every
worker's steps and of every thread that is inside a call. Nobody is obliged to
make a call, with one exception a property names: `WaitingSendersResume` is
about channels on which somebody keeps receiving with `recv_and_wake` while
there is a message. Weak fairness suffices because a step of a thread inside a
call is disabled only by that thread's own progress. Runs without liveness
properties state none.

| Specification | Fair steps |
|---|---|
| `ConcurrentPool.FairSpec` | every worker, every client inside a join |
| `MpmcChannel.FairSpec` | every thread inside a call or woken to retry; some receive |
| `ThreadedExecutor.FairSpec` | every thread inside a call, every worker |
| `NativeAsync.AsyncFairness` | every caller inside a call; a foreign poll function answers pending only finitely often (`MaxPend`) |

## Findings

Two runs end in a counterexample to a sentence of the repository, which the
finding in `PROJECT.json` quotes.

| Run | What the code does |
|---|---|
| `pool_lost_wakeup` | the sub-task takes its waiters between the check of its state and `add_waiter`: the awaiting task sleeps for ever |
| `chan_lost_message` | `recv_and_wake` ignores the result of its refill: the message of a woken sender is dropped |

The code also departs from its documents where no run is about it; the properties
of the runs say what it does instead.

- `plan` (`incremental/mod.rs:286`) recompiles whatever imports a package whose
  source changed, directly or through others, and compares no interface
  (`invalidated_by_interface_change` has no caller). `RecompilesExactly` states that.
  The documents promise less work: "When only the implementation changes (same
  interface), dependents are unaffected" (`dep_graph.rs:10`), "Interface fingerprint
  changes (for dependents)" (`mod.rs:236`), "A dependency's interface changed"
  (`mod.rs:130`). The graphs `cli.rs` builds have no edges, so `arth build` itself
  never gets that far.
- A program that was compiled is linked with the libraries of its packages before it
  is run (`cli.rs:2110`, "Link libraries with main program if any"). A cache hit runs
  the artifact, which is the program before linking, without a symbol table
  (`cli.rs:253`), although that "must be called before running a linked program that
  uses CallSymbol opcodes" (`interpreter.inc.rs:166`). The fingerprint knows no
  packages, so that a change of theirs is no miss either.
- An artifact that is there but torn is a hit (`project_cache.rs:272`), and not
  "Cache corrupt - entry exists but artifacts missing/invalid" (`project_cache.rs:186`).
- `tcp_listener_accept` sets its duplicate of the listener to blocking, which sets
  the socket (`ffi.inc.rs:3589`): an asynchronous accept made afterwards waits in its
  call, under the comments "Try to accept immediately (non-blocking)"
  (`ffi.inc.rs:3638`) and "Try non-blocking accept" (`ffi.inc.rs:4068`).

The hypotheses of the properties that hold mark where the code promises less
than a reader may expect. Dropping the hypothesis gives a counterexample.

- `EndOfStreamIsFinal` needs programs without sends that wait (`StreamsEnd`): a
  blocking send that started before close, or the refill of a suspended sender,
  puts a message into a channel that was reported closed and empty.
- `ReceiverHasWaker` needs `send_and_wake` everywhere: `send_with_task`, plain
  sends and the refill wake no receiver. `SenderHasWaker` needs `recv_and_wake`
  everywhere, and payloads other than -2 and -3, which `recv_and_wake` reads as
  "nothing received".
- `EndedActorIsQuiet` excepts calls that passed the check of the state;
  `mark_stopped` leaves the mailbox open.
- `ExecutorSafe` is about one thread: with several, a worker completes a task
  under another lock than the one under which it looked at its state, so that a
  cancelled task becomes `Completed`, and a task that was blocked and woken at
  once is completed with the result of the execution that blocked.
- Affinity needs an origin thread above 0: with 0, the default, a task that is
  not sendable goes through the global queue.
- `LimitKept` excepts two threads that open at the same time; `DepthAgrees` and
  `ScopesNest` except connections on which a statement failed or that went back to
  the pool inside a scope; `Exclusive` programs that release what they do not hold.
- `NothingIsLost` excepts an item whose own request was attempted by two threads at
  once, or removed during an attempt: the second outcome overwrites the first.
- `WaitsForItsOwn` says what an attempt may wait for, not that it does not wait: an
  asynchronous accept of the HTTP server keeps its caller up to 5 s for each read
  of the request.
- `CachedAsGoodAsNew` is about projects that have never had an external package:
  with packages a hit runs the unlinked program, and a change of a package alone is
  no miss. `RunsItsSource`, with packages or without, asks for the source only.
- `HitsDecode` is claimed while no process died, failed or overlapped another.
- `QueriesSafe` excepts connections on which two polls overlapped, `MailIntact`
  sessions another thread used between the steps of a message.

## Proofs

Eight modules hold theorems. The assumptions on constants are the `ASSUME`s of the
modules they are about; TLC evaluates them in every run. They ask of the bounds
that they are numbers, of the model values that they differ from each other, and
of the inputs that they are such inputs: `GraphAssumption` that the packages are
finitely many, `PgAssumption` that an answer has one or two results, which is what
the server's side of the model sends, `BuildAssumption` that the marks for a
missing and a torn file are no file's content and that a project can be without
packages, `WebAssumption` that what a client sends is made of frames. Each theorem is `Spec => []P` from an inductive invariant
that TLC checked first, with one lemma per action or per group of actions that do
the same.

### The pool, `ConcurrentPoolProofs`

For any sets of workers and clients, any `MaxTasks >= 1`, any set of integer
inputs that contains the defaults of work type 3, any jobs and any integer
`Cpu`: `Spec => []Inv`, and from it `TypeOK`, `InFlightOnce`,
`PendingNotStranded`, `RunningByOneWorker`, `ResumeFindsTargetDone`,
`CompletedHasValue` and the refinement `ImplementsFutures`. `Inv` is a
conjunction:

- `Allocation`: which ids have a job, and which are registered;
- `WorkerHands`, `ClientHands`: what a thread at each `pc` holds, for example
  that one that stores a result holds the sequential value of its task's job;
- `SavedFrames`: a task with a saved frame awaits a task that has its sub-job;
  without it a resumed task could add a wrong value to its accumulator;
- `WaitingOnce`: a suspended task is registered with one task at most, once, and
  then not in a worker's list of waiters to wake; this is what makes the three
  steps of `wake_waiters` safe;
- `InFlightOnce`, `PendingNotStranded`, `RunningByOneWorker`: none is inductive
  alone. That a claim finds nobody else on the task needs `InFlightOnce`; that a
  re-queue keeps `InFlightOnce` needs `WaitingOnce` and that a `Suspended` task
  has no place in flight;
- `CompletedHasValue`: a resumed task reads the result of its sub-task.

`PlacesFrame`, `RunningFrame` and `WaitingFrame` say once what steps keep that
leave the places of tasks alone; `PushPlaces`, `EnterWorker`, `EnterClient` and
`LeavePlaces` how a task changes its place. For the refinement, `SetCompleted`
maps to `Resolve` (the stored result is the value of the job by `WorkerHands`),
spawns to `Create`, the end of a join to `Join`, and all else to a stutter.

### Channels, actors and selects, `ChannelProofs`

For any threads, channels, capacities, messages and any mix of operations:

- `ChanInv == TypeOK /\ Hands /\ SentIsKept`: the capacity bound (part of
  `TypeOK`) and that no message is lost whose send returned 0. `Hands` says what
  the threads inside two-step calls hold. The proof splits it into `CallInv`, whose
  `Inside` says nothing of suspended tasks, and `Parked`, which says that a task
  was suspended by a channel that exists. A step of a channel operation keeps
  `CallInv` by itself (`StepKeepsCallInv`); actors and selectors, which suspend in
  other ways, cite it.
- `SenderHasWaker`: for programs with `ReceiversWake`, `WakerInv` is inductive
  beside `ChanInv`; no step changes the program.
- `EndOfStreamIsFinal`: for programs with `StreamsEnd`, `EndInv` says that nobody
  is blocked or registered as a sender and that a channel which told somebody
  "closed and empty" is both.
- `MessagesOnce`: `Apart` says that two places of one message are one place
  (`Once`), and that messages not made yet are nowhere. A place is a thread's
  hand, an entry of a list of waiting senders, a position of a queue or one of
  what was received; the second half is what a new message needs.
- `SenderOrder`: beside `Apart`, `Filed` (a suspended task is filed in one place,
  others in none, so a woken sender has no second message under way) and
  `OrderInv` (`InOrder` for what was received followed by what is queued,
  `PendingIsLast` for the message a sender has not put anywhere yet).

Actors, for any threads, actors, capacities and messages: `CountsDelivered` and
`EndedActorIsQuiet` from `ActorInv`, over the lemmas about the channel operations
of the mailbox. `Links` ties the step a thread has reached in a call of the actor
to the step of the channel call inside it; `Counts` is the count of messages for
every handle, with the finiteness of the set that is counted as part of the
invariant, so that nothing is assumed of the number of threads. `MailboxSteps`
says which steps change a mailbox, and gives the action property.

Selects, for any selectors, other threads, channels, messages and lengths of the
set: `SelectSafe` from `SelectInv`, which adds to `CallInv`

- `Placed`: a select that is under way is at a channel of its set;
- `EndsInv`: in programs without sends that wait for room, the channels a select
  has passed over as closed have ended for good. They were looked at at different
  times, so this is about every moment since. It needs that nobody is blocked in
  or registered for a send, as `EndOfStreamIsFinal` does;
- `SleepersInv`: `Listed` (`SelectorIsRegistered` of one thread); and with one
  selector `Covered`, that each channel of its set has an entry for it or has ended
  unless a message came between its two passes or it was popped already. Without
  `Covered` a message on a channel that the selector is not registered on would
  have no waker. `CellFree` is there because a second popped receiver would
  overwrite the id of the first.

The steps of the other threads are one lemma (`PlainKeeps`), from what a channel
operation does to the lists, the queues and the threads beside it (`PlainFrame`,
`PlainLists`, `PlainQueues`, `PlainWaits`). A selector's own step keeps the
invariant if it keeps the part about that selector (`OwnKeeps`), because it takes
one message at most and moves only itself in the lists of receivers; that
`retain` drops the entries of the caller and no other is `RetainFacts`.

### Network requests, timers and web servers, `EventNetProofs`

- `OneFate` from `EventInv`: the tables of loops and timers agree with the
  history, and a timer that has ended is no longer where it could fire. Without
  `TimersOK` an expired timer could be announced again by the next poll.
- `AttemptsSafe` and `AnsweredOnce` from `NetInv`: `ItemsOK` (what waits, waits
  in one place and has no answer), `StreamsOK` (a connection is in the table or
  in the hands of one attempt), `AttemptsOK` (what a thread in an attempt
  holds), and that a socket is non-blocking or a blocking call was made on it. That
  a thread which waits for the request of a connection has it alone, needs that no
  item is in two threads' hands and that a handle is given out after the request
  came.

- `WebSafe`, for any finite or infinite sets of clients and threads and any pieces
  the clients send, from `WebInv`: `WebTyped`, `CallsFit` (what a call at each place
  holds), `WebLocks` (the lock of the sockets, of each table of servers and of
  entries is held by the call that says so) and, for each client, `Introduced` (a
  client is known to its acceptor only), `OneOwner` (a socket belongs to one call or
  one entry), `Streams` (one writer at a time or whole messages), `InTime` (a message
  that begins after the close frame finds the entry closed) and `Receives` (one
  reader at a time gets the frames in order). A step is about one client:
  `OthersKept` gives the conjuncts of all the others, and there is one lemma per
  action for the rest.

### Native tasks, crypto operations and nonces, `NativeRuntimeProofs`

- `ErrorIsPropagated` and `SettlesOnce`, for any callers, tasks and poll functions,
  from `AsyncInv`: `Shape`, `CallFits` (which task a call may have), `CallHolds` (a
  task that is polled has not settled but for a cancel, what is about to be returned
  is its outcome, an error in hand is that of the task the body awaited) and
  `ErrorHolds`. All but the first two are claimed only of a task that one thread
  awaits: the registry lets the late answer of a second thread overwrite an outcome.
  `SettlesOnce` is an action property; it follows from the same invariant and
  `BodyRule`, that a body is entered past the check at its entry only.
- `FreshOnce` from `NonceInv`: the registry is the set of marked pairs.
- `OperationsSafe` from `CryptoInv`: `TablesAgree`, `StatusFollows` (a status
  other than `Running` comes after the result it announces), `CallerKnows` (what
  a caller has been told) and `SpawnsDiffer` (one worker per operation).

### Database pools, scopes and queries, `HostServicesProofs`

`ConnectionsSafe` from `PoolInv`, for any finite, non-empty set of threads and
any connections, scopes, writes and limits:

- `TxInv`, for each connection: `Good` (the names of the levels differ and are
  below the next scope id, so that a savepoint's name finds one level) and
  `Agree` (the host's three stacks agree and, on a connection where no statement
  failed, the first level is the one of `BEGIN`, so that releasing a savepoint
  never commits);
- `Stages` (a pool that does not exist, or is closed, has no connections; only a
  closed one is poisoned) and `Places` (a connection is in one of the pool's two
  lists at most, the used ones are those somebody holds, and none is leaked);
- `Hands` and `Unused`: an opened connection that is not recorded yet belongs to
  one thread, and handles that were not given out are nowhere;
- `Limits`: the connections of the pool plus the threads that are opening one.
  The limit alone is not inductive: a thread that decided to open adds its
  connection later.

`ScopesNest`, that scopes are steps of the nested transactions of `NestedTx`, from
`PoolInv` and `NestInv`: on a connection where no statement failed and that was
not released inside a scope, the names of the levels ascend, the ids of the open
scopes are among them in the same order, and each nested scope's savepoint is its
own id (`Linked`). Levels that a rollback left behind may lie between them. So
the last savepoint names the level of the innermost scope (`InnermostLevel`),
that level is never the first, and cutting the stack of levels there leaves every
scope below with the writes it had (`StackCut`), from which `RELEASE`,
`ROLLBACK TO` and a write follow as cases.

`QueriesSafe`, for any finite or infinite sets of threads, connections and
commands, from `PgInv`. `Frame` holds whatever the threads do at the same time:
the two tables agree with what libpq and the callers have, commands differ, and no
two entries have one command. The rest is about connections on which no two polls
have overlapped so far: `Single` (one thread polls, and what it has read belongs to
the query it polls) and `Orderly` (the command in flight is that of the thread that
reads, of the pending query, or of the caller that has just sent it), or else
`Doomed`, two polls are about to overlap. `NoResultLeaks` needs to know which
commands a connection had: the history field `commands` was added for it, and with
it the property names the connection whose polls overlapped, which an earlier
version left open.

### Builds and plans, `BuildProofs`

- `BuildSafe`, for any processes, sources, commands and numbers of edits, faults
  and overlaps, from `BuildInv`: `Staged` (where a process is says what it holds),
  `Calm` (an artifact that is not stale is the program of its fingerprint, and so is
  what a process carries that met no edit), `Alone` (as long as nothing died,
  failed or overlapped, one process is at work and the index names artifacts that
  are there and complete) and `Settled` (in a project that never had a package,
  what was compiled was compiled without one, and linking changes nothing).
- `RecompilesExactly` and `OrderOrCycle`, for any finite set of packages and any
  graph over them, from `GraphInv`. `SortInv`: the order followed by the queue is
  distinct, has the nodes whose dependencies are all in the order, each after those,
  and the in-degrees count the others; when the queue is empty and nodes are left,
  every one of them depends on another one, and that is a cycle. `ReachInv`: nothing
  but what has to be found was found, and what was not looked at yet is queued.
  `DoneInv` and `PathInv`: the nodes the depth-first search is done with have no
  cycle, and of each node on the path all was looked at up to the next node of the
  path; so a node met again closes a cycle, and one that is left has none.

### Sequences, `SequenceFacts`

What `Retain`, concatenation, `Append` and `Head` do to the elements of a sequence,
that a sequence of distinct elements fits into its set, that every finite set of
numbers has an ascending listing, and the least number of a set. The library's
induction theorem takes an operator, which the provers cannot instantiate;
`NatSetInduction` states it for a set of numbers instead and follows from the
well-foundedness of `<`. With it the recursive function in `Retain` is described
for every sequence (`KeptExists`, `RetainPlaces`).

### The executor, `ThreadedExecutorProofs`

- `QueuesSafe` for any numbers of workers, embedding threads and tasks, and any
  programs, from `ExecInv`; its first half, `StartedNotStranded`, without any
  condition. `Control` says where a thread inside a call returns to and that it
  has something to work on: a push without it could find nothing to push.
  `Affine` says that a task with a home is only in that worker's queue and in
  that worker's hands. That a task which is not sendable runs on one thread holds
  if its markers name an origin (`OriginsGiven`); with origin 0 it has no home.
- `ExecutorSafe` for the executor on one thread, called from task bodies only
  (`OneThread`), from `ExecInv` and `SingleInv`. `Suspends`: a body that blocked
  its task does nothing but return, and a task is registered in the list of one
  that is not finished. `Awaits` and `Drained`: a task that awaits another is in
  its list or being woken, and nobody is in the list of a finished task whose
  waiters were taken. With more threads these fail, as the findings say.

### Only model-checked

- Liveness (`LeafTasksComplete`, `ShutdownStopsWorkers`, `WaitingSendersResume`,
  `QuiescentRunEnds`, `AwaitReturns`): fairness and `ENABLED` are out of the
  prover's reach.
- `ControlSafe`, `PromotionSound`, `AcceptedIsSafe`: they compare executions with
  what `RECURSIVE` operators compute from programs, functions and bodies, and the
  prover cannot look into those. `OperandsMatch` is a statement about two large
  tables that are spelled out in the model: TLC goes through them entry by entry,
  and a proof would do the same.
- `ReceiverHasWaker`: it counts messages against wake-ups in three places, and
  the step from a wake-up that was read to the retry of the receiver needs the
  cardinality of sets that several threads change.
- `MailSafe`: not done yet.

## Hazards beyond the list

Seen while modelling; no property is about them.

- Channels, executor: `recv_blocking` goes on waiting after close
  (`ffi.inc.rs:1090`); a select that returned leaves its registrations until
  `select_deregister` (`ffi.inc.rs:1710`); waiters of a channel are a stack
  (`executor.rs:747`); the callback's lock serialises all bodies
  (`executor.rs:933`); a cancelled sleeper keeps its deadline
  (`executor.rs:804`); `block_task` registers a waiter after it set `Blocked`; a
  task that blocked and was woken at once is completed with the result of the
  execution that blocked.
- PostgreSQL: a failed command leaves the connection busy; cancelling forgets the
  entry only; two pollers can leave a query completed without result; draining a
  closed connection does not end; errors after the first are dropped;
  disconnecting leaves pending entries; `get_result` waits with all connections
  locked.
- Mail: every reply has a reader of its own, which drops what it read ahead; a
  POP3 listing loops at the end of the stream; `smtp_send_message` lets the lock
  go between its steps; a refused `RCPT` leaves the transaction open; an IMAP
  literal is read as a reply; `AUTHENTICATE` continuations stay unanswered;
  `smtp_read_response` waits with the table locked.
- Web: `SOCKETS` is locked while a receive or a send blocks; accept holds the
  table of servers and `http_respond` that of requests; a pong is sent between
  the parts of another thread's message; two receivers split a frame; a request
  nobody answers keeps its socket; `http_responses` only grows.
- Network, timers: tries of one HTTP request wait for each other's peers one after
  the other in `poll_ready`; closing a listener leaves its accept pending; TCP `poll_ready` never
  reports an error; an HTTP poll returns the same request until it is removed; a
  poll without timeout holds the lock of all loops; `check_expired` hides a
  timer from `poll_expired`; ended timers stay; the end of a pipe is not reported.
- Compiled control flow: `return;` in a nested block or try is lost; a return
  inside a try leaves its handler installed; one inside a finally makes lowering
  recurse without end (`hir_to_ir.rs` 2684-2705); nested finally blocks are inlined
  outer first; a throw in a catch skips finally; a loop body that ends in break,
  return or throw is overwritten; an untyped catch matches nothing on the VM;
  drops on exceptional paths are wrong; a caught panic still ends with code 3; in
  native code a throw inside a try is a plain call.
- SSA: a doubled edge leaves a phi operand at `Value(0)`; fresh ids ignore results
  of invokes; unwind edges are not in the graph; folding `i64::MIN / -1`.
- Ownership checks: release of a value moves it; a loop body is checked once; moves
  in an if condition are not seen; a break in a switch case makes later
  assignments definite; a try sets only the older `moved` flag; moves in catch
  clauses are lost; fields of uninitialised or moved structs can be read and
  assigned; `return x` consumes nothing; `x = f(x)` leaves `x` moved; switch does
  not join lifetimes; no driver fills `types_needing_drop`.
- Operands: an awaited task's arguments are pushed in the other order than a
  prologue takes them; a denied capability answers -1 without taking its operands;
  pool statistics push four values; `CondDrop`'s jump is relative; many opcodes
  are emitted by nothing.
- Native code: a resumed body does not wait for the task it awaits; errors between
  awaits are dropped; frames are freed with size 0; liveness misses values carried
  round a loop (`async_lower.rs` 379-450).
- Linker, JIT, tables: 28 `BigDecimal`/`BigInt` opcodes cannot be encoded
  (`bytecode.rs:1796`); libraries lose their async tables; the last of duplicate
  exports wins; a failed library load is a warning (`cli.rs:1409`); a failed JIT
  compilation leaves `compiling` set; ranges of handles overlap (`core.inc.rs`);
  `region_exit` accepts regions out of order (899).

## What is not modelled

- Of modelled parts: raw `pop_waiting_*` calls of the channels; `set_task` of the
  actors; `remove_task` and `reset_worker_task_counts` of the pool (never called,
  or for tests); `push_arg`, `reset`, stack traces and statistics of the executor;
  parsing and building of MIME, HTTP and headers; expressions, labels, lambdas and
  types in the models of the compiler.
- Weak memory: atomics are sequentially consistent in the models. The pool's task
  state is accessed with `SeqCst` and the other shared fields under locks, so this
  loses nothing.
- A panic inside a task of the pool, and failure to start a thread.
- Single-threaded tasks and basic channels (subsets of what is modelled), reference
  counts, provider state and execution limits (tables and counters under one lock),
  the rest of the interpreter, the JIT, the linker, host I/O, HTML and templates,
  lexer, parser, resolver, types, code generation, lint, formatter, language
  server, TypeScript front end: sequential code over unbounded data, or effects
  outside the program. `PROJECT.json` gives the reason for each. The modelled lines
  are a sixth of the implementation; most of the rest is in these parts.

## Plan

Done: the modules above, in the order of the table: the pool and its abstract
specification, the channels with their clients, the executor, the services of the
host, the native runtime, the tools; theorems for the pool, channels, actors,
selects, the executor, timers, network requests, web servers, native tasks, crypto
operations, nonces, database pools, scopes, queries, builds and plans.

Next theorems, each with the invariant it is expected to need:

1. `MailSafe`: whose turn it is on a connection, with the lines of a reply in
   order.
2. `ReceiverHasWaker`: messages against wake-ups, counted in three places.
3. `TypeOK` of the executor for several workers: `active_workers` is the number
   of workers inside their loop.

Next models: the basic channels and the single-threaded tasks of the VM, the lock
file and the package cache of the driver.

