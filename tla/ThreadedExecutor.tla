-------------------------- MODULE ThreadedExecutor --------------------------
(***************************************************************************)
(* The multi-threaded executor, executor.rs.  A task is spawned, started   *)
(* (pushed to the injector, or to the queue of its home worker if it is    *)
(* not sendable), claimed by a worker and run by the registered callback.  *)
(* Its body may block it on another task, a channel, a timer or a network  *)
(* operation; whoever completes that wakes and re-queues it.               *)
(*                                                                         *)
(* One step is one critical section of one of the executor's locks, or one *)
(* queue operation.  The callback, and the embedding threads that make     *)
(* calls from outside, are not part of this code: a body makes calls,      *)
(* blocks or finishes its own task last, and returns.  The workers' own    *)
(* deques are left out: nothing is ever pushed to them.                    *)
(***************************************************************************)
EXTENDS Integers, Sequences, SequencesExt, FiniteSets

CONSTANTS
    NumWorkers,       \* number of worker threads
    Clients,          \* threads of the embedding program
    SingleThreaded,   \* ExecutorMode: one thread calls run_until_quiescent
    MaxTasks,         \* bound on the number of tasks
    MaxQueue,         \* bound on the queued entries when a task is started
    MaxCompletes,     \* bound on completions before the last calls
    Markers,          \* task markers in use: [sendable, origin]
    Chans,            \* channel handles
    NetOps,           \* handles of network operations
    Programs,         \* the sets of operations that programs under study use
    NoTask,           \* no task handle
    NoKey             \* not waiting for anything

Workers == 1 .. NumWorkers
Handles == 1 .. MaxTasks
Agents  == Workers \cup Clients

Timer    == <<"timer", 0>>
TaskKeys == {"task"} \X Handles
RecvKeys == {"recv"} \X Chans
SendKeys == {"send"} \X Chans
NetKeys  == {"net"} \X NetOps
Keys     == TaskKeys \cup RecvKeys \cup SendKeys \cup NetKeys

ASSUME BoundsAssumption ==
    /\ NumWorkers \in Nat \ {0}
    /\ MaxTasks \in Nat /\ MaxQueue \in Nat /\ MaxCompletes \in Nat

ASSUME ModeAssumption == SingleThreaded \in BOOLEAN /\ (SingleThreaded => NumWorkers = 1)

ASSUME MarkersAssumption == Markers \subseteq [sendable : BOOLEAN, origin : Nat]

ASSUME NamesAssumption ==
    /\ Workers \cap Clients = {}
    /\ NoTask \notin Handles
    /\ NoKey \notin Keys \cup {Timer}

VARIABLES
    ops,              \* the operations this program uses
    next_handle,      \* the next task handle
    state,            \* MTTaskInfo.state, "None" before the task is spawned
    reason,           \* what a Blocked task waits for
    markers,          \* MTTaskInfo.markers
    parent,           \* MTTaskInfo.parent_task
    waiters,          \* task_waiters, channel_*_waiters, net_op_waiters
    timers,           \* the tasks in timer_deadlines
    injector,         \* the global queue
    local,            \* thread_local_queues
    callback,         \* the worker that holds task_callback, or 0
    shutdown,         \* the shutdown flag
    active_workers,   \* number of workers inside their loop
    completed_count,  \* number of complete_task calls
    pc,               \* where each thread is
    back,             \* where it goes on after the calls it is inside of
    at,               \* the list of waiters its current call is about
    wake,             \* the tasks it still has to wake
    cur,              \* the task a worker executes
    started,          \* history: the tasks that were started
    gave_up,          \* history: the body a worker runs has blocked its task
    ran_on            \* history: the workers a task ran on

taskVars   == <<next_handle, state, reason, markers, parent>>
waitVars   == <<waiters, timers>>
queueVars  == <<injector, local>>
statVars   == <<shutdown, active_workers, completed_count>>
threadVars == <<pc, back, at, wake, cur>>
histVars   == <<started, gave_up, ran_on>>
vars == <<ops, taskVars, waitVars, queueVars, callback, statVars, threadVars, histVars>>

Final == {"Completed", "Cancelled", "Panicked"}

NoMarkers == [sendable |-> TRUE, origin |-> 0]

Init ==
    /\ ops \in Programs
    /\ next_handle = 1
    /\ state = [t \in Handles |-> "None"]
    /\ reason = [t \in Handles |-> NoKey]
    /\ markers = [t \in Handles |-> NoMarkers]
    /\ parent = [t \in Handles |-> NoTask]
    /\ waiters = [k \in Keys |-> <<>>]
    /\ timers = {}
    /\ injector = <<>>
    /\ local = [w \in Workers |-> <<>>]
    /\ callback = 0
    /\ shutdown = FALSE
    /\ active_workers = 0
    /\ completed_count = 0
    /\ pc = [a \in Agents |-> IF a \in Clients THEN "idle"
                              ELSE IF SingleThreaded THEN "out" ELSE "start"]
    /\ back = [a \in Agents |-> <<>>]
    /\ at = [a \in Agents |-> NoKey]
    /\ wake = [a \in Agents |-> <<>>]
    /\ cur = [w \in Workers |-> NoTask]
    /\ started = {}
    /\ gave_up = [w \in Workers |-> FALSE]
    /\ ran_on = [t \in Handles |-> {}]

-----------------------------------------------------------------------------
Goto(a, p) == pc' = [pc EXCEPT ![a] = p]

\* Thread a goes on at p; the calls it is inside of return to r in turn.
Call(a, p, r) == Goto(a, p) /\ back' = [back EXCEPT ![a] = r]

Return(a) == pc' = [pc EXCEPT ![a] = Head(back[a])]
             /\ back' = [back EXCEPT ![a] = Tail(@)]

\* Where a thread may call the executor: outside it, or in a task's body.
CanCall(a) == pc[a] \in {"idle", "out", "body"}

Known == {t \in Handles : t < next_handle}

(* A body that has blocked or finished its own task only returns; any other *)
(* call goes back to where it was made.                                     *)
Own(a)        == IF pc[a] = "body" THEN cur[a] ELSE NoTask
AfterCall(a, t) == IF t = Own(a) THEN "leave" ELSE pc[a]

\* Mutant: the origin thread is not taken modulo the number of workers.
Mut_Home(t) ==
    IF ~markers[t].sendable /\ markers[t].origin > 0 THEN markers[t].origin ELSE 0

\* The worker whose queue a task that is not sendable goes to; 0: any worker.
Home(t) ==
    IF ~markers[t].sendable /\ markers[t].origin > 0
    THEN ((markers[t].origin - 1) % NumWorkers) + 1
    ELSE 0

\* A push to a queue that does not exist is dropped.
Enqueue(t) ==
    \/ Home(t) = 0 /\ injector' = Append(injector, t) /\ UNCHANGED local
    \/ /\ Home(t) # 0
       /\ local' = [w \in Workers |-> IF w = Home(t) THEN Append(local[w], t)
                                                     ELSE local[w]]
       /\ UNCHANGED injector

-----------------------------------------------------------------------------
(* Spawning and starting.                                                  *)

NewTask(a, m) ==
    /\ CanCall(a)
    /\ next_handle \in Handles
    /\ next_handle' = next_handle + 1
    /\ state' = [state EXCEPT ![next_handle] = "Pending"]
    /\ markers' = [markers EXCEPT ![next_handle] = m]
    /\ parent' = [parent EXCEPT ![next_handle] = Own(a)]

\* A spawned task is not queued yet.
Spawn(a, m) ==
    /\ "spawn" \in ops
    /\ NewTask(a, m)
    /\ UNCHANGED <<reason, waitVars, queueVars, callback, statVars, threadVars,
                   histVars>>

(* spawn and at once start, as programs call them: nobody else has the      *)
(* handle yet, so the check of start finds the task Pending.                *)
SpawnAndStart(a, m) ==
    /\ NewTask(a, m)
    /\ Call(a, "push", <<pc[a]>>)
    /\ wake' = [wake EXCEPT ![a] = <<next_handle>>]
    /\ started' = started \cup {next_handle}
    /\ UNCHANGED <<reason, waitVars, queueVars, callback, statVars, at, cur,
                   gave_up, ran_on>>

\* The state is checked first; the push is a step of its own.
Start(a, t) ==
    /\ "start" \in ops
    /\ CanCall(a)
    /\ Len(injector) + Len(FlattenSeq(local)) < MaxQueue
    /\ state[t] = "Pending"
    /\ Call(a, "push", <<pc[a]>>)
    /\ wake' = [wake EXCEPT ![a] = <<t>>]
    /\ started' = started \cup {t}
    /\ UNCHANGED <<taskVars, waitVars, queueVars, callback, statVars, at, cur,
                   gave_up, ran_on>>

-----------------------------------------------------------------------------
(* Waking.                                                                 *)

\* Mutant: a task that is woken is not made Pending.
Mut_WakeTask(a) ==
    /\ pc[a] = "wake"
    /\ IF wake[a] = <<>>
       THEN Return(a) /\ UNCHANGED wake
       ELSE IF state[Head(wake[a])] = "Blocked"
            THEN Goto(a, "push") /\ UNCHANGED <<wake, back>>
            ELSE wake' = [wake EXCEPT ![a] = Tail(@)] /\ UNCHANGED <<pc, back>>
    /\ UNCHANGED <<taskVars, waitVars, queueVars, callback, statVars, at, cur,
                   histVars>>

\* wake_task on the next task to wake: only a Blocked one is re-queued.
WakeTask(a) ==
    /\ pc[a] = "wake"
    /\ IF wake[a] = <<>>
       THEN Return(a) /\ UNCHANGED <<state, reason, wake>>
       ELSE LET t == Head(wake[a])
            IN IF state[t] = "Blocked"
               THEN /\ state' = [state EXCEPT ![t] = "Pending"]
                    /\ reason' = [reason EXCEPT ![t] = NoKey]
                    /\ Goto(a, "push")
                    /\ UNCHANGED <<wake, back>>
               ELSE /\ wake' = [wake EXCEPT ![a] = Tail(@)]
                    /\ UNCHANGED <<state, reason, pc, back>>
    /\ UNCHANGED <<next_handle, markers, parent, waitVars, queueVars, callback,
                   statVars, at, cur, histVars>>

Push(a) ==
    /\ pc[a] = "push"
    /\ Enqueue(Head(wake[a]))
    /\ wake' = [wake EXCEPT ![a] = Tail(@)]
    /\ Goto(a, "wake")
    /\ UNCHANGED <<taskVars, waitVars, callback, statVars, back, at, cur, histVars>>

\* The most recent receiver or sender that waits on the channel.
WakeChannelWaiter(a, k) ==
    /\ "wake" \in ops
    /\ CanCall(a)
    /\ waiters[k] # <<>>
    /\ wake' = [wake EXCEPT ![a] = <<Last(waiters[k])>>]
    /\ waiters' = [waiters EXCEPT ![k] = Front(@)]
    /\ Call(a, "wake", <<pc[a]>>)
    /\ UNCHANGED <<taskVars, timers, queueVars, callback, statVars, at, cur, histVars>>

\* wake_all_channel_waiters: the receivers, then under another lock the senders.
WakeAllChannelWaiters(a, c) ==
    /\ "wake_all" \in ops
    /\ CanCall(a)
    /\ wake' = [wake EXCEPT ![a] = waiters[<<"recv", c>>]]
    /\ waiters' = [waiters EXCEPT ![<<"recv", c>>] = <<>>]
    /\ at' = [at EXCEPT ![a] = <<"send", c>>]
    /\ Call(a, "wakesenders", <<pc[a]>>)
    /\ UNCHANGED <<taskVars, timers, queueVars, callback, statVars, cur, histVars>>

WakeAllSenders(a) ==
    /\ pc[a] = "wakesenders"
    /\ wake' = [wake EXCEPT ![a] = @ \o waiters[at[a]]]
    /\ waiters' = [waiters EXCEPT ![at[a]] = <<>>]
    /\ at' = [at EXCEPT ![a] = NoKey]
    /\ Goto(a, "wake")
    /\ UNCHANGED <<taskVars, timers, queueVars, callback, statVars, back, cur,
                   histVars>>

WakeNetOpWaiters(a, k) ==
    /\ "wake_net" \in ops
    /\ CanCall(a)
    /\ wake' = [wake EXCEPT ![a] = waiters[k]]
    /\ waiters' = [waiters EXCEPT ![k] = <<>>]
    /\ Call(a, "wake", <<pc[a]>>)
    /\ UNCHANGED <<taskVars, timers, queueVars, callback, statVars, at, cur, histVars>>

-----------------------------------------------------------------------------
(* Finishing a task: its state is overwritten, then its waiters are taken  *)
(* and woken.                                                              *)

SetFinal(a, t, s, r) ==
    /\ state' = [state EXCEPT ![t] = s]
    /\ reason' = [reason EXCEPT ![t] = NoKey]
    /\ at' = [at EXCEPT ![a] = <<"task", t>>]
    /\ back' = [back EXCEPT ![a] = r]
    /\ UNCHANGED <<next_handle, markers, parent, waitVars, queueVars, callback,
                   statVars, wake, started, ran_on>>

\* A call that finishes task t and then returns to each of r.
Finish(a, t, s, r) ==
    SetFinal(a, t, s, r) /\ Goto(a, "take") /\ UNCHANGED <<cur, gave_up>>

Complete(a, t) ==
    /\ "complete" \in ops
    /\ CanCall(a)
    /\ completed_count < MaxCompletes
    /\ Finish(a, t, "Completed", <<"count", AfterCall(a, t)>>)

\* Only cancel looks at the state it overwrites.
Cancel(a, t) ==
    /\ "cancel" \in ops
    /\ CanCall(a)
    /\ state[t] \notin Final
    /\ Finish(a, t, "Cancelled", <<AfterCall(a, t)>>)

Panic(a, t) ==
    /\ "panic" \in ops
    /\ CanCall(a)
    /\ Finish(a, t, "Panicked", <<AfterCall(a, t)>>)

\* Mutant: the waiters stay registered and are not woken.
Mut_TakeWaiters(a) ==
    /\ pc[a] = "take"
    /\ Goto(a, "wake")
    /\ UNCHANGED <<taskVars, waitVars, queueVars, callback, statVars, back, at,
                   wake, cur, histVars>>

TakeWaiters(a) ==
    /\ pc[a] = "take"
    /\ wake' = [wake EXCEPT ![a] = waiters[at[a]]]
    /\ waiters' = [waiters EXCEPT ![at[a]] = <<>>]
    /\ at' = [at EXCEPT ![a] = NoKey]
    /\ Goto(a, "wake")
    /\ UNCHANGED <<taskVars, timers, queueVars, callback, statVars, back, cur,
                   histVars>>

Count(a) ==
    /\ pc[a] = "count"
    /\ completed_count' = completed_count + 1
    /\ Return(a)
    /\ UNCHANGED <<taskVars, waitVars, queueVars, callback, shutdown,
                   active_workers, at, wake, cur, histVars>>

-----------------------------------------------------------------------------
(* Blocking.                                                               *)

(* What a body may wait for.  It awaits the tasks it has spawned, and only  *)
(* those it has not seen finished.                                          *)
CanAwait(t, k) ==
    \/ "await" \in ops /\ k \in TaskKeys /\ parent[k[2]] = t /\ state[k[2]] \notin Final
    \/ "recv" \in ops /\ k \in RecvKeys
    \/ "send" \in ops /\ k \in SendKeys
    \/ "net" \in ops /\ k \in NetKeys
    \/ "sleep" \in ops /\ k = Timer

\* block_task sets the state, whatever it is, before it registers the waiter.
Block(w, k) ==
    /\ pc[w] = "body"
    /\ completed_count < MaxCompletes
    /\ CanAwait(cur[w], k)
    /\ state' = [state EXCEPT ![cur[w]] = "Blocked"]
    /\ reason' = [reason EXCEPT ![cur[w]] = k]
    /\ at' = [at EXCEPT ![w] = k]
    /\ gave_up' = [gave_up EXCEPT ![w] = TRUE]
    /\ Goto(w, "register")
    /\ UNCHANGED <<next_handle, markers, parent, waitVars, queueVars, callback,
                   statVars, back, wake, cur, started, ran_on>>

Register(w) ==
    /\ pc[w] = "register"
    /\ \/ at[w] = Timer /\ timers' = timers \cup {cur[w]} /\ UNCHANGED waiters
       \/ /\ at[w] # Timer
          /\ waiters' = [waiters EXCEPT ![at[w]] = Append(@, cur[w])]
          /\ UNCHANGED timers
    /\ at' = [at EXCEPT ![w] = NoKey]
    /\ Goto(w, "leave")
    /\ UNCHANGED <<taskVars, queueVars, callback, statVars, back, wake, cur,
                   histVars>>

-----------------------------------------------------------------------------
(* The worker loop and run_until_quiescent.                                *)

\* The top of the loop a worker is in.
Again == IF SingleThreaded THEN "timers" ELSE "loop"

WorkerStart(w) ==
    /\ pc[w] = "start"
    /\ active_workers' = active_workers + 1
    /\ Goto(w, "loop")
    /\ UNCHANGED <<taskVars, waitVars, queueVars, callback, shutdown,
                   completed_count, back, at, wake, cur, histVars>>

LoopTop(w) ==
    /\ pc[w] = "loop"
    /\ \/ /\ shutdown
          /\ active_workers' = active_workers - 1
          /\ Goto(w, "exited")
       \/ ~shutdown /\ Goto(w, "timers") /\ UNCHANGED active_workers
    /\ UNCHANGED <<taskVars, waitVars, queueVars, callback, shutdown,
                   completed_count, back, at, wake, cur, histVars>>

\* run_until_quiescent is called.
Run(w) ==
    /\ pc[w] = "out"
    /\ Goto(w, "timers")
    /\ UNCHANGED <<taskVars, waitVars, queueVars, callback, statVars, back, at,
                   wake, cur, histVars>>

\* Any of the deadlines may have passed; the map gives them in any order.
PollTimers(w) ==
    /\ pc[w] = "timers"
    /\ \E expired \in SUBSET timers : \E s \in SetToSeqs(expired) :
          /\ timers' = timers \ expired
          /\ wake' = [wake EXCEPT ![w] = s]
    /\ Call(w, "wake", <<"local">>)
    /\ UNCHANGED <<taskVars, waiters, queueVars, callback, statVars, at, cur,
                   histVars>>

\* try_steal_task: the worker's own queue, then the injector.
PopLocal(w) ==
    /\ pc[w] = "local"
    /\ \/ /\ local[w] # <<>>
          /\ cur' = [cur EXCEPT ![w] = Head(local[w])]
          /\ local' = [local EXCEPT ![w] = Tail(@)]
          /\ Goto(w, "claim")
       \/ local[w] = <<>> /\ Goto(w, "steal") /\ UNCHANGED <<cur, local>>
    /\ UNCHANGED <<taskVars, waitVars, injector, callback, statVars, back, at, wake,
                   histVars>>

Steal(w) ==
    /\ pc[w] = "steal"
    /\ \/ /\ injector # <<>>
          /\ cur' = [cur EXCEPT ![w] = Head(injector)]
          /\ injector' = Tail(injector)
          /\ Goto(w, "claim")
       \/ /\ injector = <<>>
          /\ Goto(w, IF SingleThreaded THEN "quiet" ELSE "parked")
          /\ UNCHANGED <<cur, injector>>
    /\ UNCHANGED <<taskVars, waitVars, local, callback, statVars, back, at, wake,
                   histVars>>

\* The wait of 10 ms ends, notified or not.
Unpark(w) ==
    /\ pc[w] = "parked"
    /\ Goto(w, "loop")
    /\ UNCHANGED <<taskVars, waitVars, queueVars, callback, statVars, back, at,
                   wake, cur, histVars>>

\* Nothing to run: the run ends once no task is Pending or Blocked.
Quiet(w) ==
    /\ pc[w] = "quiet"
    /\ Goto(w, IF timers # {} \/ \E t \in Handles : state[t] \in {"Pending", "Blocked"}
               THEN "timers" ELSE "out")
    /\ UNCHANGED <<taskVars, waitVars, queueVars, callback, statVars, back, at,
                   wake, cur, histVars>>

\* execute_task: an entry whose task is not Pending is dropped.
Claim(w) ==
    /\ pc[w] = "claim"
    /\ IF state[cur[w]] = "Pending"
       THEN /\ state' = [state EXCEPT ![cur[w]] = "Running"]
            /\ ran_on' = [ran_on EXCEPT ![cur[w]] = @ \cup {w}]
            /\ Goto(w, "lock")
            /\ UNCHANGED cur
       ELSE /\ Goto(w, Again)
            /\ cur' = [cur EXCEPT ![w] = NoTask]
            /\ UNCHANGED <<state, ran_on>>
    /\ UNCHANGED <<next_handle, reason, markers, parent, waitVars, queueVars,
                   callback, statVars, back, at, wake, started, gave_up>>

\* The callback runs under the lock that protects it.
EnterBody(w) ==
    /\ pc[w] = "lock"
    /\ callback = 0
    /\ callback' = w
    /\ gave_up' = [gave_up EXCEPT ![w] = FALSE]
    /\ Goto(w, "body")
    /\ UNCHANGED <<taskVars, waitVars, queueVars, statVars, back, at, wake, cur,
                   started, ran_on>>

\* The callback returns a result.
LeaveBody(w) ==
    /\ pc[w] \in {"body", "leave"}
    /\ callback' = 0
    /\ Goto(w, "after")
    /\ UNCHANGED <<taskVars, waitVars, queueVars, statVars, back, at, wake, cur,
                   histVars>>

\* The worker lets its task go and turns to p.
Release(w, p) ==
    /\ Goto(w, p)
    /\ cur' = [cur EXCEPT ![w] = NoTask]
    /\ gave_up' = [gave_up EXCEPT ![w] = FALSE]

\* The state is read under one lock and the task completed under another.
AfterBody(w) ==
    /\ pc[w] = "after"
    /\ IF state[cur[w]] \in Final \cup {"Blocked"}
       THEN Release(w, Again)
       ELSE Goto(w, "finish") /\ UNCHANGED <<cur, gave_up>>
    /\ UNCHANGED <<taskVars, waitVars, queueVars, callback, statVars, back, at,
                   wake, started, ran_on>>

CompleteExecuted(w) ==
    /\ pc[w] = "finish"
    /\ SetFinal(w, cur[w], "Completed", <<"count", Again>>)
    /\ Release(w, "take")

Shutdown(a) ==
    /\ "shutdown" \in ops
    /\ CanCall(a)
    /\ shutdown' = TRUE
    /\ UNCHANGED <<taskVars, waitVars, queueVars, callback, active_workers,
                   completed_count, threadVars, histVars>>

-----------------------------------------------------------------------------
ApiCall(a) ==
    \/ \E m \in Markers : Spawn(a, m) \/ SpawnAndStart(a, m)
    \/ \E t \in Known : Start(a, t) \/ Complete(a, t) \/ Cancel(a, t) \/ Panic(a, t)
    \/ \E k \in RecvKeys \cup SendKeys : WakeChannelWaiter(a, k)
    \/ \E c \in Chans : WakeAllChannelWaiters(a, c)
    \/ \E k \in NetKeys : WakeNetOpWaiters(a, k)
    \/ Shutdown(a)

\* The steps of a thread inside a call.
CallStep(a) == WakeTask(a) \/ Push(a) \/ WakeAllSenders(a) \/ TakeWaiters(a) \/ Count(a)

WorkerStep(w) ==
    \/ WorkerStart(w) \/ LoopTop(w) \/ Run(w) \/ PollTimers(w) \/ PopLocal(w)
    \/ Steal(w) \/ Unpark(w) \/ Quiet(w) \/ Claim(w) \/ EnterBody(w)
    \/ LeaveBody(w) \/ AfterBody(w) \/ CompleteExecuted(w)
    \/ (\E k \in Keys \cup {Timer} : Block(w, k)) \/ Register(w)

Next ==
    /\ \/ \E a \in Agents : ApiCall(a) \/ CallStep(a)
       \/ \E w \in Workers : WorkerStep(w)
    /\ UNCHANGED ops

Spec == Init /\ [][Next]_vars

\* The operating system schedules the threads inside the executor.
FairSpec ==
    /\ Spec
    /\ \A a \in Agents : WF_vars(CallStep(a) /\ UNCHANGED ops)
    /\ \A w \in Workers : WF_vars(WorkerStep(w) /\ UNCHANGED ops)

-----------------------------------------------------------------------------
(* Properties.                                                             *)

PCs == {"idle", "out", "start", "loop", "exited", "timers", "local", "steal",
        "parked", "quiet", "claim", "lock", "body", "leave", "after", "finish",
        "register", "push", "wake", "wakesenders", "take", "count"}

TypeOK ==
    /\ next_handle \in 1 .. MaxTasks + 1
    /\ state \in [Handles -> {"None", "Pending", "Running", "Blocked"} \cup Final]
    /\ reason \in [Handles -> Keys \cup {Timer, NoKey}]
    /\ \A t \in Handles : state[t] = "Blocked" <=> reason[t] # NoKey
    /\ markers \in [Handles -> Markers \cup {NoMarkers}]
    /\ parent \in [Handles -> Handles \cup {NoTask}]
    /\ waiters \in [Keys -> Seq(Handles)]
    /\ timers \subseteq Handles
    /\ injector \in Seq(Handles)
    /\ local \in [Workers -> Seq(Handles)]
    /\ callback \in Workers \cup {0}
    /\ shutdown \in BOOLEAN
    /\ active_workers \in Nat
    /\ completed_count \in Nat
    /\ pc \in [Agents -> PCs]
    /\ back \in [Agents -> Seq(PCs)]
    /\ at \in [Agents -> Keys \cup {Timer, NoKey}]
    /\ wake \in [Agents -> Seq(Handles)]
    /\ cur \in [Workers -> Handles \cup {NoTask}]
    /\ started \subseteq Handles
    /\ gave_up \in [Workers -> BOOLEAN]
    /\ ran_on \in [Handles -> SUBSET Workers]

Elements(s) == {s[i] : i \in 1 .. Len(s)}

\* A queue has an entry for the task, or a thread is about to push or claim it.
InFlight(t) ==
    \/ t \in Elements(injector)
    \/ \E w \in Workers : t \in Elements(local[w])
    \/ \E w \in Workers : pc[w] = "claim" /\ cur[w] = t
    \/ \E a \in Agents : pc[a] = "push" /\ Head(wake[a]) = t

(* A task that was started and is Pending is never stranded, whichever      *)
(* queue it belongs to and whoever woke it: an entry is queued, or a thread *)
(* is about to push or claim one.                                           *)
StartedNotStranded == \A t \in started : state[t] = "Pending" => InFlight(t)

(* A worker only completes the task it executed if the body did not block   *)
(* it: the result of an execution that blocked is not a result.             *)
BlockedNotCompleted == \A w \in Workers : pc[w] = "finish" => ~gave_up[w]

(* Completing a task wakes the tasks that await it: a task blocked on a     *)
(* finished one is in the hands of a thread that will wake it, or of the    *)
(* worker that is still registering it.                                     *)
AwaitersAreWoken ==
    \A t \in Handles :
        (reason[t] \in TaskKeys /\ state[reason[t][2]] \in Final) =>
            \/ \E a \in Agents : pc[a] = "take" /\ at[a] = reason[t]
            \/ \E a \in Agents : t \in Elements(wake[a])
            \/ \E w \in Workers : pc[w] = "register" /\ cur[w] = t

(* A task that is not sendable only ever runs on one thread.                *)
NonSendableStays ==
    \A t \in Handles : ~markers[t].sendable => Cardinality(ran_on[t]) <= 1

(* run_until_quiescent ends when all its tasks were started and wait for    *)
(* nothing from outside: through tasks that spawn, await and cancel others. *)
QuiescentRunEnds ==
    \A w \in Workers : (ops \subseteq {"await", "cancel"} /\ pc[w] # "out") ~> pc[w] = "out"

(* What the executor keeps of its tasks in every step: the tables agree,    *)
(* what blocked is not completed (execute_task), and whoever awaits a       *)
(* finished task is on its way (complete_task, block_task).                 *)
ExecutorSafe == TypeOK /\ BlockedNotCompleted /\ AwaitersAreWoken

(* Queues of several workers: no started task is forgotten by a push, a     *)
(* steal or a wake, and one that is not sendable stays on its thread        *)
(* (wake_task, try_steal_task, execute_task).                               *)
QueuesSafe == StartedNotStranded /\ NonSendableStays

=============================================================================
