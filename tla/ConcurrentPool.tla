--------------------------- MODULE ConcurrentPool ---------------------------
(***************************************************************************)
(* The concurrent thread pool of the VM, runtime/executor.inc.rs: worker   *)
(* threads take tasks from the global injector queue, claim them with a    *)
(* compare-and-swap on the task's state, and run them.  A task of work     *)
(* type 3 spawns a sub-task and, unless the sub-task is done already,      *)
(* suspends until the worker that completes the sub-task re-queues it.     *)
(*                                                                         *)
(* One step is one access to memory that several threads share: an atomic, *)
(* a mutex-protected field, or one operation of the lock-free injector.    *)
(* Fields only the claiming worker touches are written in the step of the  *)
(* next shared access.  The workers' local deques are not part of the      *)
(* state: no code path ever pushes to them, so try_steal always falls      *)
(* through to the injector.                                                *)
(***************************************************************************)
EXTENDS Integers, Sequences, FiniteSets

CONSTANTS
    Workers,      \* worker threads of the pool
    Clients,      \* threads that spawn and join tasks
    MaxTasks,     \* bound on the number of tasks ever created
    Inputs,       \* integers used as function ids and arguments
    ClientJobs,   \* jobs (function id and arguments) clients may spawn
    Cpu(_, _),    \* result of the CPU-bound work types 1 and 2
    NoTask,       \* no task id
    NoJob,        \* job of an id that is not allocated yet
    None          \* Option::None

Ids == 1 .. MaxTasks

Job == [fn : Inputs, args : Seq(Inputs)]

ASSUME MaxTasksAssumption == MaxTasks \in Nat \ {0}

ASSUME InputsAssumption == Inputs \subseteq Int /\ {2, 10, 100} \subseteq Inputs

ASSUME CpuAssumption == \A fn \in {1, 2}, n \in Inputs : Cpu(fn, n) \in Int

ASSUME ClientJobsAssumption == ClientJobs \subseteq Job

ASSUME NullAssumption == NoTask \notin Ids /\ NoJob \notin Job /\ None \notin Int

-----------------------------------------------------------------------------
(* What a job computes.                                                    *)

\* task.args.get(i - 1).copied().unwrap_or(default)
Arg(j, i, default) == IF i \in 1 .. Len(j.args) THEN j.args[i] ELSE default

IsSpawn(j) == j.fn = 3 /\ j.args # <<>>

SubJob(j) == [fn |-> Arg(j, 1, 2), args |-> <<Arg(j, 2, 10)>>]

Accumulator(j) == Arg(j, 3, 100)

\* Work types 0, 1, 2 and the default arm.
LeafResult(j) ==
    IF j.args # <<>> /\ j.fn \in {1, 2} THEN Cpu(j.fn, j.args[1]) ELSE j.fn

(* The value a job has when it is evaluated sequentially.  A sub-job has    *)
(* one argument, its own sub-job gets the default argument 10 and is work   *)
(* type 10 one level further down, so the nesting ends after three levels.  *)
Eval1(j) == IF IsSpawn(j) THEN Accumulator(j) + LeafResult(SubJob(j))
                          ELSE LeafResult(j)
Eval2(j) == IF IsSpawn(j) THEN Accumulator(j) + Eval1(SubJob(j))
                          ELSE LeafResult(j)
Eval(j)  == IF IsSpawn(j) THEN Accumulator(j) + Eval2(SubJob(j))
                          ELSE LeafResult(j)

\* How many tasks a job creates: itself and its chain of sub-jobs.
Need(j) == IF ~IsSpawn(j) THEN 1
           ELSE IF ~IsSpawn(SubJob(j)) THEN 2
           ELSE IF ~IsSpawn(SubJob(SubJob(j))) THEN 3 ELSE 4

-----------------------------------------------------------------------------
VARIABLES
    next_task_id,   \* next id to allocate
    budget,         \* bound: ids not yet promised to a spawned job
    job,            \* fn_id and args of a task
    status,         \* ConcurrentTask.state
    result,         \* ConcurrentTask.result
    saved,          \* saved_ip/saved_locals: the saved accumulator, or None
    waiting_on,     \* ConcurrentTask.waiting_on
    waiters,        \* ConcurrentTask.waiters
    tasks,          \* the ids registered in ConcurrentPoolState.tasks
    injector,       \* the global queue
    shutdown,       \* the shutdown flag
    active_workers, \* number of workers inside their loop
    counts,         \* worker_task_counts
    pc,             \* where each worker is
    cur,            \* the task a worker holds
    sub,            \* the sub-task the running task spawned
    val,            \* the result the worker is about to publish
    wake,           \* the waiters the worker still has to wake
    cpc,            \* where each client is
    cid,            \* the id the client spawned last or is joining
    ret             \* what the client's last join returned

taskVars   == <<job, status, result, saved, waiting_on, waiters>>
poolVars   == <<next_task_id, budget, tasks, injector>>
statVars   == <<shutdown, active_workers, counts>>
workerVars == <<pc, cur, sub, val, wake>>
clientVars == <<cpc, cid, ret>>
vars == <<taskVars, poolVars, statVars, workerVars, clientVars>>

\* No code path of the pool sets Cancelled.
Status == {"New", "Pending", "Running", "Suspended", "Completed"}

\* Where a worker holds a task it has claimed and not yet published.
RunPC == {"begin", "resume", "run", "pushsub", "checksub", "suspend",
          "setresult", "setcompleted"}

WorkerPC == {"start", "loop", "steal", "park", "parked", "exited", "claim",
             "addwaiter", "takewaiters", "checkwaiter", "setpending",
             "requeue"} \cup RunPC

Init ==
    /\ next_task_id = 1
    /\ budget = MaxTasks
    /\ job = [t \in Ids |-> NoJob]
    /\ status = [t \in Ids |-> "New"]
    /\ result = [t \in Ids |-> None]
    /\ saved = [t \in Ids |-> None]
    /\ waiting_on = [t \in Ids |-> NoTask]
    /\ waiters = [t \in Ids |-> <<>>]
    /\ tasks = {}
    /\ injector = <<>>
    /\ shutdown = FALSE
    /\ active_workers = 0
    /\ counts = [w \in Workers |-> 0]
    /\ pc = [w \in Workers |-> "start"]
    /\ cur = [w \in Workers |-> NoTask]
    /\ sub = [w \in Workers |-> NoTask]
    /\ val = [w \in Workers |-> None]
    /\ wake = [w \in Workers |-> <<>>]
    /\ cpc = [c \in Clients |-> "idle"]
    /\ cid = [c \in Clients |-> NoTask]
    /\ ret = [c \in Clients |-> None]

-----------------------------------------------------------------------------
(* Creating a task: allocate an id, build the Pending task, register it.   *)
(* The push to the injector is a step of its own.                          *)

NewTask(j) ==
    /\ next_task_id \in Ids
    /\ next_task_id' = next_task_id + 1
    /\ job' = [job EXCEPT ![next_task_id] = j]
    /\ status' = [status EXCEPT ![next_task_id] = "Pending"]
    /\ tasks' = tasks \cup {next_task_id}

-----------------------------------------------------------------------------
(* The clients.                                                            *)

Spawn(c, j) ==
    /\ cpc[c] = "idle" /\ ~shutdown
    /\ Need(j) <= budget
    /\ budget' = budget - Need(j)
    /\ NewTask(j)
    /\ cpc' = [cpc EXCEPT ![c] = "push"]
    /\ cid' = [cid EXCEPT ![c] = next_task_id]
    /\ UNCHANGED <<result, saved, waiting_on, waiters, injector, statVars,
                   workerVars, ret>>

ClientPush(c) ==
    /\ cpc[c] = "push"
    /\ injector' = Append(injector, cid[c])
    /\ cpc' = [cpc EXCEPT ![c] = "idle"]
    /\ UNCHANGED <<next_task_id, budget, tasks, taskVars, statVars, workerVars, cid, ret>>

\* A handle is a plain integer of the program: any id may be joined.
JoinStart(c, t) ==
    /\ cpc[c] = "idle" /\ ~shutdown
    /\ cpc' = [cpc EXCEPT ![c] = "poll"]
    /\ cid' = [cid EXCEPT ![c] = t]
    /\ UNCHANGED <<taskVars, poolVars, statVars, workerVars, ret>>

\* Mutant: join gives up instead of retrying while the task is not done.
Mut_JoinPoll(c) ==
    /\ cpc[c] = "poll"
    /\ \/ /\ cid[c] \notin tasks \/ status[cid[c]] # "Completed"
          /\ cpc' = [cpc EXCEPT ![c] = "idle"]
          /\ ret' = [ret EXCEPT ![c] = None]
       \/ /\ cid[c] \in tasks /\ status[cid[c]] = "Completed"
          /\ cpc' = [cpc EXCEPT ![c] = "read"]
          /\ UNCHANGED ret
    /\ UNCHANGED <<taskVars, poolVars, statVars, workerVars, cid>>

\* One iteration of join's loop that leaves it.
JoinPoll(c) ==
    /\ cpc[c] = "poll"
    /\ \/ /\ cid[c] \notin tasks
          /\ cpc' = [cpc EXCEPT ![c] = "idle"]
          /\ ret' = [ret EXCEPT ![c] = None]
       \/ /\ cid[c] \in tasks /\ status[cid[c]] = "Completed"
          /\ cpc' = [cpc EXCEPT ![c] = "read"]
          /\ UNCHANGED ret
    /\ UNCHANGED <<taskVars, poolVars, statVars, workerVars, cid>>

JoinRead(c) ==
    /\ cpc[c] = "read"
    /\ ret' = [ret EXCEPT ![c] = result[cid[c]]]
    /\ cpc' = [cpc EXCEPT ![c] = "idle"]
    /\ UNCHANGED <<taskVars, poolVars, statVars, workerVars, cid>>

\* shutdown(self) consumes the pool: no client is inside one of its methods.
Shutdown ==
    /\ ~shutdown
    /\ \A c \in Clients : cpc[c] = "idle"
    /\ shutdown' = TRUE
    /\ UNCHANGED <<taskVars, poolVars, active_workers, counts, workerVars,
                   clientVars>>

-----------------------------------------------------------------------------
(* concurrent_worker_loop.                                                 *)

Goto(w, l) == pc' = [pc EXCEPT ![w] = l]

WorkerStart(w) ==
    /\ pc[w] = "start"
    /\ active_workers' = active_workers + 1
    /\ Goto(w, "loop")
    /\ UNCHANGED <<taskVars, poolVars, shutdown, counts, cur, sub, val, wake,
                   clientVars>>

\* Mutant: a worker that leaves its loop is not counted out.
Mut_LoopTop(w) ==
    /\ pc[w] = "loop"
    /\ Goto(w, IF shutdown THEN "exited" ELSE "steal")
    /\ UNCHANGED <<taskVars, poolVars, statVars, cur, sub, val, wake, clientVars>>

LoopTop(w) ==
    /\ pc[w] = "loop"
    /\ \/ /\ shutdown
          /\ active_workers' = active_workers - 1
          /\ Goto(w, "exited")
       \/ /\ ~shutdown
          /\ Goto(w, "steal")
          /\ UNCHANGED active_workers
    /\ UNCHANGED <<taskVars, poolVars, shutdown, counts, cur, sub, val, wake,
                   clientVars>>

\* Mutant: the stolen task stays in the injector.
Mut_try_steal(w) ==
    /\ pc[w] = "steal"
    /\ injector # <<>>
    /\ cur' = [cur EXCEPT ![w] = Head(injector)]
    /\ Goto(w, "claim")
    /\ UNCHANGED <<taskVars, poolVars, statVars, sub, val, wake, clientVars>>

try_steal(w) ==
    /\ pc[w] = "steal"
    /\ \/ /\ injector # <<>>
          /\ cur' = [cur EXCEPT ![w] = Head(injector)]
          /\ injector' = Tail(injector)
          /\ Goto(w, "claim")
       \/ /\ injector = <<>>
          /\ Goto(w, "park")
          /\ UNCHANGED <<cur, injector>>
    /\ UNCHANGED <<next_task_id, budget, tasks, taskVars, statVars, sub, val, wake,
                   clientVars>>

\* The double check under work_mutex before waiting on the condition variable.
Park(w) ==
    /\ pc[w] = "park"
    /\ Goto(w, IF ~shutdown /\ injector = <<>> THEN "parked" ELSE "loop")
    /\ UNCHANGED <<taskVars, poolVars, statVars, cur, sub, val, wake, clientVars>>

\* Mutant: no timeout, and the notification is lost.
Mut_Unpark(w) ==
    /\ pc[w] = "parked" /\ shutdown
    /\ Goto(w, "loop")
    /\ UNCHANGED <<taskVars, poolVars, statVars, cur, sub, val, wake, clientVars>>

(* notify_one and notify_all are called without work_mutex, so a            *)
(* notification may be lost; the 10 ms timeout lets a parked worker go on   *)
(* whether or not it was notified.                                          *)
Unpark(w) ==
    /\ pc[w] = "parked"
    /\ Goto(w, "loop")
    /\ UNCHANGED <<taskVars, poolVars, statVars, cur, sub, val, wake, clientVars>>

\* The two compare-and-swaps; a task in any other state is dropped.
Claim(w) ==
    /\ pc[w] = "claim"
    /\ IF status[cur[w]] \in {"Pending", "Suspended"}
       THEN /\ status' = [status EXCEPT ![cur[w]] = "Running"]
            /\ Goto(w, "begin")
            /\ UNCHANGED cur
       ELSE /\ Goto(w, "loop")
            /\ cur' = [cur EXCEPT ![w] = NoTask]
            /\ UNCHANGED status
    /\ UNCHANGED <<job, result, saved, waiting_on, waiters, poolVars, statVars,
                   sub, val, wake, clientVars>>

-----------------------------------------------------------------------------
(* execute_concurrent_task.                                                *)

Begin(w) ==
    /\ pc[w] = "begin"
    /\ counts' = [counts EXCEPT ![w] = @ + 1]
    /\ Goto(w, IF saved[cur[w]] # None THEN "resume" ELSE "run")
    /\ UNCHANGED <<taskVars, poolVars, shutdown, active_workers, cur, sub, val,
                   wake, clientVars>>

\* The task was suspended: look at the target it waits on.
Resume(w) ==
    /\ pc[w] = "resume"
    /\ LET t == cur[w]
           target == waiting_on[t]
       IN IF target \in tasks /\ status[target] # "Completed"
          THEN \* suspend again, relying on the registration made earlier
               /\ status' = [status EXCEPT ![t] = "Suspended"]
               /\ cur' = [cur EXCEPT ![w] = NoTask]
               /\ Goto(w, "loop")
               /\ UNCHANGED <<saved, waiting_on, val>>
          ELSE /\ val' = [val EXCEPT ![w] = IF target \in tasks
                                            THEN saved[t] + result[target]
                                            ELSE -1]
               /\ saved' = [saved EXCEPT ![t] = None]
               /\ waiting_on' = [waiting_on EXCEPT ![t] = NoTask]
               /\ Goto(w, "setresult")
               /\ UNCHANGED <<status, cur>>
    /\ UNCHANGED <<job, result, waiters, poolVars, statVars, sub, wake, clientVars>>

RunLeaf(w) ==
    /\ pc[w] = "run"
    /\ ~IsSpawn(job[cur[w]])
    /\ val' = [val EXCEPT ![w] = LeafResult(job[cur[w]])]
    /\ Goto(w, "setresult")
    /\ UNCHANGED <<taskVars, poolVars, statVars, cur, sub, wake, clientVars>>

RunSpawn(w) ==
    /\ pc[w] = "run"
    /\ IsSpawn(job[cur[w]])
    /\ NewTask(SubJob(job[cur[w]]))
    /\ sub' = [sub EXCEPT ![w] = next_task_id]
    /\ Goto(w, "pushsub")
    /\ UNCHANGED <<budget, result, saved, waiting_on, waiters, injector,
                   statVars, cur, val, wake, clientVars>>

PushSub(w) ==
    /\ pc[w] = "pushsub"
    /\ injector' = Append(injector, sub[w])
    /\ Goto(w, "checksub")
    /\ UNCHANGED <<next_task_id, budget, tasks, taskVars, statVars, cur, sub, val, wake,
                   clientVars>>

\* sub_task.get_state(), and get_result() when it is Completed.
CheckSub(w) ==
    /\ pc[w] = "checksub"
    /\ \/ /\ status[sub[w]] = "Completed"
          /\ val' = [val EXCEPT ![w] =
                        Accumulator(job[cur[w]]) + result[sub[w]]]
          /\ sub' = [sub EXCEPT ![w] = NoTask]
          /\ Goto(w, "setresult")
       \/ /\ status[sub[w]] # "Completed"
          /\ Goto(w, "suspend")
          /\ UNCHANGED <<val, sub>>
    /\ UNCHANGED <<taskVars, poolVars, statVars, cur, wake, clientVars>>

\* Mutant: the accumulator is not saved across the suspension.
Mut_Suspend(w) ==
    /\ pc[w] = "suspend"
    /\ saved' = [saved EXCEPT ![cur[w]] = 0]
    /\ waiting_on' = [waiting_on EXCEPT ![cur[w]] = sub[w]]
    /\ status' = [status EXCEPT ![cur[w]] = "Suspended"]
    /\ Goto(w, "addwaiter")
    /\ UNCHANGED <<job, result, waiters, poolVars, statVars, cur, sub, val, wake,
                   clientVars>>

Suspend(w) ==
    /\ pc[w] = "suspend"
    /\ saved' = [saved EXCEPT ![cur[w]] = Accumulator(job[cur[w]])]
    /\ waiting_on' = [waiting_on EXCEPT ![cur[w]] = sub[w]]
    /\ status' = [status EXCEPT ![cur[w]] = "Suspended"]
    /\ Goto(w, "addwaiter")
    /\ UNCHANGED <<job, result, waiters, poolVars, statVars, cur, sub, val, wake,
                   clientVars>>

AddWaiter(w) ==
    /\ pc[w] = "addwaiter"
    /\ waiters' = [waiters EXCEPT ![sub[w]] = Append(@, cur[w])]
    /\ cur' = [cur EXCEPT ![w] = NoTask]
    /\ sub' = [sub EXCEPT ![w] = NoTask]
    /\ Goto(w, "loop")
    /\ UNCHANGED <<job, status, result, saved, waiting_on, poolVars, statVars,
                   val, wake, clientVars>>

\* Mutant: the waiters are woken before the task is marked Completed.
Mut_SetResult(w) ==
    /\ pc[w] = "setresult"
    /\ result' = [result EXCEPT ![cur[w]] = val[w]]
    /\ val' = [val EXCEPT ![w] = None]
    /\ Goto(w, "takewaiters")
    /\ UNCHANGED <<job, status, saved, waiting_on, waiters, poolVars, statVars,
                   cur, sub, wake, clientVars>>

\* complete: the result first, then the state.
SetResult(w) ==
    /\ pc[w] = "setresult"
    /\ result' = [result EXCEPT ![cur[w]] = val[w]]
    /\ val' = [val EXCEPT ![w] = None]
    /\ Goto(w, "setcompleted")
    /\ UNCHANGED <<job, status, saved, waiting_on, waiters, poolVars, statVars,
                   cur, sub, wake, clientVars>>

SetCompleted(w) ==
    /\ pc[w] = "setcompleted"
    /\ status' = [status EXCEPT ![cur[w]] = "Completed"]
    /\ Goto(w, "takewaiters")
    /\ UNCHANGED <<job, result, saved, waiting_on, waiters, poolVars, statVars,
                   cur, sub, val, wake, clientVars>>

-----------------------------------------------------------------------------
(* wake_waiters.                                                           *)

TakeWaiters(w) ==
    /\ pc[w] = "takewaiters"
    /\ wake' = [wake EXCEPT ![w] = waiters[cur[w]]]
    /\ waiters' = [waiters EXCEPT ![cur[w]] = <<>>]
    /\ cur' = [cur EXCEPT ![w] = NoTask]
    /\ Goto(w, "checkwaiter")
    /\ UNCHANGED <<job, status, result, saved, waiting_on, poolVars, statVars,
                   sub, val, clientVars>>

\* The head of the taken list: skipped unless it is registered and Suspended.
CheckWaiter(w) ==
    /\ pc[w] = "checkwaiter"
    /\ \/ /\ wake[w] = <<>>
          /\ Goto(w, "loop")
          /\ UNCHANGED wake
       \/ /\ wake[w] # <<>>
          /\ LET t == Head(wake[w])
             IN IF t \in tasks /\ status[t] = "Suspended"
                THEN Goto(w, "setpending") /\ UNCHANGED wake
                ELSE wake' = [wake EXCEPT ![w] = Tail(@)] /\ UNCHANGED pc
    /\ UNCHANGED <<taskVars, poolVars, statVars, cur, sub, val, clientVars>>

SetPending(w) ==
    /\ pc[w] = "setpending"
    /\ status' = [status EXCEPT ![Head(wake[w])] = "Pending"]
    /\ Goto(w, "requeue")
    /\ UNCHANGED <<job, result, saved, waiting_on, waiters, poolVars, statVars,
                   cur, sub, val, wake, clientVars>>

\* Mutant: the woken task is made Pending but not pushed.
Mut_Requeue(w) ==
    /\ pc[w] = "requeue"
    /\ wake' = [wake EXCEPT ![w] = Tail(@)]
    /\ Goto(w, "checkwaiter")
    /\ UNCHANGED <<taskVars, poolVars, statVars, cur, sub, val, clientVars>>

Requeue(w) ==
    /\ pc[w] = "requeue"
    /\ injector' = Append(injector, Head(wake[w]))
    /\ wake' = [wake EXCEPT ![w] = Tail(@)]
    /\ Goto(w, "checkwaiter")
    /\ UNCHANGED <<next_task_id, budget, tasks, taskVars, statVars, cur, sub, val,
                   clientVars>>

-----------------------------------------------------------------------------
WorkerStep(w) ==
    \/ WorkerStart(w) \/ LoopTop(w) \/ try_steal(w) \/ Park(w) \/ Unpark(w)
    \/ Claim(w) \/ Begin(w) \/ Resume(w) \/ RunLeaf(w) \/ RunSpawn(w)
    \/ PushSub(w) \/ CheckSub(w) \/ Suspend(w) \/ AddWaiter(w)
    \/ SetResult(w) \/ SetCompleted(w)
    \/ TakeWaiters(w) \/ CheckWaiter(w) \/ SetPending(w) \/ Requeue(w)

\* The steps of a client that is inside spawn or join.
ClientStep(c) == ClientPush(c) \/ JoinPoll(c) \/ JoinRead(c)

ClientCall(c) == (\E j \in ClientJobs : Spawn(c, j))
                 \/ (\E t \in Ids : JoinStart(c, t))

\* shutdown has joined every worker thread: the pool is gone.
Stopped ==
    /\ shutdown
    /\ \A w \in Workers : pc[w] = "exited"
    /\ UNCHANGED vars

Next ==
    \/ \E w \in Workers : WorkerStep(w)
    \/ \E c \in Clients : ClientStep(c) \/ ClientCall(c)
    \/ Shutdown
    \/ Stopped

Spec == Init /\ [][Next]_vars

(* The operating system schedules every worker thread, and every thread     *)
(* inside spawn or join; nobody is obliged to call them.                    *)
FairSpec ==
    /\ Spec
    /\ \A w \in Workers : WF_vars(WorkerStep(w))
    /\ \A c \in Clients : WF_vars(ClientStep(c))

-----------------------------------------------------------------------------
(* Properties.                                                             *)

TypeOK ==
    /\ next_task_id \in 1 .. MaxTasks + 1
    /\ budget \in Int
    /\ job \in [Ids -> Job \cup {NoJob}]
    /\ status \in [Ids -> Status]
    /\ result \in [Ids -> Int \cup {None}]
    /\ saved \in [Ids -> Int \cup {None}]
    /\ waiting_on \in [Ids -> Ids \cup {NoTask}]
    /\ waiters \in [Ids -> Seq(Ids)]
    /\ tasks \subseteq Ids
    /\ injector \in Seq(Ids)
    /\ shutdown \in BOOLEAN
    /\ active_workers \in Int
    /\ counts \in [Workers -> Nat]
    /\ pc \in [Workers -> WorkerPC]
    /\ cur \in [Workers -> Ids \cup {NoTask}]
    /\ sub \in [Workers -> Ids \cup {NoTask}]
    /\ val \in [Workers -> Int \cup {None}]
    /\ wake \in [Workers -> Seq(Ids)]
    /\ cpc \in [Clients -> {"idle", "push", "poll", "read"}]
    /\ cid \in [Clients -> Ids \cup {NoTask}]
    /\ ret \in [Clients -> Int \cup {None}]

(* The places where a reference to a task that is about to run can be: a    *)
(* slot of the injector, a worker that is about to push or to claim it, a   *)
(* client that is about to push it.                                         *)
InQueue(i, t)   == i \in 1 .. Len(injector) /\ injector[i] = t
WorkerHas(w, t) == \/ pc[w] = "claim" /\ cur[w] = t
                   \/ pc[w] = "pushsub" /\ sub[w] = t
                   \/ pc[w] = "requeue" /\ Head(wake[w]) = t
ClientHas(c, t) == cpc[c] = "push" /\ cid[c] = t

(* No task is in flight twice: the places that refer to a task exclude each *)
(* other, and a task in one of them is Pending.  So the compare-and-swap of *)
(* the worker loop never finds a task that another worker runs.             *)
FlightOnce(t) ==
    /\ \A i \in 1 .. Len(injector) : InQueue(i, t) =>
          /\ status[t] = "Pending"
          /\ \A k \in 1 .. Len(injector) : InQueue(k, t) => i = k
          /\ \A w \in Workers : ~WorkerHas(w, t)
          /\ \A c \in Clients : ~ClientHas(c, t)
    /\ \A w \in Workers : WorkerHas(w, t) =>
          /\ status[t] = "Pending"
          /\ \A v \in Workers : WorkerHas(v, t) => v = w
          /\ \A c \in Clients : ~ClientHas(c, t)
    /\ \A c \in Clients : ClientHas(c, t) =>
          /\ status[t] = "Pending"
          /\ \A d \in Clients : ClientHas(d, t) => c = d

InFlightOnce == \A t \in Ids : FlightOnce(t)

(* A Pending task is never stranded: it is queued, or some thread is about  *)
(* to queue or claim it.                                                    *)
PendingNotStranded ==
    \A t \in Ids : status[t] = "Pending" =>
        \/ \E i \in 1 .. Len(injector) : InQueue(i, t)
        \/ \E w \in Workers : WorkerHas(w, t)
        \/ \E c \in Clients : ClientHas(c, t)

(* A Running task is run by exactly one worker.                             *)
RunningByOneWorker ==
    /\ \A w \in Workers : pc[w] \in RunPC => status[cur[w]] = "Running"
    /\ \A v, w \in Workers :
          pc[v] \in RunPC /\ pc[w] \in RunPC /\ cur[v] = cur[w] => v = w
    /\ \A t \in Ids : status[t] = "Running" =>
          \E w \in Workers : pc[w] \in RunPC /\ cur[w] = t

(* A suspended task is only resumed once the task it waits on has completed *)
(* with a result: "suspend again" in execute_concurrent_task, which would   *)
(* leave the task without a registered waker, is never reached.             *)
ResumeFindsTargetDone ==
    \A w \in Workers : pc[w] = "resume" =>
        /\ saved[cur[w]] # None
        /\ waiting_on[cur[w]] \in tasks
        /\ status[waiting_on[cur[w]]] = "Completed"
        /\ result[waiting_on[cur[w]]] # None

(* A Completed task, and so a join that saw it Completed, has the result    *)
(* sequential evaluation gives, through any number of suspensions.          *)
CompletedHasValue ==
    /\ \A t \in Ids : status[t] = "Completed" => result[t] = Eval(job[t])
    /\ \A c \in Clients : cpc[c] = "read" => result[cid[c]] = Eval(job[cid[c]])

(* The inductive invariant behind them.  Ids are handed out in order, and   *)
(* a task exists from its registration on.                                  *)
Allocation ==
    /\ tasks = {t \in Ids : t < next_task_id}
    /\ \A t \in Ids : status[t] = "New" <=> t \notin tasks
    /\ \A t \in tasks : job[t] \in Job

\* What a worker holds at each point of its code.
WorkerHands ==
    \A w \in Workers :
        /\ pc[w] \in RunPC \cup {"claim", "addwaiter", "takewaiters"} =>
              cur[w] \in tasks
        /\ pc[w] \in {"pushsub", "checksub", "suspend", "addwaiter"} =>
              /\ sub[w] \in tasks
              /\ IsSpawn(job[cur[w]])
              /\ job[sub[w]] = SubJob(job[cur[w]])
        /\ pc[w] \in {"setpending", "requeue"} => wake[w] # <<>>
        /\ pc[w] = "addwaiter" => /\ status[cur[w]] = "Suspended"
                                  /\ waiting_on[cur[w]] = sub[w]
        /\ pc[w] = "takewaiters" => status[cur[w]] = "Completed"
        /\ pc[w] = "resume" => saved[cur[w]] # None
        /\ pc[w] = "setresult" => val[w] = Eval(job[cur[w]])
        /\ pc[w] = "setcompleted" => result[cur[w]] = Eval(job[cur[w]])

\* What a client holds inside spawn and join.
ClientHands ==
    \A c \in Clients :
        /\ cpc[c] = "push" => cid[c] \in tasks
        /\ cpc[c] = "poll" => cid[c] \in Ids
        /\ cpc[c] = "read" => cid[c] \in tasks /\ status[cid[c]] = "Completed"

(* A saved frame belongs to a spawning task and names its sub-task; once the *)
(* task is no longer Suspended the sub-task is Completed.                    *)
SavedFrames ==
    \A t \in Ids :
        /\ status[t] = "Suspended" => saved[t] # None
        /\ saved[t] # None =>
              /\ t \in tasks /\ waiting_on[t] \in tasks
              /\ IsSpawn(job[t]) /\ job[waiting_on[t]] = SubJob(job[t])
              /\ saved[t] = Accumulator(job[t])
              /\ status[t] # "Suspended" => status[waiting_on[t]] = "Completed"

(* The places where a reference to a Suspended task can be: the worker that *)
(* is about to register it, the waiters of a task, the list of waiters a    *)
(* worker has taken and not yet woken.                                      *)
Registering(w, t)     == pc[w] = "addwaiter" /\ cur[w] = t
RegisteredAt(s, i, t) == i \in 1 .. Len(waiters[s]) /\ waiters[s][i] = t
TakenBy(w, i, t)      == /\ i \in 1 .. Len(wake[w]) /\ wake[w][i] = t
                         /\ pc[w] = "requeue" => i # 1

\* These places exclude each other, and a task in one of them is Suspended.
WaitsOnce(t) ==
    /\ \A v, w \in Workers : Registering(v, t) /\ Registering(w, t) => v = w
    /\ \A s \in Ids : \A i \in 1 .. Len(waiters[s]) : RegisteredAt(s, i, t) =>
          /\ status[t] = "Suspended" /\ waiting_on[t] = s
          /\ \A k \in 1 .. Len(waiters[s]) : RegisteredAt(s, k, t) => i = k
          /\ \A w \in Workers : ~Registering(w, t)
          /\ \A w \in Workers : \A k \in 1 .. Len(wake[w]) : ~TakenBy(w, k, t)
    /\ \A w \in Workers : \A i \in 1 .. Len(wake[w]) : TakenBy(w, i, t) =>
          /\ status[t] = "Suspended" /\ status[waiting_on[t]] = "Completed"
          /\ \A v \in Workers : \A k \in 1 .. Len(wake[v]) :
                TakenBy(v, k, t) => v = w /\ k = i
          /\ \A v \in Workers : ~Registering(v, t)

WaitingOnce == \A t \in Ids : WaitsOnce(t)

Inv ==
    /\ TypeOK /\ Allocation /\ WorkerHands /\ ClientHands /\ SavedFrames
    /\ WaitingOnce /\ InFlightOnce /\ PendingNotStranded /\ RunningByOneWorker
    /\ CompletedHasValue

(* Spawn and join behave as write-once futures: publishing Completed, and   *)
(* not storing the result, is what resolves one.                            *)
Futures == INSTANCE TaskFutures WITH
    Task    <- Ids,
    Thread  <- Clients,
    Value   <- Eval,
    Open    <- None,
    work    <- [t \in tasks |-> job[t]],
    outcome <- [t \in Ids |-> IF status[t] = "Completed" THEN result[t] ELSE None],
    joined  <- ret

ImplementsFutures == Futures!Spec

(* A task that does not await another one completes, unless the pool is     *)
(* shut down.                                                               *)
LeafTasksComplete ==
    \A t \in Ids :
        (status[t] = "Pending" /\ ~IsSpawn(job[t]))
            ~> (status[t] = "Completed" \/ shutdown)

(* After shutdown every worker leaves its loop and is accounted for.        *)
ShutdownStopsWorkers ==
    shutdown ~> (active_workers = 0 /\ \A w \in Workers : pc[w] = "exited")

(* When the sub-task completes the suspended task wakes and completes.      *)
AwaitingTasksComplete ==
    \A t \in Ids : status[t] = "Suspended" ~> (status[t] = "Completed" \/ shutdown)

=============================================================================
