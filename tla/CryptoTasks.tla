---------------------------- MODULE CryptoTasks ----------------------------
(***************************************************************************)
(* Background operations of the native crypto library, crypto.rs.  An      *)
(* operation (password hash or key derivation) is a task in a registry and *)
(* a thread of its own; callers poll it, wait for it, fetch its result or  *)
(* error and remove it.  The registry is under a reader-writer lock, the   *)
(* status of a task is an atomic and its result is under a lock:           *)
(* set_result stores the result first and the status last.  A worker may   *)
(* panic (an output length no buffer can have) and then says nothing.      *)
(***************************************************************************)
EXTENDS Naturals, FiniteSets

CONSTANTS
    Clients,      \* threads that call the library
    MaxOps,       \* bound on the operations started
    MaxUses       \* bound on the calls of a client

ASSUME CryptoAssumption == MaxOps \in Nat /\ MaxUses \in Nat

VARIABLES
    status,       \* [operation |-> status]: the tasks that exist
    result,       \* [operation |-> kind of its result, or "none"]
    registry,     \* the operations ASYNC_TASKS holds
    worker,       \* [operation |-> where its thread is]
    client,       \* [thread |-> [pc, op]]
    uses,         \* calls a client may still make
    cleaned       \* history: how often cleanup of an operation answered 0

cryptoVars == <<status, result, registry, worker, client, uses, cleaned>>
taskVars == <<status, result, registry, worker, cleaned>>

Ops == 1 .. MaxOps
Started == DOMAIN status
Kinds == {"hash", "key", "error"}

Idle == [pc |-> "idle", op |-> 0]

CryptoInit ==
    /\ status = <<>> /\ result = <<>> /\ worker = <<>>
    /\ registry = {}
    /\ client = [t \in Clients |-> Idle]
    /\ uses = [t \in Clients |-> MaxUses]
    /\ cleaned = [o \in Ops |-> 0]

Move(t, p, o) == client' = [client EXCEPT ![t] = [pc |-> p, op |-> o]]

\* A call begins.
Call(t) ==
    /\ client[t].pc = "idle" /\ uses[t] > 0
    /\ uses' = [uses EXCEPT ![t] = @ - 1]

-----------------------------------------------------------------------------
(* Starting an operation.                                                  *)

NewOp == Cardinality(Started) + 1
With(f, o, v) == [p \in DOMAIN f \cup {o} |-> IF p = o THEN v ELSE f[p]]

\* The task is registered before its thread exists.
StartOp(t) ==
    /\ Call(t)
    /\ NewOp \in Ops
    /\ status' = With(status, NewOp, "Running")
    /\ result' = With(result, NewOp, "none")
    /\ worker' = With(worker, NewOp, "none")
    /\ registry' = registry \cup {NewOp}
    /\ Move(t, "spawn", NewOp)
    /\ UNCHANGED <<cleaned>>

SpawnWorker(t) ==
    /\ client[t].pc = "spawn"
    /\ worker' = [worker EXCEPT ![client[t].op] = "working"]
    /\ Move(t, "idle", 0)
    /\ UNCHANGED <<status, result, registry, cleaned, uses>>

\* The thread cannot be made: the task is taken out again, the call answers -2.
SpawnFails(t) ==
    /\ client[t].pc = "spawn"
    /\ registry' = registry \ {client[t].op}
    /\ Move(t, "idle", 0)
    /\ UNCHANGED <<status, result, worker, cleaned, uses>>

-----------------------------------------------------------------------------
(* The worker.                                                             *)

\* The first half of set_result.
StoreResult(o) ==
    /\ worker[o] = "working"
    /\ \E k \in Kinds :
         /\ result' = [result EXCEPT ![o] = k]
         /\ worker' = [worker EXCEPT ![o] = k]
    /\ UNCHANGED <<status, registry, cleaned, client, uses>>

StatusOf(k) == IF k = "error" THEN "Failed" ELSE "Completed"

\* The second half.
StoreStatus(o) ==
    /\ worker[o] \in Kinds
    /\ status' = [status EXCEPT ![o] = StatusOf(worker[o])]
    /\ worker' = [worker EXCEPT ![o] = "done"]
    /\ UNCHANGED <<result, registry, cleaned, client, uses>>

WorkerPanics(o) ==
    /\ worker[o] = "working"
    /\ worker' = [worker EXCEPT ![o] = "panicked"]
    /\ UNCHANGED <<status, result, registry, cleaned, client, uses>>

-----------------------------------------------------------------------------
(* The callers.                                                            *)

\* arth_rt_async_task_poll.
Poll(o) == IF o \in registry THEN status[o] ELSE "invalid"

\* The answer of result_string (want = "hash"), result_bytes ("key") and error
\* ("error"), which read the status and then the result.
FetchAnswer(o, want) ==
    CASE o \notin registry -> "invalid"
      [] o \in registry /\ status[o] = "Running" -> "running"
      [] OTHER -> IF result[o] = want THEN "ok"
                  ELSE IF result[o] = "none" THEN "lost" ELSE "other"

\* wait polls until the operation is over or the timeout has passed.
WaitOp(t, o) ==
    /\ Call(t)
    /\ o \in Started
    /\ \E p \in {"wait", "wait_timeout"} : Move(t, p, o)
    /\ UNCHANGED taskVars

WaitStep(t) ==
    /\ client[t].pc \in {"wait", "wait_timeout"}
    /\ Poll(client[t].op) # "Running"
    /\ Move(t, "idle", 0)
    /\ UNCHANGED <<taskVars, uses>>

WaitTimesOut(t) ==
    /\ client[t].pc = "wait_timeout"
    /\ Poll(client[t].op) = "Running"
    /\ Move(t, "idle", 0)
    /\ UNCHANGED <<taskVars, uses>>

\* The check of cleanup, under the read lock.
MayClean(o) == o \in registry /\ status[o] # "Running"

Cleanup(t, o) ==
    /\ Call(t)
    /\ MayClean(o)
    /\ Move(t, "cleanup", o)
    /\ UNCHANGED taskVars

Mut_CleanupRemove(t) ==
    /\ client[t].pc = "cleanup"
    /\ registry' = registry \ {client[t].op}
    /\ cleaned' = [cleaned EXCEPT ![client[t].op] = @ + 1]
    /\ Move(t, "idle", 0)
    /\ UNCHANGED <<status, result, worker, uses>>

\* The removal, under the write lock: only the call that finds the task answers 0.
CleanupRemove(t) ==
    LET o == client[t].op
    IN /\ client[t].pc = "cleanup"
       /\ registry' = registry \ {o}
       /\ cleaned' = IF o \in registry THEN [cleaned EXCEPT ![o] = @ + 1] ELSE cleaned
       /\ Move(t, "idle", 0)
       /\ UNCHANGED <<status, result, worker, uses>>

-----------------------------------------------------------------------------

WorkerStep(o) == StoreResult(o) \/ StoreStatus(o) \/ WorkerPanics(o)

\* The steps of a call in progress.
ClientStep(t) ==
    \/ SpawnWorker(t) \/ SpawnFails(t)
    \/ WaitStep(t) \/ WaitTimesOut(t)
    \/ CleanupRemove(t)

CryptoNext ==
    \/ \E o \in Started : WorkerStep(o)
    \/ \E t \in Clients :
         \/ StartOp(t)
         \/ \E o \in Started : WaitOp(t, o) \/ Cleanup(t, o)
         \/ ClientStep(t)

CryptoSpec == CryptoInit /\ [][CryptoNext]_cryptoVars

-----------------------------------------------------------------------------
(* Properties.                                                             *)

\* The tables agree on the operations, and callers name existing ones.
CryptoTypeOK ==
    /\ Started = DOMAIN result /\ Started = DOMAIN worker
    /\ registry \subseteq Started
    /\ \A o \in Started : /\ status[o] \in {"Running", "Completed", "Failed"}
                          /\ result[o] \in Kinds \cup {"none"}
    /\ \A t \in Clients : client[t].op \in Started \cup {0}

\* What poll announces can be fetched: an operation that is over has its result
\* or its error, through exactly the call for its kind (set_result stores the
\* result before the status, and the fetching calls read them the other way).
AnnouncedIsThere ==
    \A o \in Started :
        /\ Poll(o) = "Completed" =>
             \E w \in {"hash", "key"} :
                /\ FetchAnswer(o, w) = "ok"
                /\ \A v \in Kinds \ {w} : FetchAnswer(o, v) = "other"
        /\ Poll(o) = "Failed" =>
             /\ FetchAnswer(o, "error") = "ok"
             /\ \A v \in {"hash", "key"} : FetchAnswer(o, v) = "other"

\* An operation whose worker was started stays in the registry until one
\* cleanup, and only one, reports its removal; that happens after the worker is
\* done (cleanup checks under the read lock and removes under the write lock).
CleanedOnce ==
    \A o \in Started :
        /\ cleaned[o] <= 1
        /\ cleaned[o] = 1 => o \notin registry /\ worker[o] = "done"
        /\ worker[o] # "none" => o \in registry \/ cleaned[o] = 1

\* An operation is announced when it can be fetched and cleaned up once, by one caller, after
\* its worker (arth_rt_async_task_poll, the calls that fetch, and arth_rt_async_task_cleanup).
OperationsSafe == CryptoTypeOK /\ AnnouncedIsThere /\ CleanedOnce

-----------------------------------------------------------------------------
(* The inductive invariant.                                                *)

WorkerStates == {"none", "working", "panicked", "done"} \cup Kinds

\* The tables are functions on the operations, which are numbered from 1.
TablesAgree ==
    /\ IsFiniteSet(Started)
    /\ Started = 1 .. Cardinality(Started)
    /\ Started \subseteq Ops
    /\ registry \subseteq Started
    /\ status \in [Started -> {"Running", "Completed", "Failed"}]
    /\ result \in [Started -> Kinds \cup {"none"}]
    /\ worker \in [Started -> WorkerStates]
    /\ client \in [Clients -> [pc : {"idle", "spawn", "wait", "wait_timeout", "cleanup"},
                               op : Nat]]
    /\ uses \in [Clients -> Nat]
    /\ cleaned \in [Ops -> Nat]

\* The status is stored by the worker's last step, after the result.
StatusFollows(o) ==
    /\ status[o] # "Running" <=> worker[o] = "done"
    /\ worker[o] \in Kinds => result[o] = worker[o]
    /\ worker[o] = "done" => result[o] \in Kinds /\ status[o] = StatusOf(result[o])

\* What a caller knows of its operation between two steps of a call.
CallerKnows(t) ==
    LET o == client[t].op
    IN  /\ o \in Started \cup {0}
        /\ client[t].pc # "idle" => o \in Started
        /\ client[t].pc = "spawn" => o \in registry /\ worker[o] = "none"
        /\ client[t].pc = "cleanup" => worker[o] = "done"

\* An operation is started by one caller.
SpawnsDiffer ==
    \A t, u \in Clients :
        client[t].pc = "spawn" /\ client[u].pc = "spawn" /\ client[t].op = client[u].op => t = u

CryptoInv ==
    /\ TablesAgree
    /\ \A o \in Started : StatusFollows(o)
    /\ \A t \in Clients : CallerKnows(t)
    /\ SpawnsDiffer
    /\ CleanedOnce
    /\ \A o \in Ops \ Started : cleaned[o] = 0

=============================================================================
