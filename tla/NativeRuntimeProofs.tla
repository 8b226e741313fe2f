------------------------ MODULE NativeRuntimeProofs -------------------------
(***************************************************************************)
(* Proofs about the runtime of native programs: CryptoTasks and            *)
(* NonceTracking, and NativeAsync, for any number of threads, operations,  *)
(* nonces, functions and tasks.                                            *)
(***************************************************************************)
EXTENDS CryptoTasks, NonceTracking, NativeAsync, FiniteSetTheorems, TLAPS

(* Nonces.                                                                 *)

(* The set under the lock is what the calls marked, so the answer "first    *)
(* use" is given exactly once for each pair.                                *)
THEOREM NonceFreshOnce == NonceSpec => []FreshOnce
<1>1. NonceInit => NonceInv
  BY DEF NonceInit, NonceInv, FreshOnce
<1>2. NonceInv /\ [NonceNext]_nonceVars => NonceInv'
  <2> SUFFICES ASSUME NonceInv, [NonceNext]_nonceVars
               PROVE  NonceInv'
    OBVIOUS
  <2>1. ASSUME NEW u \in Users, EnableTracking(u)
        PROVE  NonceInv'
    BY <2>1 DEF NonceInv, FreshOnce, EnableTracking
  <2>2. ASSUME NEW u \in Users, NEW c, PassFlag(u, c)
        PROVE  NonceInv'
    BY <2>2 DEF NonceInv, FreshOnce, PassFlag
  <2>3. ASSUME NEW u \in Users, NEW n \in Nonces, MarkUsed(u, n)
        PROVE  NonceInv'
    <3>1. CASE n \in nonces
      BY <2>3, <3>1 DEF NonceInv, FreshOnce, MarkUsed
    <3>2. CASE n \notin nonces
      BY <2>3, <3>2 DEF NonceInv, FreshOnce, MarkUsed
    <3> QED
      BY <3>1, <3>2
  <2>4. ASSUME NEW u \in Users, ClearNonces(u)
        PROVE  NonceInv'
    BY <2>4 DEF NonceInv, FreshOnce, ClearNonces
  <2>5. CASE UNCHANGED nonceVars
    BY <2>5 DEF NonceInv, FreshOnce, nonceVars
  <2> QED
    BY <2>1, <2>2, <2>3, <2>4, <2>5 DEF NonceNext
<1>3. NonceInv => FreshOnce
  BY DEF NonceInv
<1> QED
  BY <1>1, <1>2, <1>3, PTL DEF NonceSpec

-----------------------------------------------------------------------------
(* Operations.                                                             *)

(* Operations are numbered without gaps, so the next number is new.         *)
LEMMA NextNumber ==
    ASSUME TablesAgree
    PROVE  /\ NewOp \in Nat \ Started
           /\ NewOp # 0
           /\ IsFiniteSet(Started \cup {NewOp})
           /\ Cardinality(Started \cup {NewOp}) = Cardinality(Started) + 1
           /\ Started \cup {NewOp} = 1 .. Cardinality(Started) + 1
<1>1. Cardinality(Started) \in Nat
  BY FS_CardinalityType DEF TablesAgree
<1>2. NewOp \in Nat \ Started /\ NewOp # 0
  BY <1>1 DEF NewOp, TablesAgree
<1>3. Started \cup {NewOp} = 1 .. Cardinality(Started) + 1
  BY <1>1 DEF NewOp, TablesAgree
<1> QED
  BY <1>2, <1>3, FS_AddElement DEF TablesAgree

(* A call registers a task: nobody else starts or cleans that number.       *)
LEMMA StartOpInv ==
    ASSUME CryptoInv, NEW t \in Clients, StartOp(t)
    PROVE  CryptoInv'
<1> DEFINE n == NewOp
<1>1. TablesAgree
  BY DEF CryptoInv
<1>2. n \in Nat \ Started /\ n # 0 /\ n \in Ops
  BY <1>1, NextNumber DEF StartOp
<1>3. /\ status' \in [Started \cup {n} -> {"Running", "Completed", "Failed"}]
      /\ status'[n] = "Running"
      /\ \A o \in Started : status'[o] = status[o]
      /\ Started' = Started \cup {n}
  <2>1. status' = With(status, n, "Running") /\ status \in [Started -> {"Running", "Completed", "Failed"}]
    BY <1>1 DEF StartOp, TablesAgree
  <2>2. /\ status' \in [Started \cup {n} -> {"Running", "Completed", "Failed"}]
        /\ status'[n] = "Running"
        /\ \A o \in Started : status'[o] = status[o]
    BY <1>2, <2>1 DEF With
  <2> QED
    BY <2>2 DEF Started
<1>4. /\ result' \in [Started \cup {n} -> Kinds \cup {"none"}]
      /\ result'[n] = "none"
      /\ \A o \in Started : result'[o] = result[o]
  <2>1. result' = With(result, n, "none") /\ result \in [Started -> Kinds \cup {"none"}]
    BY <1>1 DEF StartOp, TablesAgree
  <2> QED
    BY <1>2, <2>1 DEF With
<1>5. /\ worker' \in [Started \cup {n} -> WorkerStates]
      /\ worker'[n] = "none"
      /\ \A o \in Started : worker'[o] = worker[o]
  <2>1. /\ worker' = With(worker, n, "none") /\ worker \in [Started -> WorkerStates]
        /\ "none" \in WorkerStates
    BY <1>1 DEF StartOp, TablesAgree, WorkerStates
  <2> QED
    BY <1>2, <2>1 DEF With
<1>6. /\ client' = [client EXCEPT ![t] = [pc |-> "spawn", op |-> n]]
      /\ registry' = registry \cup {n} /\ cleaned' = cleaned
      /\ uses' = [uses EXCEPT ![t] = @ - 1] /\ uses[t] > 0
  BY DEF StartOp, Call, Move
<1>7. /\ IsFiniteSet(Started') /\ Started' = 1 .. Cardinality(Started')
      /\ Started' \subseteq Ops
  <2>1. /\ IsFiniteSet(Started \cup {n})
        /\ Started \cup {n} = 1 .. Cardinality(Started \cup {n})
    BY <1>1, NextNumber
  <2>2. Started' = Started \cup {n}
    BY <1>3
  <2> QED
    BY <1>1, <1>2, <2>1, <2>2 DEF TablesAgree
<1>8. TablesAgree'
  <2>1. /\ status' \in [Started' -> {"Running", "Completed", "Failed"}]
        /\ result' \in [Started' -> Kinds \cup {"none"}]
        /\ worker' \in [Started' -> WorkerStates]
        /\ registry' \subseteq Started'
    BY <1>1, <1>3, <1>4, <1>5, <1>6 DEF TablesAgree
  <2>2. /\ client' \in [Clients -> [pc : {"idle", "spawn", "wait", "wait_timeout", "cleanup"},
                                    op : Nat]]
        /\ uses' \in [Clients -> Nat] /\ cleaned' \in [Ops -> Nat]
    BY <1>1, <1>2, <1>6 DEF TablesAgree
  <2> QED
    BY <1>7, <2>1, <2>2 DEF TablesAgree, WorkerStates, Kinds
<1>9. (\A o \in Started : StatusFollows(o))'
  BY <1>2, <1>3, <1>4, <1>5 DEF CryptoInv, StatusFollows, Kinds
<1>10. (\A u \in Clients : CallerKnows(u))'
  BY <1>1, <1>2, <1>3, <1>5, <1>6 DEF CryptoInv, CallerKnows, TablesAgree
<1>11. SpawnsDiffer'
  BY <1>1, <1>2, <1>6 DEF CryptoInv, CallerKnows, SpawnsDiffer, TablesAgree
<1>12. CleanedOnce' /\ (\A o \in Ops \ Started : cleaned[o] = 0)'
  BY <1>1, <1>2, <1>3, <1>5, <1>6 DEF CryptoInv, CleanedOnce, TablesAgree
<1> QED
  BY <1>8, <1>9, <1>10, <1>11, <1>12 DEF CryptoInv

(* The thread is made, or the task is taken out again: its own caller does  *)
(* either, and no cleanup can have removed it.                              *)
LEMMA SpawnInv ==
    ASSUME CryptoInv, NEW t \in Clients, SpawnWorker(t) \/ SpawnFails(t)
    PROVE  CryptoInv'
<1> DEFINE o == client[t].op
<1>1. TablesAgree /\ CallerKnows(t) /\ client[t].pc = "spawn"
  BY DEF CryptoInv, SpawnWorker, SpawnFails
<1>2. o \in Started /\ o \in registry /\ worker[o] = "none"
  BY <1>1 DEF CallerKnows
<1>3. CASE SpawnWorker(t)
  <2>1. /\ worker' = [worker EXCEPT ![o] = "working"]
        /\ client' = [client EXCEPT ![t] = [pc |-> "idle", op |-> 0]]
        /\ UNCHANGED <<status, result, registry, cleaned, uses, Started>>
    BY <1>3 DEF SpawnWorker, Move, Started
  <2>2. TablesAgree'
    BY <1>1, <1>2, <2>1 DEF TablesAgree, WorkerStates
  <2>3. (\A p \in Started : StatusFollows(p))'
    BY <1>1, <1>2, <2>1 DEF CryptoInv, StatusFollows, TablesAgree, Kinds
  <2>4. (\A u \in Clients : CallerKnows(u))' /\ SpawnsDiffer'
    BY <1>1, <1>2, <2>1 DEF CryptoInv, CallerKnows, SpawnsDiffer, TablesAgree
  <2>5. CleanedOnce' /\ (\A p \in Ops \ Started : cleaned[p] = 0)'
    BY <1>1, <1>2, <2>1 DEF CryptoInv, CleanedOnce, TablesAgree
  <2> QED
    BY <2>2, <2>3, <2>4, <2>5 DEF CryptoInv
<1>4. CASE SpawnFails(t)
  <2>1. /\ registry' = registry \ {o}
        /\ client' = [client EXCEPT ![t] = [pc |-> "idle", op |-> 0]]
        /\ UNCHANGED <<status, result, worker, cleaned, uses, Started>>
    BY <1>4 DEF SpawnFails, Move, Started
  <2>2. TablesAgree'
    BY <1>1, <2>1 DEF TablesAgree
  <2>3. (\A p \in Started : StatusFollows(p))'
    BY <2>1 DEF CryptoInv, StatusFollows
  <2>4. (\A u \in Clients : CallerKnows(u))' /\ SpawnsDiffer'
    BY <1>1, <2>1 DEF CryptoInv, CallerKnows, SpawnsDiffer, TablesAgree
  <2>5. CleanedOnce' /\ (\A p \in Ops \ Started : cleaned[p] = 0)'
    BY <1>1, <1>2, <2>1 DEF CryptoInv, CleanedOnce, TablesAgree
  <2> QED
    BY <2>2, <2>3, <2>4, <2>5 DEF CryptoInv
<1> QED
  BY <1>3, <1>4

(* The worker stores the result, then the status, or panics in between.     *)
LEMMA WorkerInv ==
    ASSUME CryptoInv, NEW o \in Started, WorkerStep(o)
    PROVE  CryptoInv'
<1>1. /\ TablesAgree /\ StatusFollows(o)
      /\ UNCHANGED <<registry, cleaned, client, uses>>
  BY DEF CryptoInv, WorkerStep, StoreResult, StoreStatus, WorkerPanics
<1>2. CASE StoreResult(o)
  <2> PICK k \in Kinds : /\ result' = [result EXCEPT ![o] = k]
                         /\ worker' = [worker EXCEPT ![o] = k]
    BY <1>2 DEF StoreResult
  <2>1. worker[o] = "working" /\ status' = status /\ Started' = Started
    BY <1>2 DEF StoreResult, Started
  <2>2. TablesAgree'
    BY <1>1, <2>1 DEF TablesAgree, WorkerStates
  <2>3. (\A p \in Started : StatusFollows(p))'
    BY <1>1, <2>1 DEF CryptoInv, StatusFollows, TablesAgree, Kinds
  <2>4. (\A u \in Clients : CallerKnows(u))' /\ SpawnsDiffer'
    BY <1>1, <2>1 DEF CryptoInv, CallerKnows, SpawnsDiffer, TablesAgree
  <2>5. CleanedOnce' /\ (\A p \in Ops \ Started : cleaned[p] = 0)'
    BY <1>1, <2>1 DEF CryptoInv, CleanedOnce, TablesAgree
  <2> QED
    BY <2>2, <2>3, <2>4, <2>5 DEF CryptoInv
<1>3. CASE StoreStatus(o)
  <2>1. /\ worker[o] \in Kinds /\ result' = result
        /\ status' = [status EXCEPT ![o] = StatusOf(worker[o])]
        /\ worker' = [worker EXCEPT ![o] = "done"]
    BY <1>3 DEF StoreStatus
  <2>2. TablesAgree' /\ Started' = Started
    BY <1>1, <2>1 DEF TablesAgree, WorkerStates, Started, StatusOf
  <2>3. (\A p \in Started : StatusFollows(p))'
    BY <1>1, <2>1, <2>2 DEF CryptoInv, StatusFollows, TablesAgree, Kinds, StatusOf
  <2>4. (\A u \in Clients : CallerKnows(u))' /\ SpawnsDiffer'
    BY <1>1, <2>1, <2>2 DEF CryptoInv, CallerKnows, SpawnsDiffer, TablesAgree, Kinds
  <2>5. CleanedOnce' /\ (\A p \in Ops \ Started : cleaned[p] = 0)'
    BY <1>1, <2>1, <2>2 DEF CryptoInv, CleanedOnce, TablesAgree, Kinds
  <2> QED
    BY <2>2, <2>3, <2>4, <2>5 DEF CryptoInv
<1>4. CASE WorkerPanics(o)
  <2>1. /\ worker[o] = "working" /\ UNCHANGED <<status, result, Started>>
        /\ worker' = [worker EXCEPT ![o] = "panicked"]
    BY <1>4 DEF WorkerPanics, Started
  <2>2. TablesAgree'
    BY <1>1, <2>1 DEF TablesAgree, WorkerStates
  <2>3. (\A p \in Started : StatusFollows(p))'
    BY <1>1, <2>1 DEF CryptoInv, StatusFollows, TablesAgree, Kinds
  <2>4. (\A u \in Clients : CallerKnows(u))' /\ SpawnsDiffer'
    BY <1>1, <2>1 DEF CryptoInv, CallerKnows, SpawnsDiffer, TablesAgree
  <2>5. CleanedOnce' /\ (\A p \in Ops \ Started : cleaned[p] = 0)'
    BY <1>1, <2>1 DEF CryptoInv, CleanedOnce, TablesAgree
  <2> QED
    BY <2>2, <2>3, <2>4, <2>5 DEF CryptoInv
<1> QED
  BY <1>2, <1>3, <1>4 DEF WorkerStep

(* Calls and returns that only move a caller.                               *)
LEMMA CallerMoves ==
    ASSUME CryptoInv, NEW t \in Clients, NEW p, NEW o,
           Move(t, p, o), UNCHANGED taskVars, uses' \in [Clients -> Nat],
           p \in {"idle", "wait", "wait_timeout", "cleanup"},
           o \in Started \cup {0},
           p # "idle" => o \in Started,
           p = "cleanup" => worker[o] = "done"
    PROVE  CryptoInv'
<1>1. TablesAgree
  BY DEF CryptoInv
<1>2. /\ client' = [client EXCEPT ![t] = [pc |-> p, op |-> o]]
      /\ UNCHANGED <<status, result, registry, worker, cleaned, Started>>
  BY DEF Move, taskVars, Started
<1>3. o \in Nat
  BY <1>1 DEF TablesAgree, Ops
<1>4. TablesAgree'
  BY <1>1, <1>2, <1>3 DEF TablesAgree
<1>5. (\A u \in Clients : CallerKnows(u))' /\ SpawnsDiffer'
  BY <1>1, <1>2 DEF CryptoInv, CallerKnows, SpawnsDiffer, TablesAgree
<1>6. (\A q \in Started : StatusFollows(q))'
  BY <1>2 DEF CryptoInv, StatusFollows
<1>7. CleanedOnce' /\ (\A q \in Ops \ Started : cleaned[q] = 0)'
  BY <1>2 DEF CryptoInv, CleanedOnce
<1> QED
  BY <1>4, <1>5, <1>6, <1>7 DEF CryptoInv

(* The removal: only the call that finds the task counts it.                *)
LEMMA CleanupRemoveInv ==
    ASSUME CryptoInv, NEW t \in Clients, CleanupRemove(t)
    PROVE  CryptoInv'
<1> DEFINE o == client[t].op
<1>1. TablesAgree /\ CallerKnows(t) /\ client[t].pc = "cleanup"
  BY DEF CryptoInv, CleanupRemove
<1>2. o \in Started /\ o \in Ops /\ worker[o] = "done"
  BY <1>1 DEF CallerKnows, TablesAgree
<1>3. /\ registry' = registry \ {o}
      /\ client' = [client EXCEPT ![t] = [pc |-> "idle", op |-> 0]]
      /\ UNCHANGED <<status, result, worker, uses, Started>>
      /\ cleaned' = IF o \in registry THEN [cleaned EXCEPT ![o] = @ + 1] ELSE cleaned
  BY DEF CleanupRemove, Move, Started
<1>4. o \in registry => cleaned[o] = 0
  BY <1>1, <1>2 DEF CryptoInv, CleanedOnce, TablesAgree
<1>5. TablesAgree'
  BY <1>1, <1>2, <1>3 DEF TablesAgree
<1>6. (\A u \in Clients : CallerKnows(u))' /\ SpawnsDiffer'
  BY <1>1, <1>2, <1>3 DEF CryptoInv, CallerKnows, SpawnsDiffer, TablesAgree
<1>7. (\A q \in Started : StatusFollows(q))'
  BY <1>3 DEF CryptoInv, StatusFollows
<1>8. CASE o \in registry
  <2>1. \A q \in Ops : cleaned'[q] = IF q = o THEN 1 ELSE cleaned[q]
    BY <1>1, <1>2, <1>3, <1>4, <1>8 DEF TablesAgree
  <2> QED
    BY <1>1, <1>2, <1>3, <1>5, <1>6, <1>7, <2>1 DEF CryptoInv, CleanedOnce, TablesAgree
<1>9. CASE o \notin registry
  BY <1>1, <1>2, <1>3, <1>5, <1>6, <1>7, <1>9 DEF CryptoInv, CleanedOnce, TablesAgree
<1> QED
  BY <1>8, <1>9

(* Every step keeps the inductive invariant.                               *)
LEMMA NextCryptoInv == CryptoInv /\ [CryptoNext]_cryptoVars => CryptoInv'
<1> SUFFICES ASSUME CryptoInv, [CryptoNext]_cryptoVars
             PROVE  CryptoInv'
  OBVIOUS
<1>1. TablesAgree /\ \A t \in Clients : CallerKnows(t)
  BY DEF CryptoInv
<1>2. ASSUME NEW t \in Clients, NEW o \in Started, WaitOp(t, o)
      PROVE  CryptoInv'
  <2> PICK p \in {"wait", "wait_timeout"} : Move(t, p, o)
    BY <1>2 DEF WaitOp
  <2>1. uses' \in [Clients -> Nat] /\ UNCHANGED taskVars
    BY <1>1, <1>2 DEF WaitOp, Call, TablesAgree
  <2> QED
    BY <2>1, CallerMoves
<1>3. ASSUME NEW t \in Clients, NEW o \in Started, Cleanup(t, o)
      PROVE  CryptoInv'
  <2>1. uses' \in [Clients -> Nat] /\ UNCHANGED taskVars /\ Move(t, "cleanup", o)
    BY <1>1, <1>3 DEF Cleanup, Call, TablesAgree
  <2>2. worker[o] = "done"
    BY <1>3 DEF Cleanup, MayClean, CryptoInv, StatusFollows
  <2> QED
    BY <2>1, <2>2, CallerMoves
<1>4. ASSUME NEW t \in Clients, WaitStep(t) \/ WaitTimesOut(t)
      PROVE  CryptoInv'
  <2>1. uses' \in [Clients -> Nat] /\ UNCHANGED taskVars /\ Move(t, "idle", 0)
    BY <1>1, <1>4 DEF WaitStep, WaitTimesOut, TablesAgree
  <2> QED
    BY <2>1, CallerMoves
<1>5. CASE UNCHANGED cryptoVars
  <2>1. UNCHANGED <<status, result, registry, worker, client, uses, cleaned, Started>>
    BY <1>5 DEF cryptoVars, Started
  <2> QED
    BY <2>1 DEF CryptoInv, TablesAgree, StatusFollows, CallerKnows, SpawnsDiffer, CleanedOnce
<1>6. ASSUME NEW t \in Clients, ClientStep(t)
      PROVE  CryptoInv'
  BY <1>4, <1>6, SpawnInv, CleanupRemoveInv DEF ClientStep
<1> QED
  BY <1>2, <1>3, <1>5, <1>6, StartOpInv, WorkerInv DEF CryptoNext

(* Every operation is announced with its result in place and cleaned up     *)
(* once, for every number of callers, whatever the workers do.              *)
THEOREM CryptoOperationsSafe == CryptoSpec => []OperationsSafe
<1>1. CryptoInit => CryptoInv
  <2> SUFFICES ASSUME CryptoInit
               PROVE  CryptoInv
    OBVIOUS
  <2>1. Started = {} /\ registry = {}
    BY DEF CryptoInit, Started
  <2>2. IsFiniteSet(Started) /\ Cardinality(Started) = 0
    BY <2>1, FS_EmptySet
  <2>3. TablesAgree
    BY <2>1, <2>2, CryptoAssumption DEF CryptoInit, TablesAgree, Idle
  <2>4. (\A t \in Clients : CallerKnows(t)) /\ SpawnsDiffer
    BY DEF CryptoInit, CallerKnows, SpawnsDiffer, Idle
  <2> QED
    BY <2>1, <2>3, <2>4 DEF CryptoInit, CryptoInv, CleanedOnce
<1>2. CryptoInv => OperationsSafe
  <2> SUFFICES ASSUME CryptoInv
               PROVE  OperationsSafe
    OBVIOUS
  <2>1. CryptoTypeOK
    BY DEF CryptoInv, TablesAgree, CallerKnows, CryptoTypeOK
  <2>2. AnnouncedIsThere
    <3> SUFFICES ASSUME NEW o \in Started, o \in registry, status[o] # "Running"
                 PROVE  /\ status[o] = "Completed" =>
                              \E w \in {"hash", "key"} :
                                 /\ FetchAnswer(o, w) = "ok"
                                 /\ \A v \in Kinds \ {w} : FetchAnswer(o, v) = "other"
                        /\ status[o] = "Failed" =>
                              /\ FetchAnswer(o, "error") = "ok"
                              /\ \A v \in {"hash", "key"} : FetchAnswer(o, v) = "other"
      BY DEF AnnouncedIsThere, Poll
    <3>1. result[o] \in Kinds /\ status[o] = StatusOf(result[o])
      BY DEF CryptoInv, StatusFollows
    <3>2. \A v : FetchAnswer(o, v) = IF result[o] = v THEN "ok" ELSE "other"
      BY <3>1 DEF FetchAnswer, Kinds
    <3> QED
      BY <3>1, <3>2 DEF StatusOf, Kinds
  <2> QED
    BY <2>1, <2>2 DEF CryptoInv, OperationsSafe
<1> QED
  BY <1>1, <1>2, NextCryptoInv, PTL DEF CryptoSpec

-----------------------------------------------------------------------------
(* Tasks of native programs: the invariant.                                *)

(* A thread inside a lowered body, inside a poll (from the call of the     *)
(* poll function until its answer is recorded), and anywhere.              *)
BodyPcs == {"dispatch", "state_0", "resume", "get_error", "get_result", "inter", "last"}
PollPcs == BodyPcs \cup {"poll", "unregistered", "record"}
Pcs == PollPcs \cup {"idle", "read", "exception", "return"}

(* Tasks, frames and calls.                                                *)
TaskRecs == [fn : Fns, state : TaskStates, result : Value, exception : Value,
             cancelled : BOOLEAN]
FrameRecs == [state : Nat, result : Value, exception : Value, awaited : Nat]
CallRecs == [pc : Pcs, task : Nat, code : PollCodes, at : Nat, aw : Nat, failed : BOOLEAN,
             err : Value, res : Value, join : BOOLEAN, ret : Value]

(* The state of a frame is one its poll function has.                      *)
FrameFits(h) ==
    /\ frames[h].awaited \in Spawned \cup {0}
    /\ tasks[h].fn \in ExtFns => frames[h].state \in 0 .. MaxPend
    /\ tasks[h].fn \in LoweredFns => frames[h].state <= Awaits[tasks[h].fn]

(* The types of the variables. Handles are numbered from 1 without gaps.   *)
Shape ==
    /\ fns \in FnSets
    /\ \E n \in 0 .. MaxTasks : Spawned = 1 .. n
    /\ tasks \in [Spawned -> TaskRecs] /\ frames \in [Spawned -> FrameRecs]
    /\ awaiters \in [Spawned -> SUBSET Callers]
    /\ \A h \in Spawned : IsFiniteSet(awaiters[h]) /\ FrameFits(h)
    /\ call \in [Callers -> CallRecs]

(* No two different threads ever awaited h: what Sole says, without        *)
(* counting.                                                               *)
Single(h) == \A t, u \in awaiters[h] : t = u

(* A thread polls h.                                                       *)
Polled(h) == \E t \in Callers : call[t].task = h /\ call[t].pc \in PollPcs

(* a failed, or was cancelled, and nobody is left who could still record   *)
(* an outcome; and x is its exception. Both are claimed only of a task     *)
(* that one thread at most awaits: the registry lets the late answer of a  *)
(* second thread overwrite an outcome.                                     *)
FailedAway(a) ==
    /\ a \in Spawned
    /\ Single(a) => /\ tasks[a].state \in Settled /\ ~Polled(a)
                    /\ tasks[a].state \in Failed \/ tasks[a].cancelled

Carries(a, x) == Single(a) => x = tasks[a].exception

(* Where a call is says which task it may have.                            *)
CallFits(t) ==
    LET c == call[t]
        f == tasks[c.task].fn
    IN c.pc # "idle" =>
         /\ c.task \in Spawned /\ t \in awaiters[c.task]
         /\ c.pc \in BodyPcs => f \in LoweredFns /\ Awaits[f] > 0
         /\ c.pc = "inter" => c.at < Awaits[f]
         /\ c.pc = "record" /\ f \in LoweredFns => c.code \in {"READY", "PENDING", "ERROR"}

(* What a call on a task of its own knows: a task that is polled has not   *)
(* settled, but for a cancel; what is about to be returned is its outcome; *)
(* an error in hand is the failure of the task the body awaited.           *)
CallHolds(t) ==
    LET c == call[t]
        h == c.task
        frame == frames[h]
    IN (c.pc # "idle" /\ Single(h)) =>
         /\ c.pc \in PollPcs => \/ tasks[h].state \in {"Ready", "Waiting"}
                                \/ tasks[h].state = "Cancelled" /\ tasks[h].cancelled
         /\ ~tasks[h].cancelled =>
              /\ c.pc = "return" =>
                   \/ tasks[h].state = "Completed" /\ c.ret = tasks[h].result
                   \/ tasks[h].state \in Settled \ {"Completed"} /\ c.ret = tasks[h].exception
              /\ c.pc = "exception" => tasks[h].state \in Settled \ {"Completed"}
              /\ c.pc = "unregistered" => c.ret = tasks[h].result
              /\ (c.pc = "record" /\ c.code = "ERROR" /\ tasks[h].fn \in LoweredFns) =>
                   FailedAway(frame.awaited) /\ Carries(frame.awaited, frame.exception)
         /\ c.pc \in {"get_error", "get_result", "inter", "last"} =>
              c.aw = frame.awaited /\ (c.failed => FailedAway(c.aw))
         /\ c.pc \in {"get_result", "inter", "last"} /\ c.failed => Carries(c.aw, c.err)

(* ErrorIsPropagated, in these terms.                                      *)
ErrorHolds(h) ==
    (tasks[h].fn \in LoweredFns /\ tasks[h].state = "Error" /\ ~tasks[h].cancelled /\ Single(h))
    => FailedAway(frames[h].awaited) /\ Carries(frames[h].awaited, tasks[h].exception)

(* The inductive invariant.                                                *)
AsyncInv ==
    /\ Shape
    /\ \A t \in Callers : CallFits(t) /\ CallHolds(t)
    /\ \A h \in Spawned : ErrorHolds(h)

-----------------------------------------------------------------------------
(* Nothing of h moves, but for a cancel.                                    *)
Stays(h) ==
    /\ tasks'[h].result = tasks[h].result /\ tasks'[h].exception = tasks[h].exception
    /\ \/ tasks'[h].state = tasks[h].state /\ tasks'[h].cancelled = tasks[h].cancelled
       \/ tasks'[h].state = "Cancelled" /\ tasks'[h].cancelled
    /\ frames'[h] = frames[h]

(* What a step of t may do to the tasks.                                    *)
Drives(t) ==
    /\ \A u \in Callers \ {t} : call'[u] = call[u]
    /\ \A h \in Spawned :
         /\ h \in Spawned' /\ awaiters[h] \subseteq awaiters'[h]
         /\ tasks'[h].fn = tasks[h].fn
         /\ h # call[t].task \/ call[t].pc \notin PollPcs => Stays(h)
    /\ \A h \in Spawned' \ Spawned : tasks'[h].state = "Ready"
    /\ call'[t].pc \in PollPcs =>
         \/ call[t].pc \in PollPcs /\ call'[t].task = call[t].task
         \/ tasks[call'[t].task].state \notin Settled

(* A failure somebody saw is final, and so is its exception.                *)
LEMMA FailureStays ==
    ASSUME Shape, NEW t \in Callers, Drives(t), NEW a, FailedAway(a)
    PROVE  FailedAway(a)' /\ \A x : Carries(a, x) => Carries(a, x)'
<1>1. a \in Spawned /\ a \in Spawned' /\ awaiters[a] \subseteq awaiters'[a]
  BY DEF FailedAway, Drives
<1>2. ASSUME Single(a)'
      PROVE  /\ Single(a) /\ tasks'[a].state \in Settled /\ ~Polled(a)'
             /\ tasks'[a].state \in Failed \/ tasks'[a].cancelled
             /\ tasks'[a].exception = tasks[a].exception
  <2>1. Single(a)
    BY <1>1, <1>2 DEF Single
  <2>2. /\ tasks[a].state \in Settled /\ ~Polled(a)
        /\ tasks[a].state \in Failed \/ tasks[a].cancelled
    BY <2>1 DEF FailedAway
  <2>3. Stays(a)
    BY <1>1, <2>2 DEF Drives, Polled
  <2>4. ~Polled(a)'
    <3> SUFFICES ASSUME NEW u \in Callers, call'[u].task = a, call'[u].pc \in PollPcs
                 PROVE  FALSE
      BY DEF Polled
    <3>1. CASE u = t
      BY <2>2, <3>1 DEF Drives, Polled
    <3>2. CASE u # t
      BY <2>2, <3>2 DEF Drives, Polled
    <3> QED
      BY <3>1, <3>2
  <2> QED
    BY <2>1, <2>2, <2>3, <2>4 DEF Stays, Settled
<1>3. FailedAway(a)'
  BY <1>1, <1>2 DEF FailedAway
<1>4. ASSUME NEW x, Carries(a, x)
      PROVE  Carries(a, x)'
  BY <1>2, <1>4 DEF Carries
<1> QED
  BY <1>3, <1>4

(* A step of t keeps the invariant if it does so for the call of t and for  *)
(* the task that t polls.                                                   *)
LEMMA StepKeeps ==
    ASSUME AsyncInv, NEW t \in Callers, Drives(t), Shape',
           CallFits(t)', CallHolds(t)',
           \A h \in Spawned :
               h = call[t].task /\ call[t].pc \in PollPcs => ErrorHolds(h)'
    PROVE  AsyncInv'
<1>1. Shape /\ \A u \in Callers : CallFits(u) /\ CallHolds(u)
  BY DEF AsyncInv
<1>2. ASSUME NEW h \in Spawned, Single(h)', h # call[t].task \/ call[t].pc \notin PollPcs
      PROVE  Single(h) /\ Stays(h) /\ tasks'[h].fn = tasks[h].fn
  BY <1>2 DEF Drives, Single
<1>3. ASSUME NEW u \in Callers, u # t
      PROVE  CallFits(u)' /\ CallHolds(u)'
  <2>0. PICK c, h : c = call[u] /\ h = call[u].task
    OBVIOUS
  <2>1. call'[u] = c /\ c = call[u] /\ h = c.task
    BY <1>3, <2>0 DEF Drives
  <2>2. CASE c.pc = "idle"
    BY <2>1, <2>2 DEF CallFits, CallHolds
  <2>3. CASE c.pc # "idle"
    <3>1. h \in Spawned /\ u \in awaiters[h] /\ CallFits(u) /\ CallHolds(u)
      BY <1>1, <2>1, <2>3 DEF CallFits
    <3>2. /\ h \in Spawned' /\ u \in awaiters'[h] /\ tasks'[h].fn = tasks[h].fn
      BY <3>1 DEF Drives
    <3>3. CallFits(u)'
      BY <2>1, <3>1, <3>2 DEF CallFits
    <3>4. CallHolds(u)'
      <4> SUFFICES ASSUME Single(h)'
                   PROVE  CallHolds(u)'
        BY <2>1 DEF CallHolds
      <4>1. h # call[t].task \/ call[t].pc \notin PollPcs
        <5> SUFFICES ASSUME h = call[t].task, call[t].pc \in PollPcs
                     PROVE  FALSE
          OBVIOUS
        <5>1. t \in awaiters[h]
          BY <1>1 DEF CallFits, PollPcs, BodyPcs
        <5>2. Single(h)
          BY <3>1 DEF Single, Drives
        <5> QED
          BY <1>3, <3>1, <5>1, <5>2 DEF Single
      <4>2. Single(h) /\ Stays(h)
        BY <1>2, <3>1, <4>1
      <4>3. \A a : FailedAway(a) => FailedAway(a)' /\ \A x : Carries(a, x) => Carries(a, x)'
        BY <1>1, FailureStays
      <4>4. c.pc \in PollPcs => \/ tasks'[h].state \in {"Ready", "Waiting"}
                                \/ tasks'[h].state = "Cancelled" /\ tasks'[h].cancelled
        BY <2>1, <2>3, <3>1, <4>2 DEF CallHolds, Stays
      <4>5. ~tasks'[h].cancelled =>
              /\ ~tasks[h].cancelled /\ tasks'[h].state = tasks[h].state
              /\ tasks'[h].result = tasks[h].result /\ tasks'[h].exception = tasks[h].exception
        BY <4>2, <1>1, <3>1 DEF Stays, Shape, TaskRecs
      <4>6. frames'[h] = frames[h]
        BY <4>2 DEF Stays
      <4>7. ~tasks'[h].cancelled =>
              /\ c.pc = "return" =>
                   \/ tasks'[h].state = "Completed" /\ c.ret = tasks'[h].result
                   \/ tasks'[h].state \in Settled \ {"Completed"} /\ c.ret = tasks'[h].exception
              /\ c.pc = "exception" => tasks'[h].state \in Settled \ {"Completed"}
              /\ c.pc = "unregistered" => c.ret = tasks'[h].result
        BY <2>1, <2>3, <3>1, <4>2, <4>5 DEF CallHolds
      <4>8. (~tasks'[h].cancelled /\ c.pc = "record" /\ c.code = "ERROR"
               /\ tasks'[h].fn \in LoweredFns) =>
              /\ FailedAway(frames[h].awaited)
              /\ Carries(frames[h].awaited, frames[h].exception)
        BY <2>1, <2>3, <3>1, <3>2, <4>2, <4>5 DEF CallHolds
      <4>9. c.pc \in {"get_error", "get_result", "inter", "last"} =>
              c.aw = frames[h].awaited /\ (c.failed => FailedAway(c.aw))
        BY <2>1, <2>3, <3>1, <4>2 DEF CallHolds
      <4>10. c.pc \in {"get_result", "inter", "last"} /\ c.failed =>
               FailedAway(c.aw) /\ Carries(c.aw, c.err)
        BY <2>1, <2>3, <3>1, <4>2 DEF CallHolds
      <4>11. call'[u] = c /\ call'[u].task = h
        BY <2>1
      <4> QED
        BY <4>3, <4>4, <4>6, <4>7, <4>8, <4>9, <4>10, <4>11 DEF CallHolds
    <3> QED
      BY <3>3, <3>4
  <2> QED
    BY <2>2, <2>3
<1>4. ASSUME NEW h \in Spawned'
      PROVE  ErrorHolds(h)'
  <2>1. CASE h \notin Spawned
    BY <1>4, <2>1 DEF ErrorHolds, Drives
  <2>2. CASE h \in Spawned /\ h = call[t].task /\ call[t].pc \in PollPcs
    BY <2>2
  <2>3. CASE h \in Spawned /\ ~(h = call[t].task /\ call[t].pc \in PollPcs)
    <3> SUFFICES ASSUME tasks'[h].fn \in LoweredFns, tasks'[h].state = "Error",
                        ~tasks'[h].cancelled, Single(h)'
                 PROVE  /\ FailedAway(frames[h].awaited)'
                        /\ Carries(frames[h].awaited, tasks[h].exception)'
      BY DEF ErrorHolds
    <3>1. Single(h) /\ Stays(h) /\ tasks'[h].fn = tasks[h].fn
      BY <1>2, <2>3
    <3>2. ErrorHolds(h)
      BY <2>3 DEF AsyncInv
    <3>3. ~tasks[h].cancelled /\ tasks[h].state = "Error"
      BY <1>1, <2>3, <3>1 DEF Stays, Shape, TaskRecs
    <3>4. FailedAway(frames[h].awaited) /\ Carries(frames[h].awaited, tasks[h].exception)
      BY <3>1, <3>2, <3>3 DEF ErrorHolds
    <3>5. PICK a, x : a = frames[h].awaited /\ x = tasks[h].exception
      OBVIOUS
    <3>6. FailedAway(a)' /\ Carries(a, x)'
      BY <1>1, <3>4, <3>5, FailureStays
    <3> QED
      BY <3>1, <3>5, <3>6 DEF Stays
  <2> QED
    BY <2>1, <2>2, <2>3
<1> QED
  BY <1>3, <1>4 DEF AsyncInv

(* The call of t after its step, with what is kept of the poll or not.      *)
LEMMA AtFields ==
    ASSUME Shape, NEW t \in Callers, NEW p \in Pcs
    PROVE  /\ At(t, p) \in CallRecs
           /\ At(t, p).pc = p /\ At(t, p).task = call[t].task /\ At(t, p).ret = 0
BY DEF Shape, At, NoCall, CallRecs, PollCodes, Value, Pcs, PollPcs, BodyPcs

(* The call of t after a poll function answered.                           *)
LEMMA AnswerFields ==
    ASSUME Shape, NEW t \in Callers, NEW code \in PollCodes, Answer(t, code)
    PROVE  /\ call' \in [Callers -> CallRecs]
           /\ \A u \in Callers \ {t} : call'[u] = call[u]
           /\ call'[t].pc = "record" /\ call'[t].task = call[t].task /\ call'[t].code = code
<1>1. PICK r : r = [At(t, "record") EXCEPT !.code = code] /\ call' = [call EXCEPT ![t] = r]
  BY DEF Answer
<1>2. PICK q \in CallRecs : /\ q = At(t, "record")
                            /\ q.pc = "record" /\ q.task = call[t].task
  BY AtFields DEF Pcs, PollPcs
<1>3. r \in CallRecs /\ r.pc = "record" /\ r.task = call[t].task /\ r.code = code
  BY <1>1, <1>2 DEF CallRecs
<1> QED
  BY <1>1, <1>3 DEF Shape

(* A step that moves nothing but the call of t.                             *)
LEMMA CallMoves ==
    ASSUME AsyncInv, NEW t \in Callers, UNCHANGED <<fns, tasks, frames, awaiters>>,
           call' \in [Callers -> CallRecs],
           \A u \in Callers \ {t} : call'[u] = call[u],
           call'[t].pc \in PollPcs =>
             \/ call[t].pc \in PollPcs /\ call'[t].task = call[t].task
             \/ tasks[call'[t].task].state \notin Settled
    PROVE  /\ Drives(t) /\ Shape'
           /\ CallFits(t)' /\ CallHolds(t)' => AsyncInv'
           /\ \A a : FailedAway(a) => FailedAway(a)' /\ \A x : Carries(a, x) => Carries(a, x)'
<1>1. Shape
  BY DEF AsyncInv
<1>2. Shape'
  BY <1>1 DEF Shape, FrameFits, Spawned
<1>3. Drives(t)
  BY <1>1 DEF Drives, Stays, Spawned
<1>4. \A a : FailedAway(a) => FailedAway(a)' /\ \A x : Carries(a, x) => Carries(a, x)'
  BY <1>1, <1>3, FailureStays
<1>5. ASSUME NEW h \in Spawned
      PROVE  ErrorHolds(h)'
  <2>1. ErrorHolds(h) /\ (Single(h)' => Single(h))
    BY <1>5 DEF AsyncInv, Single
  <2>2. PICK a, x : a = frames[h].awaited /\ x = tasks[h].exception
    OBVIOUS
  <2> QED
    BY <1>4, <2>1, <2>2 DEF ErrorHolds
<1> QED
  BY <1>2, <1>3, <1>4, <1>5, StepKeeps

(* What the invariant says of a call in progress and of its task.           *)
LEMMA CallFacts ==
    ASSUME AsyncInv, NEW t \in Callers, call[t].pc # "idle"
    PROVE  /\ Shape /\ call \in [Callers -> CallRecs] /\ call[t] \in CallRecs
           /\ call[t].task \in Spawned /\ t \in awaiters[call[t].task]
           /\ tasks[call[t].task] \in TaskRecs /\ frames[call[t].task] \in FrameRecs
           /\ CallFits(t) /\ CallHolds(t) /\ FrameFits(call[t].task)
BY DEF AsyncInv, Shape, CallFits

(* The head of the loop of arth_rt_await: it goes on to poll only a task   *)
(* that has not settled.                                                   *)
LEMMA ReadTaskInv ==
    ASSUME AsyncInv, NEW t \in Callers, ReadTask(t), UNCHANGED fns
    PROVE  AsyncInv' /\ Drives(t)
<1>1. PICK c, h : /\ c = call[t] /\ h = c.task /\ c \in CallRecs /\ c.pc = "read" /\ h \in Spawned
                  /\ t \in awaiters[h] /\ tasks[h] \in TaskRecs /\ frames[h] \in FrameRecs
                  /\ Shape /\ CallFits(t) /\ CallHolds(t) /\ FrameFits(h)
  BY CallFacts DEF ReadTask
<1>2. PICK r \in CallRecs :
        /\ call' = [call EXCEPT ![t] = r]
        /\ r.task = h
        /\ \/ r.pc = "return" /\ tasks[h].state = "Completed" /\ r.ret = tasks[h].result
           \/ r.pc = "exception" /\ tasks[h].state \in Settled \ {"Completed"}
           \/ r.pc = "unregistered" /\ tasks[h].state \notin Settled /\ r.ret = tasks[h].result
           \/ r.pc = "poll" /\ tasks[h].state \notin Settled
  <2>1. PICK p \in Pcs, v \in Value :
          /\ call' = [call EXCEPT ![t] = [At(t, p) EXCEPT !.ret = v]]
          /\ \/ p = "return" /\ tasks[h].state = "Completed" /\ v = tasks[h].result
             \/ p = "exception" /\ tasks[h].state \in Settled \ {"Completed"}
             \/ p = "unregistered" /\ tasks[h].state \notin Settled /\ v = tasks[h].result
             \/ p = "poll" /\ tasks[h].state \notin Settled
    <3>1. PICK p, v : /\ call' = [call EXCEPT ![t] = [At(t, p) EXCEPT !.ret = v]]
                      /\ p = AfterRead(tasks[h])
                      /\ v = IF p \in {"return", "unregistered"} THEN tasks[h].result ELSE 0
      BY <1>1 DEF ReadTask
    <3>2. tasks[h].state \in TaskStates /\ v \in Value
      BY <1>1, <3>1 DEF TaskRecs, Value
    <3>3. p \in {"return", "exception", "unregistered", "poll"}
      BY <3>1 DEF AfterRead
    <3>4. \/ p = "return" /\ tasks[h].state = "Completed"
          \/ p = "exception" /\ tasks[h].state \in Settled \ {"Completed"}
          \/ p = "unregistered" /\ tasks[h].state \notin Settled
          \/ p = "poll" /\ tasks[h].state \notin Settled
      BY <3>1, <3>2 DEF AfterRead, TaskStates, Settled
    <3> QED
      BY <3>1, <3>2, <3>3, <3>4 DEF Pcs, PollPcs
  <2>2. PICK q \in CallRecs : q = At(t, p) /\ q.pc = p /\ q.task = h
    BY <1>1, AtFields
  <2>3. /\ [q EXCEPT !.ret = v] \in CallRecs /\ [q EXCEPT !.ret = v].pc = p
        /\ [q EXCEPT !.ret = v].task = h /\ [q EXCEPT !.ret = v].ret = v
    BY <2>2 DEF CallRecs
  <2> QED
    BY <2>1, <2>2, <2>3
<1>3. /\ call' \in [Callers -> CallRecs] /\ call'[t] = r
      /\ \A u \in Callers \ {t} : call'[u] = call[u]
  BY <1>1, <1>2 DEF Shape
<1>4. UNCHANGED <<fns, tasks, frames, awaiters>>
  BY DEF ReadTask
<1>5. call'[t].pc \in PollPcs =>
         \/ call[t].pc \in PollPcs /\ call'[t].task = call[t].task
         \/ tasks[call'[t].task].state \notin Settled
  BY <1>1, <1>2, <1>3 DEF PollPcs, BodyPcs, Settled
<1>6. \A a : FailedAway(a) => FailedAway(a)' /\ \A x : Carries(a, x) => Carries(a, x)'
  BY <1>3, <1>4, <1>5, CallMoves
<1>7. CallFits(t)'
  BY <1>1, <1>2, <1>3, <1>4 DEF CallFits, Spawned, BodyPcs
<1>8. CallHolds(t)'
  <2>1. Single(h)' => Single(h)
    BY <1>4 DEF Single
  <2> QED
    BY <1>1, <1>2, <1>3, <1>4, <1>6, <2>1 DEF CallHolds, PollPcs, BodyPcs, Settled, TaskRecs, TaskStates
<1> QED
  BY <1>3, <1>4, <1>5, <1>7, <1>8, CallMoves

(* The exception of a settled task is what is returned.                    *)
LEMMA ReadExceptionInv ==
    ASSUME AsyncInv, NEW t \in Callers, ReadException(t), UNCHANGED fns
    PROVE  AsyncInv' /\ Drives(t)
<1>1. PICK c, h : /\ c = call[t] /\ h = c.task /\ c \in CallRecs /\ c.pc = "exception" /\ h \in Spawned
                  /\ t \in awaiters[h] /\ tasks[h] \in TaskRecs /\ frames[h] \in FrameRecs
                  /\ Shape /\ CallFits(t) /\ CallHolds(t) /\ FrameFits(h)
  BY CallFacts DEF ReadException
<1>2. PICK r \in CallRecs :
        /\ call' = [call EXCEPT ![t] = r]
        /\ r.pc = "return" /\ r.task = h /\ r.ret = tasks[h].exception
  <2>1. call' = [call EXCEPT ![t] = [c EXCEPT !.pc = "return", !.ret = tasks[h].exception]]
    BY <1>1 DEF ReadException, Shape
  <2>2. PICK v \in Value : v = tasks[h].exception
    BY <1>1 DEF TaskRecs
  <2>3. PICK r : r = [c EXCEPT !.pc = "return", !.ret = v]
    OBVIOUS
  <2>4. r \in CallRecs /\ r.pc = "return" /\ r.task = h /\ r.ret = v
    BY <1>1, <2>3 DEF CallRecs, Pcs
  <2> QED
    BY <2>1, <2>2, <2>3, <2>4
<1>3. /\ call' \in [Callers -> CallRecs] /\ call'[t] = r
      /\ \A u \in Callers \ {t} : call'[u] = call[u]
  BY <1>1, <1>2 DEF Shape
<1>4. UNCHANGED <<fns, tasks, frames, awaiters>>
  BY DEF ReadException
<1>5. call'[t].pc \in PollPcs =>
         \/ call[t].pc \in PollPcs /\ call'[t].task = call[t].task
         \/ tasks[call'[t].task].state \notin Settled
  BY <1>1, <1>2, <1>3 DEF PollPcs, BodyPcs, Settled
<1>6. \A a : FailedAway(a) => FailedAway(a)' /\ \A x : Carries(a, x) => Carries(a, x)'
  BY <1>3, <1>4, <1>5, CallMoves
<1>7. CallFits(t)'
  BY <1>1, <1>2, <1>3, <1>4 DEF CallFits, Spawned, BodyPcs
<1>8. CallHolds(t)'
  <2>1. Single(h)' => Single(h)
    BY <1>4 DEF Single
  <2> QED
    BY <1>1, <1>2, <1>3, <1>4, <1>6, <2>1 DEF CallHolds, PollPcs, BodyPcs, Settled
<1> QED
  BY <1>3, <1>4, <1>5, <1>7, <1>8, CallMoves

(* A cancelled task answers ERROR without an exception of its own, which   *)
(* is why the claim about errors is not made of cancelled tasks.           *)
LEMMA PollEntryInv ==
    ASSUME AsyncInv, NEW t \in Callers, PollEntry(t), UNCHANGED fns
    PROVE  AsyncInv' /\ Drives(t)
<1>1. PICK c, h : /\ c = call[t] /\ h = c.task /\ c \in CallRecs /\ c.pc = "poll"
                  /\ tasks[h].fn \in LoweredFns /\ Awaits[tasks[h].fn] > 0 /\ h \in Spawned
                  /\ t \in awaiters[h] /\ tasks[h] \in TaskRecs /\ frames[h] \in FrameRecs
                  /\ Shape /\ CallFits(t) /\ CallHolds(t) /\ FrameFits(h)
  BY CallFacts DEF PollEntry
<1>2. PICK r \in CallRecs :
        /\ call' = [call EXCEPT ![t] = r]
        /\ r.task = h
        /\ \/ r.pc = "dispatch"
           \/ r.pc = "record" /\ r.code = "ERROR" /\ tasks[h].cancelled
  <2>1. CASE Proceeds(tasks[h])
    <3>1. call' = [call EXCEPT ![t] = [c EXCEPT !.pc = "dispatch"]]
      BY <1>1, <2>1 DEF PollEntry, Goto, Shape
    <3>2. PICK r : r = [c EXCEPT !.pc = "dispatch"]
      OBVIOUS
    <3>3. r \in CallRecs /\ r.pc = "dispatch" /\ r.task = h
      BY <1>1, <3>2 DEF CallRecs, Pcs, PollPcs, BodyPcs
    <3> QED
      BY <3>1, <3>2, <3>3
  <2>2. CASE ~Proceeds(tasks[h])
    <3>1. tasks[h].cancelled /\ Answer(t, "ERROR")
      BY <1>1, <2>2 DEF PollEntry, Proceeds
    <3>2. PICK r : r = [At(t, "record") EXCEPT !.code = "ERROR"] /\ call' = [call EXCEPT ![t] = r]
      BY <3>1 DEF Answer
    <3>3. PICK q \in CallRecs : q = At(t, "record") /\ q.pc = "record" /\ q.task = h
      BY <1>1, AtFields DEF Pcs, PollPcs
    <3>4. r \in CallRecs /\ r.pc = "record" /\ r.task = h /\ r.code = "ERROR"
      BY <3>2, <3>3 DEF CallRecs, PollCodes
    <3> QED
      BY <3>1, <3>2, <3>4
  <2> QED
    BY <2>1, <2>2
<1>3. /\ call' \in [Callers -> CallRecs] /\ call'[t] = r
      /\ \A u \in Callers \ {t} : call'[u] = call[u]
  BY <1>1, <1>2 DEF Shape
<1>4. UNCHANGED <<fns, tasks, frames, awaiters>>
  BY DEF PollEntry
<1>5. call'[t].pc \in PollPcs =>
         \/ call[t].pc \in PollPcs /\ call'[t].task = call[t].task
         \/ tasks[call'[t].task].state \notin Settled
  BY <1>1, <1>2, <1>3 DEF PollPcs, BodyPcs, Settled
<1>6. \A a : FailedAway(a) => FailedAway(a)' /\ \A x : Carries(a, x) => Carries(a, x)'
  BY <1>3, <1>4, <1>5, CallMoves
<1>7. CallFits(t)'
  BY <1>1, <1>2, <1>3, <1>4 DEF CallFits, Spawned, BodyPcs
<1>8. CallHolds(t)'
  <2>1. Single(h)' => Single(h)
    BY <1>4 DEF Single
  <2> QED
    BY <1>1, <1>2, <1>3, <1>4, <1>6, <2>1 DEF CallHolds, PollPcs, BodyPcs, Settled
<1> QED
  BY <1>3, <1>4, <1>5, <1>7, <1>8, CallMoves

(* A body without awaits fails with nothing.                               *)
LEMMA TrivialPollInv ==
    ASSUME AsyncInv, NEW t \in Callers, TrivialPoll(t), UNCHANGED fns
    PROVE  AsyncInv' /\ Drives(t)
<1>1. PICK c, h : /\ c = call[t] /\ h = c.task /\ c \in CallRecs /\ c.pc = "poll" /\ h \in Spawned
                  /\ t \in awaiters[h] /\ tasks[h] \in TaskRecs /\ frames[h] \in FrameRecs
                  /\ Shape /\ CallFits(t) /\ CallHolds(t) /\ FrameFits(h)
  BY CallFacts DEF TrivialPoll
<1>2. PICK r \in CallRecs :
        /\ call' = [call EXCEPT ![t] = r]
        /\ r.task = h /\ r.pc = "record" /\ r.code = "READY"
  <2>1. PICK r : r = [At(t, "record") EXCEPT !.code = "READY"] /\ call' = [call EXCEPT ![t] = r]
    BY DEF TrivialPoll, Answer
  <2>2. PICK q \in CallRecs : q = At(t, "record") /\ q.pc = "record" /\ q.task = h
    BY <1>1, AtFields DEF Pcs, PollPcs
  <2>3. r \in CallRecs /\ r.pc = "record" /\ r.task = h /\ r.code = "READY"
    BY <2>1, <2>2 DEF CallRecs, PollCodes
  <2> QED
    BY <2>1, <2>3
<1>3. /\ call' \in [Callers -> CallRecs] /\ call'[t] = r
      /\ \A u \in Callers \ {t} : call'[u] = call[u]
  BY <1>1, <1>2 DEF Shape
<1>4. UNCHANGED <<fns, tasks, frames, awaiters>>
  BY DEF TrivialPoll
<1>5. call'[t].pc \in PollPcs =>
         \/ call[t].pc \in PollPcs /\ call'[t].task = call[t].task
         \/ tasks[call'[t].task].state \notin Settled
  BY <1>1, <1>2, <1>3 DEF PollPcs, BodyPcs, Settled
<1>6. \A a : FailedAway(a) => FailedAway(a)' /\ \A x : Carries(a, x) => Carries(a, x)'
  BY <1>3, <1>4, <1>5, CallMoves
<1>7. CallFits(t)'
  BY <1>1, <1>2, <1>3, <1>4 DEF CallFits, Spawned, BodyPcs
<1>8. CallHolds(t)'
  <2>1. Single(h)' => Single(h)
    BY <1>4 DEF Single
  <2> QED
    BY <1>1, <1>2, <1>3, <1>4, <1>6, <2>1 DEF CallHolds, PollPcs, BodyPcs, Settled
<1> QED
  BY <1>3, <1>4, <1>5, <1>7, <1>8, CallMoves

(* A failure that is seen is final: the only thread that could still record *)
(* something has recorded it.                                               *)
LEMMA SeenFailed ==
    ASSUME AsyncInv, NEW a, Lookup(a).state \in Failed
    PROVE  FailedAway(a)
<1>1. a \in Spawned /\ tasks[a].state \in Failed
  BY DEF Lookup, Unknown, Failed
<1>2. ASSUME Single(a)
      PROVE  ~Polled(a)
  <2> SUFFICES ASSUME NEW u \in Callers, call[u].task = a, call[u].pc \in PollPcs
               PROVE  FALSE
    BY DEF Polled
  <2>1. CallHolds(u) /\ call[u].pc # "idle"
    BY DEF AsyncInv, PollPcs, BodyPcs
  <2> QED
    BY <1>1, <1>2, <2>1 DEF CallHolds, Failed
<1> QED
  BY <1>1, <1>2 DEF FailedAway, Failed, Settled

(* Whether the task of a handle failed is a truth value a call can keep.    *)
LEMMA FailedFlag ==
    ASSUME NEW a
    PROVE  \E v \in BOOLEAN : /\ v = (Lookup(a).state \in Failed)
                              /\ v => Lookup(a).state \in Failed
<1>1. CASE Lookup(a).state \in Failed
  <2>1. TRUE = (Lookup(a).state \in Failed)
    BY <1>1
  <2> WITNESS TRUE \in BOOLEAN
  <2> QED
    BY <2>1, <1>1
<1>2. CASE ~(Lookup(a).state \in Failed)
  <2>1. FALSE = (Lookup(a).state \in Failed)
    BY <1>2
  <2> WITNESS FALSE \in BOOLEAN
  <2> QED
    BY <2>1
<1> QED
  BY <1>1, <1>2

(* The dispatch only chooses a state.                                      *)
LEMMA DispatchInv ==
    ASSUME AsyncInv, NEW t \in Callers, Dispatch(t), UNCHANGED fns
    PROVE  AsyncInv' /\ Drives(t)
<1>1. PICK c, h : /\ c = call[t] /\ h = c.task /\ c \in CallRecs /\ c.pc = "dispatch" /\ h \in Spawned
                  /\ t \in awaiters[h] /\ tasks[h] \in TaskRecs /\ frames[h] \in FrameRecs
                  /\ Shape /\ CallFits(t) /\ CallHolds(t) /\ FrameFits(h)
  BY CallFacts DEF Dispatch
<1>2. PICK r \in CallRecs :
        /\ call' = [call EXCEPT ![t] = r]
        /\ r.task = h /\ r.pc \in {"state_0", "resume"}
  <2>1. PICK p \in Pcs, n \in Nat :
          /\ p \in {"state_0", "resume"} /\ n = frames[h].state
          /\ p = IF frames[h].state = 0 THEN "state_0" ELSE "resume"
    BY <1>1 DEF FrameRecs, Pcs, PollPcs, BodyPcs
  <2>2. PICK r : r = [c EXCEPT !.at = n, !.pc = p]
    OBVIOUS
  <2>3. call' = [call EXCEPT ![t] = r]
    BY <1>1, <2>1, <2>2 DEF Dispatch, Shape
  <2>4. r \in CallRecs /\ r.pc = p /\ r.task = h
    BY <1>1, <2>2 DEF CallRecs
  <2> QED
    BY <2>1, <2>3, <2>4
<1>3. /\ call' \in [Callers -> CallRecs] /\ call'[t] = r
      /\ \A u \in Callers \ {t} : call'[u] = call[u]
  BY <1>1, <1>2 DEF Shape
<1>4. UNCHANGED <<fns, tasks, frames, awaiters>>
  BY DEF Dispatch
<1>5. call'[t].pc \in PollPcs =>
         \/ call[t].pc \in PollPcs /\ call'[t].task = call[t].task
         \/ tasks[call'[t].task].state \notin Settled
  BY <1>1, <1>2, <1>3 DEF PollPcs, BodyPcs, Settled
<1>6. \A a : FailedAway(a) => FailedAway(a)' /\ \A x : Carries(a, x) => Carries(a, x)'
  BY <1>3, <1>4, <1>5, CallMoves
<1>7. CallFits(t)'
  BY <1>1, <1>2, <1>3, <1>4 DEF CallFits, Spawned, BodyPcs
<1>8. CallHolds(t)'
  <2>1. Single(h)' => Single(h)
    BY <1>4 DEF Single
  <2> QED
    BY <1>1, <1>2, <1>3, <1>4, <1>6, <2>1 DEF CallHolds, PollPcs, BodyPcs, Settled
<1> QED
  BY <1>3, <1>4, <1>5, <1>7, <1>8, CallMoves

(* A call that returns has no claims left.                                 *)
LEMMA ReturnInv ==
    ASSUME AsyncInv, NEW t \in Callers, Return(t), UNCHANGED fns
    PROVE  AsyncInv' /\ Drives(t)
<1>1. PICK c, h : /\ c = call[t] /\ h = c.task /\ c \in CallRecs /\ c.pc = "return" /\ h \in Spawned
                  /\ t \in awaiters[h] /\ tasks[h] \in TaskRecs /\ frames[h] \in FrameRecs
                  /\ Shape /\ CallFits(t) /\ CallHolds(t) /\ FrameFits(h)
  BY CallFacts DEF Return
<1>2. PICK r \in CallRecs :
        /\ call' = [call EXCEPT ![t] = r]
        /\ r.pc = "idle"
  <2>1. NoCall \in CallRecs /\ NoCall.pc = "idle"
    BY DEF NoCall, CallRecs, PollCodes, Value, Pcs
  <2> QED
    BY <2>1 DEF Return
<1>3. /\ call' \in [Callers -> CallRecs] /\ call'[t] = r
      /\ \A u \in Callers \ {t} : call'[u] = call[u]
  BY <1>1, <1>2 DEF Shape
<1>4. UNCHANGED <<fns, tasks, frames, awaiters>>
  BY DEF Return
<1>5. call'[t].pc \in PollPcs =>
         \/ call[t].pc \in PollPcs /\ call'[t].task = call[t].task
         \/ tasks[call'[t].task].state \notin Settled
  BY <1>1, <1>2, <1>3 DEF PollPcs, BodyPcs, Settled
<1>6. \A a : FailedAway(a) => FailedAway(a)' /\ \A x : Carries(a, x) => Carries(a, x)'
  BY <1>3, <1>4, <1>5, CallMoves
<1>7. CallFits(t)'
  BY <1>1, <1>2, <1>3, <1>4 DEF CallFits, Spawned, BodyPcs
<1>8. CallHolds(t)'
  <2>1. Single(h)' => Single(h)
    BY <1>4 DEF Single
  <2> QED
    BY <1>1, <1>2, <1>3, <1>4, <1>6, <2>1 DEF CallHolds, PollPcs, BodyPcs, Settled
<1> QED
  BY <1>3, <1>4, <1>5, <1>7, <1>8, CallMoves

(* arth_rt_task_has_error: a failure that is seen is final.                *)
LEMMA HasErrorInv ==
    ASSUME AsyncInv, NEW t \in Callers, HasError(t), UNCHANGED fns
    PROVE  AsyncInv' /\ Drives(t)
<1>1. PICK c, h : /\ c = call[t] /\ h = c.task /\ c \in CallRecs /\ c.pc = "resume" /\ h \in Spawned
                  /\ t \in awaiters[h] /\ tasks[h] \in TaskRecs /\ frames[h] \in FrameRecs
                  /\ Shape /\ CallFits(t) /\ CallHolds(t) /\ FrameFits(h)
  BY CallFacts DEF HasError
<1>2. PICK r \in CallRecs :
        /\ call' = [call EXCEPT ![t] = r]
        /\ r.task = h /\ r.pc = "get_error" /\ r.aw = frames[h].awaited
        /\ r.failed => Lookup(r.aw).state \in Failed
  <2>1. PICK a \in Nat : a = frames[h].awaited
    BY <1>1 DEF FrameRecs
  <2>2. PICK v \in BOOLEAN : v = (Lookup(a).state \in Failed) /\ (v => Lookup(a).state \in Failed)
    BY FailedFlag
  <2>3. v \in BOOLEAN /\ (v => Lookup(a).state \in Failed)
    BY <2>2
  <2>4. PICK r : r = [c EXCEPT !.pc = "get_error", !.aw = a, !.failed = v]
    OBVIOUS
  <2>5. call' = [call EXCEPT ![t] = r]
    BY <1>1, <2>1, <2>4, <2>2 DEF HasError, Shape
  <2>6. r \in CallRecs /\ r.pc = "get_error" /\ r.task = h /\ r.aw = a /\ r.failed = v
    BY <1>1, <2>1, <2>4, <2>3 DEF CallRecs, Pcs, PollPcs, BodyPcs
  <2> QED
    BY <2>1, <2>3, <2>5, <2>6
<1>3. /\ call' \in [Callers -> CallRecs] /\ call'[t] = r
      /\ \A u \in Callers \ {t} : call'[u] = call[u]
  BY <1>1, <1>2 DEF Shape
<1>4. UNCHANGED <<fns, tasks, frames, awaiters>>
  BY DEF HasError
<1>5. call'[t].pc \in PollPcs =>
         \/ call[t].pc \in PollPcs /\ call'[t].task = call[t].task
         \/ tasks[call'[t].task].state \notin Settled
  BY <1>1, <1>2, <1>3 DEF PollPcs, BodyPcs, Settled
<1>6. \A a : FailedAway(a) => FailedAway(a)' /\ \A x : Carries(a, x) => Carries(a, x)'
  BY <1>3, <1>4, <1>5, CallMoves
<1>7. CallFits(t)'
  BY <1>1, <1>2, <1>3, <1>4 DEF CallFits, Spawned, BodyPcs
<1>8. CallHolds(t)'
  <2>1. Single(h)' => Single(h)
    BY <1>4 DEF Single
  <2>2. r.failed => FailedAway(r.aw)
    BY <1>2, SeenFailed
  <2>3. CallHolds(t)
    BY <1>1
  <2> QED
    BY <1>1, <1>2, <1>3, <1>4, <1>6, <2>1, <2>2 DEF CallHolds, PollPcs, BodyPcs
<1> QED
  BY <1>3, <1>4, <1>5, <1>7, <1>8, CallMoves

(* arth_rt_task_get_error: the exception read is that of the failure seen  *)
(* before, though the lock was released between.                           *)
LEMMA GetErrorInv ==
    ASSUME AsyncInv, NEW t \in Callers, GetError(t), UNCHANGED fns
    PROVE  AsyncInv' /\ Drives(t)
<1>1. PICK c, h : /\ c = call[t] /\ h = c.task /\ c \in CallRecs /\ c.pc = "get_error" /\ h \in Spawned
                  /\ t \in awaiters[h] /\ tasks[h] \in TaskRecs /\ frames[h] \in FrameRecs
                  /\ Shape /\ CallFits(t) /\ CallHolds(t) /\ FrameFits(h)
  BY CallFacts DEF GetError
<1>2. PICK r \in CallRecs :
        /\ call' = [call EXCEPT ![t] = r]
        /\ r.task = h /\ r.pc = "get_result" /\ r.aw = c.aw /\ r.failed = c.failed
        /\ r.err = Lookup(c.aw).exception
  <2>1. PICK v \in Value : v = Lookup(c.aw).exception
    BY <1>1 DEF Lookup, Unknown, Value, Shape, TaskRecs
  <2>2. PICK r : r = [c EXCEPT !.pc = "get_result", !.err = v]
    OBVIOUS
  <2>3. call' = [call EXCEPT ![t] = r]
    BY <1>1, <2>1, <2>2 DEF GetError, Shape
  <2>4. r \in CallRecs /\ r.pc = "get_result" /\ r.task = h /\ r.aw = c.aw /\ r.failed = c.failed
        /\ r.err = v
    BY <1>1, <2>2 DEF CallRecs, Pcs, PollPcs, BodyPcs
  <2> QED
    BY <2>1, <2>3, <2>4
<1>3. /\ call' \in [Callers -> CallRecs] /\ call'[t] = r
      /\ \A u \in Callers \ {t} : call'[u] = call[u]
  BY <1>1, <1>2 DEF Shape
<1>4. UNCHANGED <<fns, tasks, frames, awaiters>>
  BY DEF GetError
<1>5. call'[t].pc \in PollPcs =>
         \/ call[t].pc \in PollPcs /\ call'[t].task = call[t].task
         \/ tasks[call'[t].task].state \notin Settled
  BY <1>1, <1>2, <1>3 DEF PollPcs, BodyPcs, Settled
<1>6. \A a : FailedAway(a) => FailedAway(a)' /\ \A x : Carries(a, x) => Carries(a, x)'
  BY <1>3, <1>4, <1>5, CallMoves
<1>7. CallFits(t)'
  BY <1>1, <1>2, <1>3, <1>4 DEF CallFits, Spawned, BodyPcs
<1>8. CallHolds(t)'
  <2>1. Single(h)' => Single(h)
    BY <1>4 DEF Single
  <2>2. Single(h) => /\ c.aw = frames[h].awaited
                     /\ c.failed => FailedAway(c.aw) /\ Carries(c.aw, r.err)
    BY <1>1, <1>2 DEF CallHolds, FailedAway, Carries, Lookup
  <2>3. Single(h) => \/ tasks[h].state \in {"Ready", "Waiting"}
                     \/ tasks[h].state = "Cancelled" /\ tasks[h].cancelled
    BY <1>1 DEF CallHolds, PollPcs, BodyPcs
  <2> QED
    BY <1>1, <1>2, <1>3, <1>4, <1>6, <2>1, <2>2, <2>3 DEF CallHolds
<1> QED
  BY <1>3, <1>4, <1>5, <1>7, <1>8, CallMoves

(* arth_rt_task_get_result leaves what is known of the error alone.        *)
LEMMA GetResultInv ==
    ASSUME AsyncInv, NEW t \in Callers, GetResult(t), UNCHANGED fns
    PROVE  AsyncInv' /\ Drives(t)
<1>1. PICK c, h : /\ c = call[t] /\ h = c.task /\ c \in CallRecs /\ c.pc = "get_result" /\ h \in Spawned
                  /\ t \in awaiters[h] /\ tasks[h] \in TaskRecs /\ frames[h] \in FrameRecs
                  /\ Shape /\ CallFits(t) /\ CallHolds(t) /\ FrameFits(h)
  BY CallFacts DEF GetResult
<1>2. PICK r \in CallRecs :
        /\ call' = [call EXCEPT ![t] = r]
        /\ r.task = h /\ r.pc \in {"last", "inter"} /\ r.aw = c.aw /\ r.failed = c.failed
        /\ r.err = c.err /\ r.at = c.at
        /\ r.pc = "inter" => r.at < Awaits[tasks[h].fn]
  <2>1. PICK v \in Value, p \in {"last", "inter"} :
          /\ v = Lookup(c.aw).result /\ p = IF IsLastAwait(t) THEN "last" ELSE "inter"
    BY <1>1 DEF Lookup, Unknown, Value, Shape, TaskRecs
  <2>2. PICK r : r = [c EXCEPT !.pc = p, !.res = v]
    OBVIOUS
  <2>3. call' = [call EXCEPT ![t] = r]
    BY <1>1, <2>1, <2>2 DEF GetResult, Shape
  <2>4. r \in CallRecs /\ r.pc = p /\ r.task = h /\ r.aw = c.aw /\ r.failed = c.failed
        /\ r.err = c.err /\ r.at = c.at
    BY <1>1, <2>2 DEF CallRecs, Pcs, PollPcs, BodyPcs
  <2>5. p = "inter" => c.at < Awaits[tasks[h].fn]
    BY <1>1, <2>1, AsyncAssumption DEF IsLastAwait, CallRecs, CallFits, BodyPcs
  <2> QED
    BY <2>1, <2>3, <2>4, <2>5
<1>3. /\ call' \in [Callers -> CallRecs] /\ call'[t] = r
      /\ \A u \in Callers \ {t} : call'[u] = call[u]
  BY <1>1, <1>2 DEF Shape
<1>4. UNCHANGED <<fns, tasks, frames, awaiters>>
  BY DEF GetResult
<1>5. call'[t].pc \in PollPcs =>
         \/ call[t].pc \in PollPcs /\ call'[t].task = call[t].task
         \/ tasks[call'[t].task].state \notin Settled
  BY <1>1, <1>2, <1>3 DEF PollPcs, BodyPcs, Settled
<1>6. \A a : FailedAway(a) => FailedAway(a)' /\ \A x : Carries(a, x) => Carries(a, x)'
  BY <1>3, <1>4, <1>5, CallMoves
<1>7. CallFits(t)'
  BY <1>1, <1>2, <1>3, <1>4 DEF CallFits, Spawned, BodyPcs
<1>8. CallHolds(t)'
  <2>1. Single(h)' => Single(h)
    BY <1>4 DEF Single
  <2>2. Single(h) => /\ c.aw = frames[h].awaited
                     /\ c.failed => FailedAway(c.aw) /\ Carries(c.aw, r.err)
    BY <1>1, <1>2 DEF CallHolds
  <2>3. Single(h) => \/ tasks[h].state \in {"Ready", "Waiting"}
                     \/ tasks[h].state = "Cancelled" /\ tasks[h].cancelled
    BY <1>1 DEF CallHolds, PollPcs, BodyPcs
  <2> QED
    BY <1>1, <1>2, <1>3, <1>4, <1>6, <2>1, <2>2, <2>3 DEF CallHolds
<1> QED
  BY <1>3, <1>4, <1>5, <1>7, <1>8, CallMoves

(* Handles are numbered without gaps, so the next one is new.               *)
LEMMA NextIsNew ==
    ASSUME Shape, NextHandle <= MaxTasks
    PROVE  /\ NextHandle \in Nat \ {0} /\ NextHandle \notin Spawned
           /\ \E m \in 0 .. MaxTasks : Spawned \cup {NextHandle} = 1 .. m
<1>1. PICK n \in 0 .. MaxTasks : Spawned = 1 .. n
  BY DEF Shape
<1>2. Cardinality(Spawned) = n
  BY <1>1, FS_Interval, AsyncAssumption
<1>3. NextHandle = n + 1 /\ n + 1 \in 0 .. MaxTasks
  BY <1>1, <1>2, AsyncAssumption DEF NextHandle
<1>4. Spawned \cup {n + 1} = 1 .. (n + 1)
  BY <1>1, AsyncAssumption
<1> QED
  BY <1>1, <1>3, <1>4, AsyncAssumption

(* A task is added, with its frame.                                         *)
LEMMA TaskAdded ==
    ASSUME Shape, NEW f \in Fns, NextHandle <= MaxTasks,
           tasks' = Extend(tasks, NextHandle, NewTask(f)),
           awaiters' = Extend(awaiters, NextHandle, {})
    PROVE  /\ Spawned' = Spawned \cup {NextHandle}
           /\ tasks' \in [Spawned' -> TaskRecs] /\ awaiters' \in [Spawned' -> SUBSET Callers]
           /\ tasks'[NextHandle].state = "Ready" /\ awaiters'[NextHandle] = {}
           /\ \A h \in Spawned : tasks'[h] = tasks[h] /\ awaiters'[h] = awaiters[h]
           /\ Extend(frames, NextHandle, NewFrame) \in [Spawned' -> FrameRecs]
           /\ Extend(frames, NextHandle, NewFrame)[NextHandle] = NewFrame
           /\ \A h \in Spawned : Extend(frames, NextHandle, NewFrame)[h] = frames[h]
<1>1. NextHandle \notin Spawned
  BY NextIsNew
<1>2. NewTask(f) \in TaskRecs /\ NewTask(f).state = "Ready"
  BY DEF NewTask, TaskRecs, TaskStates, Value
<1>3. NewFrame \in FrameRecs
  BY DEF NewFrame, FrameRecs, Value
<1>4. /\ tasks \in [Spawned -> TaskRecs] /\ frames \in [Spawned -> FrameRecs]
      /\ awaiters \in [Spawned -> SUBSET Callers] /\ {} \in SUBSET Callers
  BY DEF Shape
<1>5. PICK n, v, w : n = NextHandle /\ v = NewTask(f) /\ w = NewFrame
  OBVIOUS
<1>6. /\ tasks' \in [Spawned \cup {n} -> TaskRecs] /\ tasks'[n] = v
      /\ \A h \in Spawned : tasks'[h] = tasks[h]
  BY <1>1, <1>2, <1>4, <1>5 DEF Extend
<1>7. Spawned' = Spawned \cup {n}
  BY <1>6 DEF Spawned
<1>8. /\ awaiters' \in [Spawned \cup {n} -> SUBSET Callers] /\ awaiters'[n] = {}
      /\ \A h \in Spawned : awaiters'[h] = awaiters[h]
  BY <1>1, <1>4, <1>5 DEF Extend
<1>9. /\ Extend(frames, n, w) \in [Spawned \cup {n} -> FrameRecs]
      /\ Extend(frames, n, w)[n] = w
      /\ \A h \in Spawned : Extend(frames, n, w)[h] = frames[h]
  BY <1>1, <1>3, <1>4, <1>5 DEF Extend
<1> QED
  BY <1>2, <1>5, <1>6, <1>7, <1>8, <1>9

(* A program consists of functions.                                        *)
LEMMA FnsAreFns ==
    ASSUME Shape
    PROVE  fns \subseteq Fns
BY AsyncAssumption DEF Shape, Fns

(* arth_rt_task_spawn_fn: a new task is Ready, and nobody knows it yet.    *)
LEMMA SpawnTaskInv ==
    ASSUME AsyncInv, NEW t \in Callers, NEW f \in fns, Spawn(t, f), UNCHANGED fns
    PROVE  AsyncInv' /\ Drives(t)
<1>1. Shape
  BY DEF AsyncInv
<1>2. PICK n : n = NextHandle /\ n \in Nat \ {0} /\ n \notin Spawned
               /\ \E m \in 0 .. MaxTasks : Spawned \cup {n} = 1 .. m
  BY <1>1, NextIsNew DEF Spawn, AddTask
<1>3. /\ Spawned' = Spawned \cup {n}
      /\ tasks' \in [Spawned' -> TaskRecs] /\ awaiters' \in [Spawned' -> SUBSET Callers]
      /\ tasks'[n].state = "Ready" /\ awaiters'[n] = {}
      /\ \A h \in Spawned : tasks'[h] = tasks[h] /\ awaiters'[h] = awaiters[h]
      /\ frames' \in [Spawned' -> FrameRecs] /\ frames'[n] = NewFrame
      /\ \A h \in Spawned : frames'[h] = frames[h]
  BY <1>1, <1>2, FnsAreFns, TaskAdded DEF Spawn, AddTask
<1>4. call' = call /\ call[t].pc = "idle"
  BY DEF Spawn
<1>5. FrameFits(n)'
  BY <1>2, <1>3, AsyncAssumption DEF FrameFits, NewFrame, TaskRecs, Fns
<1>6. \A h \in Spawned : FrameFits(h)'
  BY <1>1, <1>3 DEF Shape, FrameFits
<1>7. Shape'
  <2>1. IsFiniteSet({})
    BY FS_EmptySet
  <2>2. \A h \in Spawned' : IsFiniteSet(awaiters'[h]) /\ FrameFits(h)'
    BY <1>1, <1>3, <1>5, <1>6, <2>1 DEF Shape
  <2> QED
    BY <1>1, <1>2, <1>3, <1>4, <2>2 DEF Shape
<1>8. Drives(t)
  BY <1>3, <1>4 DEF Drives, Stays, PollPcs, BodyPcs
<1>9. CallFits(t)' /\ CallHolds(t)'
  BY <1>4 DEF CallFits, CallHolds
<1> QED
  BY <1>4, <1>7, <1>8, <1>9, StepKeeps DEF PollPcs, BodyPcs

(* A cancel marks a task, whatever its state was.                           *)
LEMMA CancelledFacts ==
    ASSUME Shape, NEW k \in Spawned, tasks' = Cancelled(k)
    PROVE  /\ Spawned' = Spawned /\ tasks' \in [Spawned -> TaskRecs]
           /\ tasks'[k].state = "Cancelled" /\ tasks'[k].cancelled
           /\ \A h \in Spawned :
                /\ tasks'[h].fn = tasks[h].fn /\ tasks'[h].result = tasks[h].result
                /\ tasks'[h].exception = tasks[h].exception
                /\ h # k => tasks'[h] = tasks[h]
<1>1. PICK r : r = [tasks[k] EXCEPT !.cancelled = TRUE, !.state = "Cancelled"]
               /\ tasks' = [tasks EXCEPT ![k] = r]
  BY DEF Cancelled, Shape
<1>2. /\ r \in TaskRecs /\ r.fn = tasks[k].fn /\ r.result = tasks[k].result
      /\ r.exception = tasks[k].exception /\ r.state = "Cancelled" /\ r.cancelled
  <2>1. PICK q \in TaskRecs : q = tasks[k]
    BY DEF Shape
  <2> QED
    BY <1>1, <2>1 DEF TaskRecs, TaskStates
<1> QED
  BY <1>1, <1>2 DEF Shape, Spawned

(* arth_rt_task_cancel: a failure somebody saw is still a failure or       *)
(* cancelled, with the exception it had.                                   *)
LEMMA CancelInv ==
    ASSUME AsyncInv, NEW t \in Callers, NEW k, Cancel(t, k), UNCHANGED fns
    PROVE  AsyncInv' /\ Drives(t)
<1>1. Shape /\ k \in Spawned /\ tasks' = Cancelled(k) /\ call[t].pc = "idle"
      /\ UNCHANGED <<frames, call, awaiters>>
  BY DEF AsyncInv, Cancel
<1>2. /\ Spawned' = Spawned /\ tasks' \in [Spawned -> TaskRecs]
      /\ tasks'[k].state = "Cancelled" /\ tasks'[k].cancelled
      /\ \A h \in Spawned :
           /\ tasks'[h].fn = tasks[h].fn /\ tasks'[h].result = tasks[h].result
           /\ tasks'[h].exception = tasks[h].exception
           /\ h # k => tasks'[h] = tasks[h]
  BY <1>1, CancelledFacts
<1>3. Shape'
  <2>1. \A h \in Spawned : FrameFits(h)'
    BY <1>1, <1>2 DEF Shape, FrameFits
  <2> QED
    BY <1>1, <1>2, <2>1 DEF Shape
<1>4. Drives(t)
  <2>1. \A h \in Spawned : Stays(h)
    BY <1>1, <1>2 DEF Stays
  <2> QED
    BY <1>1, <1>2, <2>1 DEF Drives, PollPcs, BodyPcs
<1>5. CallFits(t)' /\ CallHolds(t)'
  BY <1>1 DEF CallFits, CallHolds
<1> QED
  BY <1>1, <1>3, <1>4, <1>5, StepKeeps DEF PollPcs, BodyPcs

(* arth_rt_await: one more thread awaits the task, so what was claimed of  *)
(* it alone may be given up.                                               *)
LEMMA AwaitInv ==
    ASSUME AsyncInv, NEW t \in Callers, NEW h, NEW join \in BOOLEAN, Await(t, h, join),
           UNCHANGED fns
    PROVE  AsyncInv' /\ Drives(t)
<1>1. Shape /\ h \in Spawned /\ call[t].pc = "idle" /\ UNCHANGED <<tasks, frames>>
      /\ awaiters' = [awaiters EXCEPT ![h] = @ \cup {t}]
  BY DEF AsyncInv, Await
<1>2. PICK r : r = [NoCall EXCEPT !.pc = "read", !.task = h, !.join = join]
               /\ call' = [call EXCEPT ![t] = r]
  BY DEF Await
<1>3. h \in Nat
  BY <1>1 DEF Shape
<1>4. r \in CallRecs /\ r.pc = "read" /\ r.task = h
  BY <1>2, <1>3 DEF NoCall, CallRecs, PollCodes, Value, Pcs
<1>5. /\ call' \in [Callers -> CallRecs] /\ call'[t] = r
      /\ \A u \in Callers \ {t} : call'[u] = call[u]
  BY <1>1, <1>2, <1>4 DEF Shape
<1>6. /\ awaiters' \in [Spawned -> SUBSET Callers] /\ t \in awaiters'[h] /\ Spawned' = Spawned
      /\ \A g \in Spawned : awaiters[g] \subseteq awaiters'[g] /\ IsFiniteSet(awaiters'[g])
  <2>1. IsFiniteSet(awaiters[h] \cup {t})
    BY <1>1, FS_AddElement DEF Shape
  <2> QED
    BY <1>1, <2>1 DEF Shape, Spawned
<1>7. Shape'
  BY <1>1, <1>5, <1>6 DEF Shape, FrameFits
<1>8. Drives(t)
  BY <1>1, <1>4, <1>5, <1>6 DEF Drives, Stays, PollPcs, BodyPcs
<1>9. CallFits(t)' /\ CallHolds(t)'
  BY <1>1, <1>4, <1>5, <1>6 DEF CallFits, CallHolds, PollPcs, BodyPcs
<1> QED
  BY <1>1, <1>7, <1>8, <1>9, StepKeeps DEF PollPcs, BodyPcs


(* A step of t that moves the task it polls, or only its frame.             *)
LEMMA TaskMoves ==
    ASSUME Shape, NEW t \in Callers, NEW h, h = call[t].task, h \in Spawned,
           call[t].pc \in PollPcs, UNCHANGED <<fns, awaiters>>,
           call' \in [Callers -> CallRecs],
           \A u \in Callers \ {t} : call'[u] = call[u],
           call'[t].pc \in PollPcs => call'[t].task = h,
           NEW v \in TaskRecs, v.fn = tasks[h].fn, tasks' = [tasks EXCEPT ![h] = v],
           NEW w \in FrameRecs, frames' = [frames EXCEPT ![h] = w],
           FrameFits(h)'
    PROVE  /\ Drives(t) /\ Shape' /\ Spawned' = Spawned
           /\ tasks'[h] = v /\ frames'[h] = w
<1>1. /\ Spawned' = Spawned
      /\ tasks' \in [Spawned -> TaskRecs] /\ frames' \in [Spawned -> FrameRecs]
      /\ tasks'[h] = v /\ frames'[h] = w
      /\ \A g \in Spawned \ {h} : tasks'[g] = tasks[g] /\ frames'[g] = frames[g]
  BY DEF Shape, Spawned
<1>2. \A g \in Spawned : FrameFits(g)'
  BY <1>1 DEF Shape, FrameFits
<1>3. Shape'
  BY <1>1, <1>2 DEF Shape
<1>4. Drives(t)
  BY <1>1 DEF Drives, Stays
<1> QED
  BY <1>1, <1>3, <1>4

(* A task without poll function counts as completed.                       *)
LEMMA UnregisteredInv ==
    ASSUME AsyncInv, NEW t \in Callers, Unregistered(t), UNCHANGED fns
    PROVE  AsyncInv' /\ Drives(t)
<1>1. PICK c, h : /\ c = call[t] /\ h = c.task /\ c \in CallRecs /\ c.pc = "unregistered"
                  /\ h \in Spawned
                  /\ t \in awaiters[h] /\ tasks[h] \in TaskRecs /\ frames[h] \in FrameRecs
                  /\ Shape /\ CallFits(t) /\ CallHolds(t) /\ FrameFits(h)
  BY CallFacts DEF Unregistered
<1>2. PICK r \in CallRecs :
        /\ call' = [call EXCEPT ![t] = r]
        /\ r.pc = "return" /\ r.task = h /\ r.ret = c.ret
  <2>1. PICK r : r = [c EXCEPT !.pc = "return"]
    OBVIOUS
  <2>2. call' = [call EXCEPT ![t] = r]
    BY <1>1, <2>1 DEF Unregistered, Goto, Shape
  <2>3. r \in CallRecs /\ r.pc = "return" /\ r.task = h /\ r.ret = c.ret
    BY <1>1, <2>1 DEF CallRecs, Pcs
  <2> QED
    BY <2>2, <2>3
<1>3. PICK v \in TaskRecs :
        /\ tasks' = [tasks EXCEPT ![h] = v]
        /\ v.fn = tasks[h].fn /\ v.state = "Completed" /\ v.result = tasks[h].result
        /\ v.cancelled = tasks[h].cancelled
  <2>1. PICK q \in TaskRecs : q = tasks[h]
    BY <1>1
  <2>2. PICK v : v = [q EXCEPT !.state = "Completed"]
    OBVIOUS
  <2>3. tasks' = [tasks EXCEPT ![h] = v]
    BY <1>1, <2>1, <2>2 DEF Unregistered, Shape
  <2>4. v \in TaskRecs /\ v.fn = q.fn /\ v.state = "Completed" /\ v.result = q.result
        /\ v.cancelled = q.cancelled
    BY <2>1, <2>2 DEF TaskRecs, TaskStates
  <2> QED
    BY <2>1, <2>3, <2>4
<1>4. /\ call' \in [Callers -> CallRecs] /\ call'[t] = r
      /\ \A u \in Callers \ {t} : call'[u] = call[u]
  BY <1>1, <1>2 DEF Shape
<1>5. UNCHANGED <<fns, awaiters>> /\ frames' = [frames EXCEPT ![h] = frames[h]]
      /\ frames' = frames
  BY <1>1 DEF Unregistered, Shape
<1>6. tasks'[h] = v
  BY <1>1, <1>3 DEF Shape, Spawned
<1>7. FrameFits(h)'
  BY <1>1, <1>3, <1>5, <1>6 DEF FrameFits, Spawned
<1>8. Drives(t) /\ Shape' /\ Spawned' = Spawned
  BY <1>1, <1>2, <1>3, <1>4, <1>5, <1>7, TaskMoves DEF PollPcs
<1>9. CallFits(t)'
  BY <1>1, <1>2, <1>4, <1>5, <1>8 DEF CallFits, BodyPcs
<1>10. CallHolds(t)'
  <2>1. Single(h)' => Single(h)
    BY <1>5 DEF Single
  <2> QED
    BY <1>1, <1>2, <1>3, <1>4, <1>6, <2>1 DEF CallHolds, PollPcs, BodyPcs
<1>11. ErrorHolds(h)'
  BY <1>3, <1>6 DEF ErrorHolds
<1> QED
  BY <1>1, <1>8, <1>9, <1>10, <1>11, StepKeeps

(* What the registry keeps of an answer.                                    *)
LEMMA RecordedFacts ==
    ASSUME NEW q \in TaskRecs, NEW w \in FrameRecs, NEW code \in PollCodes
    PROVE  /\ Recorded(q, w, code) \in TaskRecs
           /\ Recorded(q, w, code).fn = q.fn
           /\ Recorded(q, w, code).cancelled = q.cancelled
           /\ code = "ERROR" => Recorded(q, w, code).exception = w.exception
           /\ code \in {"READY", "PENDING"} => Recorded(q, w, code).state # "Error"
<1>1. PICK v : v = Recorded(q, w, code)
  OBVIOUS
<1>2. CASE code = "READY"
  <2>1. v = [q EXCEPT !.state = "Completed", !.result = w.result]
    BY <1>1, <1>2 DEF Recorded
  <2> QED
    BY <1>1, <1>2, <2>1 DEF TaskRecs, FrameRecs, TaskStates
<1>3. CASE code = "PENDING"
  <2>1. v = [q EXCEPT !.state = "Waiting"]
    BY <1>1, <1>3 DEF Recorded
  <2> QED
    BY <1>1, <1>3, <2>1 DEF TaskRecs, TaskStates
<1>4. CASE code = "CANCELLED"
  <2>1. v = [q EXCEPT !.state = "Cancelled"]
    BY <1>1, <1>4 DEF Recorded
  <2> QED
    BY <1>1, <1>4, <2>1 DEF TaskRecs, TaskStates
<1>5. CASE code = "PANICKED"
  <2>1. v = [q EXCEPT !.state = "Panicked", !.exception = w.exception]
    BY <1>1, <1>5 DEF Recorded
  <2> QED
    BY <1>1, <1>5, <2>1 DEF TaskRecs, FrameRecs, TaskStates
<1>6. CASE code = "ERROR"
  <2>1. v = [q EXCEPT !.state = "Error", !.exception = w.exception]
    BY <1>1, <1>6 DEF Recorded
  <2> QED
    BY <1>1, <1>6, <2>1 DEF TaskRecs, FrameRecs, TaskStates
<1>7. CASE code = "unknown"
  <2>1. v = [q EXCEPT !.state = "Error"]
    BY <1>1, <1>7 DEF Recorded
  <2> QED
    BY <1>1, <1>7, <2>1 DEF TaskRecs, TaskStates
<1> QED
  BY <1>2, <1>3, <1>4, <1>5, <1>6, <1>7 DEF PollCodes

(* arth_rt_await records an answer: an ERROR comes with the exception in   *)
(* the frame, which is that of the awaited task.                           *)
LEMMA RecordPollInv ==
    ASSUME AsyncInv, NEW t \in Callers, RecordPoll(t), UNCHANGED fns
    PROVE  AsyncInv' /\ Drives(t)
<1>1. PICK c, h : /\ c = call[t] /\ h = c.task /\ c \in CallRecs /\ c.pc = "record"
                  /\ h \in Spawned
                  /\ t \in awaiters[h] /\ tasks[h] \in TaskRecs /\ frames[h] \in FrameRecs
                  /\ Shape /\ CallFits(t) /\ CallHolds(t) /\ FrameFits(h)
  BY CallFacts DEF RecordPoll
<1>2. PICK r \in CallRecs :
        /\ call' = [call EXCEPT ![t] = r]
        /\ r.pc = "read" /\ r.task = h
  BY <1>1, AtFields DEF RecordPoll, Pcs
<1>3. PICK v \in TaskRecs :
        /\ tasks' = [tasks EXCEPT ![h] = v]
        /\ v.fn = tasks[h].fn /\ v.cancelled = tasks[h].cancelled
        /\ c.code = "ERROR" => v.exception = frames[h].exception
        /\ c.code \in {"READY", "PENDING"} => v.state # "Error"
  <2>1. PICK q \in TaskRecs, w \in FrameRecs, code \in PollCodes :
          q = tasks[h] /\ w = frames[h] /\ code = c.code
    BY <1>1 DEF CallRecs
  <2>2. PICK v : v = Recorded(q, w, code)
    OBVIOUS
  <2>3. tasks' = [tasks EXCEPT ![h] = v]
    BY <1>1, <2>1, <2>2 DEF RecordPoll, Shape
  <2> QED
    BY <2>1, <2>2, <2>3, RecordedFacts
<1>4. /\ call' \in [Callers -> CallRecs] /\ call'[t] = r
      /\ \A u \in Callers \ {t} : call'[u] = call[u]
  BY <1>1, <1>2 DEF Shape
<1>5. UNCHANGED <<fns, awaiters>> /\ frames' = [frames EXCEPT ![h] = frames[h]]
      /\ frames' = frames
  BY <1>1 DEF RecordPoll, Shape
<1>6. tasks'[h] = v
  BY <1>1, <1>3 DEF Shape, Spawned
<1>7. FrameFits(h)'
  BY <1>1, <1>3, <1>5, <1>6 DEF FrameFits, Spawned
<1>8. Drives(t) /\ Shape' /\ Spawned' = Spawned
  BY <1>1, <1>2, <1>3, <1>4, <1>5, <1>7, TaskMoves DEF PollPcs, BodyPcs
<1>9. CallFits(t)'
  BY <1>1, <1>2, <1>4, <1>5, <1>8 DEF CallFits, BodyPcs
<1>10. CallHolds(t)'
  BY <1>2, <1>4 DEF CallHolds, PollPcs, BodyPcs
<1>11. ErrorHolds(h)'
  <2> SUFFICES ASSUME v.fn \in LoweredFns, v.state = "Error", ~v.cancelled, Single(h)'
               PROVE  /\ FailedAway(frames[h].awaited)'
                      /\ Carries(frames[h].awaited, tasks[h].exception)'
    BY <1>6 DEF ErrorHolds
  <2>1. Single(h) /\ c.code = "ERROR" /\ ~tasks[h].cancelled /\ tasks[h].fn \in LoweredFns
    BY <1>1, <1>3, <1>5 DEF Single, CallFits
  <2>2. PICK a, x : a = frames[h].awaited /\ x = frames[h].exception
    OBVIOUS
  <2>3. FailedAway(a) /\ Carries(a, x)
    BY <1>1, <2>1, <2>2 DEF CallHolds
  <2>4. FailedAway(a)' /\ Carries(a, x)'
    BY <1>1, <1>8, <2>3, FailureStays
  <2> QED
    BY <1>3, <1>5, <1>6, <2>1, <2>2, <2>4
<1> QED
  BY <1>1, <1>8, <1>9, <1>10, <1>11, StepKeeps


(* The same for a step that moves only the frame.                          *)
LEMMA FrameMoves ==
    ASSUME Shape, NEW t \in Callers, NEW h, h = call[t].task, h \in Spawned,
           call[t].pc \in PollPcs, UNCHANGED <<fns, tasks, awaiters>>,
           call' \in [Callers -> CallRecs],
           \A u \in Callers \ {t} : call'[u] = call[u],
           call'[t].pc \in PollPcs => call'[t].task = h,
           NEW w \in FrameRecs, frames' = [frames EXCEPT ![h] = w],
           FrameFits(h)'
    PROVE  Drives(t) /\ Shape' /\ Spawned' = Spawned /\ frames'[h] = w
<1>1. /\ Spawned' = Spawned /\ frames' \in [Spawned -> FrameRecs] /\ frames'[h] = w
      /\ \A g \in Spawned \ {h} : frames'[g] = frames[g]
  BY DEF Shape, Spawned
<1>2. \A g \in Spawned : FrameFits(g)'
  BY <1>1 DEF Shape, FrameFits
<1>3. Shape'
  BY <1>1, <1>2 DEF Shape
<1>4. Drives(t)
  BY <1>1 DEF Drives, Stays
<1> QED
  BY <1>1, <1>3, <1>4

(* A poll answers, with the frame it leaves.                                *)
LEMMA PollAnswers ==
    ASSUME AsyncInv, NEW t \in Callers, UNCHANGED <<fns, tasks, awaiters>>,
           call[t].pc \in PollPcs, NEW h, h = call[t].task,
           NEW code \in PollCodes, Answer(t, code),
           NEW w \in FrameRecs, frames' = [frames EXCEPT ![h] = w], FrameFits(h)',
           tasks[h].fn \in LoweredFns => code \in {"READY", "PENDING", "ERROR"},
           (tasks[h].fn \in LoweredFns /\ code = "ERROR" /\ Single(h) /\ ~tasks[h].cancelled) =>
              FailedAway(w.awaited) /\ Carries(w.awaited, w.exception)
    PROVE  AsyncInv' /\ Drives(t)
<1>1. /\ Shape /\ CallFits(t) /\ CallHolds(t) /\ FrameFits(h) /\ h \in Spawned
      /\ tasks[h] \in TaskRecs /\ t \in awaiters[h]
  BY DEF AsyncInv, Shape, CallFits, PollPcs, BodyPcs
<1>2. /\ call' \in [Callers -> CallRecs]
      /\ \A u \in Callers \ {t} : call'[u] = call[u]
      /\ call'[t].pc = "record" /\ call'[t].task = h /\ call'[t].code = code
  BY <1>1, AnswerFields
<1>5. Drives(t) /\ Shape' /\ Spawned' = Spawned /\ frames'[h] = w
  BY <1>1, <1>2, FrameMoves
<1>6. CallFits(t)'
  BY <1>1, <1>2, <1>5 DEF CallFits, BodyPcs
<1>7. Single(h)' => Single(h)
  BY DEF Single
<1>8. CallHolds(t)'
  <2>1. Single(h) => \/ tasks[h].state \in {"Ready", "Waiting"}
                     \/ tasks[h].state = "Cancelled" /\ tasks[h].cancelled
    BY <1>1 DEF CallHolds, PollPcs, BodyPcs
  <2>3. PICK a, x : a = w.awaited /\ x = w.exception
    OBVIOUS
  <2>4. (tasks[h].fn \in LoweredFns /\ code = "ERROR" /\ Single(h) /\ ~tasks[h].cancelled) =>
              FailedAway(a)' /\ Carries(a, x)'
    BY <1>1, <1>5, <2>3, FailureStays
  <2> QED
    BY <1>2, <1>5, <1>7, <2>1, <2>3, <2>4 DEF CallHolds
<1>9. ErrorHolds(h)'
  BY <1>1, <1>7 DEF CallHolds, ErrorHolds, PollPcs, BodyPcs
<1> QED
  BY <1>5, <1>6, <1>8, <1>9, StepKeeps

(* Poll functions of another origin answer what they like.                 *)
LEMMA ExtPollInv ==
    ASSUME AsyncInv, NEW t \in Callers, ExtPoll(t), UNCHANGED fns
    PROVE  AsyncInv' /\ Drives(t)
<1>1. PICK c, h : /\ c = call[t] /\ h = c.task /\ c \in CallRecs /\ c.pc = "poll"
                  /\ h \in Spawned /\ tasks[h].fn \in ExtFns
                  /\ t \in awaiters[h] /\ tasks[h] \in TaskRecs /\ frames[h] \in FrameRecs
                  /\ Shape /\ CallFits(t) /\ CallHolds(t) /\ FrameFits(h)
  BY CallFacts DEF ExtPoll
<1>2. PICK q \in FrameRecs : q = frames[h]
  BY <1>1
<1>3. PICK code \in PollCodes, w \in FrameRecs :
        /\ frames' = [frames EXCEPT ![h] = w] /\ Answer(t, code)
        /\ w.awaited = q.awaited /\ w.state \in 0 .. MaxPend
  <2>0. q.state \in 0 .. MaxPend
    BY <1>1, <1>2 DEF FrameFits
  <2>1. CASE /\ frames[h].state < MaxPend
             /\ frames' = [frames EXCEPT ![h].state = @ + 1] /\ Answer(t, "PENDING")
    <3>1. PICK w : w = [q EXCEPT !.state = q.state + 1]
      OBVIOUS
    <3>2. frames' = [frames EXCEPT ![h] = w]
      BY <1>1, <1>2, <2>1, <3>1 DEF Shape
    <3>3. w \in FrameRecs /\ w.awaited = q.awaited /\ w.state \in 0 .. MaxPend
      BY <1>2, <2>0, <2>1, <3>1, AsyncAssumption DEF FrameRecs
    <3> QED
      BY <2>1, <3>2, <3>3 DEF PollCodes
  <2>2. CASE frames' = [frames EXCEPT ![h].result = Result] /\ Answer(t, "READY")
    <3>1. PICK w : w = [q EXCEPT !.result = Result]
      OBVIOUS
    <3>2. frames' = [frames EXCEPT ![h] = w]
      BY <1>1, <1>2, <2>2, <3>1 DEF Shape
    <3>3. w \in FrameRecs /\ w.awaited = q.awaited /\ w.state = q.state
      BY <1>2, <3>1 DEF FrameRecs, Value
    <3> QED
      BY <2>0, <2>2, <3>2, <3>3 DEF PollCodes
  <2>3. CASE /\ frames' = [frames EXCEPT ![h].exception = Exception]
             /\ \E code \in {"PANICKED", "ERROR", "unknown"} : Answer(t, code)
    <3>1. PICK w : w = [q EXCEPT !.exception = Exception]
      OBVIOUS
    <3>2. frames' = [frames EXCEPT ![h] = w]
      BY <1>1, <1>2, <2>3, <3>1 DEF Shape
    <3>3. w \in FrameRecs /\ w.awaited = q.awaited /\ w.state = q.state
      BY <1>2, <3>1 DEF FrameRecs, Value
    <3> QED
      BY <2>0, <2>3, <3>2, <3>3 DEF PollCodes
  <2>4. CASE frames' = frames /\ Answer(t, "CANCELLED")
    <3>1. frames' = [frames EXCEPT ![h] = q]
      BY <1>1, <1>2, <2>4 DEF Shape
    <3> QED
      BY <2>0, <2>4, <3>1 DEF PollCodes
  <2> QED
    BY <1>1, <2>1, <2>2, <2>3, <2>4 DEF ExtPoll
<1>4. UNCHANGED <<fns, tasks, awaiters>>
  BY DEF ExtPoll
<1>5. frames'[h] = w
  BY <1>1, <1>3 DEF Shape
<1>6. FrameFits(h)' /\ tasks[h].fn \notin LoweredFns
  BY <1>1, <1>2, <1>3, <1>4, <1>5, AsyncAssumption DEF FrameFits, Spawned
<1> QED
  BY <1>1, <1>3, <1>4, <1>6, PollAnswers DEF AsyncInv, PollPcs

(* generate_inter_await_code: only the state moves, and it stays within    *)
(* the body.                                                               *)
LEMMA InterStateInv ==
    ASSUME AsyncInv, NEW t \in Callers, InterState(t), UNCHANGED fns
    PROVE  AsyncInv' /\ Drives(t)
<1>1. PICK c, h : /\ c = call[t] /\ h = c.task /\ c \in CallRecs /\ c.pc = "inter"
                  /\ h \in Spawned
                  /\ t \in awaiters[h] /\ tasks[h] \in TaskRecs /\ frames[h] \in FrameRecs
                  /\ Shape /\ CallFits(t) /\ CallHolds(t) /\ FrameFits(h)
  BY CallFacts DEF InterState
<1>2. tasks[h].fn \in LoweredFns /\ tasks[h].fn \notin ExtFns /\ c.at \in Nat
      /\ c.at + 1 <= Awaits[tasks[h].fn]
  BY <1>1, AsyncAssumption DEF CallFits, BodyPcs, CallRecs
<1>3. PICK w \in FrameRecs : /\ frames' = [frames EXCEPT ![h] = w]
                             /\ w.awaited = frames[h].awaited /\ w.state = c.at + 1
  <2>1. PICK q \in FrameRecs : q = frames[h]
    BY <1>1
  <2>2. PICK w : w = [q EXCEPT !.state = c.at + 1]
    OBVIOUS
  <2>3. frames' = [frames EXCEPT ![h] = w]
    BY <1>1, <2>1, <2>2 DEF InterState, Shape
  <2>4. w \in FrameRecs /\ w.awaited = q.awaited /\ w.state = c.at + 1
    BY <1>2, <2>1, <2>2 DEF FrameRecs
  <2> QED
    BY <2>1, <2>3, <2>4
<1>4. UNCHANGED <<fns, tasks, awaiters>> /\ Answer(t, "PENDING")
  BY DEF InterState
<1>5. frames'[h] = w
  BY <1>1, <1>3 DEF Shape
<1>6. FrameFits(h)'
  BY <1>1, <1>2, <1>3, <1>4, <1>5 DEF FrameFits, Spawned
<1> QED
  BY <1>1, <1>3, <1>4, <1>6, PollAnswers DEF PollPcs, BodyPcs, PollCodes

(* The last state stores the error it read; if it answers ERROR, the       *)
(* awaited task has failed for good with it.                               *)
LEMMA LastStateInv ==
    ASSUME AsyncInv, NEW t \in Callers, LastState(t), UNCHANGED fns
    PROVE  AsyncInv' /\ Drives(t)
<1>1. PICK c, h : /\ c = call[t] /\ h = c.task /\ c \in CallRecs /\ c.pc = "last"
                  /\ h \in Spawned
                  /\ t \in awaiters[h] /\ tasks[h] \in TaskRecs /\ frames[h] \in FrameRecs
                  /\ Shape /\ CallFits(t) /\ CallHolds(t) /\ FrameFits(h)
  BY CallFacts DEF LastState
<1>2. tasks[h].fn \in LoweredFns /\ tasks[h].fn \notin ExtFns
  BY <1>1, AsyncAssumption DEF CallFits, BodyPcs
<1>3. PICK w \in FrameRecs : /\ frames' = [frames EXCEPT ![h] = w]
                             /\ w.awaited = frames[h].awaited /\ w.state = frames[h].state
                             /\ w.exception = c.err
  <2>1. PICK q \in FrameRecs : q = frames[h]
    BY <1>1
  <2>2. PICK w : w = [q EXCEPT !.result = c.res, !.exception = c.err]
    OBVIOUS
  <2>3. frames' = [frames EXCEPT ![h] = w]
    BY <1>1, <2>1, <2>2 DEF LastState, Shape
  <2>4. /\ w \in FrameRecs /\ w.awaited = q.awaited /\ w.state = q.state
        /\ w.exception = c.err
    BY <1>1, <2>1, <2>2 DEF FrameRecs, CallRecs
  <2> QED
    BY <2>1, <2>3, <2>4
<1>4. PICK code \in {"ERROR", "READY"} : Answer(t, code) /\ (code = "ERROR" => c.failed)
  BY <1>1 DEF LastState
<1>5. frames'[h] = w /\ UNCHANGED <<fns, tasks, awaiters>>
  BY <1>1, <1>3 DEF Shape, LastState
<1>6. FrameFits(h)'
  BY <1>1, <1>2, <1>3, <1>5 DEF FrameFits, Spawned
<1>7. (code = "ERROR" /\ Single(h)) =>
          FailedAway(w.awaited) /\ Carries(w.awaited, w.exception)
  BY <1>1, <1>3, <1>4 DEF CallHolds
<1> QED
  BY <1>1, <1>3, <1>4, <1>5, <1>6, <1>7, PollAnswers DEF PollPcs, BodyPcs, PollCodes


(* The code before the first await spawns a task or takes one it was       *)
(* given, and may cancel any.                                              *)
LEMMA FirstStateInv ==
    ASSUME AsyncInv, NEW t \in Callers, FirstState(t), UNCHANGED fns
    PROVE  AsyncInv' /\ Drives(t)
<1>1. PICK c, h : /\ c = call[t] /\ h = c.task /\ c \in CallRecs /\ c.pc = "state_0"
                  /\ h \in Spawned
                  /\ t \in awaiters[h] /\ tasks[h] \in TaskRecs /\ frames[h] \in FrameRecs
                  /\ Shape /\ CallFits(t) /\ CallHolds(t) /\ FrameFits(h)
  BY CallFacts DEF FirstState
<1>2. /\ \E m \in 0 .. MaxTasks : Spawned' = 1 .. m
      /\ tasks' \in [Spawned' -> TaskRecs] /\ awaiters' \in [Spawned' -> SUBSET Callers]
      /\ frames' \in [Spawned' -> FrameRecs]
      /\ \A g \in Spawned :
           /\ g \in Spawned' /\ awaiters'[g] = awaiters[g] /\ tasks'[g].fn = tasks[g].fn
           /\ tasks'[g].result = tasks[g].result /\ tasks'[g].exception = tasks[g].exception
           /\ \/ tasks'[g].state = tasks[g].state /\ tasks'[g].cancelled = tasks[g].cancelled
              \/ tasks'[g].state = "Cancelled" /\ tasks'[g].cancelled
           /\ g # h => frames'[g] = frames[g]
      /\ frames'[h].awaited \in Spawned' \cup {0} /\ frames'[h].state = 1
      /\ \A g \in Spawned' \ Spawned :
           tasks'[g].state = "Ready" /\ frames'[g] = NewFrame /\ awaiters'[g] = {}
  <2>1. ASSUME NEW f \in fns, NextHandle <= MaxTasks,
               tasks' = Extend(tasks, NextHandle, NewTask(f)),
               awaiters' = Extend(awaiters, NextHandle, {}),
               frames' = [Extend(frames, NextHandle, NewFrame) EXCEPT ![h].awaited = NextHandle,
                                                                      ![h].state = 1]
        PROVE  <1>2!:
    <3>1. /\ NextHandle \in Nat \ {0} /\ NextHandle \notin Spawned
          /\ \E m \in 0 .. MaxTasks : Spawned \cup {NextHandle} = 1 .. m
      BY <1>1, <2>1, NextIsNew
    <3>2. PICK n, F : n = NextHandle /\ F = Extend(frames, NextHandle, NewFrame)
      OBVIOUS
    <3>3. /\ Spawned' = Spawned \cup {n}
          /\ tasks' \in [Spawned' -> TaskRecs] /\ awaiters' \in [Spawned' -> SUBSET Callers]
          /\ tasks'[n].state = "Ready" /\ awaiters'[n] = {}
          /\ \A g \in Spawned : tasks'[g] = tasks[g] /\ awaiters'[g] = awaiters[g]
          /\ F \in [Spawned' -> FrameRecs] /\ F[n] = NewFrame
          /\ \A g \in Spawned : F[g] = frames[g]
      BY <1>1, <2>1, <3>2, FnsAreFns, TaskAdded
    <3>4. PICK q \in FrameRecs : q = F[h]
      BY <1>1, <3>3
    <3>5. PICK w : w = [q EXCEPT !.awaited = n, !.state = 1]
      OBVIOUS
    <3>6. frames' = [F EXCEPT ![h] = w]
      BY <1>1, <2>1, <3>2, <3>3, <3>4, <3>5
    <3>7. w \in FrameRecs /\ w.awaited = n /\ w.state = 1
      BY <3>1, <3>2, <3>4, <3>5 DEF FrameRecs
    <3>8. /\ frames' \in [Spawned' -> FrameRecs] /\ frames'[h] = w /\ frames'[n] = NewFrame
          /\ \A g \in Spawned \ {h} : frames'[g] = frames[g]
      BY <1>1, <3>1, <3>2, <3>3, <3>6, <3>7
    <3> QED
      BY <1>1, <3>1, <3>2, <3>3, <3>7, <3>8
  <2>2. ASSUME NEW aw \in (Spawned \ {h}) \cup {0}, NEW k \in Spawned \cup {0},
               tasks' = IF k = 0 THEN tasks ELSE Cancelled(k),
               frames' = [frames EXCEPT ![h].awaited = aw, ![h].state = 1],
               awaiters' = awaiters
        PROVE  <1>2!:
    <3>1. PICK m \in 0 .. MaxTasks : Spawned = 1 .. m
      BY <1>1 DEF Shape
    <3>2. /\ Spawned' = Spawned /\ tasks' \in [Spawned -> TaskRecs]
          /\ \A g \in Spawned :
               /\ tasks'[g].fn = tasks[g].fn
               /\ tasks'[g].result = tasks[g].result /\ tasks'[g].exception = tasks[g].exception
               /\ \/ tasks'[g].state = tasks[g].state /\ tasks'[g].cancelled = tasks[g].cancelled
                  \/ tasks'[g].state = "Cancelled" /\ tasks'[g].cancelled
      <4>1. CASE k = 0
        BY <1>1, <2>2, <4>1 DEF Shape, Spawned
      <4>2. CASE k # 0
        BY <1>1, <2>2, <4>2, CancelledFacts
      <4> QED
        BY <4>1, <4>2
    <3>3. PICK q \in FrameRecs : q = frames[h]
      BY <1>1
    <3>4. PICK w : w = [q EXCEPT !.awaited = aw, !.state = 1]
      OBVIOUS
    <3>5. frames' = [frames EXCEPT ![h] = w]
      BY <1>1, <2>2, <3>3, <3>4 DEF Shape
    <3>6. w \in FrameRecs /\ w.awaited = aw /\ w.state = 1
      <4>1. aw \in Nat
        BY <2>2, <3>1
      <4> QED
        BY <3>3, <3>4, <4>1 DEF FrameRecs
    <3>7. /\ frames' \in [Spawned -> FrameRecs] /\ frames'[h] = w
          /\ \A g \in Spawned \ {h} : frames'[g] = frames[g]
      BY <1>1, <3>5, <3>6 DEF Shape
    <3>8. awaiters' \in [Spawned -> SUBSET Callers]
      BY <1>1, <2>2 DEF Shape
    <3> QED
      BY <1>1, <2>2, <3>1, <3>2, <3>6, <3>7, <3>8
  <2> QED
    BY <1>1, <2>1, <2>2 DEF FirstState
<1>3. /\ call' \in [Callers -> CallRecs]
      /\ \A u \in Callers \ {t} : call'[u] = call[u]
      /\ call'[t].pc = "record" /\ call'[t].task = h /\ call'[t].code = "PENDING"
  BY <1>1, AnswerFields DEF FirstState, PollCodes
<1>4. tasks[h].fn \in LoweredFns /\ tasks[h].fn \notin ExtFns /\ 1 <= Awaits[tasks[h].fn]
  BY <1>1, AsyncAssumption DEF CallFits, BodyPcs
<1>5. ASSUME NEW g \in Spawned'
      PROVE  IsFiniteSet(awaiters'[g]) /\ FrameFits(g)'
  <2>1. CASE g \notin Spawned
    <3>1. IsFiniteSet({})
      BY FS_EmptySet
    <3>2. frames'[g].state = 0 /\ frames'[g].awaited = 0 /\ awaiters'[g] = {}
      BY <1>2, <1>5, <2>1 DEF NewFrame
    <3>3. \A f \in LoweredFns : 0 <= Awaits[f]
      BY AsyncAssumption
    <3>4. 0 \in 0 .. MaxPend
      BY AsyncAssumption
    <3> QED
      BY <3>1, <3>2, <3>3, <3>4 DEF FrameFits
  <2>2. CASE g \in Spawned /\ g # h
    BY <1>1, <1>2, <2>2 DEF Shape, FrameFits
  <2>3. CASE g = h
    BY <1>1, <1>2, <1>4, <2>3 DEF Shape, FrameFits
  <2> QED
    BY <2>1, <2>2, <2>3
<1>6. Shape'
  BY <1>1, <1>2, <1>3, <1>5 DEF Shape
<1>7. Drives(t)
  BY <1>1, <1>2, <1>3 DEF Drives, Stays, PollPcs, BodyPcs
<1>8. CallFits(t)'
  BY <1>1, <1>2, <1>3 DEF CallFits, BodyPcs
<1>9. Single(h)' => \/ tasks[h].state \in {"Ready", "Waiting"}
                    \/ tasks[h].state = "Cancelled" /\ tasks[h].cancelled
  <2>1. Single(h)' => Single(h)
    BY <1>1, <1>2 DEF Single
  <2> QED
    BY <1>1, <2>1 DEF CallHolds, PollPcs, BodyPcs
<1>10. CallHolds(t)'
  BY <1>1, <1>2, <1>3, <1>9 DEF CallHolds
<1>11. ErrorHolds(h)'
  BY <1>1, <1>2, <1>9 DEF ErrorHolds
<1> QED
  BY <1>1, <1>6, <1>7, <1>8, <1>10, <1>11, StepKeeps

(* The invariant holds at first.                                           *)
LEMMA AsyncInitInv ==
    ASSUME AsyncInit
    PROVE  AsyncInv
<1>1. Spawned = {} /\ Spawned = 1 .. 0 /\ 0 \in 0 .. MaxTasks
  BY AsyncAssumption DEF AsyncInit, Spawned
<1>2. NoCall \in CallRecs /\ NoCall.pc = "idle"
  BY DEF NoCall, CallRecs, PollCodes, Value, Pcs
<1>3. /\ tasks \in [{} -> TaskRecs] /\ frames \in [{} -> FrameRecs]
      /\ awaiters \in [{} -> SUBSET Callers]
  BY DEF AsyncInit
<1>4. Shape
  BY <1>1, <1>2, <1>3 DEF AsyncInit, Shape
<1> QED
  BY <1>1, <1>2, <1>4 DEF AsyncInit, AsyncInv, CallFits, CallHolds

(* The invariant is kept by every step.                                    *)
LEMMA AsyncStepInv ==
    ASSUME AsyncInv, [AsyncNext]_asyncVars
    PROVE  AsyncInv'
<1>1. CASE UNCHANGED asyncVars
  BY <1>1 DEF asyncVars, AsyncInv, Shape, FrameFits, CallFits, CallHolds, ErrorHolds,
     FailedAway, Carries, Polled, Single, Spawned
<1>2. CASE AsyncNext
  <2>1. PICK t \in Callers :
          \/ \E f \in fns : Spawn(t, f)
          \/ \E h \in Handles : Cancel(t, h)
          \/ \E h \in Handles, join \in BOOLEAN : Await(t, h, join)
          \/ Running(t)
    BY <1>2 DEF AsyncNext
  <2>2. UNCHANGED fns
    BY <1>2 DEF AsyncNext
  <2>3. CASE \E f \in fns : Spawn(t, f)
    BY <2>2, <2>3, SpawnTaskInv
  <2>4. CASE \E h \in Handles : Cancel(t, h)
    BY <2>2, <2>4, CancelInv
  <2>5. CASE \E h \in Handles, join \in BOOLEAN : Await(t, h, join)
    BY <2>2, <2>5, AwaitInv
  <2>6. CASE Running(t)
    BY <2>2, <2>6, ReadTaskInv, ReadExceptionInv, UnregisteredInv, RecordPollInv, ReturnInv,
       ExtPollInv, TrivialPollInv, PollEntryInv, DispatchInv, FirstStateInv, HasErrorInv,
       GetErrorInv, GetResultInv, InterStateInv, LastStateInv DEF Running
  <2> QED
    BY <2>1, <2>3, <2>4, <2>5, <2>6
<1> QED
  BY <1>1, <1>2

(* A task that one thread at most ever awaited has no two threads to it.    *)
LEMMA SoleIsSingle ==
    ASSUME Shape, NEW h \in Spawned, Sole(h)
    PROVE  Single(h)
<1> SUFFICES ASSUME NEW t \in awaiters[h], NEW u \in awaiters[h], t # u
             PROVE  FALSE
  BY DEF Single
<1>1. IsFiniteSet(awaiters[h]) /\ {t, u} \subseteq awaiters[h]
  BY DEF Shape
<1>2. Cardinality({t, u}) <= Cardinality(awaiters[h])
  BY <1>1, FS_Subset
<1>3. Cardinality({t, u}) = 2
  <2>1. IsFiniteSet({t}) /\ Cardinality({t}) = 1
    BY FS_Singleton
  <2>2. {t, u} = {t} \cup {u} /\ u \notin {t}
    OBVIOUS
  <2> QED
    BY <2>1, <2>2, FS_AddElement
<1>4. Cardinality(awaiters[h]) \in Nat
  BY <1>1, FS_CardinalityType
<1> QED
  BY <1>2, <1>3, <1>4 DEF Sole

(* The inductive invariant holds in every behaviour.                       *)
LEMMA AsyncAlways == AsyncSpec => []AsyncInv
<1>1. AsyncInit => AsyncInv
  BY AsyncInitInv
<1>2. AsyncInv /\ [AsyncNext]_asyncVars => AsyncInv'
  BY AsyncStepInv
<1> QED
  BY <1>1, <1>2, PTL DEF AsyncSpec

(* AsyncSpec => []ErrorIsPropagated: for any functions with any number of  *)
(* await points, any threads and any number of tasks, a body that ends in  *)
(* Error carries the exception of the task it awaited last, unless it was  *)
(* cancelled or two threads drive it (arth_rt_await,                       *)
(* generate_last_await_code).                                              *)
THEOREM ErrorsArePropagated == AsyncSpec => []ErrorIsPropagated
<1>1. AsyncInv => ErrorIsPropagated
  <2> SUFFICES ASSUME AsyncInv, NEW h \in Spawned, tasks[h].fn \in LoweredFns,
                      tasks[h].state = "Error", ~tasks[h].cancelled, Sole(h),
                      NEW aw, aw = frames[h].awaited
               PROVE  /\ aw \in Spawned
                      /\ Sole(aw) => /\ tasks[aw].state \in Failed \/ tasks[aw].cancelled
                                     /\ tasks[aw].exception = tasks[h].exception
    BY DEF ErrorIsPropagated
  <2>1. FailedAway(aw) /\ Carries(aw, tasks[h].exception)
    BY SoleIsSingle DEF AsyncInv, ErrorHolds
  <2>2. aw \in Spawned
    BY <2>1 DEF FailedAway
  <2>3. Sole(aw) => Single(aw)
    BY <2>2, SoleIsSingle DEF AsyncInv
  <2> QED
    BY <2>1, <2>2, <2>3 DEF FailedAway, Carries
<1> QED
  BY <1>1, AsyncAlways, PTL


(* A body is entered only past the check at its entry, and only the poll of *)
(* a task writes its frame.                                                 *)
BodyRule(t) ==
    /\ call'[t].pc \in BodyPcs =>
         /\ call'[t].task = call[t].task
         /\ \/ call[t].pc \in BodyPcs
            \/ call[t].pc = "poll" /\ ~tasks[call[t].task].cancelled
    /\ \A h \in Spawned :
         \/ frames'[h] = frames[h]
         \/ h = call[t].task /\ (call[t].pc \in BodyPcs \/ tasks[h].fn \in ExtFns)

(* A poll that answers leaves the body.                                    *)
LEMMA AnswersRule ==
    ASSUME Shape, NEW t \in Callers, NEW code \in PollCodes, Answer(t, code),
           \A h \in Spawned :
             \/ frames'[h] = frames[h]
             \/ h = call[t].task /\ (call[t].pc \in BodyPcs \/ tasks[h].fn \in ExtFns)
    PROVE  BodyRule(t)
<1>1. call'[t].pc = "record"
  BY AnswerFields
<1> QED
  BY <1>1 DEF BodyRule, BodyPcs

(* BodyRule holds of every step outside a poll function.                   *)
LEMMA CallsRule ==
    ASSUME AsyncInv, NEW t \in Callers,
           \/ \E f \in fns : Spawn(t, f)
           \/ \E h \in Handles : Cancel(t, h)
           \/ \E h \in Handles, join \in BOOLEAN : Await(t, h, join)
           \/ ReadTask(t) \/ ReadException(t) \/ Unregistered(t) \/ RecordPoll(t) \/ Return(t)
    PROVE  BodyRule(t)
<1>1. Shape /\ call \in [Callers -> CallRecs]
  BY DEF AsyncInv, Shape
<1>2. CASE \E f \in fns : Spawn(t, f)
  <2>1. PICK f \in fns : Spawn(t, f)
    BY <1>2
  <2>2. PICK n : n = NextHandle /\ n \notin Spawned
    BY <1>1, <2>1, NextIsNew DEF Spawn, AddTask
  <2>3. frames' = Extend(frames, n, NewFrame)
    BY <2>1, <2>2 DEF Spawn, AddTask
  <2>4. \A h \in Spawned : frames'[h] = frames[h]
    BY <1>1, <2>2, <2>3 DEF Extend, Shape
  <2> QED
    BY <2>1, <2>4 DEF BodyRule, Spawn, BodyPcs
<1>3. CASE \E h \in Handles : Cancel(t, h)
  BY <1>3 DEF BodyRule, Cancel, BodyPcs
<1>4. CASE \E h \in Handles, join \in BOOLEAN : Await(t, h, join)
  <2>1. PICK h \in Handles, join \in BOOLEAN : Await(t, h, join)
    BY <1>4
  <2>2. PICK r : r = [NoCall EXCEPT !.pc = "read", !.task = h, !.join = join]
                 /\ call' = [call EXCEPT ![t] = r]
    BY <2>1 DEF Await
  <2>3. call'[t].pc = "read"
    BY <1>1, <2>2 DEF NoCall
  <2> QED
    BY <2>1, <2>3 DEF BodyRule, BodyPcs, Await
<1>5. CASE ReadTask(t)
  <2>1. PICK p, v : call' = [call EXCEPT ![t] = [At(t, p) EXCEPT !.ret = v]]
                    /\ p \in {"return", "exception", "unregistered", "poll"}
    BY <1>5 DEF ReadTask, AfterRead
  <2>2. PICK q \in CallRecs : q = At(t, p) /\ q.pc = p
    BY <1>1, <2>1, AtFields DEF Pcs, PollPcs
  <2>3. call'[t].pc = p
    BY <1>1, <2>1, <2>2 DEF CallRecs
  <2> QED
    BY <1>5, <2>1, <2>3 DEF BodyRule, BodyPcs, ReadTask
<1>6. CASE ReadException(t)
  <2>1. call'[t].pc = "return"
    BY <1>1, <1>6 DEF ReadException, CallRecs
  <2> QED
    BY <1>6, <2>1 DEF BodyRule, BodyPcs, ReadException
<1>7. CASE Unregistered(t)
  <2>1. call'[t].pc = "return"
    BY <1>1, <1>7 DEF Unregistered, Goto, CallRecs
  <2> QED
    BY <1>7, <2>1 DEF BodyRule, BodyPcs, Unregistered
<1>8. CASE RecordPoll(t)
  <2>1. call'[t].pc = "read"
    BY <1>1, <1>8, AtFields DEF RecordPoll, Pcs
  <2> QED
    BY <1>8, <2>1 DEF BodyRule, BodyPcs, RecordPoll
<1>9. CASE Return(t)
  <2>1. call'[t].pc = "idle"
    BY <1>1, <1>9 DEF Return, NoCall
  <2> QED
    BY <1>9, <2>1 DEF BodyRule, BodyPcs, Return
<1> QED
  BY <1>2, <1>3, <1>4, <1>5, <1>6, <1>7, <1>8, <1>9

(* BodyRule holds of every step of a poll function.                        *)
LEMMA PollRule ==
    ASSUME AsyncInv, NEW t \in Callers,
           \/ ExtPoll(t) \/ TrivialPoll(t) \/ PollEntry(t) \/ Dispatch(t) \/ FirstState(t)
           \/ HasError(t) \/ GetError(t) \/ GetResult(t) \/ InterState(t) \/ LastState(t)
    PROVE  BodyRule(t)
<1>1. Shape /\ call \in [Callers -> CallRecs]
  BY DEF AsyncInv, Shape
<1>2. CASE ExtPoll(t)
  <2>1. \E code \in PollCodes : Answer(t, code)
    BY <1>2 DEF ExtPoll, PollCodes
  <2>2. \A h \in Spawned : frames'[h] = frames[h] \/ (h = call[t].task /\ tasks[h].fn \in ExtFns)
    BY <1>1, <1>2 DEF ExtPoll, Shape
  <2> QED
    BY <1>1, <2>1, <2>2, AnswersRule
<1>3. CASE TrivialPoll(t)
  BY <1>1, <1>3, AnswersRule DEF TrivialPoll, PollCodes
<1>4. CASE PollEntry(t)
  <2>1. CASE Proceeds(tasks[call[t].task])
    <3>1. PICK r : r = [call[t] EXCEPT !.pc = "dispatch"] /\ call' = [call EXCEPT ![t] = r]
      BY <1>1, <1>4, <2>1 DEF PollEntry, Goto
    <3>2. call'[t].task = call[t].task
      BY <1>1, <3>1 DEF CallRecs
    <3> QED
      BY <1>4, <2>1, <3>2 DEF BodyRule, PollEntry, Proceeds
  <2>2. CASE ~Proceeds(tasks[call[t].task])
    BY <1>1, <1>4, <2>2, AnswersRule DEF PollEntry, PollCodes
  <2> QED
    BY <2>1, <2>2
<1>5. CASE Dispatch(t) \/ HasError(t) \/ GetError(t) \/ GetResult(t)
  <2>1. call[t].pc \in BodyPcs /\ frames' = frames
    BY <1>5 DEF Dispatch, HasError, GetError, GetResult, BodyPcs
  <2>2. call'[t].task = call[t].task
    BY <1>1, <1>5 DEF Dispatch, HasError, GetError, GetResult, CallRecs
  <2> QED
    BY <2>1, <2>2 DEF BodyRule
<1>6. CASE FirstState(t)
  <2>1. ASSUME NEW h \in Spawned
        PROVE  frames'[h] = frames[h] \/ h = call[t].task
    <3>1. CASE NextHandle <= MaxTasks /\ \E f \in fns :
                 frames' = [Extend(frames, NextHandle, NewFrame) EXCEPT
                              ![call[t].task].awaited = NextHandle, ![call[t].task].state = 1]
      <4>1. PICK n : n = NextHandle /\ n \notin Spawned
        BY <1>1, <3>1, NextIsNew
      <4>2. Extend(frames, n, NewFrame)[h] = frames[h] /\ h \in DOMAIN Extend(frames, n, NewFrame)
        BY <1>1, <2>1, <4>1 DEF Extend, Shape
      <4> QED
        BY <3>1, <4>1, <4>2
    <3>2. CASE \E aw : frames' = [frames EXCEPT ![call[t].task].awaited = aw,
                                               ![call[t].task].state = 1]
      BY <1>1, <3>2 DEF Shape
    <3> QED
      BY <1>6, <3>1, <3>2 DEF FirstState
  <2>2. call[t].pc \in BodyPcs
    BY <1>6 DEF FirstState, BodyPcs
  <2> QED
    BY <1>1, <1>6, <2>1, <2>2, AnswersRule DEF FirstState, PollCodes
<1>7. CASE InterState(t)
  <2>1. \A h \in Spawned : frames'[h] = frames[h] \/ h = call[t].task
    BY <1>1, <1>7 DEF InterState, Shape
  <2>2. call[t].pc \in BodyPcs
    BY <1>7 DEF InterState, BodyPcs
  <2> QED
    BY <1>1, <1>7, <2>1, <2>2, AnswersRule DEF InterState, PollCodes
<1>8. CASE LastState(t)
  <2>1. \A h \in Spawned : frames'[h] = frames[h] \/ h = call[t].task
    BY <1>1, <1>8 DEF LastState, Shape
  <2>2. call[t].pc \in BodyPcs
    BY <1>8 DEF LastState, BodyPcs
  <2>3. \E code \in PollCodes : Answer(t, code)
    BY <1>8 DEF LastState, PollCodes
  <2> QED
    BY <1>1, <2>1, <2>2, <2>3, AnswersRule
<1> QED
  BY <1>2, <1>3, <1>4, <1>5, <1>6, <1>7, <1>8

(* What every step does to the tasks and the bodies.                        *)
LEMMA StepRules ==
    ASSUME AsyncInv, AsyncNext
    PROVE  \E t \in Callers : Drives(t) /\ BodyRule(t)
<1>1. PICK t \in Callers :
        \/ \E f \in fns : Spawn(t, f)
        \/ \E h \in Handles : Cancel(t, h)
        \/ \E h \in Handles, join \in BOOLEAN : Await(t, h, join)
        \/ Running(t)
  BY DEF AsyncNext
<1>2. UNCHANGED fns
  BY DEF AsyncNext
<1>3. BodyRule(t)
  BY <1>1, CallsRule, PollRule DEF Running
<1>4. CASE \E f \in fns : Spawn(t, f)
  BY <1>2, <1>3, <1>4, SpawnTaskInv
<1>5. CASE \E h \in Handles : Cancel(t, h)
  BY <1>2, <1>3, <1>5, CancelInv
<1>6. CASE \E h \in Handles, join \in BOOLEAN : Await(t, h, join)
  BY <1>2, <1>3, <1>6, AwaitInv
<1>7. CASE Running(t)
  BY <1>2, <1>3, <1>7, ReadTaskInv, ReadExceptionInv, UnregisteredInv, RecordPollInv, ReturnInv,
     ExtPollInv, TrivialPollInv, PollEntryInv, DispatchInv, FirstStateInv, HasErrorInv,
     GetErrorInv, GetResultInv, InterStateInv, LastStateInv DEF Running
<1> QED
  BY <1>1, <1>4, <1>5, <1>6, <1>7

(* AsyncSpec => SettlesOnce: a cancelled body that nobody is inside never  *)
(* runs again, a settled task that nobody polls keeps its outcome, and an  *)
(* await hands that outcome back (arth_rt_await, arth_rt_task_cancel, the  *)
(* entry of a poll function).                                              *)
THEOREM TasksSettleOnce == AsyncSpec => SettlesOnce
<1>1. ASSUME AsyncInv, [AsyncNext]_asyncVars, NEW h \in Spawned,
             tasks[h].cancelled, tasks[h].fn \in LoweredFns, ~InBody(h)
      PROVE  frames'[h] = frames[h] /\ ~InBody(h)'
  <2>1. CASE UNCHANGED asyncVars
    BY <1>1, <2>1 DEF asyncVars, InBody
  <2>2. CASE AsyncNext
    <3>1. PICK t \in Callers : Drives(t) /\ BodyRule(t)
      BY <1>1, <2>2, StepRules
    <3>2. tasks[h].fn \notin ExtFns
      BY <1>1, AsyncAssumption
    <3>3. ~(call[t].pc \in BodyPcs /\ call[t].task = h)
      BY <1>1 DEF InBody, BodyPcs
    <3>4. frames'[h] = frames[h]
      BY <3>1, <3>2, <3>3 DEF BodyRule
    <3>5. ~InBody(h)'
      <4> SUFFICES ASSUME NEW u \in Callers, call'[u].task = h, call'[u].pc \in BodyPcs
                   PROVE  FALSE
        BY DEF InBody, BodyPcs
      <4>1. CASE u = t
        BY <1>1, <3>1, <3>3, <4>1 DEF BodyRule
      <4>2. CASE u # t
        BY <1>1, <3>1, <4>2 DEF Drives, InBody, BodyPcs
      <4> QED
        BY <4>1, <4>2
    <3> QED
      BY <3>4, <3>5
  <2> QED
    BY <1>1, <2>1, <2>2
<1>2. ASSUME AsyncInv, AsyncInv', [AsyncNext]_asyncVars, NEW h \in Spawned,
             tasks[h].state \in Settled, ~InPoll(h)
      PROVE  /\ tasks'[h].state \in {tasks[h].state, "Cancelled"}
             /\ tasks'[h].result = tasks[h].result
             /\ tasks'[h].exception = tasks[h].exception
             /\ frames'[h] = frames[h]
             /\ ~InPoll(h)'
  <2>1. CASE UNCHANGED asyncVars
    BY <1>2, <2>1 DEF asyncVars, InPoll
  <2>2. CASE AsyncNext
    <3>1. PICK t \in Callers : Drives(t)
      BY <1>2, <2>2, StepRules
    <3>2. \A u \in Callers : call[u].pc \in Pcs /\ call'[u].pc \in Pcs
      BY <1>2 DEF AsyncInv, Shape, CallRecs
    <3>3. ~(call[t].pc \in PollPcs /\ call[t].task = h)
      BY <1>2 DEF InPoll, PollPcs, BodyPcs
    <3>4. Stays(h)
      BY <3>1, <3>3 DEF Drives
    <3>5. ~InPoll(h)'
      <4> SUFFICES ASSUME NEW u \in Callers, call'[u].task = h,
                          call'[u].pc \notin {"idle", "read", "exception", "return"}
                   PROVE  FALSE
        BY DEF InPoll
      <4>1. call'[u].pc \in PollPcs
        BY <3>2 DEF Pcs
      <4>2. CASE u = t
        BY <1>2, <3>1, <3>3, <4>1, <4>2 DEF Drives
      <4>3. CASE u # t
        BY <1>2, <3>1, <4>3 DEF Drives, InPoll
      <4> QED
        BY <4>2, <4>3
    <3> QED
      BY <3>4, <3>5 DEF Stays
  <2> QED
    BY <1>2, <2>1, <2>2
<1>3. ASSUME AsyncInv, NEW t \in Callers, call[t].pc = "return",
             NEW task, task = tasks[call[t].task], Sole(call[t].task), ~task.cancelled
      PROVE  /\ task.state \in Settled
             /\ ReturnValue(t) = IF task.state = "Completed" THEN task.result
                                                            ELSE task.exception
  <2>1. /\ Shape /\ CallHolds(t) /\ call[t].task \in Spawned
    BY <1>3, CallFacts
  <2>2. Single(call[t].task)
    BY <1>3, <2>1, SoleIsSingle
  <2>3. \/ task.state = "Completed" /\ call[t].ret = task.result
        \/ task.state \in Settled \ {"Completed"} /\ call[t].ret = task.exception
    BY <1>3, <2>1, <2>2 DEF CallHolds
  <2> QED
    BY <1>3, <2>3 DEF ReturnValue, Settled, Failed
<1>4. AsyncInv /\ [AsyncNext]_asyncVars =>
        [\A h \in Spawned :
          (tasks[h].cancelled /\ tasks[h].fn \in LoweredFns /\ ~InBody(h))
          => frames'[h] = frames[h] /\ ~InBody(h)']_asyncVars
  BY <1>1
<1>5. AsyncInv /\ AsyncInv' /\ [AsyncNext]_asyncVars =>
        [\A h \in Spawned :
          (tasks[h].state \in Settled /\ ~InPoll(h))
          => /\ tasks'[h].state \in {tasks[h].state, "Cancelled"}
             /\ tasks'[h].result = tasks[h].result
             /\ tasks'[h].exception = tasks[h].exception
             /\ frames'[h] = frames[h]
             /\ ~InPoll(h)']_asyncVars
  BY <1>2
<1>6. AsyncInv =>
        [\A t \in Callers :
          (call[t].pc = "return" /\ call'[t].pc = "idle")
          => LET task == tasks[call[t].task]
             IN (Sole(call[t].task) /\ ~task.cancelled)
                => /\ task.state \in Settled
                   /\ ReturnValue(t) = IF task.state = "Completed" THEN task.result
                                                                  ELSE task.exception]_asyncVars
  BY <1>3
<1>7. AsyncSpec => [][AsyncNext]_asyncVars
  BY PTL DEF AsyncSpec
<1> QED
  BY <1>4, <1>5, <1>6, <1>7, AsyncAlways, PTL
     DEF SettlesOnce, CancelStopsBody, SettledStays, AwaitReturnsOutcome

=============================================================================
