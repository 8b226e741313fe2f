------------------------ MODULE ConcurrentPoolProofs ------------------------
(***************************************************************************)
(* Proofs about ConcurrentPool, for every number of workers, clients and   *)
(* tasks.  Inv is inductive: one lemma for each action shows that the      *)
(* action preserves it; the two frame lemmas carry the conjuncts about     *)
(* places and running tasks over the steps that leave them alone.          *)
(***************************************************************************)
EXTENDS ConcurrentPool, TLAPS

(* The sub-job of a job made of inputs is made of inputs: the defaults of   *)
(* execute_concurrent_task are inputs too.                                  *)
LEMMA SubJobType ==
    ASSUME NEW j \in Job
    PROVE  SubJob(j) \in Job /\ Accumulator(j) \in Int
<1>1. j.args \in Seq(Inputs)
  BY DEF Job
<1>2. \A i \in Nat, d \in Inputs : Arg(j, i, d) \in Inputs
  <2> TAKE i \in Nat, d \in Inputs
  <2>1. CASE i \in 1 .. Len(j.args)
    BY <1>1, <2>1 DEF Arg
  <2>2. CASE i \notin 1 .. Len(j.args)
    BY <2>2 DEF Arg
  <2> QED
    BY <2>1, <2>2
<1>3. Arg(j, 1, 2) \in Inputs /\ Arg(j, 2, 10) \in Inputs /\ Arg(j, 3, 100) \in Inputs
  BY <1>2, InputsAssumption
<1>4. <<Arg(j, 2, 10)>> \in Seq(Inputs)
  BY <1>3
<1> QED
  BY <1>3, <1>4, InputsAssumption DEF SubJob, Accumulator, Job

(* The CPU-bound work types and the default arm return integers.            *)
LEMMA LeafResultType ==
    ASSUME NEW j \in Job
    PROVE  LeafResult(j) \in Int
<1>1. j.fn \in Int
  BY InputsAssumption DEF Job
<1>2. CASE j.args # <<>> /\ j.fn \in {1, 2}
  <2>1. j.args[1] \in Inputs
    BY <1>2 DEF Job
  <2> QED
    BY <1>2, <2>1, CpuAssumption DEF LeafResult
<1>3. CASE ~(j.args # <<>> /\ j.fn \in {1, 2})
  BY <1>1, <1>3 DEF LeafResult
<1> QED
  BY <1>2, <1>3

(* Sequential evaluation is an integer, and a spawning job's value is its   *)
(* accumulator plus its sub-job's value: three levels of unfolding suffice. *)
LEMMA EvalType ==
    ASSUME NEW j \in Job
    PROVE  Eval(j) \in Int
<1>1. SubJob(j) \in Job /\ SubJob(SubJob(j)) \in Job /\ SubJob(SubJob(SubJob(j))) \in Job
  BY SubJobType
<1>2. \A k \in Job : Eval1(k) \in Int
  BY SubJobType, LeafResultType DEF Eval1
<1>3. \A k \in Job : Eval2(k) \in Int
  BY <1>2, SubJobType, LeafResultType DEF Eval2
<1> QED
  BY <1>3, SubJobType, LeafResultType DEF Eval

(* The value of a spawning job is its accumulator plus its sub-job's value. *)
LEMMA EvalUnfold ==
    ASSUME NEW j \in Job
    PROVE  /\ IsSpawn(j) => Eval(j) = Accumulator(j) + Eval(SubJob(j))
           /\ ~IsSpawn(j) => Eval(j) = LeafResult(j)
<1> DEFINE k == SubJob(j)
           m == SubJob(k)
           n == SubJob(m)
<1>1. ~IsSpawn(j) => Eval(j) = LeafResult(j)
  BY DEF Eval
<1>2. k.args = <<Arg(j, 2, 10)>> /\ m.args = <<Arg(k, 2, 10)>>
  BY DEF SubJob
<1>3. Arg(k, 2, 10) = 10
  BY <1>2 DEF Arg
<1>4. n.fn = 10
  BY <1>2, <1>3 DEF SubJob, Arg
<1>5. ~IsSpawn(n)
  BY <1>4 DEF IsSpawn
<1>6. Eval1(m) = Eval2(m)
  BY <1>5 DEF Eval1, Eval2
<1>7. Eval2(k) = Eval(k)
  BY <1>6 DEF Eval2, Eval
<1>8. IsSpawn(j) => Eval(j) = Accumulator(j) + Eval(k)
  BY <1>7 DEF Eval
<1> QED
  BY <1>1, <1>8

-----------------------------------------------------------------------------
(* Frame lemmas.                                                           *)

(* A step that changes no place of a reference and no task state keeps the  *)
(* conjuncts about places.                                                  *)
LEMMA PlacesFrame ==
    ASSUME Inv,
           UNCHANGED <<status, waiters, wake, injector>>,
           \A t \in Ids : status[t] = "Suspended" => waiting_on'[t] = waiting_on[t],
           \A v \in Workers, t \in Ids :
               /\ WorkerHas(v, t)' <=> WorkerHas(v, t)
               /\ Registering(v, t)' <=> Registering(v, t),
           \A v \in Workers, i \in Nat, t \in Ids :
               TakenBy(v, i, t)' <=> TakenBy(v, i, t),
           \A c \in Clients, t \in Ids : ClientHas(c, t)' <=> ClientHas(c, t)
    PROVE  WaitingOnce' /\ InFlightOnce' /\ PendingNotStranded'
<1>1. \A s \in Ids, i \in Nat, t \in Ids :
          RegisteredAt(s, i, t)' <=> RegisteredAt(s, i, t)
  BY DEF RegisteredAt
<1>2. \A i \in Nat, t \in Ids : InQueue(i, t)' <=> InQueue(i, t)
  BY DEF InQueue
<1>3. WaitingOnce'
  BY <1>1 DEF Inv, WaitingOnce, WaitsOnce
<1>4. InFlightOnce'
  BY <1>2 DEF Inv, InFlightOnce, FlightOnce
<1>5. PendingNotStranded'
  BY <1>2 DEF Inv, PendingNotStranded
<1> QED
  BY <1>3, <1>4, <1>5

\* The points of the worker's code at which it holds a place.
PlacePC == {"claim", "pushsub", "requeue", "addwaiter"}

(* A worker's step between two points at which it holds no place.           *)
LEMMA QuietStep ==
    ASSUME Inv, NEW w \in Workers, NEW l,
           pc' = [pc EXCEPT ![w] = l],
           pc[w] \notin PlacePC, l \notin PlacePC,
           UNCHANGED <<status, waiters, wake, injector, cpc, cid>>,
           \A t \in Ids : status[t] = "Suspended" => waiting_on'[t] = waiting_on[t],
           \A v \in Workers : v # w => cur'[v] = cur[v] /\ sub'[v] = sub[v]
    PROVE  WaitingOnce' /\ InFlightOnce' /\ PendingNotStranded'
<1>1. pc'[w] = l /\ \A v \in Workers : v # w => pc'[v] = pc[v]
  BY DEF Inv, TypeOK
<1>2. \A v \in Workers, t \in Ids :
          /\ WorkerHas(v, t)' <=> WorkerHas(v, t)
          /\ Registering(v, t)' <=> Registering(v, t)
  BY <1>1 DEF WorkerHas, Registering, PlacePC
<1>3. \A v \in Workers, i \in Nat, t \in Ids :
          TakenBy(v, i, t)' <=> TakenBy(v, i, t)
  BY <1>1 DEF TakenBy, PlacePC
<1>4. \A c \in Clients, t \in Ids : ClientHas(c, t)' <=> ClientHas(c, t)
  BY DEF ClientHas
<1> QED
  BY <1>2, <1>3, <1>4, PlacesFrame

(* A worker's step that neither takes up nor lets go of a running task.     *)
LEMMA RunningFrame ==
    ASSUME Inv, NEW w \in Workers, NEW l,
           pc' = [pc EXCEPT ![w] = l],
           pc[w] \in RunPC <=> l \in RunPC,
           UNCHANGED status,
           \A v \in Workers : v # w \/ l \in RunPC => cur'[v] = cur[v]
    PROVE  RunningByOneWorker'
<1>1. pc'[w] = l /\ \A v \in Workers : v # w => pc'[v] = pc[v]
  BY DEF Inv, TypeOK
<1> QED
  BY <1>1 DEF Inv, RunningByOneWorker

-----------------------------------------------------------------------------
(* The initial state.                                                      *)

(* The initial state is well typed.                                         *)
LEMMA InitTypeOK == Init => TypeOK
<1> SUFFICES ASSUME Init PROVE TypeOK
  OBVIOUS
<1>1. next_task_id \in 1 .. MaxTasks + 1 /\ budget \in Int /\ active_workers \in Int
  BY MaxTasksAssumption DEF Init
<1>2. /\ waiters \in [Ids -> Seq(Ids)]
      /\ injector \in Seq(Ids)
      /\ wake \in [Workers -> Seq(Ids)]
  BY DEF Init
<1>3. /\ status \in [Ids -> Status]
      /\ pc \in [Workers -> WorkerPC]
      /\ cpc \in [Clients -> {"idle", "push", "poll", "read"}]
  BY DEF Init, Status, WorkerPC
<1>4. /\ counts \in [Workers -> Nat]
      /\ job \in [Ids -> Job \cup {NoJob}]
      /\ result \in [Ids -> Int \cup {None}]
      /\ saved \in [Ids -> Int \cup {None}]
      /\ waiting_on \in [Ids -> Ids \cup {NoTask}]
      /\ cur \in [Workers -> Ids \cup {NoTask}]
      /\ sub \in [Workers -> Ids \cup {NoTask}]
      /\ val \in [Workers -> Int \cup {None}]
      /\ cid \in [Clients -> Ids \cup {NoTask}]
      /\ ret \in [Clients -> Int \cup {None}]
      /\ tasks \subseteq Ids /\ shutdown \in BOOLEAN
  BY DEF Init
<1> QED
  BY <1>1, <1>2, <1>3, <1>4 DEF TypeOK

-----------------------------------------------------------------------------
(* The steps of the worker loop that move no task.                         *)

(* A worker entering its loop preserves the invariant.                      *)
LEMMA WorkerStartInv ==
    ASSUME Inv, NEW w \in Workers, WorkerStart(w)
    PROVE  Inv'
<1> USE DEF taskVars, poolVars, statVars, workerVars, clientVars
<1> DEFINE l == "loop"
<1>1. /\ pc' = [pc EXCEPT ![w] = l] /\ pc[w] \notin PlacePC /\ l \notin PlacePC
      /\ pc[w] \in RunPC <=> l \in RunPC
  BY DEF WorkerStart, Goto, PlacePC, RunPC
<1>2. pc'[w] = l /\ \A v \in Workers : v # w => pc'[v] = pc[v]
  BY <1>1 DEF Inv, TypeOK
<1>3. TypeOK'
  BY <1>1 DEF Inv, TypeOK, WorkerPC, RunPC, WorkerStart
<1>4. Allocation' /\ ClientHands' /\ SavedFrames' /\ CompletedHasValue'
  BY DEF WorkerStart, Inv, Allocation, ClientHands, SavedFrames, CompletedHasValue
<1>5. WorkerHands'
  BY <1>2 DEF WorkerStart, Inv, TypeOK, WorkerHands, RunPC
<1>6. WaitingOnce' /\ InFlightOnce' /\ PendingNotStranded'
  BY <1>1, QuietStep DEF WorkerStart
<1>7. RunningByOneWorker'
  BY <1>1, RunningFrame DEF WorkerStart
<1> QED
  BY <1>3, <1>4, <1>5, <1>6, <1>7 DEF Inv

(* The shutdown check at the top of the loop preserves the invariant.       *)
LEMMA LoopTopInv ==
    ASSUME Inv, NEW w \in Workers, LoopTop(w)
    PROVE  Inv'
<1> USE DEF taskVars, poolVars, statVars, workerVars, clientVars
<1> DEFINE l == IF shutdown THEN "exited" ELSE "steal"
<1>1. /\ pc' = [pc EXCEPT ![w] = l] /\ pc[w] \notin PlacePC /\ l \notin PlacePC
      /\ pc[w] \in RunPC <=> l \in RunPC
  BY DEF LoopTop, Goto, PlacePC, RunPC
<1>2. pc'[w] = l /\ \A v \in Workers : v # w => pc'[v] = pc[v]
  BY <1>1 DEF Inv, TypeOK
<1>3. TypeOK'
  BY <1>1 DEF Inv, TypeOK, WorkerPC, RunPC, LoopTop
<1>4. Allocation' /\ ClientHands' /\ SavedFrames' /\ CompletedHasValue'
  BY DEF LoopTop, Inv, Allocation, ClientHands, SavedFrames, CompletedHasValue
<1>5. WorkerHands'
  BY <1>2 DEF LoopTop, Inv, TypeOK, WorkerHands, RunPC
<1>6. WaitingOnce' /\ InFlightOnce' /\ PendingNotStranded'
  BY <1>1, QuietStep DEF LoopTop
<1>7. RunningByOneWorker'
  BY <1>1, RunningFrame DEF LoopTop
<1> QED
  BY <1>3, <1>4, <1>5, <1>6, <1>7 DEF Inv

(* The double check before parking preserves the invariant.                 *)
LEMMA ParkInv ==
    ASSUME Inv, NEW w \in Workers, Park(w)
    PROVE  Inv'
<1> USE DEF taskVars, poolVars, statVars, workerVars, clientVars
<1> DEFINE l == IF ~shutdown /\ injector = <<>> THEN "parked" ELSE "loop"
<1>1. /\ pc' = [pc EXCEPT ![w] = l] /\ pc[w] \notin PlacePC /\ l \notin PlacePC
      /\ pc[w] \in RunPC <=> l \in RunPC
  BY DEF Park, Goto, PlacePC, RunPC
<1>2. pc'[w] = l /\ \A v \in Workers : v # w => pc'[v] = pc[v]
  BY <1>1 DEF Inv, TypeOK
<1>3. TypeOK'
  BY <1>1 DEF Inv, TypeOK, WorkerPC, RunPC, Park
<1>4. Allocation' /\ ClientHands' /\ SavedFrames' /\ CompletedHasValue'
  BY DEF Park, Inv, Allocation, ClientHands, SavedFrames, CompletedHasValue
<1>5. WorkerHands'
  BY <1>2 DEF Park, Inv, TypeOK, WorkerHands, RunPC
<1>6. WaitingOnce' /\ InFlightOnce' /\ PendingNotStranded'
  BY <1>1, QuietStep DEF Park
<1>7. RunningByOneWorker'
  BY <1>1, RunningFrame DEF Park
<1> QED
  BY <1>3, <1>4, <1>5, <1>6, <1>7 DEF Inv

(* Waking up, notified or timed out, preserves the invariant.               *)
LEMMA UnparkInv ==
    ASSUME Inv, NEW w \in Workers, Unpark(w)
    PROVE  Inv'
<1> USE DEF taskVars, poolVars, statVars, workerVars, clientVars
<1> DEFINE l == "loop"
<1>1. /\ pc' = [pc EXCEPT ![w] = l] /\ pc[w] \notin PlacePC /\ l \notin PlacePC
      /\ pc[w] \in RunPC <=> l \in RunPC
  BY DEF Unpark, Goto, PlacePC, RunPC
<1>2. pc'[w] = l /\ \A v \in Workers : v # w => pc'[v] = pc[v]
  BY <1>1 DEF Inv, TypeOK
<1>3. TypeOK'
  BY <1>1 DEF Inv, TypeOK, WorkerPC, RunPC, Unpark
<1>4. Allocation' /\ ClientHands' /\ SavedFrames' /\ CompletedHasValue'
  BY DEF Unpark, Inv, Allocation, ClientHands, SavedFrames, CompletedHasValue
<1>5. WorkerHands'
  BY <1>2 DEF Unpark, Inv, TypeOK, WorkerHands, RunPC
<1>6. WaitingOnce' /\ InFlightOnce' /\ PendingNotStranded'
  BY <1>1, QuietStep DEF Unpark
<1>7. RunningByOneWorker'
  BY <1>1, RunningFrame DEF Unpark
<1> QED
  BY <1>3, <1>4, <1>5, <1>6, <1>7 DEF Inv

(* Entering execute_concurrent_task preserves the invariant.                *)
LEMMA BeginInv ==
    ASSUME Inv, NEW w \in Workers, Begin(w)
    PROVE  Inv'
<1> USE DEF taskVars, poolVars, statVars, workerVars, clientVars
<1> DEFINE l == IF saved[cur[w]] # None THEN "resume" ELSE "run"
<1>1. /\ pc' = [pc EXCEPT ![w] = l] /\ pc[w] \notin PlacePC /\ l \notin PlacePC
      /\ pc[w] \in RunPC <=> l \in RunPC
  BY DEF Begin, Goto, PlacePC, RunPC
<1>2. pc'[w] = l /\ \A v \in Workers : v # w => pc'[v] = pc[v]
  BY <1>1 DEF Inv, TypeOK
<1>3. TypeOK'
  BY <1>1 DEF Inv, TypeOK, WorkerPC, RunPC, Begin
<1>4. Allocation' /\ ClientHands' /\ SavedFrames' /\ CompletedHasValue'
  BY DEF Begin, Inv, Allocation, ClientHands, SavedFrames, CompletedHasValue
<1>5. WorkerHands'
  BY <1>2 DEF Begin, Inv, TypeOK, WorkerHands, RunPC
<1>6. WaitingOnce' /\ InFlightOnce' /\ PendingNotStranded'
  BY <1>1, QuietStep DEF Begin
<1>7. RunningByOneWorker'
  BY <1>1, RunningFrame DEF Begin
<1> QED
  BY <1>3, <1>4, <1>5, <1>6, <1>7 DEF Inv

-----------------------------------------------------------------------------
(* The steps that compute and store a result.                              *)

(* Running a job without a sub-task preserves the invariant.                *)
LEMMA RunLeafInv ==
    ASSUME Inv, NEW w \in Workers, RunLeaf(w)
    PROVE  Inv'
<1> USE DEF taskVars, poolVars, statVars, workerVars, clientVars
<1> DEFINE j == job[cur[w]]
<1>1. /\ pc' = [pc EXCEPT ![w] = "setresult"] /\ pc[w] = "run"
      /\ pc[w] \notin PlacePC /\ "setresult" \notin PlacePC
      /\ pc[w] \in RunPC /\ "setresult" \in RunPC
  BY DEF RunLeaf, Goto, PlacePC, RunPC
<1>2. pc'[w] = "setresult" /\ \A v \in Workers : v # w => pc'[v] = pc[v]
  BY <1>1 DEF Inv, TypeOK
<1>3. cur[w] \in tasks /\ j \in Job
  BY <1>1 DEF Inv, WorkerHands, Allocation
<1>4. val' = [val EXCEPT ![w] = Eval(j)] /\ Eval(j) \in Int
  BY <1>3, EvalUnfold, EvalType DEF RunLeaf
<1>5. TypeOK'
  BY <1>1, <1>4 DEF RunLeaf, Inv, TypeOK, WorkerPC
<1>6. Allocation' /\ ClientHands' /\ SavedFrames' /\ CompletedHasValue'
  BY DEF RunLeaf, Inv, Allocation, ClientHands, SavedFrames, CompletedHasValue
<1>7. WorkerHands'
  BY <1>1, <1>2, <1>4 DEF RunLeaf, Inv, TypeOK, WorkerHands
<1>8. WaitingOnce' /\ InFlightOnce' /\ PendingNotStranded'
  BY <1>1, QuietStep DEF RunLeaf
<1>9. RunningByOneWorker'
  BY <1>1, RunningFrame DEF RunLeaf
<1> QED
  BY <1>5, <1>6, <1>7, <1>8, <1>9 DEF Inv

(* Looking at the sub-task preserves the invariant.                         *)
LEMMA CheckSubInv ==
    ASSUME Inv, NEW w \in Workers, CheckSub(w)
    PROVE  Inv'
<1> USE DEF taskVars, poolVars, statVars, workerVars, clientVars
<1> DEFINE j == job[cur[w]]
           l == IF status[sub[w]] = "Completed" THEN "setresult" ELSE "suspend"
<1>1. /\ pc' = [pc EXCEPT ![w] = l] /\ pc[w] = "checksub"
      /\ pc[w] \notin PlacePC /\ l \notin PlacePC
      /\ pc[w] \in RunPC /\ l \in RunPC
  BY DEF CheckSub, Goto, PlacePC, RunPC
<1>2. pc'[w] = l /\ \A v \in Workers : v # w => pc'[v] = pc[v]
  BY <1>1 DEF Inv, TypeOK
<1>3. /\ cur[w] \in tasks /\ sub[w] \in tasks /\ tasks \subseteq Ids
      /\ j \in Job /\ IsSpawn(j) /\ job[sub[w]] = SubJob(j)
  BY <1>1 DEF Inv, WorkerHands, Allocation
<1>4. ASSUME status[sub[w]] = "Completed"
      PROVE  TypeOK' /\ WorkerHands'
  <2>1. result[sub[w]] = Eval(SubJob(j))
    BY <1>3, <1>4 DEF Inv, CompletedHasValue
  <2>2. /\ val' = [val EXCEPT ![w] = Eval(j)] /\ Eval(j) \in Int
        /\ sub' = [sub EXCEPT ![w] = NoTask]
    BY <1>3, <1>4, <2>1, EvalUnfold, EvalType DEF CheckSub
  <2>3. TypeOK'
    BY <1>1, <1>4, <2>2 DEF CheckSub, Inv, TypeOK, WorkerPC, RunPC
  <2>4. WorkerHands'
    BY <1>1, <1>2, <1>4, <2>2 DEF CheckSub, Inv, TypeOK, WorkerHands
  <2> QED
    BY <2>3, <2>4
<1>5. ASSUME status[sub[w]] # "Completed"
      PROVE  TypeOK' /\ WorkerHands'
  <2>1. UNCHANGED <<val, sub>>
    BY <1>5 DEF CheckSub
  <2>2. TypeOK'
    BY <1>1, <1>5, <2>1 DEF CheckSub, Inv, TypeOK, WorkerPC, RunPC
  <2>3. WorkerHands'
    BY <1>1, <1>2, <1>3, <1>5, <2>1 DEF CheckSub, Inv, TypeOK, WorkerHands
  <2> QED
    BY <2>2, <2>3
<1>6. Allocation' /\ ClientHands' /\ SavedFrames' /\ CompletedHasValue'
  BY DEF CheckSub, Inv, Allocation, ClientHands, SavedFrames, CompletedHasValue
<1>7. \A v \in Workers : v # w => sub'[v] = sub[v]
  BY DEF CheckSub, Inv, TypeOK
<1>8. WaitingOnce' /\ InFlightOnce' /\ PendingNotStranded'
  BY <1>1, <1>7, QuietStep DEF CheckSub
<1>9. RunningByOneWorker'
  BY <1>1, RunningFrame DEF CheckSub
<1> QED
  BY <1>4, <1>5, <1>6, <1>8, <1>9 DEF Inv

(* Storing the result preserves the invariant.                              *)
LEMMA SetResultInv ==
    ASSUME Inv, NEW w \in Workers, SetResult(w)
    PROVE  Inv'
<1> USE DEF taskVars, poolVars, statVars, workerVars, clientVars
<1>1. /\ pc' = [pc EXCEPT ![w] = "setcompleted"] /\ pc[w] = "setresult"
      /\ pc[w] \notin PlacePC /\ "setcompleted" \notin PlacePC
      /\ pc[w] \in RunPC /\ "setcompleted" \in RunPC
  BY DEF SetResult, Goto, PlacePC, RunPC
<1>2. pc'[w] = "setcompleted" /\ \A v \in Workers : v # w => pc'[v] = pc[v]
  BY <1>1 DEF Inv, TypeOK
<1>3. /\ cur[w] \in tasks /\ cur[w] \in Ids /\ job[cur[w]] \in Job
      /\ status[cur[w]] = "Running"
  BY <1>1 DEF Inv, WorkerHands, Allocation, RunningByOneWorker
<1>4. /\ val[w] = Eval(job[cur[w]]) /\ val[w] \in Int
      /\ result' = [result EXCEPT ![cur[w]] = val[w]]
      /\ val' = [val EXCEPT ![w] = None]
  BY <1>1, <1>3, EvalType DEF Inv, WorkerHands, SetResult
<1>5. /\ result'[cur[w]] = val[w]
      /\ \A t \in Ids : t # cur[w] => result'[t] = result[t]
  BY <1>3, <1>4 DEF Inv, TypeOK
<1>6. TypeOK'
  BY <1>1, <1>3, <1>4 DEF SetResult, Inv, TypeOK, WorkerPC
<1>7. Allocation' /\ ClientHands' /\ SavedFrames'
  BY DEF SetResult, Inv, Allocation, ClientHands, SavedFrames
<1>8. CompletedHasValue'
  BY <1>3, <1>5 DEF SetResult, Inv, Allocation, ClientHands, CompletedHasValue
<1>9. WorkerHands'
  <2>1. \A v \in Workers : pc[v] = "setcompleted" => cur[v] # cur[w]
    BY <1>1 DEF Inv, RunningByOneWorker, RunPC
  <2>2. \A v \in Workers : v # w => val'[v] = val[v]
    BY <1>4 DEF Inv, TypeOK
  <2>3. \A v \in Workers : pc[v] = "setcompleted" => cur[v] \in Ids
    BY DEF Inv, WorkerHands, RunPC, Allocation
  <2> QED
    BY <1>1, <1>2, <1>3, <1>4, <1>5, <2>1, <2>2, <2>3
       DEF SetResult, Inv, WorkerHands
<1>10. WaitingOnce' /\ InFlightOnce' /\ PendingNotStranded'
  BY <1>1, QuietStep DEF SetResult
<1>11. RunningByOneWorker'
  BY <1>1, RunningFrame DEF SetResult
<1> QED
  BY <1>6, <1>7, <1>8, <1>9, <1>10, <1>11 DEF Inv

(* The head of a taken list is Suspended, so it is never skipped.           *)
LEMMA CheckWaiterInv ==
    ASSUME Inv, NEW w \in Workers, CheckWaiter(w)
    PROVE  Inv'
<1> USE DEF taskVars, poolVars, statVars, workerVars, clientVars
<1> DEFINE l == IF wake[w] = <<>> THEN "loop" ELSE "setpending"
<1>1. pc[w] = "checkwaiter" /\ wake[w] \in Seq(Ids)
  BY DEF CheckWaiter, Inv, TypeOK
<1>2. wake[w] # <<>> => Head(wake[w]) \in tasks /\ status[Head(wake[w])] = "Suspended"
  <2> HAVE wake[w] # <<>>
  <2> DEFINE t == Head(wake[w])
  <2>1. t \in Ids /\ 1 \in 1 .. Len(wake[w]) /\ wake[w][1] = t
    BY <1>1
  <2>2. TakenBy(w, 1, t)
    BY <1>1, <2>1 DEF TakenBy
  <2>3. status[t] = "Suspended"
    BY <2>1, <2>2 DEF Inv, WaitingOnce, WaitsOnce
  <2> QED
    BY <2>1, <2>3 DEF Inv, Allocation
<1>3. UNCHANGED wake /\ pc' = [pc EXCEPT ![w] = l]
  BY <1>2 DEF CheckWaiter, Goto
<1>4. l \notin PlacePC /\ pc[w] \notin PlacePC /\ l \notin RunPC /\ pc[w] \notin RunPC
  BY <1>1 DEF PlacePC, RunPC
<1>5. pc'[w] = l /\ \A v \in Workers : v # w => pc'[v] = pc[v]
  BY <1>3 DEF Inv, TypeOK
<1>6. TypeOK'
  BY <1>3 DEF CheckWaiter, Inv, TypeOK, WorkerPC
<1>7. Allocation' /\ ClientHands' /\ SavedFrames' /\ CompletedHasValue'
  BY DEF CheckWaiter, Inv, Allocation, ClientHands, SavedFrames, CompletedHasValue
<1>8. WorkerHands'
  BY <1>3, <1>5 DEF CheckWaiter, Inv, WorkerHands, RunPC
<1>9. WaitingOnce' /\ InFlightOnce' /\ PendingNotStranded'
  BY <1>3, <1>4, QuietStep DEF CheckWaiter
<1>10. RunningByOneWorker'
  BY <1>3, <1>4, RunningFrame DEF CheckWaiter
<1> QED
  BY <1>6, <1>7, <1>8, <1>9, <1>10 DEF Inv

-----------------------------------------------------------------------------
(* The injector.                                                           *)

(* Taking a task from the injector preserves the invariant.                 *)
LEMMA try_stealInv ==
    ASSUME Inv, NEW w \in Workers, try_steal(w)
    PROVE  Inv'
<1> USE DEF taskVars, poolVars, statVars, workerVars, clientVars
<1>1. pc[w] = "steal" /\ injector \in Seq(Ids)
  BY DEF try_steal, Inv, TypeOK
<1>2. CASE injector = <<>>
  <2>1. pc' = [pc EXCEPT ![w] = "park"] /\ UNCHANGED <<cur, injector>>
    BY <1>2 DEF try_steal, Goto
  <2>2. pc'[w] = "park" /\ \A v \in Workers : v # w => pc'[v] = pc[v]
    BY <2>1 DEF Inv, TypeOK
  <2>3. TypeOK'
    BY <2>1 DEF try_steal, Inv, TypeOK, WorkerPC
  <2>4. Allocation' /\ ClientHands' /\ SavedFrames' /\ CompletedHasValue'
    BY DEF try_steal, Inv, Allocation, ClientHands, SavedFrames, CompletedHasValue
  <2>5. WorkerHands'
    BY <2>1, <2>2 DEF try_steal, Inv, WorkerHands, RunPC
  <2>6. WaitingOnce' /\ InFlightOnce' /\ PendingNotStranded'
    BY <1>1, <2>1, QuietStep DEF try_steal, PlacePC
  <2>7. RunningByOneWorker'
    BY <1>1, <2>1, RunningFrame DEF try_steal, RunPC
  <2> QED
    BY <2>3, <2>4, <2>5, <2>6, <2>7 DEF Inv
<1>3. CASE injector # <<>>
  <2>0. PICK h \in Ids : h = Head(injector)
    BY <1>1, <1>3
  <2>1. /\ pc' = [pc EXCEPT ![w] = "claim"] /\ cur' = [cur EXCEPT ![w] = h]
        /\ injector' = Tail(injector)
    BY <1>3, <2>0 DEF try_steal, Goto
  <2>2. /\ pc'[w] = "claim" /\ cur'[w] = h
        /\ \A v \in Workers : v # w => pc'[v] = pc[v] /\ cur'[v] = cur[v]
    BY <2>1 DEF Inv, TypeOK
  <2>3. /\ h \in Ids /\ Len(injector) \in Nat \ {0} /\ injector[1] = h
        /\ injector' \in Seq(Ids) /\ Len(injector') = Len(injector) - 1
        /\ \A i \in 1 .. Len(injector') : injector'[i] = injector[i + 1]
    BY <1>1, <1>3, <2>0, <2>1
  <2>4. InQueue(1, h) /\ status[h] = "Pending" /\ h \in tasks
    BY <2>3 DEF InQueue, Inv, InFlightOnce, FlightOnce, Allocation
  <2>5. TypeOK'
    BY <2>1, <2>3 DEF try_steal, Inv, TypeOK, WorkerPC
  <2>6. Allocation' /\ ClientHands' /\ SavedFrames' /\ CompletedHasValue'
    BY DEF try_steal, Inv, Allocation, ClientHands, SavedFrames, CompletedHasValue
  <2>7. WorkerHands'
    BY <2>1, <2>2, <2>4 DEF try_steal, Inv, WorkerHands, RunPC
  <2>8. WaitingOnce'
    <3>1. \A v \in Workers, t \in Ids : Registering(v, t)' <=> Registering(v, t)
      BY <1>1, <2>2 DEF Registering
    <3>2. \A v \in Workers, i \in Nat, t \in Ids : TakenBy(v, i, t)' <=> TakenBy(v, i, t)
      BY <1>1, <2>2 DEF TakenBy, try_steal
    <3>3. \A s \in Ids, i \in Nat, t \in Ids :
              RegisteredAt(s, i, t)' <=> RegisteredAt(s, i, t)
      BY DEF RegisteredAt, try_steal
    <3> QED
      BY <3>1, <3>2, <3>3 DEF try_steal, Inv, WaitingOnce, WaitsOnce
  <2>9. \A i \in 1 .. Len(injector'), t \in Ids :
            i + 1 \in 1 .. Len(injector) /\ (InQueue(i, t)' <=> InQueue(i + 1, t))
    BY <2>3 DEF InQueue
  <2>10. \A v \in Workers, t \in Ids :
             WorkerHas(v, t)' <=> WorkerHas(v, t) \/ (v = w /\ t = h)
    BY <1>1, <2>2 DEF WorkerHas, try_steal
  <2>11. \A c \in Clients, t \in Ids : ClientHas(c, t)' <=> ClientHas(c, t)
    BY DEF ClientHas, try_steal
  <2>12. \A i \in 1 .. Len(injector') : ~InQueue(i, h)'
    <3> SUFFICES ASSUME NEW i \in 1 .. Len(injector'), InQueue(i, h)'
                 PROVE  FALSE
      OBVIOUS
    <3>1. InQueue(i + 1, h) /\ i + 1 \in 1 .. Len(injector) /\ 1 \in 1 .. Len(injector)
      BY <2>3, <2>9
    <3>2. i + 1 = 1
      BY <2>3, <2>4, <3>1 DEF Inv, InFlightOnce, FlightOnce
    <3> QED
      BY <3>2
  <2>12a. /\ \A v \in Workers : ~WorkerHas(v, h)
          /\ \A c \in Clients : ~ClientHas(c, h)
    <3>1. 1 \in 1 .. Len(injector)
      BY <2>3
    <3> QED
      BY <2>3, <2>4, <3>1 DEF Inv, InFlightOnce, FlightOnce
  <2>13. InFlightOnce'
    <3> SUFFICES ASSUME NEW t \in Ids PROVE FlightOnce(t)'
      BY DEF InFlightOnce
    <3>1. CASE t = h
      BY <2>4, <2>10, <2>11, <2>12, <2>12a, <3>1 DEF try_steal, FlightOnce
    <3>2. CASE t # h
      BY <2>9, <2>10, <2>11, <3>2 DEF try_steal, Inv, InFlightOnce, FlightOnce
    <3> QED
      BY <3>1, <3>2
  <2>14. PendingNotStranded'
    <3> SUFFICES ASSUME NEW t \in Ids, status[t] = "Pending"
                 PROVE  \/ \E i \in 1 .. Len(injector') : InQueue(i, t)'
                        \/ \E v \in Workers : WorkerHas(v, t)'
                        \/ \E c \in Clients : ClientHas(c, t)'
      BY DEF PendingNotStranded, try_steal
    <3>1. CASE \E i \in 1 .. Len(injector) : InQueue(i, t)
      <4>1. PICK i \in 1 .. Len(injector) : InQueue(i, t)
        BY <3>1
      <4>2. CASE i = 1
        BY <2>3, <2>10, <4>1, <4>2 DEF InQueue
      <4>3. CASE i # 1
        <5>1. i - 1 \in 1 .. Len(injector') /\ (i - 1) + 1 = i
          BY <2>3, <4>3
        <5> QED
          BY <2>9, <4>1, <5>1
      <4> QED
        BY <4>2, <4>3
    <3>2. CASE ~ \E i \in 1 .. Len(injector) : InQueue(i, t)
      BY <2>10, <2>11, <3>2 DEF Inv, PendingNotStranded
    <3> QED
      BY <3>1, <3>2
  <2>15. RunningByOneWorker'
    BY <1>1, <2>2 DEF try_steal, Inv, RunningByOneWorker, RunPC
  <2> QED
    BY <2>5, <2>6, <2>7, <2>8, <2>13, <2>14, <2>15 DEF Inv
<1> QED
  BY <1>2, <1>3

(* Pushing a task that a single thread holds moves it into the injector.    *)
LEMMA PushPlaces ==
    ASSUME Inv, NEW t \in Ids,
           injector' = Append(injector, t), UNCHANGED status,
           \/ \E v \in Workers : WorkerHas(v, t)
           \/ \E c \in Clients : ClientHas(c, t),
           \A v \in Workers, u \in Ids :
               WorkerHas(v, u)' <=> WorkerHas(v, u) /\ u # t,
           \A c \in Clients, u \in Ids :
               ClientHas(c, u)' <=> ClientHas(c, u) /\ u # t
    PROVE  InFlightOnce' /\ PendingNotStranded'
<1>0. PICK n \in Nat : n = Len(injector)
  BY DEF Inv, TypeOK
<1>1. /\ injector \in Seq(Ids) /\ n \in Nat /\ Len(injector') = n + 1
      /\ injector'[n + 1] = t /\ \A i \in 1 .. n : injector'[i] = injector[i]
  BY <1>0 DEF Inv, TypeOK
<1>2. status[t] = "Pending" /\ \A i \in 1 .. n : ~InQueue(i, t)
  BY <1>0 DEF Inv, InFlightOnce, FlightOnce
<1>3. \A i \in 1 .. n, u \in Ids : InQueue(i, u)' <=> InQueue(i, u)
  BY <1>0, <1>1 DEF InQueue
<1>4. \A u \in Ids : InQueue(n + 1, u)' <=> u = t
  BY <1>1 DEF InQueue
<1>5. InFlightOnce'
  <2> SUFFICES ASSUME NEW u \in Ids PROVE FlightOnce(u)'
    BY DEF InFlightOnce
  <2>1. CASE u = t
    BY <1>1, <1>2, <1>3, <1>4, <2>1 DEF FlightOnce
  <2>2. CASE u # t
    BY <1>0, <1>1, <1>3, <1>4, <2>2 DEF Inv, InFlightOnce, FlightOnce
  <2> QED
    BY <2>1, <2>2
<1>6. PendingNotStranded'
  <2> SUFFICES ASSUME NEW u \in Ids, status[u] = "Pending"
               PROVE  \/ \E i \in 1 .. n + 1 : InQueue(i, u)'
                      \/ \E v \in Workers : WorkerHas(v, u)'
                      \/ \E c \in Clients : ClientHas(c, u)'
    BY <1>1 DEF PendingNotStranded
  <2>1. CASE u = t
    BY <1>1, <1>4, <2>1
  <2>2. CASE u # t
    BY <1>0, <1>1, <1>3, <2>2 DEF Inv, PendingNotStranded
  <2> QED
    BY <2>1, <2>2
<1> QED
  BY <1>5, <1>6

(* A step that changes the state of one task that is neither Suspended nor  *)
(* Completed keeps the conjunct about waiters.                              *)
LEMMA WaitingFrame ==
    ASSUME Inv, NEW t \in Ids, NEW s,
           status' = [status EXCEPT ![t] = s],
           status[t] \notin {"Suspended", "Completed"},
           \A u \in Ids : status[u] = "Suspended" => waiting_on'[u] = waiting_on[u],
           UNCHANGED <<waiters, wake>>,
           \A v \in Workers, u \in Ids : Registering(v, u)' <=> Registering(v, u),
           \A v \in Workers, i \in Nat, u \in Ids :
               TakenBy(v, i, u)' <=> TakenBy(v, i, u)
    PROVE  WaitingOnce'
<1>1. \A r \in Ids, i \in Nat, u \in Ids :
          RegisteredAt(r, i, u)' <=> RegisteredAt(r, i, u)
  BY DEF RegisteredAt
<1>2. \A u \in Ids : status[u] \in {"Suspended", "Completed"} => status'[u] = status[u]
  BY DEF Inv, TypeOK
<1>3. \A u \in Ids : status[u] = "Suspended" => waiting_on[u] \in Ids
  BY DEF Inv, SavedFrames, TypeOK
<1> QED
  BY <1>1, <1>2, <1>3 DEF Inv, WaitingOnce, WaitsOnce

(* The push that ends spawn preserves the invariant.                        *)
LEMMA ClientPushInv ==
    ASSUME Inv, NEW c \in Clients, ClientPush(c)
    PROVE  Inv'
<1> USE DEF taskVars, poolVars, statVars, workerVars, clientVars
<1>1. PICK t \in Ids : t = cid[c]
  BY DEF ClientPush, Inv, ClientHands, Allocation
<1>2. /\ cpc[c] = "push" /\ cpc' = [cpc EXCEPT ![c] = "idle"]
      /\ injector' = Append(injector, t)
  BY <1>1 DEF ClientPush
<1>3. cpc'[c] = "idle" /\ \A d \in Clients : d # c => cpc'[d] = cpc[d]
  BY <1>2 DEF Inv, TypeOK
<1>4. TypeOK'
  BY <1>2 DEF ClientPush, Inv, TypeOK
<1>5. Allocation' /\ SavedFrames' /\ WorkerHands' /\ RunningByOneWorker'
  BY DEF ClientPush, Inv, Allocation, SavedFrames, WorkerHands, RunningByOneWorker
<1>6. ClientHands' /\ CompletedHasValue'
  BY <1>3 DEF ClientPush, Inv, ClientHands, CompletedHasValue
<1>7. WaitingOnce'
  <2>1. \A v \in Workers, u \in Ids : Registering(v, u)' <=> Registering(v, u)
    BY DEF Registering, ClientPush
  <2>2. \A v \in Workers, i \in Nat, u \in Ids : TakenBy(v, i, u)' <=> TakenBy(v, i, u)
    BY DEF TakenBy, ClientPush
  <2>3. \A r \in Ids, i \in Nat, u \in Ids :
            RegisteredAt(r, i, u)' <=> RegisteredAt(r, i, u)
    BY DEF RegisteredAt, ClientPush
  <2>4. UNCHANGED <<status, waiting_on, waiters, wake>>
    BY DEF ClientPush
  <2> QED
    BY <2>1, <2>2, <2>3, <2>4 DEF Inv, WaitingOnce, WaitsOnce
<1>8. InFlightOnce' /\ PendingNotStranded'
  <2>1. ClientHas(c, t)
    BY <1>1, <1>2 DEF ClientHas
  <2>2. /\ \A v \in Workers : ~WorkerHas(v, t)
        /\ \A d \in Clients : ClientHas(d, t) => d = c
    BY <2>1 DEF Inv, InFlightOnce, FlightOnce
  <2>3. \A v \in Workers, u \in Ids : WorkerHas(v, u)' <=> WorkerHas(v, u) /\ u # t
    BY <2>2 DEF WorkerHas, ClientPush
  <2>4. \A d \in Clients, u \in Ids : ClientHas(d, u)' <=> ClientHas(d, u) /\ u # t
    BY <1>1, <1>2, <1>3, <2>2 DEF ClientHas, ClientPush
  <2>5. UNCHANGED status
    BY DEF ClientPush
  <2> QED
    BY <1>2, <2>1, <2>3, <2>4, <2>5, PushPlaces
<1> QED
  BY <1>4, <1>5, <1>6, <1>7, <1>8 DEF Inv

(* Pushing the sub-task preserves the invariant.                            *)
LEMMA PushSubInv ==
    ASSUME Inv, NEW w \in Workers, PushSub(w)
    PROVE  Inv'
<1> USE DEF taskVars, poolVars, statVars, workerVars, clientVars
<1>1. PICK t \in Ids : t = sub[w]
  BY DEF PushSub, Inv, WorkerHands, Allocation
<1>2. /\ pc[w] = "pushsub" /\ pc' = [pc EXCEPT ![w] = "checksub"]
      /\ injector' = Append(injector, t)
  BY <1>1 DEF PushSub, Goto
<1>3. pc'[w] = "checksub" /\ \A v \in Workers : v # w => pc'[v] = pc[v]
  BY <1>2 DEF Inv, TypeOK
<1>4. TypeOK'
  BY <1>2 DEF PushSub, Inv, TypeOK, WorkerPC, RunPC
<1>5. Allocation' /\ SavedFrames' /\ ClientHands' /\ CompletedHasValue'
  BY DEF PushSub, Inv, Allocation, SavedFrames, ClientHands, CompletedHasValue
<1>6. WorkerHands'
  BY <1>2, <1>3 DEF PushSub, Inv, WorkerHands, RunPC
<1>7. WaitingOnce'
  <2>1. \A v \in Workers, u \in Ids : Registering(v, u)' <=> Registering(v, u)
    BY <1>2, <1>3 DEF Registering, PushSub
  <2>2. \A v \in Workers, i \in Nat, u \in Ids : TakenBy(v, i, u)' <=> TakenBy(v, i, u)
    BY <1>2, <1>3 DEF TakenBy, PushSub
  <2>3. \A r \in Ids, i \in Nat, u \in Ids :
            RegisteredAt(r, i, u)' <=> RegisteredAt(r, i, u)
    BY DEF RegisteredAt, PushSub
  <2>4. UNCHANGED <<status, waiting_on, waiters, wake>>
    BY DEF PushSub
  <2> QED
    BY <2>1, <2>2, <2>3, <2>4 DEF Inv, WaitingOnce, WaitsOnce
<1>8. InFlightOnce' /\ PendingNotStranded'
  <2>1. WorkerHas(w, t)
    BY <1>1, <1>2 DEF WorkerHas
  <2>2. /\ \A v \in Workers : WorkerHas(v, t) => v = w
        /\ \A d \in Clients : ~ClientHas(d, t)
    BY <2>1 DEF Inv, InFlightOnce, FlightOnce
  <2>3. \A v \in Workers, u \in Ids : WorkerHas(v, u)' <=> WorkerHas(v, u) /\ u # t
    BY <1>1, <1>2, <1>3, <2>2 DEF WorkerHas, PushSub
  <2>4. \A d \in Clients, u \in Ids : ClientHas(d, u)' <=> ClientHas(d, u) /\ u # t
    BY <2>2 DEF ClientHas, PushSub
  <2>5. UNCHANGED status
    BY DEF PushSub
  <2> QED
    BY <1>2, <2>1, <2>3, <2>4, <2>5, PushPlaces
<1>9. RunningByOneWorker'
  <2>1. "pushsub" \in RunPC /\ "checksub" \in RunPC
    BY DEF RunPC
  <2> QED
    BY <1>2, <2>1, RunningFrame DEF PushSub
<1> QED
  BY <1>4, <1>5, <1>6, <1>7, <1>8, <1>9 DEF Inv

-----------------------------------------------------------------------------
(* Tasks that become Pending and tasks that leave that state.              *)

(* A task that becomes Pending in the hands of a worker. *)
LEMMA EnterWorker ==
    ASSUME Inv, NEW t \in Ids, NEW w \in Workers,
           status[t] # "Pending", status' = [status EXCEPT ![t] = "Pending"],
           UNCHANGED injector,
           \A v \in Workers, u \in Ids : WorkerHas(v, u)' <=> WorkerHas(v, u) \/ (v = w /\ u = t),
           \A c \in Clients, u \in Ids : ClientHas(c, u)' <=> ClientHas(c, u)
    PROVE  InFlightOnce' /\ PendingNotStranded'
<1>1. status'[t] = "Pending" /\ \A u \in Ids : u # t => status'[u] = status[u]
  BY DEF Inv, TypeOK
<1>2. /\ \A i \in 1 .. Len(injector) : ~InQueue(i, t)
      /\ \A v \in Workers : ~WorkerHas(v, t)
      /\ \A c \in Clients : ~ClientHas(c, t)
  BY DEF Inv, InFlightOnce, FlightOnce
<1>3. \A i \in 1 .. Len(injector), u \in Ids : InQueue(i, u)' <=> InQueue(i, u)
  BY DEF InQueue
<1>4. InFlightOnce'
  BY <1>1, <1>2, <1>3 DEF Inv, InFlightOnce, FlightOnce
<1>5. PendingNotStranded'
  BY <1>1, <1>3 DEF Inv, PendingNotStranded
<1> QED
  BY <1>4, <1>5

(* A task that becomes Pending in the hands of a client. *)
LEMMA EnterClient ==
    ASSUME Inv, NEW t \in Ids, NEW d \in Clients,
           status[t] # "Pending", status' = [status EXCEPT ![t] = "Pending"],
           UNCHANGED injector,
           \A v \in Workers, u \in Ids : WorkerHas(v, u)' <=> WorkerHas(v, u),
           \A c \in Clients, u \in Ids : ClientHas(c, u)' <=> ClientHas(c, u) \/ (c = d /\ u = t)
    PROVE  InFlightOnce' /\ PendingNotStranded'
<1>1. status'[t] = "Pending" /\ \A u \in Ids : u # t => status'[u] = status[u]
  BY DEF Inv, TypeOK
<1>2. /\ \A i \in 1 .. Len(injector) : ~InQueue(i, t)
      /\ \A v \in Workers : ~WorkerHas(v, t)
      /\ \A c \in Clients : ~ClientHas(c, t)
  BY DEF Inv, InFlightOnce, FlightOnce
<1>3. \A i \in 1 .. Len(injector), u \in Ids : InQueue(i, u)' <=> InQueue(i, u)
  BY DEF InQueue
<1>4. InFlightOnce'
  BY <1>1, <1>2, <1>3 DEF Inv, InFlightOnce, FlightOnce
<1>5. PendingNotStranded'
  BY <1>1, <1>3 DEF Inv, PendingNotStranded
<1> QED
  BY <1>4, <1>5

(* A task whose state changes and which has no place afterwards.            *)
LEMMA LeavePlaces ==
    ASSUME Inv, NEW t \in Ids, NEW s,
           s # "Pending", status' = [status EXCEPT ![t] = s],
           UNCHANGED injector,
           \A i \in 1 .. Len(injector) : ~InQueue(i, t),
           \A v \in Workers, u \in Ids :
               WorkerHas(v, u)' <=> WorkerHas(v, u) /\ u # t,
           \A c \in Clients, u \in Ids :
               ClientHas(c, u)' <=> ClientHas(c, u) /\ u # t
    PROVE  InFlightOnce' /\ PendingNotStranded'
<1>1. status'[t] = s /\ \A u \in Ids : u # t => status'[u] = status[u]
  BY DEF Inv, TypeOK
<1>2. \A i \in 1 .. Len(injector), u \in Ids : InQueue(i, u)' <=> InQueue(i, u)
  BY DEF InQueue
<1>3. InFlightOnce'
  BY <1>1, <1>2 DEF Inv, InFlightOnce, FlightOnce
<1>4. PendingNotStranded'
  BY <1>1, <1>2 DEF Inv, PendingNotStranded
<1> QED
  BY <1>3, <1>4

(* Claiming a task with the compare-and-swap preserves the invariant.       *)
LEMMA ClaimInv ==
    ASSUME Inv, NEW w \in Workers, Claim(w)
    PROVE  Inv'
<1> USE DEF taskVars, poolVars, statVars, workerVars, clientVars
<1>1. PICK t \in Ids : t = cur[w]
  BY DEF Claim, Inv, WorkerHands, Allocation
<1>2. pc[w] = "claim" /\ t \in tasks
  BY <1>1 DEF Claim, Inv, WorkerHands
<1>3. WorkerHas(w, t)
  BY <1>1, <1>2 DEF WorkerHas
<1>4. /\ status[t] = "Pending"
      /\ \A v \in Workers : WorkerHas(v, t) => v = w
      /\ \A c \in Clients : ~ClientHas(c, t)
      /\ \A i \in 1 .. Len(injector) : ~InQueue(i, t)
  BY <1>3 DEF Inv, InFlightOnce, FlightOnce
<1>5. /\ status' = [status EXCEPT ![t] = "Running"]
      /\ pc' = [pc EXCEPT ![w] = "begin"] /\ UNCHANGED cur
  BY <1>1, <1>4 DEF Claim, Goto
<1>6. pc'[w] = "begin" /\ \A v \in Workers : v # w => pc'[v] = pc[v]
  BY <1>5 DEF Inv, TypeOK
<1>7. status'[t] = "Running" /\ \A u \in Ids : u # t => status'[u] = status[u]
  BY <1>5 DEF Inv, TypeOK
<1>8. TypeOK'
  BY <1>5 DEF Claim, Inv, TypeOK, WorkerPC, RunPC, Status
<1>9. Allocation'
  BY <1>2, <1>7 DEF Claim, Inv, Allocation
<1>10. WorkerHands'
  <2>1. \A v \in Workers : pc[v] \in RunPC \cup {"addwaiter", "takewaiters"} =>
            cur[v] \in Ids
    BY DEF Inv, WorkerHands, Allocation
  <2> QED
    BY <1>1, <1>2, <1>4, <1>5, <1>6, <1>7, <2>1 DEF Claim, Inv, WorkerHands, RunPC
<1>11. ClientHands' /\ CompletedHasValue'
  BY <1>4, <1>7 DEF Claim, Inv, Allocation, ClientHands, CompletedHasValue
<1>12. SavedFrames'
  BY <1>4, <1>7 DEF Claim, Inv, Allocation, SavedFrames
<1>13. WaitingOnce'
  <2>1. \A v \in Workers, u \in Ids : Registering(v, u)' <=> Registering(v, u)
    BY <1>2, <1>5, <1>6 DEF Registering
  <2>2. \A v \in Workers, i \in Nat, u \in Ids : TakenBy(v, i, u)' <=> TakenBy(v, i, u)
    BY <1>2, <1>6 DEF TakenBy, Claim
  <2>3. UNCHANGED <<waiting_on, waiters, wake>>
    BY DEF Claim
  <2> QED
    BY <1>4, <1>5, <2>1, <2>2, <2>3, WaitingFrame
<1>14. InFlightOnce' /\ PendingNotStranded'
  <2>1. \A v \in Workers, u \in Ids : WorkerHas(v, u)' <=> WorkerHas(v, u) /\ u # t
    BY <1>1, <1>2, <1>4, <1>5, <1>6 DEF WorkerHas, Claim
  <2>2. \A c \in Clients, u \in Ids : ClientHas(c, u)' <=> ClientHas(c, u) /\ u # t
    BY <1>4 DEF ClientHas, Claim
  <2>3. UNCHANGED injector
    BY DEF Claim
  <2> QED
    BY <1>4, <1>5, <2>1, <2>2, <2>3, LeavePlaces
<1>15. RunningByOneWorker'
  <2>1. \A v \in Workers : pc[v] \in RunPC => cur[v] # t /\ v # w /\ cur[v] \in Ids
    BY <1>2, <1>4 DEF Inv, RunningByOneWorker, WorkerHands, Allocation, RunPC
  <2>2. "begin" \in RunPC
    BY DEF RunPC
  <2> QED
    BY <1>1, <1>5, <1>6, <1>7, <2>1, <2>2 DEF Inv, RunningByOneWorker
<1> QED
  BY <1>8, <1>9, <1>10, <1>11, <1>12, <1>13, <1>14, <1>15 DEF Inv

(* Resuming: the target is Completed, so the task is not suspended again.   *)
LEMMA ResumeInv ==
    ASSUME Inv, NEW w \in Workers, Resume(w)
    PROVE  Inv'
<1> USE DEF taskVars, poolVars, statVars, workerVars, clientVars
<1>1. PICK t \in Ids : t = cur[w]
  BY DEF Resume, Inv, WorkerHands, Allocation, RunPC
<1>2. /\ pc[w] = "resume" /\ pc[w] \in RunPC /\ "setresult" \in RunPC
      /\ pc[w] \notin PlacePC /\ "setresult" \notin PlacePC
  BY DEF Resume, RunPC, PlacePC
<1>3. t \in tasks /\ job[t] \in Job /\ saved[t] # None /\ status[t] = "Running"
  BY <1>1, <1>2 DEF Inv, WorkerHands, Allocation, RunningByOneWorker
<1>4. /\ waiting_on[t] \in tasks /\ waiting_on[t] \in Ids
      /\ status[waiting_on[t]] = "Completed"
      /\ IsSpawn(job[t]) /\ job[waiting_on[t]] = SubJob(job[t])
      /\ saved[t] = Accumulator(job[t])
  BY <1>3 DEF Inv, SavedFrames, Allocation
<1>5. saved[t] + result[waiting_on[t]] = Eval(job[t]) /\ Eval(job[t]) \in Int
  BY <1>3, <1>4, EvalUnfold, EvalType DEF Inv, CompletedHasValue
<1>6. /\ val' = [val EXCEPT ![w] = Eval(job[t])]
      /\ saved' = [saved EXCEPT ![t] = None]
      /\ waiting_on' = [waiting_on EXCEPT ![t] = NoTask]
      /\ pc' = [pc EXCEPT ![w] = "setresult"] /\ UNCHANGED <<status, cur>>
  BY <1>1, <1>4, <1>5 DEF Resume, Goto
<1>7. pc'[w] = "setresult" /\ \A v \in Workers : v # w => pc'[v] = pc[v]
  BY <1>6 DEF Inv, TypeOK
<1>8. /\ saved'[t] = None
      /\ \A u \in Ids : u # t => saved'[u] = saved[u] /\ waiting_on'[u] = waiting_on[u]
  BY <1>6 DEF Inv, TypeOK
<1>9. TypeOK'
  BY <1>5, <1>6 DEF Resume, Inv, TypeOK, WorkerPC, RunPC
<1>10. Allocation' /\ ClientHands' /\ CompletedHasValue'
  BY <1>6 DEF Resume, Inv, Allocation, ClientHands, CompletedHasValue
<1>11. WorkerHands'
  <2>1. val'[w] = Eval(job[t]) /\ \A v \in Workers : v # w => val'[v] = val[v]
    BY <1>6 DEF Inv, TypeOK
  <2>2. \A v \in Workers : pc[v] = "resume" /\ v # w => cur[v] # t /\ cur[v] \in Ids
    BY <1>1, <1>2 DEF Inv, RunningByOneWorker, WorkerHands, Allocation
  <2>3. \A v \in Workers : pc[v] = "addwaiter" => cur[v] # t /\ cur[v] \in Ids
    BY <1>3 DEF Inv, WorkerHands, Allocation
  <2> QED
    BY <1>1, <1>3, <1>6, <1>7, <1>8, <2>1, <2>2, <2>3 DEF Resume, Inv, WorkerHands, RunPC
<1>12. SavedFrames'
  BY <1>3, <1>6, <1>8 DEF Resume, Inv, SavedFrames
<1>13. WaitingOnce' /\ InFlightOnce' /\ PendingNotStranded'
  BY <1>2, <1>3, <1>6, <1>8, QuietStep DEF Resume
<1>14. RunningByOneWorker'
  BY <1>2, <1>6, RunningFrame
<1> QED
  BY <1>9, <1>10, <1>11, <1>12, <1>13, <1>14 DEF Inv

(* Suspending the running task preserves the invariant.                     *)
LEMMA SuspendInv ==
    ASSUME Inv, NEW w \in Workers, Suspend(w)
    PROVE  Inv'
<1> USE DEF taskVars, poolVars, statVars, workerVars, clientVars
<1>1. PICK t \in Ids : t = cur[w]
  BY DEF Suspend, Inv, WorkerHands, Allocation, RunPC
<1>2. PICK s \in Ids : s = sub[w]
  BY DEF Suspend, Inv, WorkerHands, Allocation
<1>3. /\ pc[w] = "suspend" /\ pc[w] \in RunPC /\ "addwaiter" \notin RunPC
  BY DEF Suspend, RunPC
<1>4. /\ t \in tasks /\ s \in tasks /\ job[t] \in Job /\ status[t] = "Running"
      /\ IsSpawn(job[t]) /\ job[s] = SubJob(job[t])
      /\ Accumulator(job[t]) \in Int /\ Accumulator(job[t]) # None
  <2>1. t \in tasks /\ s \in tasks /\ job[t] \in Job /\ status[t] = "Running"
    BY <1>1, <1>2, <1>3 DEF Inv, WorkerHands, Allocation, RunningByOneWorker
  <2>2. IsSpawn(job[t]) /\ job[s] = SubJob(job[t])
    BY <1>1, <1>2, <1>3 DEF Inv, WorkerHands
  <2> QED
    BY <2>1, <2>2, SubJobType, NullAssumption
<1>5. /\ status' = [status EXCEPT ![t] = "Suspended"]
      /\ saved' = [saved EXCEPT ![t] = Accumulator(job[t])]
      /\ waiting_on' = [waiting_on EXCEPT ![t] = s]
      /\ pc' = [pc EXCEPT ![w] = "addwaiter"] /\ UNCHANGED <<cur, sub>>
  BY <1>1, <1>2 DEF Suspend, Goto
<1>6. pc'[w] = "addwaiter" /\ \A v \in Workers : v # w => pc'[v] = pc[v]
  BY <1>5 DEF Inv, TypeOK
<1>7. /\ status'[t] = "Suspended" /\ waiting_on'[t] = s
      /\ saved'[t] = Accumulator(job[t])
      /\ \A u \in Ids : u # t => /\ status'[u] = status[u] /\ saved'[u] = saved[u]
                                 /\ waiting_on'[u] = waiting_on[u]
  BY <1>5 DEF Inv, TypeOK
<1>8. \A v \in Workers : v # w /\ pc[v] \in RunPC \cup {"addwaiter", "takewaiters"} =>
          cur[v] \in Ids /\ cur[v] # t
  <2>1. \A v \in Workers : v # w /\ pc[v] \in RunPC => cur[v] # t
    BY <1>1, <1>3 DEF Inv, RunningByOneWorker
  <2>2. \A v \in Workers : pc[v] \in {"addwaiter", "takewaiters"} => cur[v] # t
    BY <1>4 DEF Inv, WorkerHands
  <2>3. \A v \in Workers : pc[v] \in RunPC \cup {"addwaiter", "takewaiters"} =>
            cur[v] \in Ids
    BY DEF Inv, WorkerHands, Allocation
  <2> QED
    BY <2>1, <2>2, <2>3
<1>9. TypeOK'
  <2>1. /\ status' \in [Ids -> Status] /\ pc' \in [Workers -> WorkerPC]
        /\ waiting_on' \in [Ids -> Ids \cup {NoTask}]
    BY <1>5 DEF Inv, TypeOK, WorkerPC, Status
  <2>2. saved' \in [Ids -> Int \cup {None}]
    BY <1>4, <1>5 DEF Inv, TypeOK
  <2> QED
    BY <2>1, <2>2 DEF Suspend, Inv, TypeOK
<1>10. Allocation'
  BY <1>4, <1>7 DEF Suspend, Inv, Allocation
<1>11. WorkerHands'
  BY <1>1, <1>2, <1>3, <1>4, <1>5, <1>6, <1>7, <1>8
     DEF Suspend, Inv, WorkerHands, RunPC
<1>12. ClientHands' /\ CompletedHasValue'
  BY <1>4, <1>7 DEF Suspend, Inv, Allocation, ClientHands, CompletedHasValue
<1>13. SavedFrames'
  BY <1>4, <1>7 DEF Suspend, Inv, Allocation, SavedFrames
<1>14. WaitingOnce'
  <2>1. \A v \in Workers, u \in Ids :
            Registering(v, u)' <=> Registering(v, u) \/ (v = w /\ u = t)
    BY <1>1, <1>3, <1>5, <1>6 DEF Registering
  <2>2. \A v \in Workers, i \in Nat, u \in Ids : TakenBy(v, i, u)' <=> TakenBy(v, i, u)
    BY <1>3, <1>6 DEF TakenBy, Suspend
  <2>3. \A r \in Ids, i \in Nat, u \in Ids :
            RegisteredAt(r, i, u)' <=> RegisteredAt(r, i, u)
    BY DEF RegisteredAt, Suspend
  <2>4. UNCHANGED <<waiters, wake>>
    BY DEF Suspend
  <2>5. \A v \in Workers : ~Registering(v, t)
    BY <1>4 DEF Inv, WorkerHands, Registering
  <2>6. \A u \in Ids : status[u] = "Suspended" => waiting_on[u] \in Ids /\ u # t
    BY <1>4 DEF Inv, SavedFrames, TypeOK
  <2> QED
    BY <1>4, <1>7, <2>1, <2>2, <2>3, <2>4, <2>5, <2>6 DEF Inv, WaitingOnce, WaitsOnce
<1>15. InFlightOnce' /\ PendingNotStranded'
  <2>1. /\ \A v \in Workers : ~WorkerHas(v, t)
        /\ \A c \in Clients : ~ClientHas(c, t)
        /\ \A i \in 1 .. Len(injector) : ~InQueue(i, t)
    BY <1>4 DEF Inv, InFlightOnce, FlightOnce
  <2>2. \A v \in Workers, u \in Ids : WorkerHas(v, u)' <=> WorkerHas(v, u) /\ u # t
    BY <1>3, <1>5, <1>6, <2>1 DEF WorkerHas, Suspend
  <2>3. \A c \in Clients, u \in Ids : ClientHas(c, u)' <=> ClientHas(c, u) /\ u # t
    BY <2>1 DEF ClientHas, Suspend
  <2>4. UNCHANGED injector
    BY DEF Suspend
  <2> QED
    BY <1>5, <2>1, <2>2, <2>3, <2>4, LeavePlaces
<1>16. RunningByOneWorker'
  BY <1>1, <1>3, <1>5, <1>6, <1>7, <1>8 DEF Inv, RunningByOneWorker
<1> QED
  BY <1>9, <1>10, <1>11, <1>12, <1>13, <1>14, <1>15, <1>16 DEF Inv

(* Publishing Completed preserves the invariant.                            *)
LEMMA SetCompletedInv ==
    ASSUME Inv, NEW w \in Workers, SetCompleted(w)
    PROVE  Inv'
<1> USE DEF taskVars, poolVars, statVars, workerVars, clientVars
<1>1. PICK t \in Ids : t = cur[w]
  BY DEF SetCompleted, Inv, WorkerHands, Allocation, RunPC
<1>2. /\ pc[w] = "setcompleted" /\ pc[w] \in RunPC /\ "takewaiters" \notin RunPC
  BY DEF SetCompleted, RunPC
<1>3. t \in tasks /\ status[t] = "Running" /\ result[t] = Eval(job[t])
  BY <1>1, <1>2 DEF Inv, WorkerHands, RunningByOneWorker
<1>4. /\ status' = [status EXCEPT ![t] = "Completed"]
      /\ pc' = [pc EXCEPT ![w] = "takewaiters"] /\ UNCHANGED cur
  BY <1>1 DEF SetCompleted, Goto
<1>5. pc'[w] = "takewaiters" /\ \A v \in Workers : v # w => pc'[v] = pc[v]
  BY <1>4 DEF Inv, TypeOK
<1>6. status'[t] = "Completed" /\ \A u \in Ids : u # t => status'[u] = status[u]
  BY <1>4 DEF Inv, TypeOK
<1>7. \A v \in Workers : v # w /\ pc[v] \in RunPC \cup {"addwaiter", "takewaiters"} =>
          cur[v] \in Ids /\ cur[v] # t
  <2>1. \A v \in Workers : v # w /\ pc[v] \in RunPC => cur[v] # t
    BY <1>1, <1>2 DEF Inv, RunningByOneWorker
  <2>2. \A v \in Workers : pc[v] \in {"addwaiter", "takewaiters"} => cur[v] # t
    BY <1>3 DEF Inv, WorkerHands
  <2>3. \A v \in Workers : pc[v] \in RunPC \cup {"addwaiter", "takewaiters"} =>
            cur[v] \in Ids
    BY DEF Inv, WorkerHands, Allocation
  <2> QED
    BY <2>1, <2>2, <2>3
<1>8. TypeOK'
  BY <1>4 DEF SetCompleted, Inv, TypeOK, WorkerPC, Status
<1>9. Allocation'
  BY <1>3, <1>6 DEF SetCompleted, Inv, Allocation
<1>10. WorkerHands'
  BY <1>1, <1>2, <1>3, <1>4, <1>5, <1>6, <1>7
     DEF SetCompleted, Inv, WorkerHands, RunPC
<1>11. ClientHands' /\ CompletedHasValue'
  BY <1>3, <1>6 DEF SetCompleted, Inv, Allocation, ClientHands, CompletedHasValue
<1>12. SavedFrames'
  BY <1>3, <1>6 DEF SetCompleted, Inv, Allocation, SavedFrames
<1>13. WaitingOnce'
  <2>1. \A v \in Workers, u \in Ids : Registering(v, u)' <=> Registering(v, u)
    BY <1>2, <1>4, <1>5 DEF Registering
  <2>2. \A v \in Workers, i \in Nat, u \in Ids : TakenBy(v, i, u)' <=> TakenBy(v, i, u)
    BY <1>2, <1>5 DEF TakenBy, SetCompleted
  <2>3. UNCHANGED <<waiting_on, waiters, wake>>
    BY DEF SetCompleted
  <2> QED
    BY <1>3, <1>4, <2>1, <2>2, <2>3, WaitingFrame
<1>14. InFlightOnce' /\ PendingNotStranded'
  <2>1. /\ \A v \in Workers : ~WorkerHas(v, t)
        /\ \A c \in Clients : ~ClientHas(c, t)
        /\ \A i \in 1 .. Len(injector) : ~InQueue(i, t)
    BY <1>3 DEF Inv, InFlightOnce, FlightOnce
  <2>2. \A v \in Workers, u \in Ids : WorkerHas(v, u)' <=> WorkerHas(v, u) /\ u # t
    BY <1>2, <1>4, <1>5, <2>1 DEF WorkerHas, SetCompleted
  <2>3. \A c \in Clients, u \in Ids : ClientHas(c, u)' <=> ClientHas(c, u) /\ u # t
    BY <2>1 DEF ClientHas, SetCompleted
  <2>4. UNCHANGED injector
    BY DEF SetCompleted
  <2> QED
    BY <1>4, <2>1, <2>2, <2>3, <2>4, LeavePlaces
<1>15. RunningByOneWorker'
  BY <1>1, <1>2, <1>4, <1>5, <1>6, <1>7 DEF Inv, RunningByOneWorker
<1> QED
  BY <1>8, <1>9, <1>10, <1>11, <1>12, <1>13, <1>14, <1>15 DEF Inv

-----------------------------------------------------------------------------
(* Waiters.                                                                *)

(* Registering the suspended task as a waiter preserves the invariant.      *)
LEMMA AddWaiterInv ==
    ASSUME Inv, NEW w \in Workers, AddWaiter(w)
    PROVE  Inv'
<1> USE DEF taskVars, poolVars, statVars, workerVars, clientVars
<1>1. PICK t \in Ids : t = cur[w]
  BY DEF AddWaiter, Inv, WorkerHands, Allocation
<1>2. PICK s \in Ids : s = sub[w]
  BY DEF AddWaiter, Inv, WorkerHands, Allocation
<1>3. pc[w] = "addwaiter" /\ pc[w] \notin RunPC /\ "loop" \notin RunPC
  BY DEF AddWaiter, RunPC
<1>4. status[t] = "Suspended" /\ waiting_on[t] = s
  BY <1>1, <1>2, <1>3 DEF Inv, WorkerHands
<1>5. /\ waiters' = [waiters EXCEPT ![s] = Append(waiters[s], t)]
      /\ cur' = [cur EXCEPT ![w] = NoTask] /\ sub' = [sub EXCEPT ![w] = NoTask]
      /\ pc' = [pc EXCEPT ![w] = "loop"]
  BY <1>1, <1>2 DEF AddWaiter, Goto
<1>6. /\ pc'[w] = "loop" /\ \A v \in Workers : v # w => pc'[v] = pc[v]
      /\ \A v \in Workers : v # w => cur'[v] = cur[v] /\ sub'[v] = sub[v]
  BY <1>5 DEF Inv, TypeOK
<1>7. PICK n \in Nat : n = Len(waiters[s])
  BY DEF Inv, TypeOK
<1>8. /\ waiters[s] \in Seq(Ids) /\ Len(waiters'[s]) = n + 1
      /\ waiters'[s][n + 1] = t /\ \A i \in 1 .. n : waiters'[s][i] = waiters[s][i]
      /\ \A r \in Ids : r # s => waiters'[r] = waiters[r]
  BY <1>5, <1>7 DEF Inv, TypeOK
<1>9. TypeOK'
  BY <1>5, <1>8 DEF AddWaiter, Inv, TypeOK, WorkerPC
<1>10. Allocation' /\ ClientHands' /\ SavedFrames' /\ CompletedHasValue'
  BY DEF AddWaiter, Inv, Allocation, ClientHands, SavedFrames, CompletedHasValue
<1>11. WorkerHands'
  BY <1>3, <1>6 DEF AddWaiter, Inv, WorkerHands, RunPC
<1>12. WaitingOnce'
  <2>1. Registering(w, t)
    BY <1>1, <1>3 DEF Registering
  <2>2. \A v \in Workers : Registering(v, t) => v = w
    BY <2>1 DEF Inv, WaitingOnce, WaitsOnce
  <2>3. \A v \in Workers, u \in Ids :
            Registering(v, u)' <=> Registering(v, u) /\ u # t
    BY <1>1, <1>3, <1>6, <2>2 DEF Registering
  <2>4. \A v \in Workers, i \in Nat, u \in Ids : TakenBy(v, i, u)' <=> TakenBy(v, i, u)
    BY <1>3, <1>6 DEF TakenBy, AddWaiter
  <2>5. \A r \in Ids, u \in Ids : \A i \in 1 .. Len(waiters'[r]) :
            RegisteredAt(r, i, u)' <=>
                \/ i \in 1 .. Len(waiters[r]) /\ RegisteredAt(r, i, u)
                \/ r = s /\ i = n + 1 /\ u = t
    BY <1>7, <1>8 DEF RegisteredAt
  <2>6. \A r \in Ids : \A i \in 1 .. Len(waiters[r]) : ~RegisteredAt(r, i, t)
    BY <2>1 DEF Inv, WaitingOnce, WaitsOnce
  <2>7. \A v \in Workers : \A i \in 1 .. Len(wake[v]) : ~TakenBy(v, i, t)
    BY <2>1 DEF Inv, WaitingOnce, WaitsOnce
  <2>8. UNCHANGED <<status, waiting_on, wake>>
    BY DEF AddWaiter
  <2> SUFFICES ASSUME NEW u \in Ids PROVE WaitsOnce(u)'
    BY DEF WaitingOnce
  <2>9. CASE u = t
    BY <1>4, <2>3, <2>4, <2>5, <2>6, <2>7, <2>8, <2>9 DEF WaitsOnce
  <2>10. CASE u # t
    <3>1. \A r \in Ids : \A i \in 1 .. Len(waiters'[r]) :
              RegisteredAt(r, i, u)' => i \in 1 .. Len(waiters[r]) /\ RegisteredAt(r, i, u)
      BY <2>5, <2>10
    <3>2. WaitsOnce(u)
      BY DEF Inv, WaitingOnce
    <3>3. \A v \in Workers : Registering(v, u)' <=> Registering(v, u)
      BY <2>3, <2>10
    <3>4. \A v \in Workers : \A i \in 1 .. Len(wake[v]) : TakenBy(v, i, u)' <=> TakenBy(v, i, u)
      BY <2>4
    <3> QED
      BY <2>8, <3>1, <3>2, <3>3, <3>4 DEF WaitsOnce
  <2> QED
    BY <2>9, <2>10
<1>13. InFlightOnce' /\ PendingNotStranded'
  <2>1. \A v \in Workers, u \in Ids : WorkerHas(v, u)' <=> WorkerHas(v, u)
    BY <1>3, <1>6 DEF WorkerHas, AddWaiter
  <2>2. \A c \in Clients, u \in Ids : ClientHas(c, u)' <=> ClientHas(c, u)
    BY DEF ClientHas, AddWaiter
  <2>3. \A i \in Nat, u \in Ids : InQueue(i, u)' <=> InQueue(i, u)
    BY DEF InQueue, AddWaiter
  <2>4. UNCHANGED <<status, injector>>
    BY DEF AddWaiter
  <2>5. InFlightOnce'
    BY <2>1, <2>2, <2>3, <2>4 DEF Inv, InFlightOnce, FlightOnce
  <2>6. PendingNotStranded'
    BY <2>1, <2>2, <2>3, <2>4 DEF Inv, PendingNotStranded
  <2> QED
    BY <2>5, <2>6
<1>14. RunningByOneWorker'
  <2>1. \A v \in Workers : v # w => cur'[v] = cur[v]
    BY <1>6
  <2>2. UNCHANGED status
    BY DEF AddWaiter
  <2> QED
    BY <1>3, <1>5, <2>1, <2>2, RunningFrame
<1> QED
  BY <1>9, <1>10, <1>11, <1>12, <1>13, <1>14 DEF Inv

(* Taking the waiters of a completed task preserves the invariant.          *)
LEMMA TakeWaitersInv ==
    ASSUME Inv, NEW w \in Workers, TakeWaiters(w)
    PROVE  Inv'
<1> USE DEF taskVars, poolVars, statVars, workerVars, clientVars
<1>1. PICK t \in Ids : t = cur[w]
  BY DEF TakeWaiters, Inv, WorkerHands, Allocation
<1>2. /\ pc[w] = "takewaiters" /\ pc[w] \notin RunPC /\ "checkwaiter" \notin RunPC
      /\ status[t] = "Completed"
  BY <1>1 DEF TakeWaiters, RunPC, Inv, WorkerHands
<1>3. /\ wake' = [wake EXCEPT ![w] = waiters[t]]
      /\ waiters' = [waiters EXCEPT ![t] = <<>>]
      /\ cur' = [cur EXCEPT ![w] = NoTask]
      /\ pc' = [pc EXCEPT ![w] = "checkwaiter"]
  BY <1>1 DEF TakeWaiters, Goto
<1>4. /\ pc'[w] = "checkwaiter" /\ wake'[w] = waiters[t]
      /\ \A v \in Workers : v # w => /\ pc'[v] = pc[v] /\ cur'[v] = cur[v]
                                     /\ wake'[v] = wake[v]
      /\ waiters'[t] = <<>> /\ \A r \in Ids : r # t => waiters'[r] = waiters[r]
  BY <1>3 DEF Inv, TypeOK
<1>5. TypeOK'
  <2>1. /\ wake' \in [Workers -> Seq(Ids)] /\ waiters' \in [Ids -> Seq(Ids)]
    BY <1>3 DEF Inv, TypeOK
  <2>2. /\ cur' \in [Workers -> Ids \cup {NoTask}] /\ pc' \in [Workers -> WorkerPC]
    BY <1>3 DEF Inv, TypeOK, WorkerPC
  <2> QED
    BY <2>1, <2>2 DEF TakeWaiters, Inv, TypeOK
<1>6. Allocation' /\ ClientHands' /\ SavedFrames' /\ CompletedHasValue'
  BY DEF TakeWaiters, Inv, Allocation, ClientHands, SavedFrames, CompletedHasValue
<1>7. WorkerHands'
  BY <1>2, <1>4 DEF TakeWaiters, Inv, WorkerHands, RunPC
<1>8. WaitingOnce'
  <2>1. \A v \in Workers, u \in Ids : Registering(v, u)' <=> Registering(v, u)
    BY <1>2, <1>4 DEF Registering
  <2>2. \A v \in Workers, u \in Ids : \A i \in 1 .. Len(wake'[v]) :
            /\ v # w => i \in 1 .. Len(wake[v]) /\ (TakenBy(v, i, u)' <=> TakenBy(v, i, u))
            /\ v = w => i \in 1 .. Len(waiters[t])
                        /\ (TakenBy(v, i, u)' <=> RegisteredAt(t, i, u))
    BY <1>4 DEF TakenBy, RegisteredAt
  <2>3. \A r \in Ids, u \in Ids : \A i \in 1 .. Len(waiters'[r]) :
            /\ r # t /\ i \in 1 .. Len(waiters[r])
            /\ RegisteredAt(r, i, u)' <=> RegisteredAt(r, i, u)
    BY <1>4 DEF RegisteredAt
  <2>4. UNCHANGED <<status, waiting_on>>
    BY DEF TakeWaiters
  <2> SUFFICES ASSUME NEW u \in Ids PROVE WaitsOnce(u)'
    BY DEF WaitingOnce
  <2>5. CASE \E i \in 1 .. Len(waiters[t]) : RegisteredAt(t, i, u)
    <3>1. PICK i \in 1 .. Len(waiters[t]) : RegisteredAt(t, i, u)
      BY <2>5
    <3>2. /\ status[u] = "Suspended" /\ waiting_on[u] = t
          /\ \A k \in 1 .. Len(waiters[t]) : RegisteredAt(t, k, u) => i = k
          /\ \A x \in Workers : ~Registering(x, u)
          /\ \A x \in Workers : \A k \in 1 .. Len(wake[x]) : ~TakenBy(x, k, u)
      BY <3>1 DEF Inv, WaitingOnce, WaitsOnce
    <3>3. \A r \in Ids : \A k \in 1 .. Len(waiters[r]) : RegisteredAt(r, k, u) => r = t
      BY <3>2 DEF Inv, WaitingOnce, WaitsOnce
    <3> QED
      BY <1>2, <2>1, <2>2, <2>3, <2>4, <3>1, <3>2, <3>3 DEF WaitsOnce
  <2>6. CASE ~ \E i \in 1 .. Len(waiters[t]) : RegisteredAt(t, i, u)
    BY <2>1, <2>2, <2>3, <2>4, <2>6 DEF Inv, WaitingOnce, WaitsOnce
  <2> QED
    BY <2>5, <2>6
<1>9. InFlightOnce' /\ PendingNotStranded'
  <2>1. \A v \in Workers, u \in Ids : WorkerHas(v, u)' <=> WorkerHas(v, u)
    BY <1>2, <1>4 DEF WorkerHas, TakeWaiters
  <2>2. \A c \in Clients, u \in Ids : ClientHas(c, u)' <=> ClientHas(c, u)
    BY DEF ClientHas, TakeWaiters
  <2>3. \A i \in Nat, u \in Ids : InQueue(i, u)' <=> InQueue(i, u)
    BY DEF InQueue, TakeWaiters
  <2>4. UNCHANGED <<status, injector>>
    BY DEF TakeWaiters
  <2>5. InFlightOnce'
    BY <2>1, <2>2, <2>3, <2>4 DEF Inv, InFlightOnce, FlightOnce
  <2>6. PendingNotStranded'
    BY <2>1, <2>2, <2>3, <2>4 DEF Inv, PendingNotStranded
  <2> QED
    BY <2>5, <2>6
<1>10. RunningByOneWorker'
  <2>1. \A v \in Workers : v # w => cur'[v] = cur[v]
    BY <1>4
  <2> QED
    BY <1>2, <1>3, <2>1, RunningFrame DEF TakeWaiters
<1> QED
  BY <1>5, <1>6, <1>7, <1>8, <1>9, <1>10 DEF Inv

(* Making a woken task Pending preserves the invariant.                     *)
LEMMA SetPendingInv ==
    ASSUME Inv, NEW w \in Workers, SetPending(w)
    PROVE  Inv'
<1> USE DEF taskVars, poolVars, statVars, workerVars, clientVars
<1>1. pc[w] = "setpending" /\ wake[w] # <<>> /\ wake[w] \in Seq(Ids)
  BY DEF SetPending, Inv, WorkerHands, TypeOK
<1>2. PICK t \in Ids : t = Head(wake[w])
  BY <1>1
<1>3. 1 \in 1 .. Len(wake[w]) /\ wake[w][1] = t
  BY <1>1, <1>2
<1>4. TakenBy(w, 1, t)
  BY <1>1, <1>3 DEF TakenBy
<1>5. /\ status[t] = "Suspended" /\ status[waiting_on[t]] = "Completed"
      /\ \A v \in Workers : \A k \in 1 .. Len(wake[v]) : TakenBy(v, k, t) => v = w /\ k = 1
      /\ \A v \in Workers : ~Registering(v, t)
  BY <1>3, <1>4 DEF Inv, WaitingOnce, WaitsOnce
<1>6. \A s \in Ids : \A i \in 1 .. Len(waiters[s]) : ~RegisteredAt(s, i, t)
  BY <1>3, <1>4 DEF Inv, WaitingOnce, WaitsOnce
<1>7. t \in tasks /\ saved[t] # None /\ waiting_on[t] \in tasks /\ waiting_on[t] \in Ids
  BY <1>5 DEF Inv, SavedFrames, TypeOK
<1>8. /\ status' = [status EXCEPT ![t] = "Pending"]
      /\ pc' = [pc EXCEPT ![w] = "requeue"]
      /\ UNCHANGED <<cur, sub, wake, waiters, waiting_on, saved, injector>>
  BY <1>2 DEF SetPending, Goto
<1>9. pc'[w] = "requeue" /\ \A v \in Workers : v # w => pc'[v] = pc[v]
  BY <1>8 DEF Inv, TypeOK
<1>10. status'[t] = "Pending" /\ \A u \in Ids : u # t => status'[u] = status[u]
  BY <1>8 DEF Inv, TypeOK
<1>11. \A v \in Workers : pc[v] \in RunPC \cup {"addwaiter", "takewaiters"} =>
           cur[v] \in Ids /\ cur[v] # t
  <2>1. \A v \in Workers : pc[v] \in RunPC => cur[v] # t
    BY <1>5 DEF Inv, RunningByOneWorker
  <2>2. \A v \in Workers : pc[v] = "addwaiter" => cur[v] # t
    BY <1>5 DEF Registering
  <2>3. \A v \in Workers : pc[v] = "takewaiters" => cur[v] # t
    BY <1>5 DEF Inv, WorkerHands
  <2>4. \A v \in Workers : pc[v] \in RunPC \cup {"addwaiter", "takewaiters"} =>
            cur[v] \in Ids
    BY DEF Inv, WorkerHands, Allocation
  <2> QED
    BY <2>1, <2>2, <2>3, <2>4
<1>12. TypeOK'
  BY <1>8 DEF SetPending, Inv, TypeOK, WorkerPC, Status
<1>13. Allocation'
  BY <1>7, <1>10 DEF SetPending, Inv, Allocation
<1>14. WorkerHands'
  BY <1>1, <1>8, <1>9, <1>10, <1>11 DEF SetPending, Inv, WorkerHands, RunPC
<1>15. ClientHands' /\ CompletedHasValue'
  BY <1>5, <1>10 DEF SetPending, Inv, Allocation, ClientHands, CompletedHasValue
<1>16. SavedFrames'
  BY <1>5, <1>7, <1>10 DEF SetPending, Inv, Allocation, SavedFrames
<1>17. WaitingOnce'
  <2>1. \A v \in Workers, u \in Ids : Registering(v, u)' <=> Registering(v, u)
    BY <1>1, <1>8, <1>9 DEF Registering
  <2>2. \A v \in Workers, u \in Ids : \A i \in 1 .. Len(wake[v]) :
            TakenBy(v, i, u)' <=> TakenBy(v, i, u) /\ u # t
    BY <1>1, <1>3, <1>5, <1>8, <1>9 DEF TakenBy
  <2>3. \A s \in Ids, i \in Nat, u \in Ids :
            RegisteredAt(s, i, u)' <=> RegisteredAt(s, i, u)
    BY <1>8 DEF RegisteredAt
  <2> SUFFICES ASSUME NEW u \in Ids PROVE WaitsOnce(u)'
    BY DEF WaitingOnce
  <2>4. WaitsOnce(u)
    BY DEF Inv, WaitingOnce
  <2>5. CASE u = t
    BY <1>5, <1>6, <1>8, <2>1, <2>2, <2>3, <2>5 DEF WaitsOnce
  <2>6. CASE u # t
    <3>1. status'[u] = status[u]
      BY <1>10, <2>6
    <3>2. status[u] = "Suspended" => waiting_on[u] \in Ids
      BY DEF Inv, SavedFrames, TypeOK
    <3>3. status[u] = "Suspended" /\ status[waiting_on[u]] = "Completed" =>
              status'[waiting_on[u]] = "Completed"
      BY <1>5, <1>10, <3>2
    <3> QED
      BY <1>8, <2>1, <2>2, <2>3, <2>4, <2>6, <3>1, <3>3 DEF WaitsOnce
  <2> QED
    BY <2>5, <2>6
<1>18. InFlightOnce' /\ PendingNotStranded'
  <2>1. \A v \in Workers, u \in Ids :
            WorkerHas(v, u)' <=> WorkerHas(v, u) \/ (v = w /\ u = t)
    BY <1>1, <1>2, <1>8, <1>9 DEF WorkerHas
  <2>2. \A c \in Clients, u \in Ids : ClientHas(c, u)' <=> ClientHas(c, u)
    BY DEF ClientHas, SetPending
  <2> QED
    BY <1>5, <1>8, <2>1, <2>2, EnterWorker
<1>19. RunningByOneWorker'
  <2>1. pc[w] \notin RunPC /\ "requeue" \notin RunPC
    BY <1>1 DEF RunPC
  <2> QED
    BY <1>5, <1>8, <1>9, <1>10, <1>11, <2>1 DEF Inv, RunningByOneWorker
<1> QED
  BY <1>12, <1>13, <1>14, <1>15, <1>16, <1>17, <1>18, <1>19 DEF Inv

(* Pushing a woken task preserves the invariant.                            *)
LEMMA RequeueInv ==
    ASSUME Inv, NEW w \in Workers, Requeue(w)
    PROVE  Inv'
<1> USE DEF taskVars, poolVars, statVars, workerVars, clientVars
<1>1. pc[w] = "requeue" /\ wake[w] # <<>> /\ wake[w] \in Seq(Ids)
  BY DEF Requeue, Inv, WorkerHands, TypeOK
<1>2. PICK t \in Ids : t = Head(wake[w])
  BY <1>1
<1>3. /\ injector' = Append(injector, t) /\ wake' = [wake EXCEPT ![w] = Tail(wake[w])]
      /\ pc' = [pc EXCEPT ![w] = "checkwaiter"]
      /\ UNCHANGED <<cur, sub, status, waiters, waiting_on>>
  BY <1>2 DEF Requeue, Goto
<1>4. /\ pc'[w] = "checkwaiter" /\ wake'[w] = Tail(wake[w])
      /\ \A v \in Workers : v # w => pc'[v] = pc[v] /\ wake'[v] = wake[v]
  BY <1>3 DEF Inv, TypeOK
<1>5. /\ Tail(wake[w]) \in Seq(Ids) /\ Len(wake[w]) \in Nat
      /\ Len(wake'[w]) = Len(wake[w]) - 1
      /\ \A i \in 1 .. Len(wake'[w]) : wake'[w][i] = wake[w][i + 1]
  BY <1>1, <1>4
<1>6. TypeOK'
  <2>1. /\ injector' \in Seq(Ids) /\ wake' \in [Workers -> Seq(Ids)]
        /\ pc' \in [Workers -> WorkerPC]
    BY <1>3, <1>5 DEF Inv, TypeOK, WorkerPC
  <2> QED
    BY <2>1 DEF Requeue, Inv, TypeOK
<1>7. Allocation' /\ ClientHands' /\ SavedFrames' /\ CompletedHasValue'
  BY DEF Requeue, Inv, Allocation, ClientHands, SavedFrames, CompletedHasValue
<1>8. WorkerHands'
  BY <1>1, <1>4 DEF Requeue, Inv, WorkerHands, RunPC
<1>9. WaitingOnce'
  <2>1. \A v \in Workers, u \in Ids : Registering(v, u)' <=> Registering(v, u)
    BY <1>1, <1>3, <1>4 DEF Registering
  <2>2. \A v \in Workers, u \in Ids : \A i \in 1 .. Len(wake'[v]) :
            /\ v # w => i \in 1 .. Len(wake[v]) /\ (TakenBy(v, i, u)' <=> TakenBy(v, i, u))
            /\ v = w => i + 1 \in 1 .. Len(wake[w])
                        /\ (TakenBy(v, i, u)' <=> TakenBy(w, i + 1, u))
    <3> TAKE v \in Workers, u \in Ids
    <3> TAKE i \in 1 .. Len(wake'[v])
    <3>1. CASE v # w
      BY <1>4, <3>1 DEF TakenBy
    <3>2. CASE v = w
      <4>1. i \in Nat /\ i + 1 \in 1 .. Len(wake[w]) /\ i + 1 # 1
        BY <1>5, <3>2
      <4>2. wake'[w][i] = wake[w][i + 1]
        BY <1>5, <3>2
      <4>3. TakenBy(w, i, u)' <=> wake[w][i + 1] = u
        BY <1>4, <3>2, <4>2 DEF TakenBy
      <4>4. TakenBy(w, i + 1, u) <=> wake[w][i + 1] = u
        BY <4>1 DEF TakenBy
      <4> QED
        BY <3>2, <4>1, <4>3, <4>4
    <3> QED
      BY <3>1, <3>2
  <2>3. \A s \in Ids, i \in Nat, u \in Ids :
            RegisteredAt(s, i, u)' <=> RegisteredAt(s, i, u)
    BY <1>3 DEF RegisteredAt
  <2> SUFFICES ASSUME NEW u \in Ids PROVE WaitsOnce(u)'
    BY DEF WaitingOnce
  <2>4. WaitsOnce(u)
    BY DEF Inv, WaitingOnce
  <2>5. \A v, x \in Workers : Registering(v, u)' /\ Registering(x, u)' => v = x
    BY <2>1, <2>4 DEF WaitsOnce
  <2>6. \A s \in Ids : \A i \in 1 .. Len(waiters[s]) : RegisteredAt(s, i, u)' =>
            /\ status[u] = "Suspended" /\ waiting_on[u] = s
            /\ \A k \in 1 .. Len(waiters[s]) : RegisteredAt(s, k, u)' => i = k
            /\ \A x \in Workers : ~Registering(x, u)'
            /\ \A x \in Workers : \A k \in 1 .. Len(wake'[x]) : ~TakenBy(x, k, u)'
    BY <2>1, <2>2, <2>3, <2>4 DEF WaitsOnce
  <2>7. \A x \in Workers : \A i \in 1 .. Len(wake'[x]) : TakenBy(x, i, u)' =>
            /\ status[u] = "Suspended" /\ status[waiting_on[u]] = "Completed"
            /\ \A v \in Workers : ~Registering(v, u)'
    BY <2>1, <2>2, <2>4 DEF WaitsOnce
  <2>8. \A x \in Workers : \A i \in 1 .. Len(wake'[x]) : TakenBy(x, i, u)' =>
            \A v \in Workers : \A k \in 1 .. Len(wake'[v]) :
                TakenBy(v, k, u)' => v = x /\ k = i
    BY <1>5, <2>2, <2>4 DEF WaitsOnce
  <2> QED
    BY <1>3, <2>5, <2>6, <2>7, <2>8 DEF WaitsOnce
<1>10. InFlightOnce' /\ PendingNotStranded'
  <2>1. WorkerHas(w, t)
    BY <1>1, <1>2 DEF WorkerHas
  <2>2. /\ \A v \in Workers : WorkerHas(v, t) => v = w
        /\ \A d \in Clients : ~ClientHas(d, t)
    BY <2>1 DEF Inv, InFlightOnce, FlightOnce
  <2>3. \A v \in Workers, u \in Ids : WorkerHas(v, u)' <=> WorkerHas(v, u) /\ u # t
    BY <1>1, <1>2, <1>3, <1>4, <2>2 DEF WorkerHas
  <2>4. \A d \in Clients, u \in Ids : ClientHas(d, u)' <=> ClientHas(d, u) /\ u # t
    BY <2>2 DEF ClientHas, Requeue
  <2> QED
    BY <1>3, <2>1, <2>3, <2>4, PushPlaces
<1>11. RunningByOneWorker'
  <2>1. pc[w] \notin RunPC /\ "checkwaiter" \notin RunPC
    BY <1>1 DEF RunPC
  <2> QED
    BY <1>3, <2>1, RunningFrame
<1> QED
  BY <1>6, <1>7, <1>8, <1>9, <1>10, <1>11 DEF Inv

-----------------------------------------------------------------------------
(* New tasks.                                                              *)

(* What a new task does to the conjuncts about tasks: the id is fresh, so   *)
(* nobody holds it.                                                         *)
LEMMA NewTaskFacts ==
    ASSUME Inv, NEW j \in Job, NewTask(j), NEW n, n = next_task_id,
           UNCHANGED <<result, saved, waiting_on>>
    PROVE  /\ n \in Ids /\ n \notin tasks /\ status[n] = "New"
           /\ status' = [status EXCEPT ![n] = "Pending"]
           /\ tasks' = tasks \cup {n} /\ job'[n] = j
           /\ \A u \in Ids : u # n => status'[u] = status[u] /\ job'[u] = job[u]
           /\ next_task_id' \in 1 .. MaxTasks + 1
           /\ job' \in [Ids -> Job \cup {NoJob}] /\ status' \in [Ids -> Status]
           /\ tasks' \subseteq Ids
           /\ Allocation' /\ SavedFrames'
<1>1. n \in Ids /\ n \notin tasks /\ status[n] = "New"
  BY DEF NewTask, Inv, Allocation, Ids
<1>2. /\ status' = [status EXCEPT ![n] = "Pending"] /\ tasks' = tasks \cup {n}
      /\ job' = [job EXCEPT ![n] = j] /\ next_task_id' = n + 1
  BY DEF NewTask
<1>3. /\ status'[n] = "Pending" /\ job'[n] = j
      /\ \A u \in Ids : u # n => status'[u] = status[u] /\ job'[u] = job[u]
  BY <1>1, <1>2 DEF Inv, TypeOK
<1>4. next_task_id' \in 1 .. MaxTasks + 1
  BY <1>1, <1>2, MaxTasksAssumption DEF Ids
<1>5. /\ job' \in [Ids -> Job \cup {NoJob}] /\ status' \in [Ids -> Status]
      /\ tasks' \subseteq Ids
  BY <1>1, <1>2 DEF Inv, TypeOK, Status
<1>6. Allocation'
  <2>1. tasks' = {u \in Ids : u < next_task_id'}
    <3>1. \A u \in Ids : u < n + 1 <=> u < n \/ u = n
      BY <1>1 DEF Ids
    <3>2. tasks = {u \in Ids : u < n}
      BY DEF Inv, Allocation
    <3> QED
      BY <1>1, <1>2, <3>1, <3>2
  <2>2. \A u \in Ids : status'[u] = "New" <=> u \notin tasks'
    BY <1>2, <1>3 DEF Inv, Allocation
  <2>3. \A u \in tasks' : job'[u] \in Job
    BY <1>2, <1>3, <1>5 DEF Inv, Allocation
  <2> QED
    BY <2>1, <2>2, <2>3 DEF Allocation
<1>7. SavedFrames'
  <2>1. \A u \in Ids : saved[u] # None => u # n /\ waiting_on[u] # n /\ waiting_on[u] \in Ids
    BY <1>1 DEF Inv, SavedFrames, TypeOK
  <2> QED
    BY <1>2, <1>3, <2>1 DEF Inv, SavedFrames
<1> QED
  BY <1>1, <1>2, <1>3, <1>4, <1>5, <1>6, <1>7

(* Spawning a task preserves the invariant.                                 *)
LEMMA SpawnInv ==
    ASSUME Inv, NEW c \in Clients, NEW j \in ClientJobs, Spawn(c, j)
    PROVE  Inv'
<1> USE DEF taskVars, poolVars, statVars, workerVars, clientVars
<1>1. j \in Job /\ NewTask(j) /\ UNCHANGED <<result, saved, waiting_on>>
  BY ClientJobsAssumption DEF Spawn
<1>2. PICK n : n = next_task_id
  OBVIOUS
<1>3. /\ n \in Ids /\ n \notin tasks /\ status[n] = "New"
      /\ status' = [status EXCEPT ![n] = "Pending"]
      /\ tasks' = tasks \cup {n} /\ job'[n] = j
      /\ \A u \in Ids : u # n => status'[u] = status[u] /\ job'[u] = job[u]
      /\ next_task_id' \in 1 .. MaxTasks + 1
      /\ job' \in [Ids -> Job \cup {NoJob}] /\ status' \in [Ids -> Status]
      /\ tasks' \subseteq Ids
      /\ Allocation' /\ SavedFrames'
  BY <1>1, <1>2, NewTaskFacts
<1>4. /\ cpc[c] = "idle" /\ cpc' = [cpc EXCEPT ![c] = "push"]
      /\ cid' = [cid EXCEPT ![c] = n]
      /\ UNCHANGED <<waiters, injector, statVars, workerVars, ret>>
  BY <1>2 DEF Spawn
<1>5. /\ cpc'[c] = "push" /\ cid'[c] = n
      /\ \A d \in Clients : d # c => cpc'[d] = cpc[d] /\ cid'[d] = cid[d]
  BY <1>4 DEF Inv, TypeOK
<1>6. budget' \in Int
  BY DEF Spawn, Inv, TypeOK, Need
<1>7. TypeOK'
  BY <1>1, <1>3, <1>4, <1>6 DEF Inv, TypeOK
<1>8. \A v \in Workers : cur[v] \in tasks => cur[v] # n /\ cur[v] \in Ids
  BY <1>3 DEF Inv, TypeOK
<1>9. \A v \in Workers : sub[v] \in tasks => sub[v] # n /\ sub[v] \in Ids
  BY <1>3 DEF Inv, TypeOK
<1>10. WorkerHands'
  BY <1>1, <1>3, <1>4, <1>8, <1>9 DEF Inv, WorkerHands, RunPC
<1>11. \A d \in Clients : cid[d] \in tasks => cid[d] # n /\ cid[d] \in Ids
  BY <1>3 DEF Inv, TypeOK
<1>12. ClientHands'
  BY <1>3, <1>5, <1>11 DEF Inv, ClientHands
<1>13. CompletedHasValue'
  <2>1. \A t \in Ids : status'[t] = "Completed" => result'[t] = Eval(job'[t])
    <3> TAKE t \in Ids
    <3>1. CASE t = n
      <4>1. status'[n] = "Pending"
        BY <1>3 DEF Inv, TypeOK
      <4> QED
        BY <3>1, <4>1
    <3>2. CASE t # n
      BY <1>1, <1>3, <3>2 DEF Inv, CompletedHasValue
    <3> QED
      BY <3>1, <3>2
  <2>2. \A d \in Clients : cpc'[d] = "read" => result'[cid'[d]] = Eval(job'[cid'[d]])
    BY <1>1, <1>3, <1>5, <1>11 DEF Inv, ClientHands, CompletedHasValue
  <2> QED
    BY <2>1, <2>2 DEF CompletedHasValue
<1>14. WaitingOnce'
  <2>1. \A v \in Workers, u \in Ids : Registering(v, u)' <=> Registering(v, u)
    BY <1>4 DEF Registering
  <2>2. \A v \in Workers, i \in Nat, u \in Ids : TakenBy(v, i, u)' <=> TakenBy(v, i, u)
    BY <1>4 DEF TakenBy
  <2>3. UNCHANGED <<waiters, wake>>
    BY <1>4
  <2> QED
    BY <1>1, <1>3, <2>1, <2>2, <2>3, WaitingFrame
<1>15. InFlightOnce' /\ PendingNotStranded'
  <2>1. \A v \in Workers, u \in Ids : WorkerHas(v, u)' <=> WorkerHas(v, u)
    BY <1>4 DEF WorkerHas
  <2>2. \A d \in Clients, u \in Ids :
            ClientHas(d, u)' <=> ClientHas(d, u) \/ (d = c /\ u = n)
    BY <1>4, <1>5 DEF ClientHas
  <2>3. UNCHANGED injector
    BY <1>4
  <2> QED
    BY <1>3, <2>1, <2>2, <2>3, EnterClient
<1>16. RunningByOneWorker'
  <2>1. status'[n] = "Pending"
    BY <1>3 DEF Inv, TypeOK
  <2>2. \A v \in Workers : pc[v] \in RunPC => cur[v] \in tasks
    BY DEF Inv, WorkerHands
  <2> QED
    BY <1>3, <1>4, <1>8, <2>1, <2>2 DEF Inv, RunningByOneWorker
<1> QED
  BY <1>3, <1>7, <1>10, <1>12, <1>13, <1>14, <1>15, <1>16 DEF Inv

(* Creating the sub-task preserves the invariant.                           *)
LEMMA RunSpawnInv ==
    ASSUME Inv, NEW w \in Workers, RunSpawn(w)
    PROVE  Inv'
<1> USE DEF taskVars, poolVars, statVars, workerVars, clientVars
<1>1. pc[w] = "run" /\ pc[w] \in RunPC /\ "pushsub" \in RunPC
  BY DEF RunSpawn, RunPC
<1>2. /\ cur[w] \in tasks /\ job[cur[w]] \in Job /\ IsSpawn(job[cur[w]])
      /\ SubJob(job[cur[w]]) \in Job
  BY <1>1, SubJobType DEF RunSpawn, Inv, WorkerHands, Allocation
<1>3. PICK j \in Job : j = SubJob(job[cur[w]])
  BY <1>2
<1>4. NewTask(j) /\ UNCHANGED <<result, saved, waiting_on>>
  BY <1>3 DEF RunSpawn
<1>5. PICK n : n = next_task_id
  OBVIOUS
<1>6. /\ n \in Ids /\ n \notin tasks /\ status[n] = "New"
      /\ status' = [status EXCEPT ![n] = "Pending"]
      /\ tasks' = tasks \cup {n} /\ job'[n] = j
      /\ \A u \in Ids : u # n => status'[u] = status[u] /\ job'[u] = job[u]
      /\ next_task_id' \in 1 .. MaxTasks + 1
      /\ job' \in [Ids -> Job \cup {NoJob}] /\ status' \in [Ids -> Status]
      /\ tasks' \subseteq Ids
      /\ Allocation' /\ SavedFrames'
  BY <1>4, <1>5, NewTaskFacts
<1>7. /\ pc' = [pc EXCEPT ![w] = "pushsub"] /\ sub' = [sub EXCEPT ![w] = n]
      /\ UNCHANGED <<budget, waiters, injector, statVars, cur, val, wake, clientVars>>
  BY <1>5 DEF RunSpawn, Goto
<1>8. /\ pc'[w] = "pushsub" /\ sub'[w] = n
      /\ \A v \in Workers : v # w => pc'[v] = pc[v] /\ sub'[v] = sub[v]
  BY <1>7 DEF Inv, TypeOK
<1>9. TypeOK'
  BY <1>4, <1>6, <1>7 DEF Inv, TypeOK, WorkerPC, RunPC
<1>10. \A v \in Workers : cur[v] \in tasks => cur[v] # n /\ cur[v] \in Ids
  BY <1>6 DEF Inv, TypeOK
<1>11. \A v \in Workers : sub[v] \in tasks => sub[v] # n /\ sub[v] \in Ids
  BY <1>6 DEF Inv, TypeOK
<1>12. WorkerHands'
  BY <1>1, <1>2, <1>3, <1>4, <1>6, <1>7, <1>8, <1>10, <1>11 DEF Inv, WorkerHands, RunPC
<1>13. \A d \in Clients : cid[d] \in tasks => cid[d] # n /\ cid[d] \in Ids
  BY <1>6 DEF Inv, TypeOK
<1>14. ClientHands'
  BY <1>6, <1>7, <1>13 DEF Inv, ClientHands
<1>15. status'[n] = "Pending"
  BY <1>6 DEF Inv, TypeOK
<1>16. CompletedHasValue'
  <2>1. \A t \in Ids : status'[t] = "Completed" => result'[t] = Eval(job'[t])
    <3> TAKE t \in Ids
    <3>1. CASE t = n
      BY <1>15, <3>1
    <3>2. CASE t # n
      BY <1>4, <1>6, <3>2 DEF Inv, CompletedHasValue
    <3> QED
      BY <3>1, <3>2
  <2>2. \A d \in Clients : cpc'[d] = "read" => result'[cid'[d]] = Eval(job'[cid'[d]])
    BY <1>4, <1>6, <1>7, <1>13 DEF Inv, ClientHands, CompletedHasValue
  <2> QED
    BY <2>1, <2>2 DEF CompletedHasValue
<1>17. WaitingOnce'
  <2>1. \A v \in Workers, u \in Ids : Registering(v, u)' <=> Registering(v, u)
    BY <1>1, <1>7, <1>8 DEF Registering
  <2>2. \A v \in Workers, i \in Nat, u \in Ids : TakenBy(v, i, u)' <=> TakenBy(v, i, u)
    BY <1>1, <1>7, <1>8 DEF TakenBy
  <2>3. UNCHANGED <<waiters, wake>>
    BY <1>7
  <2> QED
    BY <1>4, <1>6, <2>1, <2>2, <2>3, WaitingFrame
<1>18. InFlightOnce' /\ PendingNotStranded'
  <2>1. \A v \in Workers, u \in Ids :
            WorkerHas(v, u)' <=> WorkerHas(v, u) \/ (v = w /\ u = n)
    BY <1>1, <1>7, <1>8 DEF WorkerHas
  <2>2. \A d \in Clients, u \in Ids : ClientHas(d, u)' <=> ClientHas(d, u)
    BY <1>7 DEF ClientHas
  <2>3. UNCHANGED injector
    BY <1>7
  <2> QED
    BY <1>6, <2>1, <2>2, <2>3, EnterWorker
<1>19. RunningByOneWorker'
  <2>1. \A v \in Workers : pc[v] \in RunPC => cur[v] \in tasks
    BY DEF Inv, WorkerHands
  <2> QED
    BY <1>1, <1>6, <1>7, <1>8, <1>10, <1>15, <2>1 DEF Inv, RunningByOneWorker
<1> QED
  BY <1>6, <1>9, <1>12, <1>14, <1>16, <1>17, <1>18, <1>19 DEF Inv

-----------------------------------------------------------------------------
(* The clients' joins and the shutdown flag.                               *)

(* A step that only moves a client between points at which it pushes        *)
(* nothing, or sets the shutdown flag.                                      *)
LEMMA QuietClient ==
    ASSUME Inv, UNCHANGED <<taskVars, poolVars, workerVars>>,
           \A c \in Clients, t \in Ids : ClientHas(c, t)' <=> ClientHas(c, t)
    PROVE  /\ WaitingOnce' /\ InFlightOnce' /\ PendingNotStranded'
           /\ Allocation' /\ WorkerHands' /\ SavedFrames' /\ RunningByOneWorker'
<1> USE DEF taskVars, poolVars, workerVars
<1>1. \A v \in Workers, t \in Ids :
          /\ WorkerHas(v, t)' <=> WorkerHas(v, t)
          /\ Registering(v, t)' <=> Registering(v, t)
  BY DEF WorkerHas, Registering
<1>2. \A v \in Workers, i \in Nat, t \in Ids :
          TakenBy(v, i, t)' <=> TakenBy(v, i, t)
  BY DEF TakenBy
<1>3. WaitingOnce' /\ InFlightOnce' /\ PendingNotStranded'
  BY <1>1, <1>2, PlacesFrame
<1>4. Allocation' /\ WorkerHands' /\ SavedFrames' /\ RunningByOneWorker'
  BY DEF Inv, Allocation, WorkerHands, SavedFrames, RunningByOneWorker
<1> QED
  BY <1>3, <1>4

(* Entering join preserves the invariant.                                   *)
LEMMA JoinStartInv ==
    ASSUME Inv, NEW c \in Clients, NEW t \in Ids, JoinStart(c, t)
    PROVE  Inv'
<1> USE DEF taskVars, poolVars, statVars, workerVars, clientVars
<1>1. /\ cpc[c] = "idle" /\ cpc' = [cpc EXCEPT ![c] = "poll"]
      /\ cid' = [cid EXCEPT ![c] = t]
  BY DEF JoinStart
<1>2. /\ cpc'[c] = "poll" /\ cid'[c] = t
      /\ \A d \in Clients : d # c => cpc'[d] = cpc[d] /\ cid'[d] = cid[d]
  BY <1>1 DEF Inv, TypeOK
<1>3. \A d \in Clients, u \in Ids : ClientHas(d, u)' <=> ClientHas(d, u)
  BY <1>1, <1>2 DEF ClientHas
<1>4. TypeOK'
  BY <1>1 DEF JoinStart, Inv, TypeOK
<1>5. ClientHands' /\ CompletedHasValue'
  BY <1>2 DEF JoinStart, Inv, ClientHands, CompletedHasValue
<1> QED
  BY <1>3, <1>4, <1>5, QuietClient DEF JoinStart, Inv

(* An iteration of join's loop preserves the invariant.                     *)
LEMMA JoinPollInv ==
    ASSUME Inv, NEW c \in Clients, JoinPoll(c)
    PROVE  Inv'
<1> USE DEF taskVars, poolVars, statVars, workerVars, clientVars
<1>1. PICK l \in {"idle", "read"} :
          /\ cpc[c] = "poll" /\ cpc' = [cpc EXCEPT ![c] = l]
          /\ l = "read" => cid[c] \in tasks /\ status[cid[c]] = "Completed"
  BY DEF JoinPoll
<1>2. cpc'[c] = l /\ \A d \in Clients : d # c => cpc'[d] = cpc[d]
  BY <1>1 DEF Inv, TypeOK
<1>3. \A d \in Clients, u \in Ids : ClientHas(d, u)' <=> ClientHas(d, u)
  BY <1>1, <1>2 DEF ClientHas, JoinPoll
<1>4. TypeOK'
  BY <1>1 DEF JoinPoll, Inv, TypeOK
<1>5. ClientHands' /\ CompletedHasValue'
  BY <1>1, <1>2 DEF JoinPoll, Inv, TypeOK, ClientHands, CompletedHasValue
<1> QED
  BY <1>3, <1>4, <1>5, QuietClient DEF JoinPoll, Inv

(* Returning from join preserves the invariant.                             *)
LEMMA JoinReadInv ==
    ASSUME Inv, NEW c \in Clients, JoinRead(c)
    PROVE  Inv'
<1> USE DEF taskVars, poolVars, statVars, workerVars, clientVars
<1>1. cpc[c] = "read" /\ cpc' = [cpc EXCEPT ![c] = "idle"] /\ cid[c] \in Ids
  BY DEF JoinRead, Inv, ClientHands, TypeOK
<1>2. cpc'[c] = "idle" /\ \A d \in Clients : d # c => cpc'[d] = cpc[d]
  BY <1>1 DEF Inv, TypeOK
<1>3. \A d \in Clients, u \in Ids : ClientHas(d, u)' <=> ClientHas(d, u)
  BY <1>1, <1>2 DEF ClientHas, JoinRead
<1>4. TypeOK'
  BY <1>1 DEF JoinRead, Inv, TypeOK
<1>5. ClientHands' /\ CompletedHasValue'
  BY <1>1, <1>2 DEF JoinRead, Inv, ClientHands, CompletedHasValue
<1> QED
  BY <1>3, <1>4, <1>5, QuietClient DEF JoinRead, Inv

(* Setting the shutdown flag preserves the invariant.                       *)
LEMMA ShutdownInv ==
    ASSUME Inv, Shutdown
    PROVE  Inv'
<1> USE DEF taskVars, poolVars, statVars, workerVars, clientVars
<1>1. \A d \in Clients, u \in Ids : ClientHas(d, u)' <=> ClientHas(d, u)
  BY DEF ClientHas, Shutdown
<1>2. TypeOK' /\ ClientHands' /\ CompletedHasValue'
  BY DEF Shutdown, Inv, TypeOK, ClientHands, CompletedHasValue
<1> QED
  BY <1>1, <1>2, QuietClient DEF Shutdown, Inv

(* A step that changes nothing preserves the invariant.                     *)
LEMMA StutterInv ==
    ASSUME Inv, UNCHANGED vars
    PROVE  Inv'
<1> USE DEF vars, taskVars, poolVars, statVars, workerVars, clientVars
<1>1. \A d \in Clients, u \in Ids : ClientHas(d, u)' <=> ClientHas(d, u)
  BY DEF ClientHas
<1>2. TypeOK' /\ ClientHands' /\ CompletedHasValue'
  BY DEF Inv, TypeOK, ClientHands, CompletedHasValue
<1> QED
  BY <1>1, <1>2, QuietClient DEF Inv

-----------------------------------------------------------------------------
(* The theorems.                                                           *)

(* Nothing is in flight, waiting or finished initially.                     *)
LEMMA InitInv == Init => Inv
<1> SUFFICES ASSUME Init PROVE Inv
  OBVIOUS
<1>1. TypeOK
  BY InitTypeOK
<1>2. Allocation /\ ClientHands /\ SavedFrames /\ CompletedHasValue
  BY DEF Init, Allocation, ClientHands, SavedFrames, CompletedHasValue, Ids
<1>3. WorkerHands /\ RunningByOneWorker
  BY DEF Init, WorkerHands, RunningByOneWorker, RunPC
<1>4. WaitingOnce
  BY DEF Init, WaitingOnce, WaitsOnce, Registering, RegisteredAt, TakenBy
<1>5. InFlightOnce /\ PendingNotStranded
  BY DEF Init, InFlightOnce, FlightOnce, PendingNotStranded, InQueue, WorkerHas,
         ClientHas
<1> QED
  BY <1>1, <1>2, <1>3, <1>4, <1>5 DEF Inv

(* Every step of every thread preserves the invariant.                      *)
LEMMA NextInv == Inv /\ [Next]_vars => Inv'
<1> SUFFICES ASSUME Inv, [Next]_vars PROVE Inv'
  OBVIOUS
<1>1. ASSUME NEW w \in Workers, WorkerStep(w) PROVE Inv'
  BY <1>1, WorkerStartInv, LoopTopInv, try_stealInv, ParkInv, UnparkInv, ClaimInv,
     BeginInv, ResumeInv, RunLeafInv, RunSpawnInv, PushSubInv, CheckSubInv,
     SuspendInv, AddWaiterInv, SetResultInv, SetCompletedInv, TakeWaitersInv,
     CheckWaiterInv, SetPendingInv, RequeueInv
     DEF WorkerStep
<1>2. ASSUME NEW c \in Clients, ClientStep(c) \/ ClientCall(c) PROVE Inv'
  BY <1>2, ClientPushInv, JoinPollInv, JoinReadInv, SpawnInv, JoinStartInv
     DEF ClientStep, ClientCall
<1>3. ASSUME Stopped PROVE Inv'
  BY <1>3, StutterInv DEF Stopped
<1> QED
  BY <1>1, <1>2, <1>3, ShutdownInv, StutterInv DEF Next

(* Inv holds in every reachable state, for every number of threads, every   *)
(* set of jobs and every number of tasks.                                   *)
THEOREM PoolInvariant == Spec => []Inv
BY InitInv, NextInv, PTL DEF Spec

(* The state of the pool is well typed: no worker acts on a missing task or *)
(* a missing result.                                                        *)
THEOREM PoolTypeOK == Spec => []TypeOK
<1>1. Inv => TypeOK
  BY DEF Inv
<1> QED
  BY <1>1, PoolInvariant, PTL

(* No task is in flight twice, so no two workers ever race for one.         *)
THEOREM PoolInFlightOnce == Spec => []InFlightOnce
<1>1. Inv => InFlightOnce
  BY DEF Inv
<1> QED
  BY <1>1, PoolInvariant, PTL

(* No Pending task is stranded outside the queue.                           *)
THEOREM PoolPendingNotStranded == Spec => []PendingNotStranded
<1>1. Inv => PendingNotStranded
  BY DEF Inv
<1> QED
  BY <1>1, PoolInvariant, PTL

(* A Running task is run by exactly one worker.                             *)
THEOREM PoolRunningByOneWorker == Spec => []RunningByOneWorker
<1>1. Inv => RunningByOneWorker
  BY DEF Inv
<1> QED
  BY <1>1, PoolInvariant, PTL

(* A task is only resumed when the task it waits on has completed.          *)
THEOREM PoolResumeFindsTargetDone == Spec => []ResumeFindsTargetDone
<1>1. Inv => ResumeFindsTargetDone
  <2> SUFFICES ASSUME Inv, NEW w \in Workers, pc[w] = "resume"
               PROVE  /\ saved[cur[w]] # None
                      /\ waiting_on[cur[w]] \in tasks
                      /\ status[waiting_on[cur[w]]] = "Completed"
                      /\ result[waiting_on[cur[w]]] # None
    BY DEF ResumeFindsTargetDone
  <2>1. cur[w] \in tasks /\ cur[w] \in Ids /\ saved[cur[w]] # None
    BY DEF Inv, WorkerHands, Allocation, RunPC
  <2>2. status[cur[w]] = "Running"
    BY DEF Inv, RunningByOneWorker, RunPC
  <2>3. /\ waiting_on[cur[w]] \in tasks /\ waiting_on[cur[w]] \in Ids
        /\ status[waiting_on[cur[w]]] = "Completed"
    BY <2>1, <2>2 DEF Inv, SavedFrames, TypeOK
  <2>4. /\ job[waiting_on[cur[w]]] \in Job
        /\ result[waiting_on[cur[w]]] = Eval(job[waiting_on[cur[w]]])
    BY <2>3 DEF Inv, Allocation, CompletedHasValue
  <2> QED
    BY <2>1, <2>3, <2>4, EvalType, NullAssumption
<1> QED
  BY <1>1, PoolInvariant, PTL

(* A Completed task, and every join that saw it so, has the value of the    *)
(* sequential evaluation of its job.                                        *)
THEOREM PoolCompletedHasValue == Spec => []CompletedHasValue
<1>1. Inv => CompletedHasValue
  BY DEF Inv
<1> QED
  BY <1>1, PoolInvariant, PTL

-----------------------------------------------------------------------------
(* The refinement: the pool implements write-once futures.                  *)

(* A step that creates no task, completes none and ends no join is not seen *)
(* by the futures.                                                          *)
LEMMA FuturesStutter ==
    ASSUME UNCHANGED <<job, tasks, ret>>,
           \A t \in Ids : (IF status'[t] = "Completed" THEN result'[t] ELSE None)
                          = (IF status[t] = "Completed" THEN result[t] ELSE None)
    PROVE  UNCHANGED Futures!futures
<1>1. [t \in tasks' |-> job'[t]] = [t \in tasks |-> job[t]]
  OBVIOUS
<1>2. [t \in Ids |-> IF status'[t] = "Completed" THEN result'[t] ELSE None]
      = [t \in Ids |-> IF status[t] = "Completed" THEN result[t] ELSE None]
  OBVIOUS
<1> QED
  BY <1>1, <1>2 DEF Futures!futures

(* Registering a task creates a future that is open.                        *)
LEMMA FuturesCreate ==
    ASSUME Inv, NEW j, NewTask(j), UNCHANGED <<result, ret>>
    PROVE  Futures!Next
<1>0. PICK n \in Ids : n = next_task_id
  BY DEF NewTask
<1>1. /\ tasks' = tasks \cup {n}
      /\ job' = [job EXCEPT ![n] = j] /\ status' = [status EXCEPT ![n] = "Pending"]
  BY <1>0 DEF NewTask
<1>2. n \notin tasks /\ tasks \subseteq Ids /\ status[n] = "New"
  BY <1>0 DEF Inv, Allocation, Ids, TypeOK
<1>3. \A t \in tasks : job'[t] = job[t]
  BY <1>1, <1>2
<1>4. \A t \in Ids : status'[t] = "Completed" <=> status[t] = "Completed"
  BY <1>1, <1>2 DEF Inv, TypeOK
<1>5. [t \in Ids |-> IF status'[t] = "Completed" THEN result'[t] ELSE None]
      = [t \in Ids |-> IF status[t] = "Completed" THEN result[t] ELSE None]
  BY <1>4
<1> DEFINE before == [t \in tasks |-> job[t]]
           after == [t \in tasks' |-> job'[t]]
<1>6. /\ n \notin DOMAIN before /\ DOMAIN after = DOMAIN before \cup {n}
      /\ \A u \in DOMAIN before : after[u] = before[u]
  BY <1>1, <1>2, <1>3
<1>7. Futures!Create(n)
  BY <1>5, <1>6 DEF Futures!Create
<1> QED
  BY <1>7 DEF Futures!Next

(* Publishing Completed resolves the future with the value of its job.      *)
LEMMA FuturesResolve ==
    ASSUME Inv, NEW w \in Workers, SetCompleted(w)
    PROVE  Futures!Next
<1>0. PICK n \in Ids : n = cur[w]
  BY DEF SetCompleted, Inv, WorkerHands, RunPC, Allocation
<1> DEFINE open == [t \in Ids |-> IF status[t] = "Completed" THEN result[t] ELSE None]
<1>1. n \in tasks /\ result[n] = Eval(job[n]) /\ status[n] = "Running"
  BY <1>0 DEF SetCompleted, Inv, WorkerHands, RunningByOneWorker, RunPC, Allocation
<1>2. status' = [status EXCEPT ![n] = "Completed"] /\ UNCHANGED <<job, result, tasks, ret>>
  BY <1>0 DEF SetCompleted, poolVars, clientVars
<1>3. \A t \in Ids : status'[t] = IF t = n THEN "Completed" ELSE status[t]
  BY <1>1, <1>2 DEF Inv, TypeOK
<1>4. [t \in Ids |-> IF status'[t] = "Completed" THEN result'[t] ELSE None]
      = [open EXCEPT ![n] = Eval([t \in tasks |-> job[t]][n])]
  BY <1>1, <1>2, <1>3
<1>5. open[n] = None
  BY <1>1
<1>6. Futures!Resolve(n)
  <2>1. n \in DOMAIN [t \in tasks |-> job[t]]
    BY <1>1
  <2>2. [t \in tasks' |-> job'[t]] = [t \in tasks |-> job[t]] /\ ret' = ret
    BY <1>2
  <2> QED
    BY <1>4, <1>5, <2>1, <2>2 DEF Futures!Resolve
<1> QED
  BY <1>6 DEF Futures!Next

(* A join returns the outcome of its task.                                  *)
LEMMA FuturesJoin ==
    ASSUME Inv, NEW c \in Clients, JoinPoll(c) \/ JoinRead(c)
    PROVE  [Futures!Next]_Futures!futures
<1> DEFINE n == cid[c]
           open == [t \in Ids |-> IF status[t] = "Completed" THEN result[t] ELSE None]
<1>1. UNCHANGED <<job, status, result, tasks>>
  BY DEF JoinPoll, JoinRead, taskVars, poolVars
<1>2. CASE JoinPoll(c) /\ ret' = ret
  BY <1>1, <1>2, FuturesStutter
<1>3. CASE JoinPoll(c) /\ n \notin tasks /\ ret' = [ret EXCEPT ![c] = None]
  <2>1. n \in Ids /\ status[n] = "New"
    BY <1>3 DEF JoinPoll, Inv, ClientHands, Allocation
  <2>2. open[n] = None
    BY <2>1
  <2>3. Futures!Join(c, n)
    BY <1>1, <1>3, <2>1, <2>2 DEF Futures!Join
  <2> QED
    BY <2>1, <2>3 DEF Futures!Next
<1>4. CASE JoinRead(c)
  <2>1. n \in tasks /\ n \in Ids /\ status[n] = "Completed"
    BY <1>4 DEF JoinRead, Inv, ClientHands, Allocation
  <2>2. result[n] \in Int
    BY <2>1, EvalType DEF Inv, CompletedHasValue, Allocation
  <2>3. open[n] = result[n] /\ open[n] # None
    BY <2>1, <2>2, NullAssumption
  <2>4. ret' = [ret EXCEPT ![c] = open[n]]
    BY <1>4, <2>3 DEF JoinRead
  <2>5. Futures!Join(c, n)
    BY <1>1, <2>3, <2>4 DEF Futures!Join
  <2> QED
    BY <2>1, <2>5 DEF Futures!Next
<1> QED
  BY <1>2, <1>3, <1>4 DEF JoinPoll

(* The steps of a worker that run, suspend, resume and queue a task keep it *)
(* uncompleted.                                                             *)
LEMMA FuturesWorker ==
    ASSUME Inv, NEW w \in Workers, WorkerStep(w), ~SetCompleted(w), ~RunSpawn(w)
    PROVE  UNCHANGED Futures!futures
<1>1. UNCHANGED <<job, tasks, ret>>
  BY DEF WorkerStep, WorkerStart, LoopTop, try_steal, Park, Unpark, Claim, Begin, Resume, RunLeaf,
         PushSub, CheckSub, Suspend, AddWaiter, SetResult, TakeWaiters, CheckWaiter, SetPending,
         Requeue, taskVars, poolVars, clientVars
<1>2. ASSUME NEW n \in Ids, status[n] \in {"Pending", "Suspended", "Running"},
             NEW s \in {"Pending", "Suspended", "Running"},
             status' = [status EXCEPT ![n] = s], result' = result
      PROVE  UNCHANGED Futures!futures
  <2>1. \A t \in Ids : status'[t] = "Completed" <=> status[t] = "Completed"
    BY <1>2 DEF Inv, TypeOK
  <2> QED
    BY <1>1, <1>2, <2>1, FuturesStutter
<1>3. CASE UNCHANGED <<status, result>>
  BY <1>1, <1>3, FuturesStutter
<1>4. pc[w] \in RunPC => status[cur[w]] = "Running" /\ cur[w] \in Ids
  BY DEF Inv, RunningByOneWorker, WorkerHands, Allocation
<1>5. CASE Claim(w)
  <2>1. cur[w] \in Ids
    BY <1>5 DEF Claim, Inv, WorkerHands, Allocation
  <2> QED
    BY <1>2, <1>3, <1>5, <2>1 DEF Claim
<1>6. CASE Resume(w)
  <2>1. cur[w] \in Ids /\ status[cur[w]] = "Running"
    BY <1>4, <1>6 DEF Resume, RunPC
  <2> QED
    BY <1>2, <1>3, <1>6, <2>1 DEF Resume
<1>7. CASE Suspend(w)
  <2>1. cur[w] \in Ids /\ status[cur[w]] = "Running"
    BY <1>4, <1>7 DEF Suspend, RunPC
  <2> QED
    BY <1>2, <1>7, <2>1 DEF Suspend
<1>8. CASE SetResult(w)
  <2>1. cur[w] \in Ids /\ status[cur[w]] = "Running"
    BY <1>4, <1>8 DEF SetResult, RunPC
  <2>2. status' = status /\ \A t \in Ids : t # cur[w] => result'[t] = result[t]
    BY <1>8 DEF SetResult, Inv, TypeOK
  <2> QED
    BY <1>1, <2>1, <2>2, FuturesStutter
<1>9. CASE SetPending(w)
  <2> DEFINE n == Head(wake[w])
  <2>1. wake[w] \in Seq(Ids) /\ wake[w] # <<>> /\ pc[w] = "setpending"
    BY <1>9 DEF SetPending, Inv, TypeOK, WorkerHands
  <2>2. n \in Ids /\ 1 \in 1 .. Len(wake[w]) /\ wake[w][1] = n
    BY <2>1
  <2>3. TakenBy(w, 1, n)
    BY <2>1, <2>2 DEF TakenBy
  <2>4. status[n] = "Suspended"
    BY <2>2, <2>3 DEF Inv, WaitingOnce, WaitsOnce
  <2> QED
    BY <1>2, <1>9, <2>2, <2>4 DEF SetPending
<1>10. CASE \/ WorkerStart(w) \/ LoopTop(w) \/ try_steal(w) \/ Park(w) \/ Unpark(w) \/ Begin(w)
            \/ RunLeaf(w) \/ PushSub(w) \/ CheckSub(w) \/ AddWaiter(w) \/ TakeWaiters(w)
            \/ CheckWaiter(w) \/ Requeue(w)
  BY <1>3, <1>10
     DEF WorkerStart, LoopTop, try_steal, Park, Unpark, Begin, RunLeaf, PushSub, CheckSub,
         AddWaiter, TakeWaiters, CheckWaiter, Requeue, taskVars
<1> QED
  BY <1>5, <1>6, <1>7, <1>8, <1>9, <1>10 DEF WorkerStep

(* Spawn and join of the pool behave as write-once futures: every execution *)
(* of the pool is one of the abstract specification, through the refinement *)
(* mapping that reads a task as resolved once it is marked Completed.       *)
THEOREM PoolImplementsFutures == Spec => ImplementsFutures
<1>1. Init => Futures!Init
  <2> SUFFICES ASSUME Init
               PROVE  Futures!Init
    OBVIOUS
  <2>1. [t \in tasks |-> job[t]] = [t \in {} |-> None]
    BY DEF Init
  <2>2. [t \in Ids |-> IF status[t] = "Completed" THEN result[t] ELSE None] = [t \in Ids |-> None]
    BY DEF Init
  <2> QED
    BY <2>1, <2>2 DEF Init, Futures!Init
<1>2. Inv /\ [Next]_vars => [Futures!Next]_Futures!futures
  <2> SUFFICES ASSUME Inv, [Next]_vars
               PROVE  [Futures!Next]_Futures!futures
    OBVIOUS
  <2>1. ASSUME NEW w \in Workers, WorkerStep(w)
        PROVE  [Futures!Next]_Futures!futures
    <3>1. CASE RunSpawn(w)
      BY <3>1, FuturesCreate DEF RunSpawn, clientVars
    <3> QED
      BY <2>1, <3>1, FuturesResolve, FuturesWorker
  <2>2. ASSUME NEW c \in Clients, ClientStep(c) \/ ClientCall(c)
        PROVE  [Futures!Next]_Futures!futures
    <3>1. ASSUME NEW j, Spawn(c, j)
          PROVE  Futures!Next
      BY <3>1, FuturesCreate DEF Spawn
    <3>2. CASE ClientPush(c) \/ \E t \in Ids : JoinStart(c, t)
      BY <3>2, FuturesStutter DEF ClientPush, JoinStart, taskVars, poolVars
    <3> QED
      BY <2>2, <3>1, <3>2, FuturesJoin DEF ClientStep, ClientCall
  <2>3. CASE Shutdown
    BY <2>3, FuturesStutter DEF Shutdown, taskVars, poolVars, clientVars
  <2>4. CASE UNCHANGED vars
    BY <2>4, FuturesStutter DEF vars, taskVars, poolVars, clientVars
  <2> QED
    BY <2>1, <2>2, <2>3, <2>4 DEF Next, Stopped
<1> QED
  BY <1>1, <1>2, PoolInvariant, PTL DEF Spec, ImplementsFutures, Futures!Spec

=============================================================================
