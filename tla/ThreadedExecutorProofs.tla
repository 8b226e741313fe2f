----------------------- MODULE ThreadedExecutorProofs -----------------------
(***************************************************************************)
(* Theorems about ThreadedExecutor for any number of workers, tasks,       *)
(* channels and calling threads: no started task is stranded and a task    *)
(* with a home stays there; and for the executor on one thread: what has   *)
(* blocked is not completed and who awaits a finished task is woken.       *)
(***************************************************************************)
EXTENDS ThreadedExecutor, FiniteSetTheorems, TLAPS

(* Where a thread is.                                                      *)

\* The places of a worker that has a task, and those inside a call.
TaskPCs == {"claim", "lock", "body", "leave", "after", "finish", "register"}
CallPCs == {"push", "wake", "wakesenders", "take", "count"}

\* Where the calls of a thread may return to in the end.
Returns(a) == IF a \in Clients THEN {"idle"}
              ELSE {"out", "body", "leave", "local", "loop", "timers"}

\* Where the call a thread is inside of returns to in the end.
Resumes(a) == back[a][Len(back[a])]

InTask(w) == \/ pc[w] \in TaskPCs
             \/ pc[w] \in CallPCs /\ Resumes(w) \in {"body", "leave"}

\* A thread inside a call has somewhere to return to and something to work on.
Placed(a) ==
    /\ pc[a] \in IF a \in Clients THEN {"idle"} \cup CallPCs ELSE PCs \ {"idle"}
    /\ pc[a] \in CallPCs =>
          /\ Len(back[a]) \in {1, 2}
          /\ Len(back[a]) = 2 => back[a][1] = "count" /\ pc[a] # "count"
          /\ Resumes(a) \in Returns(a)
    /\ pc[a] = "push" => wake[a] # <<>>
    /\ pc[a] = "take" => at[a] \in TaskKeys
    /\ pc[a] = "wakesenders" => at[a] \in SendKeys
    /\ pc[a] = "register" => at[a] \in Keys \cup {Timer}
    /\ a \in Workers /\ InTask(a) => cur[a] # NoTask

Control == \A a \in Agents : Placed(a)

(* What the tables hold.                                                   *)

\* The tasks: what is not spawned yet is nowhere.
Tasks ==
    /\ next_handle \in 1 .. MaxTasks + 1
    /\ state \in [Handles -> {"None", "Pending", "Running", "Blocked"} \cup Final]
    /\ reason \in [Handles -> Keys \cup {Timer, NoKey}]
    /\ \A t \in Handles : state[t] = "Blocked" <=> reason[t] # NoKey
    /\ markers \in [Handles -> Markers \cup {NoMarkers}]
    /\ parent \in [Handles -> Handles \cup {NoTask}]
    /\ \A t \in Handles \ Known : state[t] = "None"

\* The lists that hold tasks hold spawned ones.
Lists ==
    /\ waiters \in [Keys -> Seq(Known)]
    /\ timers \subseteq Known
    /\ injector \in Seq(Known)
    /\ local \in [Workers -> Seq(Known)]
    /\ wake \in [Agents -> Seq(Known)]
    /\ cur \in [Workers -> Known \cup {NoTask}]
    /\ started \subseteq Known

\* The variables that only say where threads are.
Places ==
    /\ pc \in [Agents -> PCs]
    /\ back \in [Agents -> Seq(PCs)]
    /\ at \in [Agents -> Keys \cup {Timer, NoKey}]
    /\ gave_up \in [Workers -> BOOLEAN]
    /\ callback \in Workers \cup {0}
    /\ shutdown \in BOOLEAN
    /\ completed_count \in Nat

\* A task with a home is only in the queue and in the hands of that worker.
Affine ==
    /\ ran_on \in [Handles -> SUBSET Workers]
    /\ \A t \in Handles \ Known : ran_on[t] = {}
    /\ \A t \in Elements(injector) : Home(t) = 0
    /\ \A w \in Workers : \A t \in Elements(local[w]) : Home(t) = w
    /\ \A w \in Workers : cur[w] # NoTask => Home(cur[w]) \in {0, w}
    /\ \A t \in Handles : Home(t) # 0 => ran_on[t] \subseteq {Home(t)}

ExecInv == Tasks /\ Lists /\ Places /\ Control /\ Affine /\ StartedNotStranded

(* The executor on one thread, called from bodies only.                    *)

OneThread == SingleThreaded /\ Clients = {}

\* A body that has blocked its task does nothing but return.
Suspends(w) ==
    /\ pc[w] \notin {"start", "loop", "parked", "exited"}
    /\ pc[w] \in {"lock", "body"} => state[cur[w]] = "Running"
    /\ pc[w] \in CallPCs /\ Resumes(w) = "body" => state[cur[w]] = "Running"
    /\ pc[w] \in CallPCs => Resumes(w) # "loop"
    /\ gave_up[w] => pc[w] \in {"register", "leave", "after"} /\ state[cur[w]] = "Blocked"
    /\ pc[w] = "register" => gave_up[w] /\ reason[cur[w]] = at[w]
                             /\ (at[w] \in TaskKeys => state[at[w][2]] \notin Final)
    /\ wake[w] # <<>> => pc[w] \in {"push", "wake", "wakesenders"}
    /\ pc[w] = "push" => state[Head(wake[w])] = "Pending"

\* A task that awaits another is in its list, about to enter it or being woken.
Awaits(w, t) ==
    reason[t] \in TaskKeys =>
        \/ t \in Elements(waiters[reason[t]])
        \/ t \in Elements(wake[w])
        \/ pc[w] = "register" /\ cur[w] = t

\* Nobody waits for a finished task, unless its waiters are about to be taken.
Drained(w, t) ==
    state[t] \in Final =>
        \/ waiters[<<"task", t>>] = <<>>
        \/ pc[w] = "take" /\ at[w] = <<"task", t>>

Waiting(w) == \A t \in Handles : Awaits(w, t) /\ Drained(w, t)

SingleInv == active_workers = 0 /\ \A w \in Workers : Suspends(w) /\ Waiting(w)
-----------------------------------------------------------------------------
(* The home of a task is a worker, or 0.                                    *)
LEMMA HomeType ==
    ASSUME Tasks, NEW t \in Handles
    PROVE  Home(t) \in Workers \cup {0}
<1>1. markers[t] \in [sendable : BOOLEAN, origin : Nat]
  <2>1. NoMarkers \in [sendable : BOOLEAN, origin : Nat] BY DEF NoMarkers
  <2>2. markers[t] \in Markers \cup {NoMarkers} BY DEF Tasks
  <2> QED BY <2>1, <2>2, MarkersAssumption
<1>2. CASE ~markers[t].sendable /\ markers[t].origin > 0
  <2>1. PICK o \in Nat, n \in Nat \ {0} : o = markers[t].origin - 1 /\ n = NumWorkers
    BY <1>1, <1>2, BoundsAssumption
  <2>2. o % n \in 0 .. n - 1 OBVIOUS
  <2>3. Home(t) = (o % n) + 1 BY <1>2, <2>1 DEF Home
  <2> QED BY <2>1, <2>2, <2>3 DEF Workers
<1>3. CASE ~(~markers[t].sendable /\ markers[t].origin > 0) BY <1>3 DEF Home
<1> QED BY <1>2, <1>3

(* A sequence over a set is one over any larger set.                        *)
LEMMA SeqMono ==
    ASSUME NEW S, NEW T, S \subseteq T, NEW s \in Seq(S)
    PROVE  s \in Seq(T)
OBVIOUS

(* What a sequence over a set holds is in the set.                          *)
LEMMA ElementsIn ==
    ASSUME NEW S, NEW s \in Seq(S)
    PROVE  Elements(s) \subseteq S
BY DEF Elements

(* What a sequence holds after an append, without its head, and joined.     *)
LEMMA ElementsAppend ==
    ASSUME NEW S, NEW s \in Seq(S), NEW x \in S
    PROVE  Elements(Append(s, x)) = Elements(s) \cup {x}
<1>1. ASSUME NEW e \in Elements(s) PROVE e \in Elements(Append(s, x))
  <2>1. PICK i \in 1 .. Len(s) : e = s[i] BY <1>1 DEF Elements
  <2>2. i \in 1 .. Len(Append(s, x)) /\ Append(s, x)[i] = e BY <2>1
  <2> QED BY <2>2 DEF Elements
<1>2. x \in Elements(Append(s, x))
  <2>1. Len(s) + 1 \in 1 .. Len(Append(s, x)) /\ Append(s, x)[Len(s) + 1] = x OBVIOUS
  <2> QED BY <2>1 DEF Elements
<1>3. ASSUME NEW e \in Elements(Append(s, x)) PROVE e \in Elements(s) \cup {x}
  <2>1. PICK i \in 1 .. Len(Append(s, x)) : e = Append(s, x)[i] BY <1>3 DEF Elements
  <2>2. CASE i = Len(s) + 1 BY <2>1, <2>2
  <2>3. CASE i # Len(s) + 1
    <3>1. i \in 1 .. Len(s) /\ e = s[i] BY <2>1, <2>3
    <3> QED BY <3>1 DEF Elements
  <2> QED BY <2>2, <2>3
<1> QED BY <1>1, <1>2, <1>3

(* What is left of a sequence without its head.                             *)
LEMMA ElementsTail ==
    ASSUME NEW S, NEW s \in Seq(S), s # <<>>
    PROVE  /\ Head(s) \in S /\ Tail(s) \in Seq(S)
           /\ Head(s) \in Elements(s)
           /\ Elements(Tail(s)) \subseteq Elements(s)
           /\ Elements(s) \subseteq Elements(Tail(s)) \cup {Head(s)}
<1>1. Len(s) \in Nat \ {0} /\ Head(s) = s[1] OBVIOUS
<1>2. /\ Head(s) \in S /\ Tail(s) \in Seq(S) /\ Len(Tail(s)) = Len(s) - 1
      /\ \A i \in 1 .. Len(s) - 1 : Tail(s)[i] = s[i + 1]
  OBVIOUS
<1>3. ASSUME NEW e \in Elements(Tail(s)) PROVE e \in Elements(s)
  <2>1. PICK i \in 1 .. Len(s) - 1 : e = s[i + 1] BY <1>2, <1>3 DEF Elements
  <2>2. i + 1 \in 1 .. Len(s) BY <1>1, <2>1
  <2> QED BY <2>1, <2>2 DEF Elements
<1>4. ASSUME NEW e \in Elements(s), e # Head(s) PROVE e \in Elements(Tail(s))
  <2>1. PICK i \in 1 .. Len(s) : e = s[i] BY <1>4 DEF Elements
  <2>2. i # 1 BY <1>1, <1>4, <2>1
  <2>3. i - 1 \in 1 .. Len(s) - 1 /\ Tail(s)[i - 1] = e BY <1>1, <1>2, <2>1, <2>2
  <2> QED BY <1>2, <2>3 DEF Elements
<1>5. Head(s) \in Elements(s)
  <2>1. 1 \in 1 .. Len(s) BY <1>1
  <2> QED BY <1>1, <2>1 DEF Elements
<1> QED BY <1>2, <1>3, <1>4, <1>5

(* A concatenation holds what its parts hold.                               *)
LEMMA ElementsConcat ==
    ASSUME NEW S, NEW s \in Seq(S), NEW r \in Seq(S)
    PROVE  Elements(s) \subseteq Elements(s \o r) /\ Elements(r) \subseteq Elements(s \o r)
<1>1. /\ Len(s \o r) = Len(s) + Len(r) /\ Len(s) \in Nat /\ Len(r) \in Nat
      /\ \A i \in 1 .. Len(s) : (s \o r)[i] = s[i]
      /\ \A i \in 1 .. Len(r) : (s \o r)[Len(s) + i] = r[i]
  OBVIOUS
<1>2. ASSUME NEW e \in Elements(s) PROVE e \in Elements(s \o r)
  <2>1. PICK i \in 1 .. Len(s) : e = s[i] BY <1>2 DEF Elements
  <2>2. i \in 1 .. Len(s \o r) /\ (s \o r)[i] = e BY <1>1, <2>1
  <2> QED BY <2>2 DEF Elements
<1>3. ASSUME NEW e \in Elements(r) PROVE e \in Elements(s \o r)
  <2>1. PICK i \in 1 .. Len(r) : e = r[i] BY <1>3 DEF Elements
  <2>2. Len(s) + i \in 1 .. Len(s \o r) /\ (s \o r)[Len(s) + i] = e BY <1>1, <2>1
  <2> QED BY <2>2 DEF Elements
<1> QED BY <1>2, <1>3

-----------------------------------------------------------------------------
(* A step of thread a that spawns no task, queues and claims none and makes *)
(* no started one Pending preserves the invariant.                          *)
LEMMA QuietStep ==
    ASSUME ExecInv, NEW a \in Agents, Tasks', Lists', Places', Placed(a)',
           UNCHANGED <<next_handle, markers, injector, local, ran_on, started>>,
           pc[a] \notin {"claim", "push"},
           \A b \in Agents \ {a} : /\ pc'[b] = pc[b] /\ back'[b] = back[b]
                                   /\ at'[b] = at[b] /\ wake'[b] = wake[b],
           \A w \in Workers : cur'[w] = cur[w] \/ (w = a /\ cur'[w] = NoTask),
           \A t \in started : state'[t] = "Pending" => state[t] = "Pending"
    PROVE  ExecInv'
<1> USE DEF ExecInv
<1>1. Known' = Known BY DEF Known
<1>2. \A t \in Handles : Home(t)' = Home(t) BY DEF Home
<1>3. Control'
  <2> SUFFICES ASSUME NEW b \in Agents, b # a PROVE Placed(b)' BY DEF Control
  <2>1. Placed(b) BY DEF Control
  <2>2. b \in Workers => cur'[b] = cur[b] OBVIOUS
  <2>3. Resumes(b)' = Resumes(b) /\ Returns(b)' = Returns(b)
    BY DEF Resumes, Returns
  <2> QED BY <2>1, <2>2, <2>3 DEF Placed, InTask
<1>4. Affine'
  <2>1. \A w \in Workers : cur'[w] # NoTask => cur[w] \in Handles /\ cur'[w] = cur[w]
    BY DEF Lists, Known
  <2>2. /\ \A t \in Elements(injector) : t \in Handles
        /\ \A w \in Workers : \A t \in Elements(local[w]) : t \in Handles
    <3>1. injector \in Seq(Known) /\ \A w \in Workers : local[w] \in Seq(Known)
      BY DEF Lists
    <3>2. Known \subseteq Handles BY DEF Known
    <3> QED BY <3>1, <3>2, ElementsIn
  <2>3. Elements(injector)' = Elements(injector)
        /\ \A w \in Workers : Elements(local[w])' = Elements(local[w])
    BY DEF Elements
  <2> QED BY <1>1, <1>2, <2>1, <2>2, <2>3 DEF Affine
<1>5. StartedNotStranded'
  <2> SUFFICES ASSUME NEW t \in started, state[t] = "Pending" PROVE InFlight(t)'
    BY DEF StartedNotStranded
  <2>1. InFlight(t) BY DEF StartedNotStranded
  <2>2. CASE t \in Elements(injector) \/ \E w \in Workers : t \in Elements(local[w])
    BY <2>2 DEF InFlight, Elements
  <2>3. ASSUME NEW w \in Workers, pc[w] = "claim", cur[w] = t PROVE InFlight(t)'
    <3>1. w \in Agents /\ w # a BY <2>3 DEF Agents
    <3>2. pc'[w] = "claim" /\ cur'[w] = t BY <2>3, <3>1
    <3> QED BY <3>2 DEF InFlight
  <2>4. ASSUME NEW b \in Agents, pc[b] = "push", Head(wake[b]) = t PROVE InFlight(t)'
    BY <2>4 DEF InFlight
  <2> QED BY <2>1, <2>2, <2>3, <2>4 DEF InFlight
<1> QED BY <1>3, <1>4, <1>5

(* A call that was made from where calls can be made is well placed.        *)
LEMMA CallPlaced ==
    ASSUME ExecInv, NEW a \in Agents, CanCall(a), Places',
           NEW p \in {"push", "wake", "wakesenders"},
           pc'[a] = p, back'[a] = <<pc[a]>>, cur' = cur,
           p = "push" => wake'[a] # <<>>,
           p = "wakesenders" => at'[a] \in SendKeys
    PROVE  Placed(a)'
<1> USE DEF ExecInv, CallPCs
<1>1. Placed(a) BY DEF Control
<1>2. Len(back'[a]) = 1 /\ Resumes(a)' = pc[a] BY DEF Resumes
<1>3. pc[a] \in Returns(a) /\ Returns(a)' = Returns(a)
  BY <1>1 DEF Placed, Returns, CanCall
<1>4. a \in Workers /\ InTask(a)' => cur'[a] # NoTask
  BY <1>1, <1>2 DEF Placed, InTask, TaskPCs, CanCall
<1>5. pc'[a] \in IF a \in Clients THEN {"idle"} \cup CallPCs ELSE PCs \ {"idle"}
  BY DEF PCs
<1> QED BY <1>2, <1>3, <1>4, <1>5 DEF Placed

(* A call that returns leaves its thread well placed.                       *)
LEMMA ReturnPlaced ==
    ASSUME ExecInv, NEW a \in Agents, pc[a] \in {"wake", "count"}, Return(a),
           UNCHANGED <<at, cur>>
    PROVE  /\ Placed(a)'
           /\ pc' \in [Agents -> PCs] /\ back' \in [Agents -> Seq(PCs)]
           /\ \A b \in Agents \ {a} : pc'[b] = pc[b] /\ back'[b] = back[b]
<1> USE DEF ExecInv, CallPCs
<1>1. Placed(a) /\ back[a] \in Seq(PCs) BY DEF Control, Places
<1>2. /\ Len(back[a]) \in {1, 2} /\ Resumes(a) \in Returns(a)
      /\ Len(back[a]) = 2 => back[a][1] = "count"
  BY <1>1 DEF Placed
<1>3. back[a] # <<>> /\ Head(back[a]) = back[a][1]
  <2>1. Len(back[a]) = 1 \/ Len(back[a]) = 2 BY <1>2
  <2>2. back[a] # <<>> BY <2>1
  <2> QED BY <1>1, <2>2
<1>4. Tail(back[a]) \in Seq(PCs) /\ Len(Tail(back[a])) = Len(back[a]) - 1
  BY <1>1, <1>3
<1>5. Head(back[a]) \in PCs BY <1>1, <1>3
<1>6. /\ pc' \in [Agents -> PCs] /\ back' \in [Agents -> Seq(PCs)]
      /\ \A b \in Agents \ {a} : pc'[b] = pc[b] /\ back'[b] = back[b]
      /\ pc'[a] = back[a][1] /\ back'[a] = Tail(back[a])
  BY <1>3, <1>4, <1>5 DEF Return, Places
<1>7. Returns(a)' = Returns(a) BY DEF Returns
<1>8. Placed(a)'
  <2>1. CASE Len(back[a]) = 1
    <3>1. pc'[a] \in Returns(a) /\ pc'[a] = Resumes(a) BY <1>2, <1>6, <2>1 DEF Resumes
    <3>2. a \in Workers /\ InTask(a)' => InTask(a)
      BY <3>1 DEF InTask, TaskPCs, Returns
    <3> QED BY <1>1, <1>6, <3>1, <3>2 DEF Placed, Returns, PCs
  <2>2. CASE Len(back[a]) = 2
    <3>1. pc'[a] = "count" /\ Len(back'[a]) = 1 BY <1>2, <1>4, <1>6, <2>2
    <3>2. Resumes(a)' = Resumes(a) BY <1>1, <1>3, <1>6, <2>2, <3>1 DEF Resumes
    <3>3. a \in Workers /\ InTask(a)' => InTask(a)
      BY <3>1, <3>2 DEF InTask, TaskPCs
    <3>4. a \in Workers /\ InTask(a)' => cur'[a] # NoTask BY <1>1, <3>3 DEF Placed
    <3>5. pc'[a] \in IF a \in Clients THEN {"idle"} \cup CallPCs ELSE PCs \ {"idle"}
      BY <3>1 DEF PCs
    <3>6. Resumes(a)' \in Returns(a)' BY <1>2, <1>7, <3>2
    <3> QED BY <3>1, <3>4, <3>5, <3>6 DEF Placed
  <2> QED BY <1>2, <2>1, <2>2
<1> QED BY <1>6, <1>8

-----------------------------------------------------------------------------
(* One lemma per operation, or per group of them that does the same.        *)

(* The steps of a worker that change only where it is, and the task it has. *)
LEMMA MoveInv ==
    ASSUME ExecInv, NEW w \in Workers,
           \/ WorkerStart(w) \/ LoopTop(w) \/ Run(w) \/ Unpark(w) \/ Quiet(w)
           \/ EnterBody(w) \/ LeaveBody(w) \/ AfterBody(w)
    PROVE  ExecInv'
<1> USE DEF ExecInv, taskVars, waitVars, queueVars, histVars, Goto
<1>1. w \in Agents /\ w \notin Clients BY NamesAssumption DEF Agents
<1>2. PICK p \in {"loop", "exited", "timers", "out", "body", "after", "finish"} :
         /\ pc' = [pc EXCEPT ![w] = p]
         /\ cur' = cur \/ (cur' = [cur EXCEPT ![w] = NoTask] /\ p = Again)
         /\ p \in {"body", "after", "finish"} => pc[w] \in TaskPCs
         /\ pc[w] \notin {"claim", "push"}
         /\ UNCHANGED <<taskVars, waitVars, queueVars, back, at, wake, started, ran_on>>
         /\ gave_up' = gave_up \/ gave_up' = [gave_up EXCEPT ![w] = FALSE]
         /\ callback' \in {callback, 0, w}
         /\ shutdown' = shutdown /\ completed_count' = completed_count
  BY DEF WorkerStart, LoopTop, Run, Unpark, Quiet, EnterBody, LeaveBody, AfterBody,
         Release, Again, TaskPCs, statVars
<1>3. Tasks' BY <1>2 DEF Tasks, Known
<1>4. Known' = Known BY <1>2 DEF Known
<1>5. Lists' BY <1>2, <1>4 DEF Lists
<1>6. Places' BY <1>1, <1>2 DEF Places, PCs
<1>7. Placed(w)'
  <2>1. pc'[w] = p BY <1>1, <1>2 DEF Places
  <2>2. InTask(w)' => InTask(w) /\ cur' = cur
    BY <1>2, <2>1 DEF InTask, TaskPCs, CallPCs, Again
  <2>3. Placed(w) BY <1>1 DEF Control
  <2> QED BY <1>1, <1>2, <2>1, <2>2, <2>3 DEF Placed, CallPCs, PCs
<1> QED BY <1>1, <1>2, <1>3, <1>5, <1>6, <1>7, QuietStep DEF Places, Lists

(* The steps that take waiting tasks to wake them.                          *)
LEMMA TakeToWake ==
    ASSUME ExecInv, NEW a \in Agents, CanCall(a) \/ pc[a] \in {"wakesenders", "take", "timers"},
           UNCHANGED <<taskVars, queueVars, callback, statVars, cur, histVars>>,
           waiters' \in [Keys -> Seq(Known)], timers' \subseteq Known,
           wake' \in [Agents -> Seq(Known)],
           \A b \in Agents \ {a} : wake'[b] = wake[b],
           \A b \in Agents \ {a} : at'[b] = at[b],
           at' \in [Agents -> Keys \cup {Timer, NoKey}],
           NEW p \in {"wake", "wakesenders"}, pc' = [pc EXCEPT ![a] = p],
           p = "wakesenders" => at'[a] \in SendKeys,
           back' \in [Agents -> Seq(PCs)],
           \A b \in Agents \ {a} : back'[b] = back[b],
           \/ pc[a] \in {"wakesenders", "take"} /\ back' = back
           \/ CanCall(a) /\ back'[a] = <<pc[a]>>
           \/ pc[a] = "timers" /\ back'[a] = <<"local">>
    PROVE  ExecInv'
<1> USE DEF ExecInv, taskVars, queueVars, statVars, histVars
<1>1. Known' = Known BY DEF Known
<1>2. Tasks' BY DEF Tasks, Known
<1>3. Lists' BY <1>1 DEF Lists
<1>4. Places' BY DEF Places, PCs
<1>5. pc'[a] = p BY DEF Places
<1>6. Placed(a)'
  <2>1. CASE CanCall(a) /\ back'[a] = <<pc[a]>> BY <1>4, <1>5, <2>1, CallPlaced
  <2>2. CASE pc[a] \in {"wakesenders", "take"} /\ back' = back
    <3>1. Placed(a) BY DEF Control
    <3>2. Resumes(a)' = Resumes(a) /\ Returns(a)' = Returns(a)
      BY <2>2 DEF Resumes, Returns
    <3>3. InTask(a)' => InTask(a) BY <1>5, <2>2, <3>2 DEF InTask, TaskPCs, CallPCs
    <3> QED BY <1>5, <2>2, <3>1, <3>2, <3>3 DEF Placed, CallPCs, PCs
  <2>3. CASE pc[a] = "timers" /\ back'[a] = <<"local">>
    <3>1. Placed(a) BY DEF Control
    <3>2. a \notin Clients BY <2>3, <3>1 DEF Placed, CallPCs
    <3>3. Len(back'[a]) = 1 /\ Resumes(a)' = "local" BY <2>3 DEF Resumes
    <3>4. ~InTask(a)' BY <1>5, <3>3 DEF InTask, TaskPCs
    <3> QED BY <1>5, <3>2, <3>3, <3>4 DEF Placed, CallPCs, PCs, Returns
  <2> QED BY <2>1, <2>2, <2>3
<1>7. pc[a] \notin {"claim", "push"} BY DEF CanCall
<1>8. \A b \in Agents \ {a} : pc'[b] = pc[b] BY DEF Places
<1> QED BY <1>2, <1>3, <1>4, <1>6, <1>7, <1>8, QuietStep DEF Lists

(* The calls that take waiters of channels, tasks and requests.             *)
LEMMA WakeCallsInv ==
    ASSUME ExecInv, NEW a \in Agents,
           \/ \E k \in RecvKeys \cup SendKeys : WakeChannelWaiter(a, k)
           \/ \E c \in Chans : WakeAllChannelWaiters(a, c)
           \/ \E k \in NetKeys : WakeNetOpWaiters(a, k)
           \/ WakeAllSenders(a) \/ TakeWaiters(a)
    PROVE  ExecInv'
<1>1. /\ waiters \in [Keys -> Seq(Known)] /\ wake \in [Agents -> Seq(Known)]
      /\ pc \in [Agents -> PCs] /\ back \in [Agents -> Seq(PCs)]
      /\ at \in [Agents -> Keys \cup {Timer, NoKey}] /\ timers \subseteq Known
  BY DEF ExecInv, Lists, Places
<1>2. <<pc[a]>> \in Seq(PCs) BY <1>1
<1>3. ASSUME NEW k \in RecvKeys \cup SendKeys, WakeChannelWaiter(a, k) PROVE ExecInv'
  <2>1. k \in Keys BY DEF Keys
  <2>2. waiters[k] \in Seq(Known) /\ waiters[k] # <<>> BY <1>1, <1>3, <2>1 DEF WakeChannelWaiter
  <2>3. <<Last(waiters[k])>> \in Seq(Known) /\ Front(waiters[k]) \in Seq(Known)
    BY <2>2 DEF Last, Front
  <2>4. waiters' \in [Keys -> Seq(Known)] /\ wake' \in [Agents -> Seq(Known)]
    BY <1>1, <1>3, <2>3 DEF WakeChannelWaiter
  <2>5. /\ back' \in [Agents -> Seq(PCs)] /\ back'[a] = <<pc[a]>>
        /\ \A b \in Agents \ {a} : back'[b] = back[b] /\ wake'[b] = wake[b]
        /\ CanCall(a) /\ pc' = [pc EXCEPT ![a] = "wake"]
        /\ UNCHANGED <<timers, at, taskVars, queueVars, callback, statVars, cur, histVars>>
    BY <1>1, <1>2, <1>3 DEF WakeChannelWaiter, Call, Goto
  <2> QED BY <1>1, <2>4, <2>5, TakeToWake
<1>4. ASSUME NEW c \in Chans, WakeAllChannelWaiters(a, c) PROVE ExecInv'
  <2>1. <<"recv", c>> \in Keys /\ <<"send", c>> \in SendKeys /\ <<"send", c>> \in Keys
    BY DEF Keys, RecvKeys, SendKeys
  <2>2. waiters' \in [Keys -> Seq(Known)] /\ wake' \in [Agents -> Seq(Known)]
    BY <1>1, <1>4, <2>1 DEF WakeAllChannelWaiters
  <2>3. /\ at' \in [Agents -> Keys \cup {Timer, NoKey}] /\ at'[a] = <<"send", c>>
        /\ \A b \in Agents \ {a} : at'[b] = at[b]
    BY <1>1, <1>4, <2>1 DEF WakeAllChannelWaiters
  <2>4. /\ back' \in [Agents -> Seq(PCs)] /\ back'[a] = <<pc[a]>>
        /\ \A b \in Agents \ {a} : back'[b] = back[b] /\ wake'[b] = wake[b]
        /\ CanCall(a) /\ pc' = [pc EXCEPT ![a] = "wakesenders"]
        /\ UNCHANGED <<timers, taskVars, queueVars, callback, statVars, cur, histVars>>
    BY <1>1, <1>2, <1>4 DEF WakeAllChannelWaiters, Call, Goto
  <2> QED BY <1>1, <2>1, <2>2, <2>3, <2>4, TakeToWake
<1>5. ASSUME NEW k \in NetKeys, WakeNetOpWaiters(a, k) PROVE ExecInv'
  <2>1. k \in Keys BY DEF Keys
  <2>2. waiters' \in [Keys -> Seq(Known)] /\ wake' \in [Agents -> Seq(Known)]
    BY <1>1, <1>5, <2>1 DEF WakeNetOpWaiters
  <2>3. /\ back' \in [Agents -> Seq(PCs)] /\ back'[a] = <<pc[a]>>
        /\ \A b \in Agents \ {a} : back'[b] = back[b] /\ wake'[b] = wake[b]
        /\ CanCall(a) /\ pc' = [pc EXCEPT ![a] = "wake"]
        /\ UNCHANGED <<timers, at, taskVars, queueVars, callback, statVars, cur, histVars>>
    BY <1>1, <1>2, <1>5 DEF WakeNetOpWaiters, Call, Goto
  <2> QED BY <1>1, <2>2, <2>3, TakeToWake
<1>6. CASE WakeAllSenders(a) \/ TakeWaiters(a)
  <2>1. pc[a] \in {"wakesenders", "take"} BY <1>6 DEF WakeAllSenders, TakeWaiters
  <2>2. at[a] \in Keys
    BY <2>1 DEF ExecInv, Control, Placed, Keys
  <2>3. waiters[at[a]] \in Seq(Known) /\ wake[a] \o waiters[at[a]] \in Seq(Known)
    BY <1>1, <2>2
  <2>4. waiters' \in [Keys -> Seq(Known)] /\ wake' \in [Agents -> Seq(Known)]
    <3>1. waiters' = [waiters EXCEPT ![at[a]] = <<>>] BY <1>6 DEF WakeAllSenders, TakeWaiters
    <3>2. PICK s \in Seq(Known) : wake' = [wake EXCEPT ![a] = s]
      <4>1. CASE WakeAllSenders(a) BY <2>3, <4>1 DEF WakeAllSenders
      <4>2. CASE TakeWaiters(a) BY <2>3, <4>2 DEF TakeWaiters
      <4> QED BY <1>6, <4>1, <4>2
    <3>3. waiters' \in [Keys -> Seq(Known)]
      <4>1. <<>> \in Seq(Known) OBVIOUS
      <4> QED BY <1>1, <3>1, <4>1
    <3>4. wake' \in [Agents -> Seq(Known)] BY <1>1, <3>2
    <3> QED BY <3>3, <3>4
  <2>5. /\ \A b \in Agents \ {a} : wake'[b] = wake[b] /\ at'[b] = at[b]
        /\ at' \in [Agents -> Keys \cup {Timer, NoKey}]
        /\ pc' = [pc EXCEPT ![a] = "wake"]
        /\ UNCHANGED <<timers, back, taskVars, queueVars, callback, statVars, cur, histVars>>
    BY <1>1, <1>6 DEF WakeAllSenders, TakeWaiters, Goto
  <2> QED BY <1>1, <2>1, <2>4, <2>5, TakeToWake
<1> QED BY <1>3, <1>4, <1>5, <1>6

(* Taking the sleepers whose deadlines have passed.                         *)
LEMMA PollTimersInv ==
    ASSUME ExecInv, NEW w \in Workers, PollTimers(w)
    PROVE  ExecInv'
<1>1. /\ wake \in [Agents -> Seq(Known)]
      /\ pc \in [Agents -> PCs] /\ back \in [Agents -> Seq(PCs)]
      /\ at \in [Agents -> Keys \cup {Timer, NoKey}] /\ timers \subseteq Known
      /\ waiters \in [Keys -> Seq(Known)] /\ w \in Agents
  BY DEF ExecInv, Lists, Places, Agents
<1>2. PICK expired \in SUBSET timers : \E s \in SetToSeqs(expired) :
          /\ timers' = timers \ expired
          /\ wake' = [wake EXCEPT ![w] = s]
  BY DEF PollTimers
<1>3. PICK s \in SetToSeqs(expired) : wake' = [wake EXCEPT ![w] = s] BY <1>2
<1>4. s \in Seq(Known)
  <2>1. expired \subseteq Handles BY <1>1, <1>2 DEF Known
  <2>2. IsFiniteSet(Handles) BY FS_Interval, BoundsAssumption DEF Handles
  <2>3. IsFiniteSet(expired) BY <2>1, <2>2, FS_Subset
  <2>4. Cardinality(expired) \in Nat BY <2>3, FS_CardinalityType
  <2>5. s \in [1 .. Cardinality(expired) -> expired] BY <1>3 DEF SetToSeqs
  <2>6. s \in Seq(expired) BY <2>4, <2>5
  <2>7. expired \subseteq Known BY <1>1, <1>2
  <2> QED BY <2>6, <2>7, SeqMono
<1>5. /\ timers' \subseteq Known /\ wake' \in [Agents -> Seq(Known)]
      /\ \A b \in Agents \ {w} : wake'[b] = wake[b]
  BY <1>1, <1>2, <1>3, <1>4
<1>6. /\ back' \in [Agents -> Seq(PCs)] /\ back'[w] = <<"local">>
      /\ \A b \in Agents \ {w} : back'[b] = back[b]
      /\ pc[w] = "timers" /\ pc' = [pc EXCEPT ![w] = "wake"]
      /\ UNCHANGED <<waiters, at, taskVars, queueVars, callback, statVars, cur, histVars>>
  <2>1. <<"local">> \in Seq(PCs) BY DEF PCs
  <2> QED BY <1>1, <2>1 DEF PollTimers, Call, Goto
<1> QED BY <1>1, <1>5, <1>6, TakeToWake

(* Counting a completion and a wake call with nobody left to wake return.   *)
LEMMA CountInv ==
    ASSUME ExecInv, NEW a \in Agents, Count(a)
    PROVE  ExecInv'
<1> USE DEF ExecInv, taskVars, waitVars, queueVars, histVars
<1>1. /\ Placed(a)'
      /\ pc' \in [Agents -> PCs] /\ back' \in [Agents -> Seq(PCs)]
      /\ \A b \in Agents \ {a} : pc'[b] = pc[b] /\ back'[b] = back[b]
  BY ReturnPlaced DEF Count
<1>2. Known' = Known BY DEF Count, Known
<1>3. Tasks' BY DEF Count, Tasks, Known
<1>4. Lists' BY <1>2 DEF Count, Lists
<1>5. Places' BY <1>1 DEF Count, Places
<1> QED BY <1>1, <1>3, <1>4, <1>5, QuietStep DEF Count

(* Waking the next task of those a thread has taken.                        *)
LEMMA WakeTaskInv ==
    ASSUME ExecInv, NEW a \in Agents, WakeTask(a)
    PROVE  ExecInv'
<1> USE DEF ExecInv, taskVars, waitVars, queueVars, histVars, statVars
<1>1. Known' = Known BY DEF WakeTask, Known
<1>2. pc[a] = "wake" /\ wake[a] \in Seq(Known) /\ Placed(a)
  BY DEF WakeTask, Lists, Control
<1>3. CASE wake[a] = <<>>
  <2>1. Return(a) /\ UNCHANGED <<state, reason, wake, at, cur>> BY <1>3 DEF WakeTask
  <2>2. /\ Placed(a)'
        /\ pc' \in [Agents -> PCs] /\ back' \in [Agents -> Seq(PCs)]
        /\ \A b \in Agents \ {a} : pc'[b] = pc[b] /\ back'[b] = back[b]
    BY <1>2, <2>1, ReturnPlaced
  <2>3. Tasks' BY <2>1 DEF WakeTask, Tasks, Known
  <2>4. Lists' BY <1>1, <2>1 DEF WakeTask, Lists
  <2>5. Places' BY <2>2 DEF WakeTask, Places
  <2> QED BY <1>2, <2>1, <2>2, <2>3, <2>4, <2>5, QuietStep DEF WakeTask
<1>4. CASE wake[a] # <<>> /\ state[Head(wake[a])] # "Blocked"
  <2>1. /\ wake' = [wake EXCEPT ![a] = Tail(@)]
        /\ UNCHANGED <<state, reason, pc, back, at, cur>>
    BY <1>4 DEF WakeTask
  <2>2. Tail(wake[a]) \in Seq(Known) BY <1>2, <1>4, ElementsTail
  <2>3. Tasks' BY <2>1 DEF WakeTask, Tasks, Known
  <2>4. Lists' BY <1>1, <2>1, <2>2 DEF WakeTask, Lists
  <2>5. Places' BY <2>1 DEF WakeTask, Places
  <2>6. Placed(a)' BY <1>2, <2>1 DEF Placed, Resumes, Returns, InTask
  <2>7. \A b \in Agents \ {a} : wake'[b] = wake[b] BY <2>1 DEF Lists
  <2> QED BY <1>2, <2>1, <2>3, <2>4, <2>5, <2>6, <2>7, QuietStep DEF WakeTask
<1>5. CASE wake[a] # <<>> /\ state[Head(wake[a])] = "Blocked"
  <2>1. PICK t \in Known : t = Head(wake[a]) BY <1>2, <1>5, ElementsTail
  <2>2. t \in Handles BY DEF Known
  <2>3. /\ state' = [state EXCEPT ![t] = "Pending"]
        /\ reason' = [reason EXCEPT ![t] = NoKey]
        /\ pc' = [pc EXCEPT ![a] = "push"]
        /\ UNCHANGED <<next_handle, markers, parent, waitVars, queueVars, callback,
                       statVars, back, at, wake, cur, histVars>>
    BY <1>5, <2>1 DEF WakeTask, Goto
  <2>4. Tasks' BY <1>1, <2>2, <2>3 DEF Tasks, Known
  <2>5. Lists' BY <1>1, <2>3 DEF Lists
  <2>6. Places' BY <2>3 DEF Places, PCs
  <2>7. pc'[a] = "push" /\ \A b \in Agents \ {a} : pc'[b] = pc[b]
    BY <2>3 DEF Places
  <2>8. Control'
    <3>1. Placed(a)'
      BY <1>2, <1>5, <2>3, <2>7
         DEF Placed, Resumes, Returns, InTask, TaskPCs, CallPCs, PCs
    <3>2. ASSUME NEW b \in Agents, b # a PROVE Placed(b)'
      BY <2>3, <2>7, <3>2 DEF Control, Placed, Resumes, Returns, InTask
    <3> QED BY <3>1, <3>2 DEF Control
  <2>9. Affine' BY <1>1, <2>3 DEF Affine, Home, Elements
  <2>10. StartedNotStranded'
    <3> SUFFICES ASSUME NEW s \in started, state'[s] = "Pending" PROVE InFlight(s)'
      BY <2>3 DEF StartedNotStranded
    <3>1. CASE s = t BY <2>1, <2>3, <2>7, <3>1 DEF InFlight
    <3>2. CASE s # t
      <4>1. state[s] = "Pending" BY <2>2, <2>3, <3>2 DEF Tasks, Lists, Known
      <4>2. InFlight(s) BY <4>1 DEF StartedNotStranded
      <4>3. ASSUME NEW w \in Workers, pc[w] = "claim", cur[w] = s PROVE InFlight(s)'
        <5>1. pc'[w] = "claim" BY <1>2, <2>7, <4>3 DEF Agents
        <5> QED BY <2>3, <4>3, <5>1 DEF InFlight
      <4>4. ASSUME NEW b \in Agents, pc[b] = "push", Head(wake[b]) = s PROVE InFlight(s)'
        <5>1. pc'[b] = "push" BY <2>7, <4>4
        <5> QED BY <2>3, <4>4, <5>1 DEF InFlight
      <4> QED BY <2>3, <4>2, <4>3, <4>4 DEF InFlight, Elements
    <3> QED BY <3>1, <3>2
  <2> QED BY <2>4, <2>5, <2>6, <2>8, <2>9, <2>10
<1> QED BY <1>3, <1>4, <1>5

(* Finishing a task, in a call or after its body.                           *)
LEMMA FinishInv ==
    ASSUME ExecInv, NEW a \in Agents, NEW t \in Known, NEW s \in Final,
           NEW r \in Returns(a), NEW k \in {1, 2},
           pc[a] \notin {"claim", "push"},
           SetFinal(a, t, s, IF k = 1 THEN <<r>> ELSE <<"count", r>>),
           pc' = [pc EXCEPT ![a] = "take"], gave_up' \in [Workers -> BOOLEAN],
           \A w \in Workers : cur'[w] = cur[w] \/ (w = a /\ cur'[w] = NoTask),
           cur' \in [Workers -> Known \cup {NoTask}],
           a \in Workers /\ r \in {"body", "leave"} => cur'[a] # NoTask
    PROVE  ExecInv'
<1> USE DEF ExecInv, waitVars, queueVars, statVars
<1>1. t \in Handles BY DEF Known
<1>2. /\ state' = [state EXCEPT ![t] = s] /\ reason' = [reason EXCEPT ![t] = NoKey]
      /\ at' = [at EXCEPT ![a] = <<"task", t>>]
      /\ UNCHANGED <<next_handle, markers, parent, waitVars, queueVars, callback,
                     statVars, wake, started, ran_on>>
  BY DEF SetFinal
<1>3. PICK l \in Seq(PCs) : /\ back' = [back EXCEPT ![a] = l]
                            /\ Len(l) = k /\ l[k] = r /\ (k = 2 => l[1] = "count")
  <2>1. r \in PCs BY DEF Returns, PCs
  <2>2. CASE k = 1
    <3>1. <<r>> \in Seq(PCs) /\ Len(<<r>>) = 1 /\ <<r>>[1] = r BY <2>1
    <3>2. back' = [back EXCEPT ![a] = <<r>>] BY <2>2 DEF SetFinal
    <3>3. PICK l \in Seq(PCs) : l = <<r>> BY <3>1
    <3>4. Len(l) = k /\ l[k] = r BY <2>2, <3>1, <3>3
    <3>5. back' = [back EXCEPT ![a] = l] BY <3>2, <3>3
    <3>6. k # 2 BY <2>2
    <3> QED BY <3>4, <3>5, <3>6
  <2>3. CASE k = 2
    <3>1. /\ <<"count", r>> \in Seq(PCs) /\ Len(<<"count", r>>) = 2
          /\ <<"count", r>>[2] = r /\ <<"count", r>>[1] = "count"
      BY <2>1 DEF PCs
    <3>2. back' = [back EXCEPT ![a] = <<"count", r>>] BY <2>3 DEF SetFinal
    <3>3. PICK l \in Seq(PCs) : l = <<"count", r>> BY <3>1
    <3> QED BY <2>3, <3>1, <3>2, <3>3
  <2> QED BY <2>2, <2>3
<1>4. Known' = Known BY <1>2 DEF Known
<1>5. Tasks' BY <1>1, <1>2, <1>4 DEF Tasks, Final
<1>6. Lists' BY <1>2, <1>4 DEF Lists
<1>7. <<"task", t>> \in TaskKeys /\ <<"task", t>> \in Keys BY <1>1 DEF TaskKeys, Keys
<1>8. Places' BY <1>2, <1>3, <1>7 DEF Places, PCs
<1>9. pc'[a] = "take" /\ at'[a] = <<"task", t>> /\ back'[a] = l
  BY <1>2, <1>3 DEF Places
<1>10. Placed(a)'
  <2>1. Resumes(a)' = r /\ Returns(a)' = Returns(a) BY <1>3, <1>9 DEF Resumes, Returns
  <2>2. a \in Workers /\ InTask(a)' => cur'[a] # NoTask
    BY <1>9, <2>1 DEF InTask, TaskPCs
  <2>3. pc'[a] \in IF a \in Clients THEN {"idle"} \cup CallPCs ELSE PCs \ {"idle"}
    BY <1>9 DEF CallPCs, PCs
  <2>4. /\ Len(back'[a]) \in {1, 2}
        /\ Len(back'[a]) = 2 => back'[a][1] = "count" /\ pc'[a] # "count"
    BY <1>3, <1>9
  <2>5. Resumes(a)' \in Returns(a)' BY <2>1
  <2>6. at'[a] \in TaskKeys BY <1>7, <1>9
  <2> QED BY <1>9, <2>2, <2>3, <2>4, <2>5, <2>6 DEF Placed
<1>11. \A b \in Agents \ {a} : /\ pc'[b] = pc[b] /\ back'[b] = back[b]
                               /\ at'[b] = at[b] /\ wake'[b] = wake[b]
  BY <1>2, <1>3 DEF Places
<1>12. \A u \in started : state'[u] = "Pending" => state[u] = "Pending"
  BY <1>1, <1>2 DEF Tasks, Lists, Known, Final
<1> QED BY <1>2, <1>5, <1>6, <1>8, <1>10, <1>11, <1>12, QuietStep

(* Completing, cancelling and panicking a task.                             *)
LEMMA FinishCallsInv ==
    ASSUME ExecInv, NEW a \in Agents, NEW t \in Known,
           Complete(a, t) \/ Cancel(a, t) \/ Panic(a, t)
    PROVE  ExecInv'
<1> USE DEF ExecInv
<1>1. CanCall(a) /\ UNCHANGED <<cur, gave_up>> /\ pc' = [pc EXCEPT ![a] = "take"]
  BY DEF Complete, Cancel, Panic, Finish, Goto
<1>2. Placed(a) /\ t # NoTask BY NamesAssumption DEF Control, Known
<1>3. PICK r \in Returns(a) : r = AfterCall(a, t)
  BY <1>1, <1>2 DEF AfterCall, Own, CanCall, Returns, Placed, CallPCs
<1>4. a \in Workers /\ r \in {"body", "leave"} => cur'[a] # NoTask
  BY <1>1, <1>2, <1>3 DEF AfterCall, Own, CanCall, Placed, InTask, TaskPCs
<1>5. PICK s \in Final, k \in {1, 2} :
         SetFinal(a, t, s, IF k = 1 THEN <<r>> ELSE <<"count", r>>)
  <2>1. CASE Complete(a, t)
    <3>1. SetFinal(a, t, "Completed", <<"count", r>>) BY <1>3, <2>1 DEF Complete, Finish
    <3>2. PICK k \in {1, 2} : k = 2 OBVIOUS
    <3>3. SetFinal(a, t, "Completed", IF k = 1 THEN <<r>> ELSE <<"count", r>>)
      BY <3>1, <3>2
    <3> QED BY <3>3 DEF Final
  <2>2. CASE Cancel(a, t) \/ Panic(a, t)
    <3>1. \E s \in Final : SetFinal(a, t, s, <<r>>)
      BY <1>3, <2>2 DEF Cancel, Panic, Finish, Final
    <3>2. PICK k \in {1, 2} : k = 1 OBVIOUS
    <3> QED BY <3>1, <3>2
  <2> QED BY <2>1, <2>2
<1>6. pc[a] \notin {"claim", "push"} BY <1>1 DEF CanCall
<1>7. gave_up' \in [Workers -> BOOLEAN] /\ cur' \in [Workers -> Known \cup {NoTask}]
  BY <1>1 DEF Places, Lists
<1> QED BY <1>1, <1>4, <1>5, <1>6, <1>7, FinishInv

(* Completing the task whose body has returned.                             *)
LEMMA CompleteExecutedInv ==
    ASSUME ExecInv, NEW w \in Workers, CompleteExecuted(w)
    PROVE  ExecInv'
<1> USE DEF ExecInv
<1>1. w \in Agents /\ w \notin Clients /\ Placed(w)
  BY NamesAssumption DEF Agents, Control
<1>2. pc[w] = "finish" /\ cur[w] # NoTask
  BY <1>1 DEF CompleteExecuted, Placed, InTask, TaskPCs
<1>3. PICK t \in Known : t = cur[w] BY <1>2 DEF Lists
<1>4. PICK r \in Returns(w) : r = Again BY <1>1 DEF Returns, Again
<1>5. PICK k \in {1, 2} : k = 2 OBVIOUS
<1>6. r \notin {"body", "leave"} BY <1>4 DEF Again
<1>7. /\ SetFinal(w, t, "Completed", IF k = 1 THEN <<r>> ELSE <<"count", r>>)
      /\ pc' = [pc EXCEPT ![w] = "take"]
      /\ cur' = [cur EXCEPT ![w] = NoTask]
      /\ gave_up' = [gave_up EXCEPT ![w] = FALSE]
  BY <1>3, <1>4, <1>5 DEF CompleteExecuted, Release, Goto
<1>8. gave_up' \in [Workers -> BOOLEAN] /\ cur' \in [Workers -> Known \cup {NoTask}]
  BY <1>7 DEF Places, Lists
<1>9. \A v \in Workers : cur'[v] = cur[v] \/ (v = w /\ cur'[v] = NoTask)
  BY <1>7 DEF Lists
<1>10. "Completed" \in Final BY DEF Final
<1> QED BY <1>1, <1>2, <1>6, <1>7, <1>8, <1>9, <1>10, FinishInv

(* Blocking a task and registering it.                                      *)
LEMMA BlockInv ==
    ASSUME ExecInv, NEW w \in Workers, NEW k \in Keys \cup {Timer}, Block(w, k)
    PROVE  ExecInv'
<1> USE DEF ExecInv, waitVars, queueVars, statVars
<1>1. w \in Agents /\ w \notin Clients /\ Placed(w)
  BY NamesAssumption DEF Agents, Control
<1>2. pc[w] = "body" /\ cur[w] # NoTask
  BY <1>1 DEF Block, Placed, InTask, TaskPCs
<1>3. PICK t \in Known : t = cur[w] BY <1>2 DEF Lists
<1>4. t \in Handles /\ k # NoKey BY NamesAssumption DEF Known
<1>5. /\ state' = [state EXCEPT ![t] = "Blocked"] /\ reason' = [reason EXCEPT ![t] = k]
      /\ at' = [at EXCEPT ![w] = k] /\ gave_up' = [gave_up EXCEPT ![w] = TRUE]
      /\ pc' = [pc EXCEPT ![w] = "register"]
      /\ UNCHANGED <<next_handle, markers, parent, waitVars, queueVars, callback,
                     statVars, back, wake, cur, started, ran_on>>
  BY <1>3 DEF Block, Goto
<1>6. Known' = Known BY <1>5 DEF Known
<1>7. Tasks' BY <1>4, <1>5, <1>6 DEF Tasks
<1>8. Lists' BY <1>5, <1>6 DEF Lists
<1>9. Places' BY <1>5 DEF Places, PCs
<1>10. pc'[w] = "register" /\ at'[w] = k BY <1>1, <1>5 DEF Places
<1>11. Placed(w)'
  BY <1>1, <1>2, <1>5, <1>10 DEF Placed, CallPCs, PCs
<1>12. \A b \in Agents \ {w} : /\ pc'[b] = pc[b] /\ back'[b] = back[b]
                               /\ at'[b] = at[b] /\ wake'[b] = wake[b]
  BY <1>5 DEF Places
<1>13. \A u \in started : state'[u] = "Pending" => state[u] = "Pending"
  BY <1>4, <1>5 DEF Tasks, Lists, Known
<1> QED BY <1>1, <1>2, <1>5, <1>7, <1>8, <1>9, <1>11, <1>12, <1>13, QuietStep

(* Entering the list of waiters.                                            *)
LEMMA RegisterInv ==
    ASSUME ExecInv, NEW w \in Workers, Register(w)
    PROVE  ExecInv'
<1> USE DEF ExecInv, taskVars, queueVars, statVars, histVars
<1>1. w \in Agents /\ w \notin Clients /\ Placed(w)
  BY NamesAssumption DEF Agents, Control
<1>2. pc[w] = "register" /\ cur[w] # NoTask /\ at[w] \in Keys \cup {Timer}
  BY <1>1 DEF Register, Placed, InTask, TaskPCs
<1>3. cur[w] \in Known BY <1>2 DEF Lists
<1>4. /\ at' = [at EXCEPT ![w] = NoKey] /\ pc' = [pc EXCEPT ![w] = "leave"]
      /\ UNCHANGED <<taskVars, queueVars, callback, statVars, back, wake, cur, histVars>>
  BY DEF Register, Goto
<1>5. Known' = Known BY <1>4 DEF Known
<1>6. timers' \subseteq Known /\ waiters' \in [Keys -> Seq(Known)]
  <2>1. CASE at[w] = Timer BY <1>3, <2>1 DEF Register, Lists
  <2>2. CASE at[w] # Timer
    <3>1. at[w] \in Keys /\ waiters \in [Keys -> Seq(Known)] BY <1>2, <2>2 DEF Lists
    <3>2. Append(waiters[at[w]], cur[w]) \in Seq(Known) BY <1>3, <3>1
    <3>3. waiters' = [waiters EXCEPT ![at[w]] = Append(@, cur[w])] /\ timers' = timers
      BY <2>2 DEF Register
    <3> QED BY <3>1, <3>2, <3>3 DEF Lists
  <2> QED BY <2>1, <2>2
<1>7. Tasks' BY <1>4, <1>5 DEF Tasks
<1>8. Lists' BY <1>4, <1>5, <1>6 DEF Lists
<1>9. Places' BY <1>4 DEF Places, PCs
<1>10. pc'[w] = "leave" BY <1>1, <1>4 DEF Places
<1>11. Placed(w)' BY <1>1, <1>2, <1>4, <1>10 DEF Placed, CallPCs, PCs
<1>12. \A b \in Agents \ {w} : /\ pc'[b] = pc[b] /\ back'[b] = back[b]
                               /\ at'[b] = at[b] /\ wake'[b] = wake[b]
  BY <1>4 DEF Places
<1> QED BY <1>1, <1>2, <1>4, <1>7, <1>8, <1>9, <1>11, <1>12, QuietStep

(* Asking the workers to stop.                                              *)
LEMMA ShutdownInv ==
    ASSUME ExecInv, NEW a \in Agents, Shutdown(a)
    PROVE  ExecInv'
<1> USE DEF ExecInv, taskVars, waitVars, queueVars, threadVars, histVars, Shutdown
<1>1. Known' = Known BY DEF Known
<1>2. Tasks' BY <1>1 DEF Tasks
<1>3. Lists' BY <1>1 DEF Lists
<1>4. Places' BY DEF Places
<1>5. Placed(a)' BY DEF Control, Placed, Resumes, Returns, InTask
<1>6. pc[a] \notin {"claim", "push"} BY DEF CanCall
<1> QED BY <1>2, <1>3, <1>4, <1>5, <1>6, QuietStep

-----------------------------------------------------------------------------
(* The steps that queue and claim tasks.                                    *)

(* Spawning: the new handle is nowhere, so what is known of the others      *)
(* stays.                                                                   *)
LEMMA NewTaskKeeps ==
    ASSUME ExecInv, NEW a \in Agents, NEW m \in Markers, NewTask(a, m),
           UNCHANGED <<reason, waitVars, queueVars, cur, ran_on>>
    PROVE  /\ Tasks' /\ Affine'
           /\ Known' = Known \cup {next_handle} /\ next_handle \in Handles
           /\ next_handle \notin Known
           /\ waiters' \in [Keys -> Seq(Known')] /\ timers' \subseteq Known'
           /\ injector' \in Seq(Known') /\ local' \in [Workers -> Seq(Known')]
           /\ cur' \in [Workers -> Known' \cup {NoTask}]
<1> USE DEF ExecInv, waitVars, queueVars
<1>1. PICK n \in Handles : n = next_handle BY DEF NewTask
<1>2. /\ next_handle' = n + 1
      /\ state' = [state EXCEPT ![n] = "Pending"]
      /\ markers' = [markers EXCEPT ![n] = m]
      /\ parent' = [parent EXCEPT ![n] = Own(a)]
  BY <1>1 DEF NewTask
<1>3. Known' = Known \cup {n} /\ n \notin Known
  BY <1>1, <1>2 DEF Known, Handles
<1>4. Own(a) \in Handles \cup {NoTask}
  <2>1. CASE pc[a] = "body"
    <3>1. a \in Workers BY <2>1 DEF Control, Placed, CallPCs, Agents
    <3> QED BY <2>1, <3>1 DEF Own, Lists, Known
  <2>2. CASE pc[a] # "body" BY <2>2 DEF Own
  <2> QED BY <2>1, <2>2
<1>5. Tasks'
  <2>1. next_handle' \in 1 .. MaxTasks + 1 BY <1>2, BoundsAssumption DEF Handles
  <2>2. state[n] = "None" BY <1>3 DEF Tasks
  <2> QED BY <1>2, <1>3, <1>4, <2>1, <2>2 DEF Tasks
<1>6. \A t \in Handles : t # n => Home(t)' = Home(t) BY <1>2 DEF Home, Tasks
<1>7. /\ \A t \in Elements(injector) : t \in Handles /\ t # n
      /\ \A w \in Workers : \A t \in Elements(local[w]) : t \in Handles /\ t # n
  <2>1. injector \in Seq(Known) /\ \A w \in Workers : local[w] \in Seq(Known)
    BY DEF Lists
  <2>2. Elements(injector) \subseteq Known
        /\ \A w \in Workers : Elements(local[w]) \subseteq Known
    BY <2>1, ElementsIn
  <2> QED BY <1>3, <2>2 DEF Known
<1>8. Affine'
  <2>1. Elements(injector)' = Elements(injector)
        /\ \A w \in Workers : Elements(local[w])' = Elements(local[w])
    BY DEF Elements
  <2>2. \A w \in Workers : cur'[w] # NoTask => cur[w] \in Handles /\ cur[w] # n
    BY <1>3 DEF Lists, Known
  <2>3. ran_on[n] = {} BY <1>3 DEF Affine
  <2> QED BY <1>3, <1>6, <1>7, <2>1, <2>2, <2>3 DEF Affine
<1>9. /\ \A k \in Keys : waiters[k] \in Seq(Known')
      /\ injector \in Seq(Known')
      /\ \A w \in Workers : local[w] \in Seq(Known')
  <2>1. Known \subseteq Known' BY <1>3
  <2> QED BY <2>1, SeqMono DEF Lists
<1>10. cur' \in [Workers -> Known' \cup {NoTask}] /\ timers' \subseteq Known' BY <1>3 DEF Lists
<1>11. waiters' \in [Keys -> Seq(Known')] /\ local' \in [Workers -> Seq(Known')]
       /\ injector' \in Seq(Known')
  BY <1>9 DEF Lists
<1> QED BY <1>1, <1>3, <1>5, <1>8, <1>10, <1>11

(* Spawning a task.                                                         *)
LEMMA SpawnInv ==
    ASSUME ExecInv, NEW a \in Agents, NEW m \in Markers, Spawn(a, m)
    PROVE  ExecInv'
<1> USE DEF ExecInv, threadVars, histVars
<1>1. /\ Tasks' /\ Affine'
      /\ Known' = Known \cup {next_handle} /\ next_handle \in Handles
      /\ next_handle \notin Known
      /\ waiters' \in [Keys -> Seq(Known')] /\ timers' \subseteq Known'
      /\ injector' \in Seq(Known') /\ local' \in [Workers -> Seq(Known')]
      /\ cur' \in [Workers -> Known' \cup {NoTask}]
  BY NewTaskKeeps DEF Spawn
<1>2. Lists'
  <2>1. \A b \in Agents : wake[b] \in Seq(Known') BY <1>1, SeqMono DEF Lists
  <2>2. wake' \in [Agents -> Seq(Known')] BY <2>1 DEF Lists, Spawn
  <2> QED BY <1>1, <2>2 DEF Lists, Spawn
<1>3. Places' BY DEF Places, Spawn, statVars
<1>4. Control' BY DEF Control, Placed, Resumes, Returns, InTask, Spawn
<1>5. StartedNotStranded'
  <2>1. \A t \in started : state'[t] = state[t]
    BY <1>1 DEF Spawn, NewTask, Tasks, Lists, Known
  <2>2. \A t \in started : InFlight(t)' <=> InFlight(t)
    BY DEF InFlight, Elements, Spawn, queueVars
  <2> QED BY <2>1, <2>2 DEF StartedNotStranded, Spawn
<1> QED BY <1>1, <1>2, <1>3, <1>4, <1>5

(* A thread that goes on to push t, started by this step, keeps the others  *)
(* in flight.                                                               *)
LEMMA StartKeeps ==
    ASSUME ExecInv, NEW a \in Agents, CanCall(a), NEW t,
           pc' = [pc EXCEPT ![a] = "push"], wake' = [wake EXCEPT ![a] = <<t>>],
           started' = started \cup {t}, UNCHANGED <<queueVars, cur>>,
           \A s \in started : s # t => state'[s] = state[s]
    PROVE  StartedNotStranded'
<1> USE DEF ExecInv, queueVars
<1>1. /\ pc'[a] = "push" /\ wake'[a] = <<t>>
      /\ \A b \in Agents \ {a} : pc'[b] = pc[b] /\ wake'[b] = wake[b]
  BY DEF Places, Lists
<1>2. InFlight(t)' BY <1>1 DEF InFlight
<1>3. ASSUME NEW s \in started, s # t, state'[s] = "Pending" PROVE InFlight(s)'
  <2>1. InFlight(s) BY <1>3 DEF StartedNotStranded
  <2>2. ASSUME NEW w \in Workers, pc[w] = "claim", cur[w] = s PROVE InFlight(s)'
    <3>1. w # a /\ w \in Agents BY <2>2 DEF CanCall, Agents
    <3>2. pc'[w] = "claim" BY <1>1, <2>2, <3>1
    <3> QED BY <2>2, <3>2 DEF InFlight
  <2>3. ASSUME NEW b \in Agents, pc[b] = "push", Head(wake[b]) = s PROVE InFlight(s)'
    <3>1. b # a BY <2>3 DEF CanCall
    <3>2. pc'[b] = "push" /\ wake'[b] = wake[b] BY <1>1, <2>3, <3>1
    <3> QED BY <2>3, <3>2 DEF InFlight
  <2> QED BY <2>1, <2>2, <2>3 DEF InFlight, Elements
<1> QED BY <1>2, <1>3 DEF StartedNotStranded

(* Control after a step of a that changes only its own places.              *)
LEMMA ControlFrame ==
    ASSUME Control, NEW a \in Agents, Placed(a)',
           \A b \in Agents \ {a} : /\ pc'[b] = pc[b] /\ back'[b] = back[b]
                                   /\ at'[b] = at[b] /\ wake'[b] = wake[b],
           \A w \in Workers \ {a} : cur'[w] = cur[w]
    PROVE  Control'
<1> SUFFICES ASSUME NEW b \in Agents, b # a PROVE Placed(b)' BY DEF Control
<1>1. Placed(b) BY DEF Control
<1>2. Resumes(b)' = Resumes(b) /\ Returns(b)' = Returns(b) BY DEF Resumes, Returns
<1> QED BY <1>1, <1>2 DEF Placed, InTask

(* Spawning a task and starting it at once.                                 *)
LEMMA SpawnAndStartInv ==
    ASSUME ExecInv, NEW a \in Agents, NEW m \in Markers, SpawnAndStart(a, m)
    PROVE  ExecInv'
<1> USE DEF ExecInv
<1>1. /\ Tasks' /\ Affine'
      /\ Known' = Known \cup {next_handle} /\ next_handle \in Handles
      /\ next_handle \notin Known
      /\ waiters' \in [Keys -> Seq(Known')] /\ timers' \subseteq Known'
      /\ injector' \in Seq(Known') /\ local' \in [Workers -> Seq(Known')]
      /\ cur' \in [Workers -> Known' \cup {NoTask}]
  BY NewTaskKeeps DEF SpawnAndStart
<1>2. PICK n \in Handles : n = next_handle BY <1>1
<1>3. /\ pc' = [pc EXCEPT ![a] = "push"] /\ back' = [back EXCEPT ![a] = <<pc[a]>>]
      /\ wake' = [wake EXCEPT ![a] = <<n>>] /\ started' = started \cup {n}
      /\ CanCall(a)
      /\ UNCHANGED <<at, cur, queueVars, gave_up, callback, statVars>>
  BY <1>2 DEF SpawnAndStart, NewTask, Call, Goto
<1>4. Lists'
  <2>1. \A b \in Agents : wake[b] \in Seq(Known') BY <1>1, SeqMono DEF Lists
  <2>2. <<n>> \in Seq(Known') BY <1>1, <1>2
  <2>3. wake' \in [Agents -> Seq(Known')] BY <1>3, <2>1, <2>2 DEF Lists
  <2>4. started' \subseteq Known' BY <1>1, <1>2, <1>3 DEF Lists
  <2> QED BY <1>1, <2>3, <2>4 DEF Lists
<1>5. Places'
  <2>1. <<pc[a]>> \in Seq(PCs) BY DEF Places
  <2> QED BY <1>3, <2>1 DEF Places, PCs, statVars
<1>6. Control'
  <2>1. /\ pc'[a] = "push" /\ back'[a] = <<pc[a]>> /\ wake'[a] = <<n>>
        /\ \A b \in Agents \ {a} : /\ pc'[b] = pc[b] /\ back'[b] = back[b]
                                   /\ at'[b] = at[b] /\ wake'[b] = wake[b]
    BY <1>3 DEF Places, Lists
  <2>2. wake'[a] # <<>> BY <2>1
  <2>3. Placed(a)' BY <1>3, <1>5, <2>1, <2>2, CallPlaced
  <2> QED BY <1>3, <2>1, <2>3, ControlFrame
<1>7. StartedNotStranded'
  <2>1. \A t \in started : t # n => state'[t] = state[t]
    BY <1>2 DEF SpawnAndStart, NewTask, Tasks, Lists, Known
  <2> QED BY <1>3, <2>1, StartKeeps
<1> QED BY <1>1, <1>4, <1>5, <1>6, <1>7

(* Starting a task that was spawned before.                                 *)
LEMMA StartInv ==
    ASSUME ExecInv, NEW a \in Agents, NEW t \in Known, Start(a, t)
    PROVE  ExecInv'
<1> USE DEF ExecInv
<1>1. /\ pc' = [pc EXCEPT ![a] = "push"] /\ back' = [back EXCEPT ![a] = <<pc[a]>>]
      /\ wake' = [wake EXCEPT ![a] = <<t>>] /\ started' = started \cup {t}
      /\ CanCall(a)
      /\ UNCHANGED <<taskVars, waitVars, queueVars, callback, statVars, at, cur,
                     gave_up, ran_on>>
  BY DEF Start, Call, Goto
<1>2. Known' = Known BY <1>1 DEF Known, taskVars
<1>3. Tasks' BY <1>1, <1>2 DEF Tasks, taskVars
<1>4. Lists'
  <2>1. <<t>> \in Seq(Known) OBVIOUS
  <2> QED BY <1>1, <1>2, <2>1 DEF Lists, waitVars, queueVars
<1>5. Places'
  <2>1. <<pc[a]>> \in Seq(PCs) BY DEF Places
  <2> QED BY <1>1, <2>1 DEF Places, PCs, statVars
<1>6. Control'
  <2>1. /\ pc'[a] = "push" /\ back'[a] = <<pc[a]>> /\ wake'[a] = <<t>>
        /\ \A b \in Agents \ {a} : /\ pc'[b] = pc[b] /\ back'[b] = back[b]
                                   /\ at'[b] = at[b] /\ wake'[b] = wake[b]
    BY <1>1 DEF Places, Lists
  <2>2. wake'[a] # <<>> BY <2>1
  <2>3. Placed(a)' BY <1>1, <1>5, <2>1, <2>2, CallPlaced
  <2> QED BY <1>1, <2>1, <2>3, ControlFrame
<1>7. StartedNotStranded' BY <1>1, StartKeeps DEF taskVars
<1>8. Affine' BY <1>1, <1>2 DEF Affine, Home, Elements, taskVars, queueVars
<1> QED BY <1>3, <1>4, <1>5, <1>6, <1>7, <1>8

(* Pushing a task to its queue.                                             *)
LEMMA PushInv ==
    ASSUME ExecInv, NEW a \in Agents, Push(a)
    PROVE  ExecInv'
<1> USE DEF ExecInv
<1>1. Placed(a) /\ pc[a] = "push" /\ wake[a] # <<>> /\ wake[a] \in Seq(Known)
  BY DEF Push, Control, Placed, Lists
<1>2. PICK t \in Known : t = Head(wake[a]) BY <1>1, ElementsTail
<1>3. t \in Handles BY DEF Known
<1>4. /\ wake' = [wake EXCEPT ![a] = Tail(@)] /\ pc' = [pc EXCEPT ![a] = "wake"]
      /\ Enqueue(t)
      /\ UNCHANGED <<taskVars, waitVars, callback, statVars, back, at, cur, histVars>>
  BY <1>2 DEF Push, Goto
<1>5. Home(t) \in Workers \cup {0} BY <1>3, HomeType
<1>6. Known' = Known /\ \A s \in Handles : Home(s)' = Home(s)
  BY <1>4 DEF Known, Home, taskVars
<1>7. /\ injector \in Seq(Known) /\ local \in [Workers -> Seq(Known)]
      /\ wake \in [Agents -> Seq(Known)]
  BY DEF Lists
<1>8. /\ injector' \in Seq(Known) /\ local' \in [Workers -> Seq(Known)]
      /\ Elements(injector) \subseteq Elements(injector')
      /\ Elements(injector') \subseteq Elements(injector) \cup {t}
      /\ \A w \in Workers : /\ Elements(local[w]) \subseteq Elements(local'[w])
                            /\ Elements(local'[w]) \subseteq Elements(local[w]) \cup {t}
      /\ t \in Elements(injector') \/ \E w \in Workers : t \in Elements(local'[w])
      /\ Home(t) # 0 => injector' = injector
      /\ \A w \in Workers : Home(t) # w => local'[w] = local[w]
  <2>1. CASE Home(t) = 0
    <3>1. injector' = Append(injector, t) /\ local' = local BY <1>4, <2>1 DEF Enqueue
    <3>2. Elements(injector') = Elements(injector) \cup {t} BY <1>7, <3>1, ElementsAppend
    <3> QED BY <1>7, <2>1, <3>1, <3>2
  <2>2. CASE Home(t) # 0
    <3>1. /\ local' = [w \in Workers |-> IF w = Home(t) THEN Append(local[w], t)
                                                       ELSE local[w]]
          /\ injector' = injector
      BY <1>4, <2>2 DEF Enqueue
    <3>2. PICK v \in Workers : v = Home(t) BY <1>5, <2>2
    <3>3. /\ local'[v] = Append(local[v], t)
          /\ \A w \in Workers : w # v => local'[w] = local[w]
      BY <3>1, <3>2
    <3>4. Append(local[v], t) \in Seq(Known) BY <1>7
    <3>5. Elements(local'[v]) = Elements(local[v]) \cup {t}
      BY <1>7, <3>3, ElementsAppend
    <3>6. local' \in [Workers -> Seq(Known)] BY <1>7, <3>1, <3>3, <3>4
    <3>7. \A w \in Workers : /\ Elements(local[w]) \subseteq Elements(local'[w])
                             /\ Elements(local'[w]) \subseteq Elements(local[w]) \cup {t}
      BY <3>3, <3>5
    <3> QED BY <1>7, <2>2, <3>1, <3>2, <3>3, <3>5, <3>6, <3>7
  <2> QED BY <2>1, <2>2
<1>9. Tasks' BY <1>4, <1>6 DEF Tasks, taskVars
<1>10. Lists'
  <2>1. Tail(wake[a]) \in Seq(Known) BY <1>1, ElementsTail
  <2> QED BY <1>4, <1>6, <1>7, <1>8, <2>1 DEF Lists, waitVars, histVars
<1>11. Places' BY <1>4 DEF Places, PCs, histVars, statVars
<1>12. /\ pc'[a] = "wake" /\ wake'[a] = Tail(wake[a])
       /\ \A b \in Agents \ {a} : pc'[b] = pc[b] /\ wake'[b] = wake[b]
  BY <1>4, <1>7 DEF Places
<1>13. Control'
  <2>1. Placed(a)'
    BY <1>1, <1>4, <1>12 DEF Placed, Resumes, Returns, InTask, TaskPCs, CallPCs, PCs
  <2> QED BY <1>4, <1>12, <2>1, ControlFrame
<1>14. Affine'
  <2>1. \A s \in Elements(injector) : s \in Handles /\ Home(s) = 0
    BY <1>7, ElementsIn DEF Affine, Known
  <2>2. \A w \in Workers : \A s \in Elements(local[w]) : s \in Handles /\ Home(s) = w
    <3>1. \A w \in Workers : Elements(local[w]) \subseteq Known BY <1>7, ElementsIn
    <3> QED BY <3>1 DEF Affine, Known
  <2>3. \A s \in Elements(injector') : s \in Handles /\ Home(s) = 0
    <3>1. CASE Home(t) = 0 BY <1>3, <1>8, <2>1, <3>1
    <3>2. CASE Home(t) # 0 BY <1>8, <2>1, <3>2
    <3> QED BY <3>1, <3>2
  <2>4. ASSUME NEW w \in Workers, NEW s \in Elements(local'[w])
        PROVE  s \in Handles /\ Home(s) = w
    <3>1. CASE Home(t) = w BY <1>3, <1>8, <2>2, <2>4, <3>1
    <3>2. CASE Home(t) # w BY <1>8, <2>2, <2>4, <3>2
    <3> QED BY <3>1, <3>2
  <2>5. Elements(injector)' = Elements(injector')
        /\ \A w \in Workers : Elements(local[w])' = Elements(local'[w])
    BY DEF Elements
  <2>6. \A w \in Workers : cur'[w] # NoTask => cur'[w] \in Handles /\ Home(cur'[w]) \in {0, w}
    BY <1>4 DEF Affine, Lists, Known
  <2> QED BY <1>4, <1>6, <2>3, <2>4, <2>5, <2>6 DEF Affine, histVars
<1>15. StartedNotStranded'
  <2> SUFFICES ASSUME NEW s \in started, state[s] = "Pending" PROVE InFlight(s)'
    BY <1>4 DEF StartedNotStranded, taskVars, histVars
  <2>1. InFlight(s) BY DEF StartedNotStranded
  <2>2. Elements(injector)' = Elements(injector')
        /\ \A w \in Workers : Elements(local[w])' = Elements(local'[w])
    BY DEF Elements
  <2>3. CASE s = t BY <1>8, <2>2, <2>3 DEF InFlight
  <2>4. CASE s \in Elements(injector) \/ \E w \in Workers : s \in Elements(local[w])
    BY <1>8, <2>2, <2>4 DEF InFlight
  <2>5. ASSUME NEW w \in Workers, pc[w] = "claim", cur[w] = s PROVE InFlight(s)'
    <3>1. w # a /\ w \in Agents BY <1>1, <2>5 DEF Agents
    <3>2. pc'[w] = "claim" /\ cur'[w] = s BY <1>4, <1>12, <2>5, <3>1
    <3> QED BY <3>2 DEF InFlight
  <2>6. ASSUME NEW b \in Agents, pc[b] = "push", Head(wake[b]) = s, s # t PROVE InFlight(s)'
    <3>1. b # a BY <1>2, <2>6
    <3>2. pc'[b] = "push" /\ wake'[b] = wake[b] BY <1>12, <2>6, <3>1
    <3> QED BY <2>6, <3>2 DEF InFlight
  <2> QED BY <2>1, <2>3, <2>4, <2>5, <2>6 DEF InFlight
<1> QED BY <1>9, <1>10, <1>11, <1>13, <1>14, <1>15

(* A worker that takes a task it may run from a queue.                      *)
LEMMA TakeInv ==
    ASSUME ExecInv, NEW w \in Workers, pc[w] \in {"local", "steal"},
           NEW t \in Known, Home(t) \in {0, w},
           pc' = [pc EXCEPT ![w] = "claim"], cur' = [cur EXCEPT ![w] = t],
           injector' \in Seq(Known), local' \in [Workers -> Seq(Known)],
           Elements(injector') \subseteq Elements(injector),
           Elements(injector) \subseteq Elements(injector') \cup {t},
           \A v \in Workers : /\ Elements(local'[v]) \subseteq Elements(local[v])
                              /\ Elements(local[v]) \subseteq Elements(local'[v]) \cup {t},
           UNCHANGED <<taskVars, waitVars, callback, statVars, back, at, wake, histVars>>
    PROVE  ExecInv'
<1> USE DEF ExecInv, taskVars, waitVars, statVars, histVars
<1>1. w \in Agents /\ w \notin Clients BY NamesAssumption DEF Agents
<1>2. t \in Handles /\ t # NoTask BY NamesAssumption DEF Known
<1>3. Known' = Known BY DEF Known
<1>4. \A s \in Handles : Home(s)' = Home(s) BY DEF Home
<1>5. /\ pc'[w] = "claim" /\ cur'[w] = t
      /\ \A b \in Agents \ {w} : pc'[b] = pc[b]
      /\ \A v \in Workers \ {w} : cur'[v] = cur[v]
  BY <1>1 DEF Places, Lists
<1>6. Tasks' BY <1>3 DEF Tasks
<1>7. Lists' BY <1>3 DEF Lists
<1>8. Places' BY DEF Places, PCs
<1>9. Control'
  <2>1. Placed(w)' BY <1>1, <1>2, <1>5 DEF Placed, CallPCs, PCs
  <2> QED BY <1>1, <1>5, <2>1, ControlFrame DEF Lists
<1>10. Elements(injector)' = Elements(injector')
       /\ \A v \in Workers : Elements(local[v])' = Elements(local'[v])
  BY DEF Elements
<1>11. Affine'
  <2>1. \A s \in Elements(injector') : s \in Handles /\ Home(s) = 0
    BY ElementsIn DEF Affine, Known, Lists
  <2>2. \A v \in Workers : \A s \in Elements(local'[v]) : s \in Handles /\ Home(s) = v
    <3>1. \A v \in Workers : Elements(local'[v]) \subseteq Known BY ElementsIn
    <3> QED BY <3>1 DEF Affine, Known
  <2>3. \A v \in Workers : cur'[v] # NoTask => cur'[v] \in Handles /\ Home(cur'[v]) \in {0, v}
    BY <1>2, <1>5 DEF Affine, Lists, Known
  <2> QED BY <1>3, <1>4, <1>10, <2>1, <2>2, <2>3 DEF Affine
<1>12. StartedNotStranded'
  <2> SUFFICES ASSUME NEW s \in started, state[s] = "Pending" PROVE InFlight(s)'
    BY DEF StartedNotStranded
  <2>1. InFlight(s) BY DEF StartedNotStranded
  <2>2. CASE s = t BY <1>5, <2>2 DEF InFlight
  <2>3. CASE s # t /\ (s \in Elements(injector) \/ \E v \in Workers : s \in Elements(local[v]))
    BY <1>10, <2>3 DEF InFlight
  <2>4. ASSUME NEW v \in Workers, pc[v] = "claim", cur[v] = s PROVE InFlight(s)'
    <3>1. v # w /\ v \in Agents BY <2>4 DEF Agents
    <3>2. pc'[v] = "claim" /\ cur'[v] = s BY <1>5, <2>4, <3>1
    <3> QED BY <3>2 DEF InFlight
  <2>5. ASSUME NEW b \in Agents, pc[b] = "push", Head(wake[b]) = s PROVE InFlight(s)'
    <3>1. b # w BY <2>5
    <3>2. pc'[b] = "push" BY <1>5, <2>5, <3>1
    <3> QED BY <2>5, <3>2 DEF InFlight
  <2> QED BY <2>1, <2>2, <2>3, <2>4, <2>5 DEF InFlight
<1> QED BY <1>6, <1>7, <1>8, <1>9, <1>11, <1>12

(* A worker that finds its queue, or the injector, empty goes on.           *)
LEMMA FoundNoneInv ==
    ASSUME ExecInv, NEW w \in Workers, pc[w] \in {"local", "steal"},
           NEW p \in {"steal", "quiet", "parked"}, pc' = [pc EXCEPT ![w] = p],
           UNCHANGED <<taskVars, waitVars, queueVars, callback, statVars, back, at,
                       wake, cur, histVars>>
    PROVE  ExecInv'
<1> USE DEF ExecInv, taskVars, waitVars, queueVars, statVars, histVars
<1>1. w \in Agents /\ w \notin Clients BY NamesAssumption DEF Agents
<1>2. Known' = Known BY DEF Known
<1>3. Tasks' BY <1>2 DEF Tasks
<1>4. Lists' BY <1>2 DEF Lists
<1>5. Places' BY DEF Places, PCs
<1>6. pc'[w] = p /\ \A b \in Agents \ {w} : pc'[b] = pc[b] BY <1>1 DEF Places
<1>7. Placed(w)' BY <1>1, <1>6 DEF Placed, InTask, TaskPCs, CallPCs, PCs
<1> QED BY <1>1, <1>3, <1>4, <1>5, <1>6, <1>7, QuietStep

(* Taking the next task: from the worker's own queue, then the injector.    *)
LEMMA StealInv ==
    ASSUME ExecInv, NEW w \in Workers, PopLocal(w) \/ Steal(w)
    PROVE  ExecInv'
<1> USE DEF ExecInv, Goto
<1>1. injector \in Seq(Known) /\ local \in [Workers -> Seq(Known)] BY DEF Lists
<1>2. ASSUME PopLocal(w), local[w] # <<>> PROVE ExecInv'
  <2>1. /\ Head(local[w]) \in Known /\ Tail(local[w]) \in Seq(Known)
        /\ Head(local[w]) \in Elements(local[w])
        /\ Elements(Tail(local[w])) \subseteq Elements(local[w])
        /\ Elements(local[w]) \subseteq Elements(Tail(local[w])) \cup {Head(local[w])}
    BY <1>1, <1>2, ElementsTail
  <2>2. PICK t \in Known : t = Head(local[w]) BY <2>1
  <2>3. Home(t) = w BY <2>1, <2>2 DEF Affine
  <2>4. /\ pc[w] = "local" /\ pc' = [pc EXCEPT ![w] = "claim"]
        /\ cur' = [cur EXCEPT ![w] = t] /\ local' = [local EXCEPT ![w] = Tail(@)]
        /\ injector' = injector
        /\ UNCHANGED <<taskVars, waitVars, callback, statVars, back, at, wake, histVars>>
    BY <1>2, <2>2 DEF PopLocal
  <2>5. local' \in [Workers -> Seq(Known)] BY <1>1, <2>1, <2>4
  <2>6. \A v \in Workers : /\ Elements(local'[v]) \subseteq Elements(local[v])
                           /\ Elements(local[v]) \subseteq Elements(local'[v]) \cup {t}
    BY <1>1, <2>1, <2>2, <2>4
  <2>7. Elements(injector') = Elements(injector) BY <2>4
  <2> QED BY <1>1, <2>3, <2>4, <2>5, <2>6, <2>7, TakeInv
<1>3. ASSUME Steal(w), injector # <<>> PROVE ExecInv'
  <2>1. /\ Head(injector) \in Known /\ Tail(injector) \in Seq(Known)
        /\ Head(injector) \in Elements(injector)
        /\ Elements(Tail(injector)) \subseteq Elements(injector)
        /\ Elements(injector) \subseteq Elements(Tail(injector)) \cup {Head(injector)}
    BY <1>1, <1>3, ElementsTail
  <2>2. PICK t \in Known : t = Head(injector) BY <2>1
  <2>3. Home(t) = 0 BY <2>1, <2>2 DEF Affine
  <2>4. /\ pc[w] = "steal" /\ pc' = [pc EXCEPT ![w] = "claim"]
        /\ cur' = [cur EXCEPT ![w] = t] /\ local' = local
        /\ injector' = Tail(injector)
        /\ UNCHANGED <<taskVars, waitVars, callback, statVars, back, at, wake, histVars>>
    BY <1>3, <2>2 DEF Steal
  <2>5. \A v \in Workers : Elements(local'[v]) = Elements(local[v]) BY <2>4
  <2>6. /\ Elements(injector') \subseteq Elements(injector)
        /\ Elements(injector) \subseteq Elements(injector') \cup {t}
        /\ injector' \in Seq(Known) /\ local' \in [Workers -> Seq(Known)]
    BY <1>1, <2>1, <2>2, <2>4
  <2> QED BY <2>3, <2>4, <2>5, <2>6, TakeInv
<1>4. ASSUME PopLocal(w), local[w] = <<>> PROVE ExecInv'
  <2>1. /\ pc[w] = "local" /\ pc' = [pc EXCEPT ![w] = "steal"]
        /\ UNCHANGED <<taskVars, waitVars, queueVars, callback, statVars, back, at,
                       wake, cur, histVars>>
    BY <1>4 DEF PopLocal, queueVars
  <2> QED BY <2>1, FoundNoneInv
<1>5. ASSUME Steal(w), injector = <<>> PROVE ExecInv'
  <2>1. PICK p \in {"quiet", "parked"} : pc' = [pc EXCEPT ![w] = p]
    BY <1>5 DEF Steal
  <2>2. /\ pc[w] = "steal"
        /\ UNCHANGED <<taskVars, waitVars, queueVars, callback, statVars, back, at,
                       wake, cur, histVars>>
    BY <1>5 DEF Steal, queueVars
  <2> QED BY <2>1, <2>2, FoundNoneInv
<1> QED BY <1>2, <1>3, <1>4, <1>5

(* Claiming the task, which runs on a worker that is its home.              *)
LEMMA ClaimInv ==
    ASSUME ExecInv, NEW w \in Workers, Claim(w)
    PROVE  ExecInv'
<1> USE DEF ExecInv, Goto, waitVars, queueVars, statVars
<1>1. w \in Agents /\ w \notin Clients /\ Placed(w)
  BY NamesAssumption DEF Agents, Control
<1>2. pc[w] = "claim" /\ cur[w] # NoTask
  BY <1>1 DEF Claim, Placed, InTask, TaskPCs
<1>3. PICK t \in Known : t = cur[w] BY <1>2 DEF Lists
<1>4. t \in Handles BY DEF Known
<1>5. PICK p \in {"lock", "timers", "loop"} :
         /\ pc' = [pc EXCEPT ![w] = p]
         /\ p = "lock" => cur' = cur
         /\ p # "lock" => cur' = [cur EXCEPT ![w] = NoTask]
  BY DEF Claim, Again
<1>6. /\ state' = state \/ state' = [state EXCEPT ![t] = "Running"]
      /\ ran_on' = ran_on \/ ran_on' = [ran_on EXCEPT ![t] = @ \cup {w}]
      /\ state[t] = "Pending" => state' = [state EXCEPT ![t] = "Running"]
      /\ state[t] # "Pending" => state' = state
      /\ UNCHANGED <<next_handle, reason, markers, parent, waitVars, queueVars,
                     callback, statVars, back, at, wake, started, gave_up>>
  BY <1>3 DEF Claim
<1>7. Known' = Known BY <1>6 DEF Known
<1>8. /\ pc'[w] = p /\ \A b \in Agents \ {w} : pc'[b] = pc[b]
      /\ \A v \in Workers : cur'[v] = cur[v] \/ (v = w /\ cur'[v] = NoTask)
  BY <1>1, <1>5 DEF Places, Lists
<1>9. /\ state'[t] # "Pending"
      /\ \A s \in Handles \ {t} : state'[s] = state[s]
  BY <1>4, <1>6 DEF Tasks
<1>10. Tasks'
  <2>1. state' \in [Handles -> {"None", "Pending", "Running", "Blocked"} \cup Final]
    BY <1>6 DEF Tasks
  <2>2. \A s \in Handles : state'[s] = "Blocked" <=> reason'[s] # NoKey
    <3>1. CASE state[t] = "Pending"
      <4>1. state'[t] = "Running" BY <1>4, <1>6, <3>1 DEF Tasks
      <4> QED BY <1>4, <1>6, <1>9, <3>1, <4>1 DEF Tasks
    <3>2. CASE state[t] # "Pending" BY <1>6, <3>2 DEF Tasks
    <3> QED BY <3>1, <3>2
  <2>3. \A s \in Handles \ Known : state'[s] = "None" BY <1>3, <1>9 DEF Tasks
  <2> QED BY <1>6, <1>7, <2>1, <2>2, <2>3 DEF Tasks
<1>11. Lists' BY <1>5, <1>6, <1>7 DEF Lists
<1>12. Places' BY <1>5, <1>6 DEF Places, PCs
<1>13. Control'
  <2>1. Placed(w)'
    <3>1. InTask(w)' => cur'[w] # NoTask
      BY <1>2, <1>5, <1>8 DEF InTask, TaskPCs, CallPCs
    <3> QED BY <1>1, <1>8, <3>1 DEF Placed, CallPCs, PCs
  <2> QED BY <1>1, <1>6, <1>8, <2>1, ControlFrame
<1>14. Affine'
  <2>1. \A s \in Handles : Home(s)' = Home(s) BY <1>6 DEF Home
  <2>2. /\ ran_on' \in [Handles -> SUBSET Workers]
        /\ \A s \in Handles \ {t} : ran_on'[s] = ran_on[s]
        /\ ran_on'[t] \subseteq ran_on[t] \cup {w}
    BY <1>4, <1>6 DEF Affine
  <2>3. Home(t) \in {0, w} BY <1>2, <1>3 DEF Affine
  <2>4. \A s \in Handles : Home(s) # 0 => ran_on'[s] \subseteq {Home(s)}
    <3>1. ASSUME Home(t) # 0 PROVE ran_on'[t] \subseteq {Home(t)}
      <4>1. ran_on[t] \subseteq {Home(t)} /\ Home(t) = w BY <1>4, <2>3, <3>1 DEF Affine
      <4> QED BY <2>2, <4>1
    <3>2. ASSUME NEW s \in Handles \ {t}, Home(s) # 0 PROVE ran_on'[s] \subseteq {Home(s)}
      BY <2>2, <3>2 DEF Affine
    <3> QED BY <3>1, <3>2
  <2>5. \A s \in Handles \ Known : ran_on'[s] = {} BY <1>3, <2>2 DEF Affine
  <2>6. \A v \in Workers : cur'[v] # NoTask => cur'[v] \in Handles /\ Home(cur'[v]) \in {0, v}
    BY <1>8 DEF Affine, Lists, Known
  <2>7. /\ \A s \in Elements(injector) : s \in Handles /\ Home(s) = 0
        /\ \A v \in Workers : \A s \in Elements(local[v]) : s \in Handles /\ Home(s) = v
    <3>1. injector \in Seq(Known) /\ \A v \in Workers : local[v] \in Seq(Known)
      BY DEF Lists
    <3>2. /\ Elements(injector) \subseteq Known
          /\ \A v \in Workers : Elements(local[v]) \subseteq Known
      BY <3>1, ElementsIn
    <3> QED BY <3>2 DEF Affine, Known
  <2>8. Elements(injector)' = Elements(injector)
        /\ \A v \in Workers : Elements(local[v])' = Elements(local[v])
    BY <1>6 DEF Elements
  <2> QED BY <1>7, <2>1, <2>2, <2>4, <2>5, <2>6, <2>7, <2>8 DEF Affine
<1>15. StartedNotStranded'
  <2> SUFFICES ASSUME NEW s \in started, state'[s] = "Pending" PROVE InFlight(s)'
    BY <1>6 DEF StartedNotStranded
  <2>1. s # t /\ s \in Handles /\ state[s] = "Pending"
    BY <1>9 DEF Lists, Known
  <2>2. InFlight(s) BY <2>1 DEF StartedNotStranded
  <2>3. CASE s \in Elements(injector) \/ \E v \in Workers : s \in Elements(local[v])
    BY <1>6, <2>3 DEF InFlight, Elements
  <2>4. ASSUME NEW v \in Workers, pc[v] = "claim", cur[v] = s PROVE InFlight(s)'
    <3>1. v # w /\ v \in Agents BY <1>3, <2>1, <2>4 DEF Agents
    <3>2. pc'[v] = "claim" /\ cur'[v] = s BY <1>8, <2>4, <3>1
    <3> QED BY <3>2 DEF InFlight
  <2>5. ASSUME NEW b \in Agents, pc[b] = "push", Head(wake[b]) = s PROVE InFlight(s)'
    <3>1. b # w BY <1>2, <2>5
    <3>2. pc'[b] = "push" /\ wake' = wake BY <1>6, <1>8, <2>5, <3>1
    <3> QED BY <2>5, <3>2 DEF InFlight
  <2> QED BY <2>2, <2>3, <2>4, <2>5 DEF InFlight
<1> QED BY <1>10, <1>11, <1>12, <1>13, <1>14, <1>15

-----------------------------------------------------------------------------
(* The first state satisfies the invariant.                                 *)
LEMMA InitExecInv == Init => ExecInv
<1> SUFFICES ASSUME Init PROVE ExecInv OBVIOUS
<1> USE DEF Init
<1>1. next_handle = 1 /\ Known = {} BY DEF Known, Handles
<1>2. Tasks
  BY <1>1, BoundsAssumption DEF Tasks
<1>3. Lists
  <2>1. <<>> \in Seq(Known) OBVIOUS
  <2> QED BY <1>1, <2>1 DEF Lists
<1>4. Places
  <2>1. pc \in [Agents -> PCs] BY DEF PCs
  <2>2. back \in [Agents -> Seq(PCs)]
    <3>1. <<>> \in Seq(PCs) OBVIOUS
    <3> QED BY <3>1
  <2> QED BY <2>1, <2>2 DEF Places
<1>5. Control BY NamesAssumption DEF Control, Placed, InTask, TaskPCs, CallPCs, PCs, Agents
<1>6. Affine
  <2>1. Elements(injector) = {} /\ \A w \in Workers : Elements(local[w]) = {}
    BY DEF Elements
  <2>2. \A t \in Handles : ran_on[t] = {} OBVIOUS
  <2> QED BY <2>1, <2>2 DEF Affine
<1>7. StartedNotStranded BY DEF StartedNotStranded
<1> QED BY <1>2, <1>3, <1>4, <1>5, <1>6, <1>7 DEF ExecInv

(* Every step preserves it: one case for each operation.                    *)
LEMMA NextExecInv == ExecInv /\ [Next]_vars => ExecInv'
<1> SUFFICES ASSUME ExecInv, [Next]_vars PROVE ExecInv' OBVIOUS
<1>1. ASSUME NEW a \in Agents, ApiCall(a) PROVE ExecInv'
  <2>1. ASSUME NEW m \in Markers, Spawn(a, m) PROVE ExecInv' BY <2>1, SpawnInv
  <2>2. ASSUME NEW m \in Markers, SpawnAndStart(a, m) PROVE ExecInv'
    BY <2>2, SpawnAndStartInv
  <2>3. ASSUME NEW t \in Known, Start(a, t) PROVE ExecInv' BY <2>3, StartInv
  <2>4. ASSUME NEW t \in Known, Complete(a, t) \/ Cancel(a, t) \/ Panic(a, t) PROVE ExecInv'
    BY <2>4, FinishCallsInv
  <2>5. ASSUME \/ \E k \in RecvKeys \cup SendKeys : WakeChannelWaiter(a, k)
               \/ \E c \in Chans : WakeAllChannelWaiters(a, c)
               \/ \E k \in NetKeys : WakeNetOpWaiters(a, k)
        PROVE  ExecInv'
    BY <2>5, WakeCallsInv
  <2>6. ASSUME Shutdown(a) PROVE ExecInv' BY <2>6, ShutdownInv
  <2> QED BY <1>1, <2>1, <2>2, <2>3, <2>4, <2>5, <2>6 DEF ApiCall
<1>2. ASSUME NEW a \in Agents, CallStep(a) PROVE ExecInv'
  <2>1. ASSUME WakeAllSenders(a) \/ TakeWaiters(a) PROVE ExecInv' BY <2>1, WakeCallsInv
  <2> QED BY <1>2, <2>1, WakeTaskInv, PushInv, CountInv DEF CallStep
<1>3. ASSUME NEW w \in Workers, WorkerStep(w) PROVE ExecInv'
  <2>1. ASSUME \/ WorkerStart(w) \/ LoopTop(w) \/ Run(w) \/ Unpark(w) \/ Quiet(w)
               \/ EnterBody(w) \/ LeaveBody(w) \/ AfterBody(w)
        PROVE  ExecInv'
    BY <2>1, MoveInv
  <2>2. ASSUME NEW k \in Keys \cup {Timer}, Block(w, k) PROVE ExecInv' BY <2>2, BlockInv
  <2>3. ASSUME PopLocal(w) \/ Steal(w) PROVE ExecInv' BY <2>3, StealInv
  <2> QED
    BY <1>3, <2>1, <2>2, <2>3, PollTimersInv, ClaimInv, CompleteExecutedInv, RegisterInv
    DEF WorkerStep
<1>4. ASSUME UNCHANGED vars PROVE ExecInv'
  <2> USE <1>4 DEF vars, taskVars, waitVars, queueVars, statVars, threadVars, histVars
  <2>1. Known' = Known BY DEF Known
  <2>2. Tasks' /\ Lists' /\ Places' BY <2>1 DEF ExecInv, Tasks, Lists, Places
  <2>3. Control' BY DEF ExecInv, Control, Placed, InTask, Resumes, Returns
  <2>4. Affine' BY <2>1 DEF ExecInv, Affine, Home, Elements
  <2>5. StartedNotStranded' BY DEF ExecInv, StartedNotStranded, InFlight, Elements
  <2> QED BY <2>2, <2>3, <2>4, <2>5 DEF ExecInv
<1> QED BY <1>1, <1>2, <1>3, <1>4 DEF Next

(* The programs whose tasks that are not sendable name their origin: a task *)
(* spawned with origin 0 is pushed to the injector, for any worker.         *)
OriginsGiven == \A m \in Markers : ~m.sendable => m.origin > 0

(* The inductive invariant gives the property of the queues.                *)
LEMMA InvQueuesSafe == ExecInv /\ OriginsGiven => QueuesSafe
<1> SUFFICES ASSUME ExecInv, OriginsGiven PROVE NonSendableStays
  BY DEF ExecInv, QueuesSafe
<1> SUFFICES ASSUME NEW t \in Handles, ~markers[t].sendable
             PROVE  Cardinality(ran_on[t]) <= 1
  BY DEF NonSendableStays
<1>1. markers[t] \in Markers
  BY DEF ExecInv, Tasks, NoMarkers
<1>2. markers[t].origin > 0 BY <1>1 DEF OriginsGiven
<1>3. Home(t) # 0
  <2>1. PICK o \in Nat, n \in Nat \ {0} : o = markers[t].origin - 1 /\ n = NumWorkers
    BY <1>1, <1>2, BoundsAssumption, MarkersAssumption
  <2>2. o % n \in 0 .. n - 1 OBVIOUS
  <2>3. Home(t) = (o % n) + 1 BY <1>2, <2>1 DEF Home
  <2> QED BY <2>2, <2>3
<1>4. ran_on[t] \subseteq {Home(t)} BY <1>3 DEF ExecInv, Affine
<1>5. IsFiniteSet({Home(t)}) /\ Cardinality({Home(t)}) = 1 BY FS_Singleton
<1>6. Cardinality(ran_on[t]) <= Cardinality({Home(t)}) BY <1>4, <1>5, FS_Subset
<1> QED BY <1>5, <1>6

(* For any number of workers, calling threads and tasks: no started task is *)
(* stranded by a push, a steal, a claim or a wake, and a task that is not   *)
(* sendable runs on one thread (start, wake_task, try_steal_task,           *)
(* execute_task).                                                           *)
THEOREM ExecutorQueuesSafe == Spec => [](OriginsGiven => QueuesSafe)
<1>1. ExecInv => (OriginsGiven => QueuesSafe) BY InvQueuesSafe
<1> QED BY InitExecInv, NextExecInv, <1>1, PTL DEF Spec

(* The first half needs nothing of the origins.                             *)
THEOREM ExecutorNotStranded == Spec => []StartedNotStranded
<1>1. ExecInv => StartedNotStranded BY DEF ExecInv
<1> QED BY InitExecInv, NextExecInv, <1>1, PTL DEF Spec

-----------------------------------------------------------------------------
(* The executor on one thread has one worker, and no other thread.          *)
LEMMA OneWorker ==
    ASSUME OneThread
    PROVE  /\ Agents = Workers /\ Again = "timers"
           /\ \A v, w \in Workers : v = w
<1>1. NumWorkers = 1 BY ModeAssumption DEF OneThread
<1>2. Workers = {1} BY <1>1 DEF Workers
<1> QED BY <1>2 DEF OneThread, Agents, Again

(* What the invariants say of the state of one worker.                      *)
LEMMA SingleFacts ==
    ASSUME ExecInv, SingleInv, OneThread, NEW w \in Workers
    PROVE  /\ w \in Agents /\ Placed(w) /\ Suspends(w) /\ Waiting(w)
           /\ pc[w] \in PCs /\ back[w] \in Seq(PCs) /\ wake[w] \in Seq(Known)
           /\ wake[w] \in Seq(Handles)
           /\ \A t \in Handles : state[t] = "Blocked" <=> reason[t] # NoKey
           /\ NoKey \notin TaskKeys
           /\ InTask(w) => cur[w] \in Known /\ cur[w] \in Handles
<1>1. w \in Agents BY DEF Agents
<1>2. Placed(w) /\ Suspends(w) /\ Waiting(w)
  BY <1>1 DEF ExecInv, Control, SingleInv
<1>3. Known \subseteq Handles BY DEF Known
<1>4. wake[w] \in Seq(Known) BY <1>1 DEF ExecInv, Lists
<1>5. wake[w] \in Seq(Handles) BY <1>3, <1>4, SeqMono
<1>6. NoKey \notin TaskKeys BY NamesAssumption DEF Keys
<1>7. InTask(w) => cur[w] \in Known BY <1>2 DEF ExecInv, Placed, Lists
<1> QED BY <1>1, <1>2, <1>3, <1>4, <1>5, <1>6, <1>7 DEF ExecInv, Tasks, Places

(* A step that changes no list of awaiting tasks, blocks no task, drops     *)
(* none that is still Blocked and finishes at most the one whose waiters    *)
(* the thread turns to.                                                     *)
LEMMA KeepWaiting ==
    ASSUME NEW w \in Workers, Waiting(w), pc[w] \notin {"register", "take"},
           NoKey \notin TaskKeys,
           \A k \in TaskKeys : waiters'[k] = waiters[k],
           \A t \in Handles : reason'[t] \in {reason[t], NoKey},
           \A t \in Handles : reason'[t] # NoKey /\ t \in Elements(wake[w])
                                 => t \in Elements(wake'[w]),
           \A t \in Handles : state'[t] \in Final =>
                                 \/ state[t] \in Final
                                 \/ pc'[w] = "take" /\ at'[w] = <<"task", t>>
    PROVE  Waiting(w)'
<1> SUFFICES ASSUME NEW t \in Handles PROVE Awaits(w, t)' /\ Drained(w, t)'
  BY DEF Waiting
<1>1. Awaits(w, t) /\ Drained(w, t) BY DEF Waiting
<1>2. Awaits(w, t)'
  <2> SUFFICES ASSUME reason'[t] \in TaskKeys
               PROVE  \/ t \in Elements(waiters'[reason'[t]])
                      \/ t \in Elements(wake'[w])
    BY DEF Awaits, Elements
  <2>1. reason'[t] = reason[t] OBVIOUS
  <2>2. waiters'[reason'[t]] = waiters[reason[t]] BY <2>1
  <2> QED BY <1>1, <2>1, <2>2 DEF Awaits
<1>3. Drained(w, t)'
  <2>1. <<"task", t>> \in TaskKeys BY DEF TaskKeys
  <2>2. waiters'[<<"task", t>>] = waiters[<<"task", t>>] BY <2>1
  <2> QED BY <1>1, <2>2 DEF Drained
<1> QED BY <1>2, <1>3

(* The steps of the one worker that leave the tables of tasks alone.        *)
LEMMA SingleMoves ==
    ASSUME ExecInv, SingleInv, OneThread, NEW w \in Workers,
           \/ WorkerStart(w) \/ LoopTop(w) \/ Run(w) \/ Unpark(w) \/ Quiet(w)
           \/ EnterBody(w) \/ LeaveBody(w) \/ AfterBody(w) \/ PopLocal(w) \/ Steal(w)
           \/ Shutdown(w)
    PROVE  active_workers' = 0 /\ Suspends(w)' /\ Waiting(w)'
<1> USE DEF Goto, taskVars, waitVars, statVars, threadVars, histVars
<1>1. /\ w \in Agents /\ Placed(w) /\ Suspends(w) /\ Waiting(w)
      /\ NoKey \notin TaskKeys
  BY SingleFacts
<1>2. /\ pc \in [Agents -> PCs] /\ cur \in [Workers -> Known \cup {NoTask}]
      /\ gave_up \in [Workers -> BOOLEAN] /\ active_workers = 0
  BY DEF ExecInv, Places, Lists, SingleInv
<1>3. ~(WorkerStart(w) \/ LoopTop(w) \/ Unpark(w))
  BY <1>1 DEF Suspends, WorkerStart, LoopTop, Unpark
<1>4. UNCHANGED <<state, reason, waiters, wake, back, at, active_workers>>
  BY <1>3 DEF Run, Quiet, EnterBody, LeaveBody, AfterBody, PopLocal, Steal, Shutdown,
              Release
<1>5. pc[w] \notin {"register", "take"}
  BY <1>3 DEF Run, Quiet, EnterBody, LeaveBody, AfterBody, PopLocal, Steal, Shutdown,
              CanCall
<1>6. Waiting(w)' BY <1>1, <1>4, <1>5, KeepWaiting
<1>7. Suspends(w)'
  <2>1. ASSUME Shutdown(w) PROVE Suspends(w)'
    BY <1>1, <2>1 DEF Suspends, Shutdown, Resumes
  <2>2. ASSUME Run(w) \/ Quiet(w) \/ EnterBody(w) \/ LeaveBody(w) \/ AfterBody(w)
               \/ PopLocal(w) \/ Steal(w)
        PROVE  Suspends(w)'
    <3>1. SingleThreaded BY DEF OneThread
    <3>2. /\ pc[w] \notin {"push", "wake", "wakesenders"}
          /\ wake[w] = <<>>
      BY <1>1, <2>2 DEF Run, Quiet, EnterBody, LeaveBody, AfterBody, PopLocal, Steal,
                        Suspends
    <3>3. PICK p \in {"timers", "out", "body", "after", "finish", "claim", "steal", "quiet"} :
             /\ pc'[w] = p
             /\ p = "body" => pc[w] = "lock" /\ cur' = cur /\ ~gave_up'[w]
             /\ p = "after" => pc[w] \in {"body", "leave"} /\ cur' = cur /\ gave_up' = gave_up
             /\ p = "finish" => /\ pc[w] = "after" /\ cur' = cur /\ gave_up' = gave_up
                                /\ state[cur[w]] # "Blocked"
             /\ p \in {"timers", "out", "claim", "steal", "quiet"} =>
                   \/ ~gave_up'[w]
                   \/ gave_up' = gave_up /\ pc[w] \in {"out", "quiet", "local", "steal"}
      BY <1>1, <1>2, <2>2, <3>1 DEF Run, Quiet, EnterBody, LeaveBody, AfterBody, PopLocal,
                                    Steal, Release, Again
    <3>4. p \notin CallPCs /\ p \notin {"start", "loop", "parked", "exited", "lock", "register"}
      BY DEF CallPCs
    <3>5. gave_up'[w] => pc'[w] \in {"register", "leave", "after"} /\ state'[cur'[w]] = "Blocked"
      BY <1>1, <1>4, <3>3 DEF Suspends
    <3>6. p = "body" => state'[cur'[w]] = "Running" BY <1>1, <1>4, <3>3 DEF Suspends
    <3> QED BY <1>4, <3>2, <3>3, <3>4, <3>5, <3>6 DEF Suspends, CallPCs
  <2> QED BY <1>3, <2>1, <2>2
<1> QED BY <1>2, <1>4, <1>6, <1>7

(* Claiming a task.                                                         *)
LEMMA SingleClaim ==
    ASSUME ExecInv, SingleInv, OneThread, NEW w \in Workers, Claim(w)
    PROVE  active_workers' = 0 /\ Suspends(w)' /\ Waiting(w)'
<1> USE DEF Goto, waitVars, statVars
<1>1. /\ w \in Agents /\ Placed(w) /\ Suspends(w) /\ Waiting(w)
      /\ NoKey \notin TaskKeys /\ (InTask(w) => cur[w] \in Handles)
  BY SingleFacts
<1>2. /\ pc \in [Agents -> PCs] /\ active_workers = 0
      /\ state \in [Handles -> {"None", "Pending", "Running", "Blocked"} \cup Final]
  BY DEF ExecInv, Places, Tasks, SingleInv
<1>3. pc[w] = "claim" /\ cur[w] \in Handles BY <1>1 DEF Claim, InTask, TaskPCs
<1>4. UNCHANGED <<reason, waiters, wake, back, at, active_workers, gave_up>> BY DEF Claim
<1>5. \A t \in Handles : state'[t] \in Final => state[t] \in Final
  BY <1>2, <1>3 DEF Claim, Final
<1>6. Waiting(w)' BY <1>1, <1>3, <1>4, <1>5, KeepWaiting
<1>7. \/ pc'[w] = "lock" /\ cur' = cur /\ state'[cur[w]] = "Running"
      \/ pc'[w] = "timers"
  BY <1>1, <1>2, <1>3, OneWorker DEF Claim
<1>8. wake[w] = <<>> /\ ~gave_up[w] BY <1>1, <1>3 DEF Suspends
<1> QED BY <1>2, <1>4, <1>6, <1>7, <1>8 DEF Suspends, CallPCs

(* Blocking the task whose body runs.                                       *)
LEMMA SingleBlock ==
    ASSUME ExecInv, SingleInv, OneThread, NEW w \in Workers,
           NEW k \in Keys \cup {Timer}, Block(w, k)
    PROVE  active_workers' = 0 /\ Suspends(w)' /\ Waiting(w)'
<1> USE DEF Goto, waitVars, statVars
<1>1. /\ w \in Agents /\ Placed(w) /\ Suspends(w) /\ Waiting(w)
      /\ NoKey \notin TaskKeys /\ (InTask(w) => cur[w] \in Handles)
  BY SingleFacts
<1>2. pc[w] = "body" /\ cur[w] \in Handles BY <1>1 DEF Block, InTask, TaskPCs
<1>3. PICK t \in Handles : t = cur[w] BY <1>2
<1>4. /\ pc'[w] = "register" /\ at'[w] = k /\ gave_up'[w] /\ cur'[w] = t
      /\ state'[t] = "Blocked" /\ reason'[t] = k
      /\ \A u \in Handles \ {t} : state'[u] = state[u] /\ reason'[u] = reason[u]
      /\ UNCHANGED <<waiters, wake, active_workers>>
  BY <1>1, <1>2, <1>3 DEF Block, ExecInv, Places, Tasks
<1>5. active_workers' = 0 BY <1>4 DEF SingleInv
<1>6. Suspends(w)'
  <2>1. k \in TaskKeys => state'[k[2]] \notin Final
    <3> SUFFICES ASSUME k \in TaskKeys PROVE state'[k[2]] \notin Final OBVIOUS
    <3>1. PICK u \in Handles : k = <<"task", u>> BY DEF TaskKeys
    <3>2. k[2] = u BY <3>1
    <3>3. k \notin RecvKeys /\ k \notin SendKeys /\ k \notin NetKeys /\ k # Timer
      BY <3>1 DEF RecvKeys, SendKeys, NetKeys, Timer
    <3>4. state[u] \notin Final BY <3>2, <3>3 DEF Block, CanAwait
    <3>5. "Blocked" \notin Final BY DEF Final
    <3> QED BY <1>4, <3>2, <3>4, <3>5
  <2>2. wake'[w] = <<>> BY <1>1, <1>2, <1>4 DEF Suspends
  <2> QED BY <1>4, <2>1, <2>2 DEF Suspends, CallPCs
<1>7. Waiting(w)'
  <2> SUFFICES ASSUME NEW u \in Handles PROVE Awaits(w, u)' /\ Drained(w, u)'
    BY DEF Waiting
  <2>1. Awaits(w, u) /\ Drained(w, u) BY <1>1 DEF Waiting
  <2>2. CASE u = t BY <1>4, <2>2 DEF Awaits, Drained, Final
  <2>3. CASE u # t
    <3>1. reason'[u] = reason[u] /\ state'[u] = state[u] BY <1>4, <2>3
    <3>2. Awaits(w, u)' BY <1>2, <1>4, <2>1, <3>1 DEF Awaits, Elements
    <3>3. Drained(w, u)' BY <1>2, <1>4, <2>1, <3>1 DEF Drained
    <3> QED BY <3>2, <3>3
  <2> QED BY <2>2, <2>3
<1> QED BY <1>5, <1>6, <1>7

(* A blocked task enters a list that is not yet taken.                      *)
LEMMA SingleRegister ==
    ASSUME ExecInv, SingleInv, OneThread, NEW w \in Workers, Register(w)
    PROVE  active_workers' = 0 /\ Suspends(w)' /\ Waiting(w)'
<1> USE DEF Goto, taskVars, statVars, histVars
<1>1. /\ w \in Agents /\ Placed(w) /\ Suspends(w) /\ Waiting(w)
      /\ NoKey \notin TaskKeys /\ (InTask(w) => cur[w] \in Known /\ cur[w] \in Handles)
  BY SingleFacts
<1>2. pc[w] = "register" /\ cur[w] \in Handles /\ cur[w] \in Known
  BY <1>1 DEF Register, InTask, TaskPCs
<1>3. /\ pc'[w] = "leave" /\ UNCHANGED <<state, reason, wake, cur, gave_up, active_workers>>
  BY <1>1 DEF Register, ExecInv, Places
<1>4. active_workers' = 0 BY <1>3 DEF SingleInv
<1>5. Suspends(w)' BY <1>1, <1>2, <1>3 DEF Suspends, CallPCs
<1>6. Waiting(w)'
  <2> SUFFICES ASSUME NEW u \in Handles PROVE Awaits(w, u)' /\ Drained(w, u)'
    BY DEF Waiting
  <2>1. Awaits(w, u) /\ Drained(w, u) BY <1>1 DEF Waiting
  <2>2. waiters \in [Keys -> Seq(Known)] /\ TaskKeys \subseteq Keys
    BY DEF ExecInv, Lists, Keys
  <2>3. at[w] \in TaskKeys =>
           /\ waiters'[at[w]] = Append(waiters[at[w]], cur[w])
           /\ \A k \in TaskKeys : k # at[w] => waiters'[k] = waiters[k]
    <3>1. Timer \notin TaskKeys BY DEF Timer, TaskKeys
    <3> QED BY <2>2, <3>1 DEF Register
  <2>4. at[w] \notin TaskKeys => \A k \in TaskKeys : waiters'[k] = waiters[k]
    BY <2>2 DEF Register
  <2>5. Awaits(w, u)'
    <3> SUFFICES ASSUME reason[u] \in TaskKeys
                 PROVE  u \in Elements(waiters'[reason[u]]) \/ u \in Elements(wake[w])
      BY <1>3 DEF Awaits, Elements
    <3>1. CASE reason[u] = at[w]
      <4>1. Elements(waiters'[reason[u]]) = Elements(waiters[reason[u]]) \cup {cur[w]}
        <5>1. waiters[at[w]] \in Seq(Known) BY <2>2, <3>1
        <5>2. waiters'[at[w]] = Append(waiters[at[w]], cur[w]) BY <2>3, <3>1
        <5>3. Elements(Append(waiters[at[w]], cur[w])) = Elements(waiters[at[w]]) \cup {cur[w]}
          BY <1>2, <5>1, ElementsAppend
        <5> QED BY <3>1, <5>2, <5>3
      <4> QED BY <2>1, <4>1 DEF Awaits
    <3>2. CASE reason[u] # at[w]
      <4>1. waiters'[reason[u]] = waiters[reason[u]] BY <2>3, <2>4, <3>2
      <4>2. cur[w] # u BY <1>1, <1>2, <3>2 DEF Suspends
      <4> QED BY <2>1, <4>1, <4>2 DEF Awaits
    <3> QED BY <3>1, <3>2
  <2>6. Drained(w, u)'
    <3> SUFFICES ASSUME state[u] \in Final PROVE waiters'[<<"task", u>>] = <<>>
      BY <1>3 DEF Drained
    <3>1. <<"task", u>> \in TaskKeys /\ <<"task", u>>[2] = u BY DEF TaskKeys
    <3>2. <<"task", u>> # at[w] BY <1>1, <1>2, <3>1 DEF Suspends
    <3>3. waiters'[<<"task", u>>] = waiters[<<"task", u>>] BY <2>3, <2>4, <3>1, <3>2
    <3> QED BY <1>2, <2>1, <3>3 DEF Drained
  <2> QED BY <2>5, <2>6
<1> QED BY <1>4, <1>5, <1>6

(* Taking waiting tasks to wake them, in a call or from the timers.         *)
LEMMA SingleTakes ==
    ASSUME ExecInv, SingleInv, OneThread, NEW w \in Workers,
           \/ \E k \in RecvKeys \cup SendKeys : WakeChannelWaiter(w, k)
           \/ \E c \in Chans : WakeAllChannelWaiters(w, c)
           \/ \E k \in NetKeys : WakeNetOpWaiters(w, k)
           \/ WakeAllSenders(w) \/ PollTimers(w)
    PROVE  active_workers' = 0 /\ Suspends(w)' /\ Waiting(w)'
<1> USE DEF Goto, Call, taskVars, statVars, histVars
<1>1. /\ w \in Agents /\ Placed(w) /\ Suspends(w) /\ Waiting(w)
      /\ NoKey \notin TaskKeys /\ wake[w] \in Seq(Known)
  BY SingleFacts
<1>2. /\ pc \in [Agents -> PCs] /\ back \in [Agents -> Seq(PCs)]
      /\ at \in [Agents -> Keys \cup {Timer, NoKey}]
      /\ waiters \in [Keys -> Seq(Known)] /\ wake \in [Agents -> Seq(Known)]
  BY DEF ExecInv, Places, Lists
<1>3. UNCHANGED <<state, reason, cur, gave_up, active_workers>>
  BY DEF WakeChannelWaiter, WakeAllChannelWaiters, WakeNetOpWaiters, WakeAllSenders,
         PollTimers
<1>4. \A k \in TaskKeys : waiters'[k] = waiters[k]
  <2>1. \A k \in TaskKeys : /\ k \in Keys /\ k \notin RecvKeys /\ k \notin SendKeys
                            /\ k \notin NetKeys
    BY DEF Keys, TaskKeys, RecvKeys, SendKeys, NetKeys
  <2>2. \A c \in Chans : <<"recv", c>> \in RecvKeys BY DEF RecvKeys
  <2>3. pc[w] = "wakesenders" => at[w] \in SendKeys BY <1>1 DEF Placed
  <2>4. ASSUME NEW k, k \notin TaskKeys,
               waiters' = [waiters EXCEPT ![k] = Front(@)] \/ waiters' = [waiters EXCEPT ![k] = <<>>]
        PROVE  \A j \in TaskKeys : waiters'[j] = waiters[j]
    BY <1>2, <2>1, <2>4
  <2>5. ASSUME NEW k \in RecvKeys \cup SendKeys, WakeChannelWaiter(w, k)
        PROVE  \A j \in TaskKeys : waiters'[j] = waiters[j]
    <3>1. k \notin TaskKeys BY <2>1
    <3>2. waiters' = [waiters EXCEPT ![k] = Front(@)] BY <2>5 DEF WakeChannelWaiter
    <3> QED BY <2>4, <3>1, <3>2
  <2>6. ASSUME NEW c \in Chans, WakeAllChannelWaiters(w, c)
        PROVE  \A j \in TaskKeys : waiters'[j] = waiters[j]
    <3>1. <<"recv", c>> \notin TaskKeys BY <2>1, <2>2
    <3>2. waiters' = [waiters EXCEPT ![<<"recv", c>>] = <<>>]
      BY <2>6 DEF WakeAllChannelWaiters
    <3> QED BY <2>4, <3>1, <3>2
  <2>7. ASSUME NEW k \in NetKeys, WakeNetOpWaiters(w, k)
        PROVE  \A j \in TaskKeys : waiters'[j] = waiters[j]
    <3>1. k \notin TaskKeys BY <2>1
    <3>2. waiters' = [waiters EXCEPT ![k] = <<>>] BY <2>7 DEF WakeNetOpWaiters
    <3> QED BY <2>4, <3>1, <3>2
  <2>8. ASSUME WakeAllSenders(w) PROVE \A j \in TaskKeys : waiters'[j] = waiters[j]
    <3>1. at[w] \notin TaskKeys BY <2>1, <2>3, <2>8 DEF WakeAllSenders
    <3>2. waiters' = [waiters EXCEPT ![at[w]] = <<>>] BY <2>8 DEF WakeAllSenders
    <3> QED BY <2>4, <3>1, <3>2
  <2>9. ASSUME PollTimers(w) PROVE waiters' = waiters BY <2>9 DEF PollTimers
  <2> QED BY <2>5, <2>6, <2>7, <2>8, <2>9
<1>5. /\ pc'[w] \in {"wake", "wakesenders"}
      /\ \/ pc[w] = "wakesenders" /\ back'[w] = back[w]
         \/ pc[w] \in {"idle", "out", "body"} /\ back'[w] = <<pc[w]>>
         \/ pc[w] = "timers" /\ back'[w] = <<"local">>
  BY <1>1, <1>2 DEF WakeChannelWaiter, WakeAllChannelWaiters, WakeNetOpWaiters,
                    WakeAllSenders, PollTimers, CanCall
<1>6. \A t \in Handles : t \in Elements(wake[w]) => t \in Elements(wake'[w])
  <2>1. CASE pc[w] = "wakesenders"
    <3>1. WakeAllSenders(w)
      BY <2>1 DEF WakeChannelWaiter, WakeAllChannelWaiters, WakeNetOpWaiters,
                  PollTimers, CanCall
    <3>2. at[w] \in Keys BY <1>1, <2>1 DEF Placed, Keys
    <3>3. waiters[at[w]] \in Seq(Known) BY <1>2, <3>2
    <3>4. wake'[w] = wake[w] \o waiters[at[w]] BY <1>1, <1>2, <3>1 DEF WakeAllSenders
    <3> QED BY <1>1, <3>3, <3>4, ElementsConcat
  <2>2. CASE pc[w] # "wakesenders"
    <3>1. wake[w] = <<>> BY <1>1, <1>5, <2>2 DEF Suspends
    <3> QED BY <3>1 DEF Elements
  <2> QED BY <2>1, <2>2
<1>7. Waiting(w)' BY <1>1, <1>3, <1>4, <1>5, <1>6, KeepWaiting
<1>8. Suspends(w)'
  <2>1. Resumes(w)' # "loop" /\ (Resumes(w)' = "body" => state[cur[w]] = "Running")
    <3>1. CASE pc[w] = "wakesenders" /\ back'[w] = back[w]
      BY <1>1, <3>1 DEF Resumes, Suspends, CallPCs
    <3>2. CASE pc[w] \in {"idle", "out", "body"} /\ back'[w] = <<pc[w]>>
      <4>1. Resumes(w)' = pc[w] BY <3>2 DEF Resumes
      <4> QED BY <1>1, <3>2, <4>1 DEF Suspends
    <3>3. CASE pc[w] = "timers" /\ back'[w] = <<"local">>
      BY <3>3 DEF Resumes
    <3> QED BY <1>5, <3>1, <3>2, <3>3
  <2>2. ~gave_up'[w] BY <1>1, <1>3, <1>5 DEF Suspends
  <2> QED BY <1>3, <1>5, <2>1, <2>2 DEF Suspends
<1> QED BY <1>3, <1>7, <1>8 DEF SingleInv

(* Taking the waiters of a finished task.                                   *)
LEMMA SingleTakeWaiters ==
    ASSUME ExecInv, SingleInv, OneThread, NEW w \in Workers, TakeWaiters(w)
    PROVE  active_workers' = 0 /\ Suspends(w)' /\ Waiting(w)'
<1> USE DEF Goto, taskVars, statVars, histVars
<1>1. /\ w \in Agents /\ Placed(w) /\ Suspends(w) /\ Waiting(w)
      /\ NoKey \notin TaskKeys
  BY SingleFacts
<1>2. /\ waiters \in [Keys -> Seq(Known)] /\ TaskKeys \subseteq Keys
      /\ wake \in [Agents -> Seq(Known)] /\ pc \in [Agents -> PCs]
  BY DEF ExecInv, Places, Lists, Keys
<1>3. /\ pc[w] = "take" /\ at[w] \in TaskKeys /\ wake[w] = <<>> /\ ~gave_up[w]
  BY <1>1 DEF TakeWaiters, Placed, Suspends
<1>4. /\ pc'[w] = "wake" /\ wake'[w] = waiters[at[w]]
      /\ waiters'[at[w]] = <<>> /\ \A k \in TaskKeys : k # at[w] => waiters'[k] = waiters[k]
      /\ UNCHANGED <<state, reason, cur, gave_up, active_workers, back>>
  BY <1>1, <1>2, <1>3 DEF TakeWaiters
<1>5. Suspends(w)' BY <1>1, <1>3, <1>4 DEF Suspends, Resumes, CallPCs
<1>6. Waiting(w)'
  <2> SUFFICES ASSUME NEW u \in Handles PROVE Awaits(w, u)' /\ Drained(w, u)'
    BY DEF Waiting
  <2>1. Awaits(w, u) /\ Drained(w, u) BY <1>1 DEF Waiting
  <2>2. Awaits(w, u)'
    <3> SUFFICES ASSUME reason[u] \in TaskKeys
                 PROVE  u \in Elements(waiters'[reason[u]]) \/ u \in Elements(wake'[w])
      BY <1>4 DEF Awaits, Elements
    <3>1. u \notin Elements(wake[w]) BY <1>3 DEF Elements
    <3>2. u \in Elements(waiters[reason[u]]) BY <1>3, <2>1, <3>1 DEF Awaits
    <3> QED BY <1>4, <3>2
  <2>3. Drained(w, u)'
    <3>1. <<"task", u>> \in TaskKeys BY DEF TaskKeys
    <3> SUFFICES ASSUME state[u] \in Final PROVE waiters'[<<"task", u>>] = <<>>
      BY <1>4 DEF Drained
    <3>2. CASE at[w] = <<"task", u>> BY <1>4, <3>2
    <3>3. CASE at[w] # <<"task", u>>
      <4>1. waiters'[<<"task", u>>] = waiters[<<"task", u>>] BY <1>4, <3>1, <3>3
      <4> QED BY <2>1, <3>3, <4>1 DEF Drained
    <3> QED BY <3>2, <3>3
  <2> QED BY <2>2, <2>3
<1> QED BY <1>4, <1>5, <1>6 DEF SingleInv

(* Finishing a task, in a call or after its body.                           *)
LEMMA SingleFinish ==
    ASSUME ExecInv, SingleInv, OneThread, NEW w \in Workers,
           \/ \E t \in Known : Complete(w, t) \/ Cancel(w, t) \/ Panic(w, t)
           \/ CompleteExecuted(w)
    PROVE  active_workers' = 0 /\ Suspends(w)' /\ Waiting(w)'
<1> USE DEF Goto, waitVars, statVars
<1>1. /\ w \in Agents /\ Placed(w) /\ Suspends(w) /\ Waiting(w)
      /\ NoKey \notin TaskKeys /\ (InTask(w) => cur[w] \in Known /\ cur[w] \in Handles)
  BY SingleFacts
<1>2. /\ pc \in [Agents -> PCs] /\ back \in [Agents -> Seq(PCs)]
      /\ at \in [Agents -> Keys \cup {Timer, NoKey}] /\ gave_up \in [Workers -> BOOLEAN]
      /\ state \in [Handles -> {"None", "Pending", "Running", "Blocked"} \cup Final]
      /\ reason \in [Handles -> Keys \cup {Timer, NoKey}]
  BY DEF ExecInv, Places, Tasks
<1>3. PICK t \in Known, r \in {"leave", "out", "body", "idle", "timers"} :
         /\ \E s \in Final : state' = [state EXCEPT ![t] = s]
         /\ reason' = [reason EXCEPT ![t] = NoKey]
         /\ at' = [at EXCEPT ![w] = <<"task", t>>]
         /\ back'[w] = <<r>> \/ back'[w] = <<"count", r>>
         /\ pc' = [pc EXCEPT ![w] = "take"]
         /\ pc[w] \in {"idle", "out", "body", "finish"}
         /\ r = "body" => pc[w] = "body" /\ t # cur[w] /\ cur' = cur
         /\ UNCHANGED <<waiters, wake, active_workers>>
         /\ gave_up' = gave_up \/ ~gave_up'[w]
  <2>1. ASSUME NEW t \in Known, Complete(w, t) \/ Cancel(w, t) \/ Panic(w, t)
        PROVE  /\ \E s \in Final : SetFinal(w, t, s, <<AfterCall(w, t)>>)
                                   \/ SetFinal(w, t, s, <<"count", AfterCall(w, t)>>)
               /\ CanCall(w) /\ pc' = [pc EXCEPT ![w] = "take"]
               /\ UNCHANGED <<cur, gave_up>>
    BY <2>1 DEF Complete, Cancel, Panic, Finish, Final
  <2>2. ASSUME NEW t \in Known, Complete(w, t) \/ Cancel(w, t) \/ Panic(w, t)
        PROVE  /\ AfterCall(w, t) \in {"leave", "out", "body", "idle"}
               /\ AfterCall(w, t) = "body" => pc[w] = "body" /\ t # cur[w]
    BY <2>1, <2>2 DEF AfterCall, Own, CanCall
  <2>3. ASSUME CompleteExecuted(w)
        PROVE  /\ cur[w] \in Known /\ pc[w] = "finish"
               /\ SetFinal(w, cur[w], "Completed", <<"count", "timers">>)
               /\ pc' = [pc EXCEPT ![w] = "take"] /\ ~gave_up'[w] /\ "Completed" \in Final
    BY <1>1, <1>2, <2>3, OneWorker DEF CompleteExecuted, Release, Final, InTask, TaskPCs
  <2>4. ASSUME NEW t \in Known, NEW r \in PCs, NEW s \in Final,
               SetFinal(w, t, s, <<r>>) \/ SetFinal(w, t, s, <<"count", r>>)
        PROVE  /\ state' = [state EXCEPT ![t] = s]
               /\ reason' = [reason EXCEPT ![t] = NoKey]
               /\ at' = [at EXCEPT ![w] = <<"task", t>>]
               /\ back'[w] = <<r>> \/ back'[w] = <<"count", r>>
               /\ UNCHANGED <<waiters, wake, active_workers>>
    BY <1>1, <1>2, <2>4 DEF SetFinal
  <2>5. {"leave", "out", "body", "idle", "timers"} \subseteq PCs BY DEF PCs
  <2>6. ASSUME CompleteExecuted(w)
        PROVE  \E t \in Known :
                 /\ \E s \in Final : state' = [state EXCEPT ![t] = s]
                 /\ reason' = [reason EXCEPT ![t] = NoKey]
                 /\ at' = [at EXCEPT ![w] = <<"task", t>>]
                 /\ back'[w] = <<"timers">> \/ back'[w] = <<"count", "timers">>
                 /\ pc' = [pc EXCEPT ![w] = "take"]
                 /\ pc[w] = "finish"
                 /\ UNCHANGED <<waiters, wake, active_workers>>
                 /\ ~gave_up'[w]
    <3>1. PICK t \in Known : t = cur[w] BY <2>3, <2>6
    <3>2. PICK s \in Final : s = "Completed" BY <2>3, <2>6
    <3>3. PICK r \in PCs : r = "timers" BY <2>5
    <3>4. SetFinal(w, t, s, <<"count", r>>) BY <2>3, <2>6, <3>1, <3>2, <3>3
    <3>5. /\ state' = [state EXCEPT ![t] = s]
          /\ reason' = [reason EXCEPT ![t] = NoKey]
          /\ at' = [at EXCEPT ![w] = <<"task", t>>]
          /\ back'[w] = <<r>> \/ back'[w] = <<"count", r>>
          /\ UNCHANGED <<waiters, wake, active_workers>>
      BY <2>4, <3>4
    <3> QED BY <2>3, <2>6, <3>3, <3>5
  <2>7. ASSUME NEW t \in Known, Complete(w, t) \/ Cancel(w, t) \/ Panic(w, t)
        PROVE  \E r \in {"leave", "out", "body", "idle", "timers"} :
                 /\ \E s \in Final : state' = [state EXCEPT ![t] = s]
                 /\ reason' = [reason EXCEPT ![t] = NoKey]
                 /\ at' = [at EXCEPT ![w] = <<"task", t>>]
                 /\ back'[w] = <<r>> \/ back'[w] = <<"count", r>>
                 /\ pc' = [pc EXCEPT ![w] = "take"]
                 /\ pc[w] \in {"idle", "out", "body", "finish"}
                 /\ r = "body" => pc[w] = "body" /\ t # cur[w] /\ cur' = cur
                 /\ UNCHANGED <<waiters, wake, active_workers>>
                 /\ gave_up' = gave_up \/ ~gave_up'[w]
    <3>1. PICK r \in {"leave", "out", "body", "idle"} : r = AfterCall(w, t) BY <2>2, <2>7
    <3>2. PICK s \in Final : SetFinal(w, t, s, <<r>>) \/ SetFinal(w, t, s, <<"count", r>>)
      BY <2>1, <2>7, <3>1
    <3>3. pc[w] \in {"idle", "out", "body"} BY <2>1, <2>7 DEF CanCall
    <3>4. r = "body" => pc[w] = "body" /\ t # cur[w] BY <2>2, <2>7, <3>1
    <3>5. pc' = [pc EXCEPT ![w] = "take"] /\ UNCHANGED <<cur, gave_up>> BY <2>1, <2>7
    <3>6. r \in PCs BY <2>5
    <3>7. /\ state' = [state EXCEPT ![t] = s]
          /\ reason' = [reason EXCEPT ![t] = NoKey]
          /\ at' = [at EXCEPT ![w] = <<"task", t>>]
          /\ back'[w] = <<r>> \/ back'[w] = <<"count", r>>
          /\ UNCHANGED <<waiters, wake, active_workers>>
      BY <2>4, <3>2, <3>6
    <3> QED BY <3>3, <3>4, <3>5, <3>7
  <2> QED BY <2>6, <2>7
<1>4. t \in Handles BY DEF Known
<1>5. /\ pc'[w] = "take" /\ at'[w] = <<"task", t>> /\ reason'[t] = NoKey
      /\ \A u \in Handles \ {t} : state'[u] = state[u] /\ reason'[u] = reason[u]
  BY <1>1, <1>2, <1>3, <1>4
<1>6. Waiting(w)'
  <2>1. \A u \in Handles : reason'[u] \in {reason[u], NoKey} BY <1>5
  <2>2. \A u \in Handles : state'[u] \in Final =>
           state[u] \in Final \/ (pc'[w] = "take" /\ at'[w] = <<"task", u>>)
    BY <1>5
  <2> QED BY <1>1, <1>3, <2>1, <2>2, KeepWaiting
<1>7. Suspends(w)'
  <2>1. Resumes(w)' = r
    <3>1. CASE back'[w] = <<r>> BY <3>1 DEF Resumes
    <3>2. CASE back'[w] = <<"count", r>> BY <3>2 DEF Resumes
    <3> QED BY <1>3, <3>1, <3>2
  <2>2. wake'[w] = <<>> /\ ~gave_up'[w] BY <1>1, <1>3 DEF Suspends
  <2>3. r = "body" => state'[cur'[w]] = "Running"
    <3> SUFFICES ASSUME r = "body" PROVE state'[cur[w]] = "Running" BY <1>3
    <3>1. pc[w] = "body" /\ cur[w] # t BY <1>3
    <3>2. cur[w] \in Handles /\ state[cur[w]] = "Running"
      BY <1>1, <3>1 DEF Suspends, InTask, TaskPCs
    <3> QED BY <1>5, <3>1, <3>2
  <2> QED BY <1>5, <2>1, <2>2, <2>3 DEF Suspends
<1> QED BY <1>3, <1>6, <1>7 DEF SingleInv

(* A thread that returns from the last call, or on to counting it.          *)
LEMMA SingleReturn ==
    ASSUME ExecInv, SingleInv, OneThread, NEW w \in Workers,
           pc[w] \in {"wake", "count"}, Return(w), wake[w] = <<>>,
           UNCHANGED <<state, cur, wake, gave_up>>
    PROVE  Suspends(w)' /\ pc'[w] # "take"
<1>1. /\ w \in Agents /\ Placed(w) /\ Suspends(w) /\ back[w] \in Seq(PCs)
  BY SingleFacts
<1>2. /\ Len(back[w]) \in {1, 2} /\ Resumes(w) \in Returns(w) /\ Resumes(w) # "loop"
      /\ Len(back[w]) = 2 => back[w][1] = "count"
      /\ Resumes(w) = "body" => state[cur[w]] = "Running"
      /\ ~gave_up[w]
  BY <1>1 DEF Placed, Suspends, CallPCs
<1>3. back[w] # <<>> /\ Head(back[w]) = back[w][1]
  <2>1. Len(back[w]) = 1 \/ Len(back[w]) = 2 BY <1>2
  <2>2. back[w] # <<>> BY <2>1
  <2> QED BY <1>1, <2>2
<1>4. pc'[w] = back[w][1] /\ back'[w] = Tail(back[w])
  BY <1>1, <1>3 DEF Return, ExecInv, Places
<1>5. Len(Tail(back[w])) = Len(back[w]) - 1 BY <1>1, <1>3
<1>6. CASE Len(back[w]) = 1
  <2>1. pc'[w] = Resumes(w) BY <1>4, <1>6 DEF Resumes
  <2>2. pc'[w] \in {"idle", "out", "body", "leave", "local", "timers"}
    BY <1>2, <2>1 DEF Returns
  <2> QED BY <1>2, <2>1, <2>2 DEF Suspends, CallPCs
<1>7. CASE Len(back[w]) = 2
  <2>1. pc'[w] = "count" BY <1>2, <1>4, <1>7
  <2>2. Resumes(w)' = Resumes(w) BY <1>1, <1>3, <1>4, <1>5, <1>7 DEF Resumes
  <2> QED BY <1>2, <2>1, <2>2 DEF Suspends, CallPCs
<1> QED BY <1>2, <1>6, <1>7

(* Waking the next task, pushing the one that was woken, counting.          *)
LEMMA SingleWakes ==
    ASSUME ExecInv, SingleInv, OneThread, NEW w \in Workers,
           WakeTask(w) \/ Push(w) \/ Count(w)
    PROVE  active_workers' = 0 /\ Suspends(w)' /\ Waiting(w)'
<1> USE DEF Goto, taskVars, waitVars, statVars, histVars
<1>1. /\ w \in Agents /\ Placed(w) /\ Suspends(w) /\ Waiting(w)
      /\ NoKey \notin TaskKeys /\ wake[w] \in Seq(Known) /\ wake[w] \in Seq(Handles)
      /\ \A t \in Handles : state[t] = "Blocked" <=> reason[t] # NoKey
      /\ InTask(w) => cur[w] \in Handles
  BY SingleFacts
<1>2. /\ pc \in [Agents -> PCs] /\ wake \in [Agents -> Seq(Known)]
      /\ state \in [Handles -> {"None", "Pending", "Running", "Blocked"} \cup Final]
      /\ reason \in [Handles -> Keys \cup {Timer, NoKey}]
  BY DEF ExecInv, Places, Tasks, Lists
<1>3. pc[w] \in {"wake", "push", "count"} /\ ~gave_up[w]
  BY <1>1 DEF WakeTask, Push, Count, Suspends
<1>4. UNCHANGED <<waiters, cur, gave_up, active_workers>> BY DEF WakeTask, Push, Count
<1>5. active_workers' = 0 BY <1>4 DEF SingleInv
<1>6. ASSUME Return(w), wake[w] = <<>>, pc[w] \in {"wake", "count"},
             UNCHANGED <<state, reason, wake>>
      PROVE  Suspends(w)' /\ Waiting(w)'
  <2>1. Suspends(w)' BY <1>4, <1>6, SingleReturn
  <2>2. Waiting(w)' BY <1>1, <1>4, <1>6, KeepWaiting
  <2> QED BY <2>1, <2>2
<1>7. CASE Count(w)
  <2>1. wake[w] = <<>> BY <1>1, <1>7 DEF Count, Suspends
  <2> QED BY <1>5, <1>6, <1>7, <2>1 DEF Count
<1>8. CASE WakeTask(w) /\ wake[w] = <<>> BY <1>5, <1>6, <1>8 DEF WakeTask
<1>9. CASE Push(w) \/ (WakeTask(w) /\ wake[w] # <<>>)
  <2>1. wake[w] # <<>> BY <1>1, <1>9 DEF Push, Placed
  <2>2. /\ Head(wake[w]) \in Handles
        /\ Elements(wake[w]) \subseteq Elements(Tail(wake[w])) \cup {Head(wake[w])}
    BY <1>1, <2>1, ElementsTail
  <2>3. PICK t \in Handles : t = Head(wake[w]) BY <2>2
  <2>4. Resumes(w)' = Resumes(w) /\ Resumes(w) # "loop"
        /\ (Resumes(w) = "body" => state[cur[w]] = "Running" /\ cur[w] \in Handles)
    BY <1>1, <1>9, <2>1 DEF Push, WakeTask, Resumes, Suspends, CallPCs, InTask
  <2>5. CASE WakeTask(w) /\ state[t] = "Blocked"
    <3>1. /\ pc'[w] = "push" /\ wake' = wake /\ pc[w] = "wake"
          /\ state'[t] = "Pending" /\ reason'[t] = NoKey
          /\ \A u \in Handles \ {t} : state'[u] = state[u] /\ reason'[u] = reason[u]
      BY <1>1, <1>2, <2>1, <2>3, <2>5 DEF WakeTask
    <3>2. Suspends(w)'
      <4>1. Resumes(w) = "body" => state'[cur'[w]] = "Running" BY <1>4, <2>4, <2>5, <3>1
      <4>2. state'[Head(wake'[w])] = "Pending" BY <2>3, <3>1
      <4> QED BY <1>3, <1>4, <2>4, <3>1, <4>1, <4>2 DEF Suspends, CallPCs
    <3>3. \A u \in Handles : reason'[u] \in {reason[u], NoKey} BY <3>1
    <3>4. \A u \in Handles : state'[u] \in Final => state[u] \in Final
      BY <3>1 DEF Final
    <3>5. Waiting(w)' BY <1>1, <1>4, <3>1, <3>3, <3>4, KeepWaiting
    <3> QED BY <1>5, <3>2, <3>5
  <2>6. CASE Push(w) \/ (WakeTask(w) /\ state[t] # "Blocked")
    <3>1. /\ pc'[w] = "wake" /\ wake'[w] = Tail(wake[w]) /\ UNCHANGED <<state, reason>>
          /\ pc[w] \in {"wake", "push"}
      BY <1>1, <1>2, <2>1, <2>3, <2>6 DEF WakeTask, Push
    <3>2. state[t] # "Blocked"
      BY <1>1, <2>3, <2>6 DEF Push, Suspends
    <3>3. \A u \in Handles : reason'[u] # NoKey /\ u \in Elements(wake[w])
                                => u \in Elements(wake'[w])
      BY <1>1, <2>2, <2>3, <3>1, <3>2
    <3>4. Waiting(w)' BY <1>1, <1>4, <3>1, <3>3, KeepWaiting
    <3>5. Suspends(w)' BY <1>3, <1>4, <2>4, <3>1 DEF Suspends, CallPCs
    <3> QED BY <1>5, <3>4, <3>5
  <2> QED BY <1>9, <2>5, <2>6
<1> QED BY <1>7, <1>8, <1>9

(* Spawning and starting tasks.                                             *)
LEMMA SingleStarts ==
    ASSUME ExecInv, SingleInv, OneThread, NEW w \in Workers,
           \/ \E m \in Markers : Spawn(w, m) \/ SpawnAndStart(w, m)
           \/ \E t \in Known : Start(w, t)
    PROVE  active_workers' = 0 /\ Suspends(w)' /\ Waiting(w)'
<1> USE DEF Goto, Call, taskVars, waitVars, statVars, threadVars, histVars
<1>1. /\ w \in Agents /\ Placed(w) /\ Suspends(w) /\ Waiting(w)
      /\ NoKey \notin TaskKeys /\ (InTask(w) => cur[w] \in Known /\ cur[w] \in Handles)
  BY SingleFacts
<1>2. /\ pc \in [Agents -> PCs] /\ wake \in [Agents -> Seq(Known)]
      /\ back \in [Agents -> Seq(PCs)]
      /\ state \in [Handles -> {"None", "Pending", "Running", "Blocked"} \cup Final]
  BY DEF ExecInv, Places, Tasks, Lists
<1>3. pc[w] \in {"idle", "out", "body"} BY DEF Spawn, SpawnAndStart, NewTask, Start, CanCall
<1>4. wake[w] = <<>> /\ ~gave_up[w] BY <1>1, <1>3 DEF Suspends
<1>5. UNCHANGED <<reason, waiters, cur, gave_up, active_workers, at>>
  BY DEF Spawn, SpawnAndStart, NewTask, Start
<1>6. /\ \A t \in Known : state'[t] = state[t]
      /\ \A t \in Handles : state'[t] \in Final => state[t] \in Final
  <2>1. \/ state' = [state EXCEPT ![next_handle] = "Pending"] \/ state' = state
    BY DEF Spawn, SpawnAndStart, NewTask, Start
  <2>2. next_handle \notin Known /\ Known \subseteq Handles
    BY DEF Known, ExecInv, Tasks, Handles
  <2> QED BY <1>2, <2>1, <2>2 DEF Final
<1>7. pc[w] = "body" => state'[cur'[w]] = "Running"
  BY <1>1, <1>5, <1>6 DEF Suspends, InTask, TaskPCs
<1>8. Waiting(w)'
  <2>1. \A t : t \notin Elements(wake[w]) BY <1>4 DEF Elements
  <2> QED BY <1>1, <1>3, <1>5, <1>6, <2>1, KeepWaiting
<1>9. Suspends(w)'
  <2>1. ASSUME NEW m \in Markers, Spawn(w, m) PROVE Suspends(w)'
    <3>1. pc' = pc /\ wake' = wake BY <2>1 DEF Spawn
    <3> QED BY <1>3, <1>4, <1>5, <1>7, <3>1 DEF Suspends, CallPCs
  <2>2. ASSUME NEW t, pc'[w] = "push", back'[w] = <<pc[w]>>, wake'[w] = <<t>>,
               state'[t] = "Pending"
        PROVE  Suspends(w)'
    <3>1. Resumes(w)' = pc[w] BY <2>2 DEF Resumes
    <3>2. Head(wake'[w]) = t BY <2>2
    <3> QED BY <1>3, <1>4, <1>5, <1>7, <2>2, <3>1, <3>2 DEF Suspends
  <2>3. ASSUME NEW m \in Markers, SpawnAndStart(w, m) PROVE Suspends(w)'
    <3>1. /\ pc'[w] = "push" /\ back'[w] = <<pc[w]>> /\ wake'[w] = <<next_handle>>
          /\ state'[next_handle] = "Pending"
      BY <1>1, <1>2, <2>3 DEF SpawnAndStart, NewTask
    <3> QED BY <2>2, <3>1
  <2>4. ASSUME NEW t \in Known, Start(w, t) PROVE Suspends(w)'
    <3>1. /\ pc'[w] = "push" /\ back'[w] = <<pc[w]>> /\ wake'[w] = <<t>>
          /\ state'[t] = "Pending"
      BY <1>1, <1>2, <2>4 DEF Start
    <3> QED BY <2>2, <3>1
  <2> QED BY <2>1, <2>3, <2>4
<1>10. active_workers' = 0 BY <1>5 DEF SingleInv
<1> QED BY <1>8, <1>9, <1>10

-----------------------------------------------------------------------------
(* On one thread the first state and every step satisfy the invariant.      *)
LEMMA InitSingleInv == Init /\ OneThread => SingleInv
<1> SUFFICES ASSUME Init, OneThread PROVE SingleInv OBVIOUS
<1> USE DEF Init
<1>1. ASSUME NEW w \in Workers PROVE Suspends(w) /\ Waiting(w)
  <2>1. w \in Agents /\ w \notin Clients /\ SingleThreaded
    BY DEF OneThread, Agents
  <2>2. pc[w] = "out" /\ wake[w] = <<>> /\ ~gave_up[w] BY <2>1
  <2>3. Suspends(w) BY <2>2 DEF Suspends, CallPCs
  <2>4. NoKey \notin TaskKeys BY NamesAssumption DEF Keys
  <2>5. \A t \in Handles : state[t] \notin Final /\ reason[t] = NoKey BY DEF Final
  <2>6. Waiting(w) BY <2>4, <2>5 DEF Waiting, Awaits, Drained
  <2> QED BY <2>3, <2>6
<1> QED BY <1>1 DEF SingleInv

(* Every step of the one thread preserves it.                               *)
LEMMA NextSingleInv == ExecInv /\ OneThread /\ SingleInv /\ [Next]_vars => SingleInv'
<1> SUFFICES ASSUME ExecInv, OneThread, SingleInv, [Next]_vars PROVE SingleInv' OBVIOUS
<1>1. ASSUME NEW w \in Workers, ApiCall(w) \/ CallStep(w) \/ WorkerStep(w)
      PROVE  active_workers' = 0 /\ Suspends(w)' /\ Waiting(w)'
  <2>1. CASE \/ \E m \in Markers : Spawn(w, m) \/ SpawnAndStart(w, m)
             \/ \E t \in Known : Start(w, t)
    BY <2>1, SingleStarts
  <2>2. CASE \/ \E t \in Known : Complete(w, t) \/ Cancel(w, t) \/ Panic(w, t)
             \/ CompleteExecuted(w)
    BY <2>2, SingleFinish
  <2>3. CASE \/ \E k \in RecvKeys \cup SendKeys : WakeChannelWaiter(w, k)
             \/ \E c \in Chans : WakeAllChannelWaiters(w, c)
             \/ \E k \in NetKeys : WakeNetOpWaiters(w, k)
             \/ WakeAllSenders(w) \/ PollTimers(w)
    BY <2>3, SingleTakes
  <2>4. CASE \/ WorkerStart(w) \/ LoopTop(w) \/ Run(w) \/ Unpark(w) \/ Quiet(w)
             \/ EnterBody(w) \/ LeaveBody(w) \/ AfterBody(w) \/ PopLocal(w) \/ Steal(w)
             \/ Shutdown(w)
    BY <2>4, SingleMoves
  <2>5. CASE WakeTask(w) \/ Push(w) \/ Count(w) BY <2>5, SingleWakes
  <2>6. CASE TakeWaiters(w) BY <2>6, SingleTakeWaiters
  <2>7. CASE Claim(w) BY <2>7, SingleClaim
  <2>8. CASE \E k \in Keys \cup {Timer} : Block(w, k) BY <2>8, SingleBlock
  <2>9. CASE Register(w) BY <2>9, SingleRegister
  <2> QED BY <1>1, <2>1, <2>2, <2>3, <2>4, <2>5, <2>6, <2>7, <2>8, <2>9
    DEF ApiCall, CallStep, WorkerStep
<1>2. Agents = Workers /\ \A v, w \in Workers : v = w BY OneWorker
<1>3. CASE Next
  <2>1. PICK w \in Workers : ApiCall(w) \/ CallStep(w) \/ WorkerStep(w)
    BY <1>2, <1>3 DEF Next
  <2>2. active_workers' = 0 /\ Suspends(w)' /\ Waiting(w)' BY <1>1, <2>1
  <2>3. \A v \in Workers : v = w BY <1>2
  <2> QED BY <2>2, <2>3 DEF SingleInv
<1>4. CASE UNCHANGED vars
  BY <1>4 DEF vars, taskVars, waitVars, statVars, threadVars, histVars, SingleInv,
              Suspends, Resumes, Waiting, Awaits, Drained, Elements
<1> QED BY <1>3, <1>4

(* The two invariants give the property of the executor.                    *)
LEMMA InvExecutorSafe == ExecInv /\ OneThread /\ SingleInv => ExecutorSafe
<1> SUFFICES ASSUME ExecInv, OneThread, SingleInv PROVE ExecutorSafe OBVIOUS
<1>1. TypeOK
  <2>1. Known \subseteq Handles BY DEF Known
  <2>2. Seq(Known) \subseteq Seq(Handles) BY <2>1, SeqMono
  <2>3. /\ waiters \in [Keys -> Seq(Handles)] /\ injector \in Seq(Handles)
        /\ local \in [Workers -> Seq(Handles)] /\ wake \in [Agents -> Seq(Handles)]
    BY <2>2 DEF ExecInv, Lists
  <2>4. timers \subseteq Handles /\ cur \in [Workers -> Handles \cup {NoTask}]
        /\ started \subseteq Handles
    BY <2>1 DEF ExecInv, Lists
  <2>5. active_workers \in Nat BY DEF SingleInv
  <2> QED BY <2>3, <2>4, <2>5 DEF ExecInv, Tasks, Places, Affine, TypeOK
<1>2. BlockedNotCompleted BY DEF SingleInv, Suspends, BlockedNotCompleted
<1>3. AwaitersAreWoken
  <2> SUFFICES ASSUME NEW t \in Handles, reason[t] \in TaskKeys, state[reason[t][2]] \in Final
               PROVE  \/ \E a \in Agents : pc[a] = "take" /\ at[a] = reason[t]
                      \/ \E a \in Agents : t \in Elements(wake[a])
                      \/ \E w \in Workers : pc[w] = "register" /\ cur[w] = t
    BY DEF AwaitersAreWoken
  <2>1. PICK u \in Handles : reason[t] = <<"task", u>> BY DEF TaskKeys
  <2>2. reason[t][2] = u BY <2>1
  <2>3. PICK w \in Workers : w \in Agents BY BoundsAssumption DEF Workers, Agents
  <2>4. Awaits(w, t) /\ Drained(w, u) BY DEF SingleInv, Waiting
  <2>5. CASE t \in Elements(waiters[reason[t]])
    <3>1. waiters[<<"task", u>>] # <<>> BY <2>1, <2>5 DEF Elements
    <3> QED BY <2>1, <2>2, <2>3, <2>4, <3>1 DEF Drained
  <2> QED BY <2>3, <2>4, <2>5 DEF Awaits
<1> QED BY <1>1, <1>2, <1>3 DEF ExecutorSafe

(* The executor on one thread: the tables agree, a body that blocked its    *)
(* task does not complete it, and whoever awaits a finished task is on its  *)
(* way (execute_task, block_task, complete_task, wake_task).                *)
THEOREM ExecutorOneThreadSafe == Spec => [](OneThread => ExecutorSafe)
<1> DEFINE Inv == ExecInv /\ (OneThread => SingleInv)
<1>1. Init => Inv BY InitExecInv, InitSingleInv
<1>2. Inv /\ [Next]_vars => Inv'
  <2> SUFFICES ASSUME Inv, [Next]_vars PROVE Inv' OBVIOUS
  <2>1. ExecInv' BY NextExecInv
  <2>2. OneThread' <=> OneThread BY DEF OneThread
  <2>3. OneThread => SingleInv' BY NextSingleInv
  <2> QED BY <2>1, <2>2, <2>3
<1>3. Inv => (OneThread => ExecutorSafe) BY InvExecutorSafe
<1> QED BY <1>1, <1>2, <1>3, PTL DEF Spec

=============================================================================
