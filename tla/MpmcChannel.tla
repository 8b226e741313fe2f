----------------------------- MODULE MpmcChannel -----------------------------
(***************************************************************************)
(* The thread-safe channels of the VM, runtime/ffi.inc.rs (MpmcChannel and *)
(* the __arth_mpmc_chan_* calls).  A channel is a crossbeam queue, a       *)
(* closed flag and two FIFO lists of suspended tasks.  Every call takes    *)
(* the lock of the global channel map; the blocking calls only take it to  *)
(* clone an end of the queue and then block outside it, and the calls that *)
(* wake a task take it twice.  One step is one critical section, or one    *)
(* completion of a blocking queue operation.                               *)
(*                                                                         *)
(* A thread runs the task of the same name.  The executor that suspends    *)
(* and resumes tasks is outside this code: a task that is told to suspend  *)
(* makes no call until a thread that woke it has read its id.              *)
(***************************************************************************)
EXTENDS Integers, Sequences, FiniteSets

CONSTANTS
    Threads,      \* the threads that use the channels, and the tasks they run
    MaxChans,     \* bound on the number of channels created
    MaxValues,    \* bound on the number of messages sent
    Capacities,   \* capacities passed to create; <= 0 asks for no bound
    Programs,     \* the sets of operations that programs under study use
    Payload(_),   \* the integer a message carries
    NoChan,       \* a handle no channel has
    NoTask        \* no task id

Handles == 1 .. MaxChans
Values  == 1 .. MaxValues

ASSUME BoundsAssumption == MaxChans \in Nat /\ MaxValues \in Nat

ASSUME CapacitiesAssumption == Capacities \subseteq Int

ASSUME PayloadAssumption == \A v \in Values : Payload(v) \in Int

ASSUME NamesAssumption == NoChan \notin Handles /\ NoTask \notin Threads

VARIABLES
    ops,                \* the operations this program uses
    next_chan,          \* NEXT_MPMC_CHAN
    capacity,           \* 0 for an unbounded channel
    closed,             \* the closed flag
    queue,              \* the messages inside the crossbeam queue
    waiting_senders,    \* (task, message) pairs blocked on a full channel
    waiting_receivers,  \* tasks blocked on an empty channel
    pc,                 \* where each thread is
    at,                 \* the handle of a thread's last call
    item,               \* the message a thread in a blocking send holds
    ret,                \* what a thread's last call returned; 0 inside a call
    woken_sender,       \* WOKEN_SENDER_TASK_ID of each thread
    woken_receiver,     \* WOKEN_RECEIVER_TASK_ID of each thread
    next_val,           \* the next message to send
    owner,              \* history: the thread that sent a message
    told,               \* history: what the sender of a message was told
    received            \* history: the messages taken from each channel

chanVars  == <<next_chan, capacity, closed, queue, waiting_senders,
               waiting_receivers>>
callVars  == <<pc, at, item, ret, woken_sender, woken_receiver>>
histVars  == <<next_val, owner, told, received>>
vars == <<ops, chanVars, callVars, histVars>>

PC == {"idle", "sending", "receiving", "wakesender", "wakereceiver",
       "suspended", "retry"}

Init ==
    /\ ops \in Programs
    /\ next_chan = 1
    /\ capacity = [h \in Handles |-> 0]
    /\ closed = [h \in Handles |-> FALSE]
    /\ queue = [h \in Handles |-> <<>>]
    /\ waiting_senders = [h \in Handles |-> <<>>]
    /\ waiting_receivers = [h \in Handles |-> <<>>]
    /\ pc = [t \in Threads |-> "idle"]
    /\ at = [t \in Threads |-> NoChan]
    /\ item = [t \in Threads |-> 0]
    /\ ret = [t \in Threads |-> 0]
    /\ woken_sender = [t \in Threads |-> NoTask]
    /\ woken_receiver = [t \in Threads |-> NoTask]
    /\ next_val = 1
    /\ owner = [v \in Values |-> NoTask]
    /\ told = [v \in Values |-> "nothing"]
    /\ received = [h \in Handles |-> <<>>]

-----------------------------------------------------------------------------
\* The handles a caller may pass: those of existing channels and a bad one.
Known == {h \in Handles : h < next_chan}
Args  == Known \cup {NoChan}

\* The crossbeam queue has room for another message.
Room(h) == capacity[h] = 0 \/ Len(queue[h]) < capacity[h]

(* A thread is free to make a call.  The id of a task it has woken is read  *)
(* before the next call, as the calls that store one ask for.               *)
Ready(t) ==
    /\ pc[t] = "idle"
    /\ woken_sender[t] = NoTask
    /\ woken_receiver[t] = NoTask

\* The call of thread t on handle h returns r, or goes on with r = 0.
Return(t, h, r) == at' = [at EXCEPT ![t] = h] /\ ret' = [ret EXCEPT ![t] = r]

\* The next message is taken by a call of thread t, which is told so much.
NewMessage(t, what) ==
    /\ next_val' = next_val + 1
    /\ owner' = [owner EXCEPT ![next_val] = t]
    /\ told' = [told EXCEPT ![next_val] = what]

Create(t, c) ==
    /\ Ready(t)
    /\ next_chan \in Handles
    /\ next_chan' = next_chan + 1
    /\ capacity' = [capacity EXCEPT ![next_chan] = IF c <= 0 THEN 0 ELSE c]
    /\ Return(t, next_chan, next_chan)
    /\ UNCHANGED <<closed, queue, waiting_senders, waiting_receivers, pc, item,
                   woken_sender, woken_receiver, histVars>>

\* Mutant: close discards the messages still in the queue.
Mut_Close(t, h) ==
    /\ "close" \in ops
    /\ Ready(t)
    /\ closed' = [g \in Handles |-> closed[g] \/ g = h]
    /\ queue' = [g \in Handles |-> IF g = h THEN <<>> ELSE queue[g]]
    /\ Return(t, h, IF h = NoChan THEN 1 ELSE 0)
    /\ UNCHANGED <<next_chan, capacity, waiting_senders, waiting_receivers,
                   pc, item, woken_sender, woken_receiver, histVars>>

\* Only the flag is set: nobody who waits is told.
Close(t, h) ==
    /\ "close" \in ops
    /\ Ready(t)
    /\ closed' = [g \in Handles |-> closed[g] \/ g = h]
    /\ Return(t, h, IF h = NoChan THEN 1 ELSE 0)
    /\ UNCHANGED <<next_chan, capacity, queue, waiting_senders, waiting_receivers,
                   pc, item, woken_sender, woken_receiver, histVars>>

-----------------------------------------------------------------------------
(* Sending.                                                                *)

Refusal(h) == IF h = NoChan THEN 3 ELSE IF closed[h] THEN 2 ELSE 1

\* Mutant: the closed flag is not looked at.
Mut_Admits(h) == h # NoChan /\ Room(h)

Admits(h) == h # NoChan /\ ~closed[h] /\ Room(h)

MustWaitToSend(h) == h # NoChan /\ ~closed[h] /\ ~Room(h)

(* The critical section of send: the message enters the queue, and the      *)
(* thread goes on at place p, or the call is refused.                       *)
TrySend(t, h, p) ==
    /\ next_val \in Values
    /\ IF Admits(h)
       THEN /\ queue' = [queue EXCEPT ![h] = Append(@, next_val)]
            /\ NewMessage(t, "sent")
            /\ pc' = [pc EXCEPT ![t] = p]
            /\ Return(t, h, 0)
       ELSE /\ Return(t, h, Refusal(h))
            /\ UNCHANGED <<queue, next_val, owner, told, pc>>
    /\ UNCHANGED <<next_chan, capacity, closed, waiting_senders, waiting_receivers,
                   item, woken_sender, woken_receiver, received>>

Send(t, h) == "send" \in ops /\ Ready(t) /\ TrySend(t, h, "idle")

SendAndWake(t, h) ==
    "send_and_wake" \in ops /\ Ready(t) /\ TrySend(t, h, "wakereceiver")

\* Mutant: the id of the popped receiver is not stored.
Mut_WakeReceiver(t) ==
    /\ pc[t] = "wakereceiver"
    /\ LET waiting == waiting_receivers[at[t]]
       IN IF waiting = <<>>
          THEN UNCHANGED waiting_receivers
          ELSE waiting_receivers' =
                  [waiting_receivers EXCEPT ![at[t]] = Tail(waiting)]
    /\ pc' = [pc EXCEPT ![t] = "idle"]
    /\ UNCHANGED <<next_chan, capacity, closed, queue, waiting_senders, at, item,
                   ret, woken_sender, woken_receiver, histVars>>

\* The second critical section of send_and_wake.
WakeReceiver(t) ==
    /\ pc[t] = "wakereceiver"
    /\ LET waiting == waiting_receivers[at[t]]
       IN IF waiting = <<>>
          THEN UNCHANGED <<waiting_receivers, woken_receiver>>
          ELSE /\ waiting_receivers' =
                     [waiting_receivers EXCEPT ![at[t]] = Tail(waiting)]
               /\ woken_receiver' = [woken_receiver EXCEPT ![t] = Head(waiting)]
    /\ pc' = [pc EXCEPT ![t] = "idle"]
    /\ UNCHANGED <<next_chan, capacity, closed, queue, waiting_senders, at, item,
                   ret, woken_sender, histVars>>

\* A full channel registers the task with its message and tells it to suspend.
SendWithTask(t, h) ==
    /\ "send_with_task" \in ops
    /\ Ready(t)
    /\ \/ ~MustWaitToSend(h) /\ TrySend(t, h, "idle")
       \/ /\ MustWaitToSend(h)
          /\ next_val \in Values
          /\ waiting_senders' = [waiting_senders EXCEPT
                                    ![h] = Append(@, <<t, next_val>>)]
          /\ NewMessage(t, "wait")
          /\ pc' = [pc EXCEPT ![t] = "suspended"]
          /\ Return(t, h, 1)
          /\ UNCHANGED <<next_chan, capacity, closed, queue, waiting_receivers,
                         item, woken_sender, woken_receiver, received>>

(* A blocking send looks at the closed flag once, when it clones the sender *)
(* end.  A refused one looks the handle up again to tell 2 from 3.          *)
StartBlockingSend(t, h) ==
    /\ next_val \in Values
    /\ IF h = NoChan \/ closed[h]
       THEN /\ Return(t, h, Refusal(h))
            /\ UNCHANGED <<pc, item, next_val, owner, told>>
       ELSE /\ pc' = [pc EXCEPT ![t] = "sending"]
            /\ item' = [item EXCEPT ![t] = next_val]
            /\ NewMessage(t, "nothing")
            /\ Return(t, h, 0)
    /\ UNCHANGED <<chanVars, woken_sender, woken_receiver, received>>

SendBlocking(t, h) == "send_blocking" \in ops /\ Ready(t) /\ StartBlockingSend(t, h)

\* The blocked sender finds room, whether or not the channel is closed by now.
CompleteSend(t) ==
    /\ pc[t] = "sending"
    /\ Room(at[t])
    /\ queue' = [queue EXCEPT ![at[t]] = Append(@, item[t])]
    /\ told' = [told EXCEPT ![item[t]] = "sent"]
    /\ item' = [item EXCEPT ![t] = 0]
    /\ pc' = [pc EXCEPT ![t] = "idle"]
    /\ Return(t, at[t], 0)
    /\ UNCHANGED <<next_chan, capacity, closed, waiting_senders, waiting_receivers,
                   woken_sender, woken_receiver, next_val, owner, received>>

-----------------------------------------------------------------------------
(* Receiving.                                                              *)

NotReceived(h) == IF h # NoChan /\ ~closed[h] THEN -2 ELSE -3

HasMessage(h) == h # NoChan /\ queue[h] # <<>>

MustWaitToReceive(h) == h # NoChan /\ ~closed[h] /\ queue[h] = <<>>

\* Thread t takes the first message of channel h and goes on at place p.
Take(t, h, p) ==
    /\ queue' = [queue EXCEPT ![h] = Tail(@)]
    /\ received' = [received EXCEPT ![h] = Append(@, Head(queue[h]))]
    /\ pc' = [pc EXCEPT ![t] = p]
    /\ Return(t, h, Payload(Head(queue[h])))
    /\ UNCHANGED <<next_chan, capacity, closed, waiting_senders, waiting_receivers,
                   item, woken_sender, woken_receiver, next_val, owner, told>>

\* The call of t finds no message to take.
TakeNothing(t, h) ==
    /\ Return(t, h, NotReceived(h))
    /\ pc' = [pc EXCEPT ![t] = "idle"]
    /\ UNCHANGED <<chanVars, item, woken_sender, woken_receiver, histVars>>

Recv(t, h) ==
    /\ "recv" \in ops
    /\ Ready(t)
    /\ IF HasMessage(h) THEN Take(t, h, "idle") ELSE TakeNothing(t, h)

(* recv_and_wake tells from the returned integer whether it has received:   *)
(* a payload of -2 or -3 reads as "nothing received".                       *)
RecvAndWake(t, h) ==
    /\ "recv_and_wake" \in ops
    /\ Ready(t)
    /\ IF HasMessage(h)
       THEN Take(t, h, IF Payload(Head(queue[h])) \in {-2, -3}
                       THEN "idle" ELSE "wakesender")
       ELSE TakeNothing(t, h)

\* Mutant: the message of the woken sender is left to the sender.
Mut_WakeSenderNoSend(t) ==
    /\ pc[t] = "wakesender"
    /\ LET h       == at[t]
           waiting == waiting_senders[h]
       IN IF waiting = <<>>
          THEN UNCHANGED <<waiting_senders, told, woken_sender>>
          ELSE /\ waiting_senders' =
                     [waiting_senders EXCEPT ![h] = Tail(waiting)]
               /\ told' = [told EXCEPT ![Head(waiting)[2]] = "woken"]
               /\ woken_sender' = [woken_sender EXCEPT ![t] = Head(waiting)[1]]
    /\ pc' = [pc EXCEPT ![t] = "idle"]
    /\ UNCHANGED <<next_chan, capacity, closed, queue, waiting_receivers, at, item,
                   ret, woken_receiver, next_val, owner, received>>

\* Mutant: the waiting sender is looked at, not popped.
Mut_WakeSenderPeek(t) ==
    /\ pc[t] = "wakesender"
    /\ LET h       == at[t]
           waiting == waiting_senders[h]
       IN IF waiting = <<>>
          THEN UNCHANGED <<queue, told, woken_sender>>
          ELSE /\ queue' = IF Room(h)
                           THEN [queue EXCEPT ![h] = Append(@, Head(waiting)[2])]
                           ELSE queue
               /\ told' = [told EXCEPT ![Head(waiting)[2]] = "woken"]
               /\ woken_sender' = [woken_sender EXCEPT ![t] = Head(waiting)[1]]
    /\ pc' = [pc EXCEPT ![t] = "idle"]
    /\ UNCHANGED <<next_chan, capacity, closed, waiting_senders, waiting_receivers,
                   at, item, ret, woken_receiver, next_val, owner, received>>

(* The second critical section of recv_and_wake: the first waiting sender   *)
(* is woken, and the result of sending its message is ignored.              *)
WakeSender(t) ==
    /\ pc[t] = "wakesender"
    /\ LET h       == at[t]
           waiting == waiting_senders[h]
       IN IF waiting = <<>>
          THEN UNCHANGED <<waiting_senders, queue, told, woken_sender>>
          ELSE /\ waiting_senders' =
                     [waiting_senders EXCEPT ![h] = Tail(waiting)]
               /\ queue' = IF Room(h)
                           THEN [queue EXCEPT ![h] = Append(@, Head(waiting)[2])]
                           ELSE queue
               /\ told' = [told EXCEPT ![Head(waiting)[2]] = "woken"]
               /\ woken_sender' = [woken_sender EXCEPT ![t] = Head(waiting)[1]]
    /\ pc' = [pc EXCEPT ![t] = "idle"]
    /\ UNCHANGED <<next_chan, capacity, closed, waiting_receivers, at, item, ret,
                   woken_receiver, next_val, owner, received>>

(* An empty open channel registers the task and tells it to suspend.  A     *)
(* woken receiver repeats the call.                                         *)
RecvWithTask(t, h) ==
    /\ "recv_with_task" \in ops
    /\ Ready(t) \/ (pc[t] = "retry" /\ h = at[t])
    /\ \/ HasMessage(h) /\ Take(t, h, "idle")
       \/ ~HasMessage(h) /\ ~MustWaitToReceive(h) /\ TakeNothing(t, h)
       \/ /\ MustWaitToReceive(h)
          /\ waiting_receivers' = [waiting_receivers EXCEPT ![h] = Append(@, t)]
          /\ pc' = [pc EXCEPT ![t] = "suspended"]
          /\ Return(t, h, -2)
          /\ UNCHANGED <<next_chan, capacity, closed, queue, waiting_senders,
                         item, woken_sender, woken_receiver, histVars>>

\* A blocking receive never looks at the closed flag.
StartBlockingRecv(t, h) ==
    IF h = NoChan
    THEN TakeNothing(t, h)
    ELSE /\ pc' = [pc EXCEPT ![t] = "receiving"]
         /\ Return(t, h, 0)
         /\ UNCHANGED <<chanVars, item, woken_sender, woken_receiver, histVars>>

RecvBlocking(t, h) == "recv_blocking" \in ops /\ Ready(t) /\ StartBlockingRecv(t, h)

CompleteRecv(t) ==
    /\ pc[t] = "receiving"
    /\ HasMessage(at[t])
    /\ Take(t, at[t], "idle")

-----------------------------------------------------------------------------
(* Reading the id of a woken task clears it; the executor then resumes the  *)
(* task if it is suspended: a sender is done, a receiver repeats its call.  *)

GetWokenSender(t) ==
    /\ pc[t] = "idle"
    /\ woken_sender[t] # NoTask
    /\ pc' = [pc EXCEPT ![woken_sender[t]] = IF @ = "suspended" THEN "idle" ELSE @]
    /\ woken_sender' = [woken_sender EXCEPT ![t] = NoTask]
    /\ UNCHANGED <<chanVars, at, item, ret, woken_receiver, histVars>>

GetWokenReceiver(t) ==
    /\ pc[t] = "idle"
    /\ woken_receiver[t] # NoTask
    /\ pc' = [pc EXCEPT ![woken_receiver[t]] =
                 IF @ = "suspended" THEN "retry" ELSE @]
    /\ woken_receiver' = [woken_receiver EXCEPT ![t] = NoTask]
    /\ UNCHANGED <<chanVars, at, item, ret, woken_sender, histVars>>

-----------------------------------------------------------------------------
Call(t) ==
    \/ \E c \in Capacities : Create(t, c)
    \/ \E h \in Args : \/ Send(t, h) \/ SendAndWake(t, h) \/ SendWithTask(t, h)
                       \/ SendBlocking(t, h) \/ Recv(t, h) \/ RecvAndWake(t, h)
                       \/ RecvWithTask(t, h) \/ RecvBlocking(t, h) \/ Close(t, h)

\* The steps of a thread that is inside a call or has a task to resume.
Step(t) ==
    \/ WakeReceiver(t) \/ WakeSender(t) \/ CompleteSend(t) \/ CompleteRecv(t)
    \/ GetWokenSender(t) \/ GetWokenReceiver(t)

Next == (\E t \in Threads : Call(t) \/ Step(t)) /\ UNCHANGED ops

Spec == Init /\ [][Next]_vars

(* A thread inside a call is scheduled, a woken task is resumed and repeats *)
(* its call, and somebody keeps receiving with recv_and_wake: the consumer  *)
(* that a program with back-pressure has.                                   *)
Receive(t) == \E h \in Known : HasMessage(h) /\ RecvAndWake(t, h)

FairSpec ==
    /\ Spec
    /\ \A t \in Threads : WF_vars(Step(t) /\ UNCHANGED ops)
    /\ \A t \in Threads : WF_vars(/\ pc[t] = "retry"
                                  /\ RecvWithTask(t, at[t]) /\ UNCHANGED ops)
    /\ WF_vars((\E t \in Threads : Receive(t)) /\ UNCHANGED ops)

-----------------------------------------------------------------------------
(* Properties.                                                             *)

TypeOK ==
    /\ next_chan \in 1 .. MaxChans + 1
    /\ capacity \in [Handles -> Nat]
    /\ closed \in [Handles -> BOOLEAN]
    /\ queue \in [Handles -> Seq(Values)]
    /\ \A h \in Handles : capacity[h] # 0 => Len(queue[h]) <= capacity[h]
    /\ waiting_senders \in [Handles -> Seq(Threads \X Values)]
    /\ waiting_receivers \in [Handles -> Seq(Threads)]
    /\ pc \in [Threads -> PC]
    /\ at \in [Threads -> Handles \cup {NoChan}]
    /\ item \in [Threads -> Values \cup {0}]
    /\ ret \in [Threads -> Int]
    /\ woken_sender \in [Threads -> Threads \cup {NoTask}]
    /\ woken_receiver \in [Threads -> Threads \cup {NoTask}]
    /\ next_val \in 1 .. MaxValues + 1
    /\ owner \in [Values -> Threads \cup {NoTask}]
    /\ told \in [Values -> {"nothing", "wait", "sent", "woken"}]
    /\ received \in [Handles -> Seq(Values)]

(* The places where a message can be: a blocked sender, the list of waiting *)
(* senders, the queue, the messages received.                               *)
HeldBy(t, v)        == pc[t] = "sending" /\ item[t] = v
WaitsAt(h, i, v)    == i \in 1 .. Len(waiting_senders[h])
                       /\ waiting_senders[h][i][2] = v
QueuedAt(h, i, v)   == i \in 1 .. Len(queue[h]) /\ queue[h][i] = v
ReceivedAt(h, i, v) == i \in 1 .. Len(received[h]) /\ received[h][i] = v

InQueue(v)  == \E h \in Handles : \E i \in 1 .. Len(queue[h]) : QueuedAt(h, i, v)
WasTaken(v) == \E h \in Handles :
                  \E i \in 1 .. Len(received[h]) : ReceivedAt(h, i, v)

(* A message is never duplicated: it is in one place at a time, a waiting   *)
(* one leaves the list when it enters the queue, and it is received at most *)
(* once, whatever receivers and wakers race for it.                         *)
OnePlace(v) ==
    /\ \A s, t \in Threads : HeldBy(s, v) /\ HeldBy(t, v) => s = t
    /\ \A h \in Handles : \A i \in 1 .. Len(waiting_senders[h]) :
          WaitsAt(h, i, v) =>
             /\ \A g \in Handles : \A k \in 1 .. Len(waiting_senders[g]) :
                   WaitsAt(g, k, v) => g = h /\ k = i
             /\ \A t \in Threads : ~HeldBy(t, v)
    /\ \A h \in Handles : \A i \in 1 .. Len(queue[h]) : QueuedAt(h, i, v) =>
          /\ \A g \in Handles : \A k \in 1 .. Len(queue[g]) :
                QueuedAt(g, k, v) => g = h /\ k = i
          /\ \A t \in Threads : ~HeldBy(t, v)
          /\ \A g \in Handles : \A k \in 1 .. Len(waiting_senders[g]) :
                ~WaitsAt(g, k, v)
    /\ \A h \in Handles : \A i \in 1 .. Len(received[h]) : ReceivedAt(h, i, v) =>
          /\ \A g \in Handles : \A k \in 1 .. Len(received[g]) :
                ReceivedAt(g, k, v) => g = h /\ k = i
          /\ \A t \in Threads : ~HeldBy(t, v)
          /\ \A g \in Handles : \A k \in 1 .. Len(waiting_senders[g]) :
                ~WaitsAt(g, k, v)
          /\ ~InQueue(v)

MessagesOnce == \A v \in Values : OnePlace(v)

(* A message whose send returned 0 is never lost: it is in the queue or was *)
(* received, through closing and any number of other senders.               *)
SentIsKept == \A v \in Values : told[v] = "sent" => InQueue(v) \/ WasTaken(v)

(* A thread inside a call names an existing channel, and a blocked sender   *)
(* holds a message; a handle that is not handed out yet has an empty queue. *)
Hands ==
    /\ \A t \in Threads :
          /\ pc[t] # "idle" => at[t] \in Known
          /\ pc[t] = "sending" => item[t] \in Values
    /\ \A h \in Handles : h \notin Known => queue[h] = <<>>

\* The inductive invariant behind SentIsKept.
ChanInv == TypeOK /\ Hands /\ SentIsKept

(* The places where a suspended task is known: an entry of a list of        *)
(* waiting senders or receivers, the woken-task cell of a thread.           *)
SenderAt(h, i, t)   == i \in 1 .. Len(waiting_senders[h])
                       /\ waiting_senders[h][i][1] = t
ReceiverAt(h, i, t) == i \in 1 .. Len(waiting_receivers[h])
                       /\ waiting_receivers[h][i] = t
WokenBy(s, t)       == woken_sender[s] = t \/ woken_receiver[s] = t

(* A suspended task is known in exactly one place, so it is neither         *)
(* forgotten nor woken twice, and nobody else is registered.                *)
KnownOnce(t) ==
    /\ \A h \in Handles : \A i \in 1 .. Len(waiting_senders[h]) :
          SenderAt(h, i, t) =>
             /\ pc[t] = "suspended"
             /\ \A g \in Handles : \A k \in 1 .. Len(waiting_senders[g]) :
                   SenderAt(g, k, t) => g = h /\ k = i
             /\ \A g \in Handles : \A k \in 1 .. Len(waiting_receivers[g]) :
                   ~ReceiverAt(g, k, t)
    /\ \A h \in Handles : \A i \in 1 .. Len(waiting_receivers[h]) :
          ReceiverAt(h, i, t) =>
             /\ pc[t] = "suspended"
             /\ \A g \in Handles : \A k \in 1 .. Len(waiting_receivers[g]) :
                   ReceiverAt(g, k, t) => g = h /\ k = i
    /\ \A s \in Threads : WokenBy(s, t) =>
          /\ pc[t] = "suspended"
          /\ woken_sender[s] # woken_receiver[s]
          /\ \A r \in Threads : WokenBy(r, t) => r = s
          /\ \A h \in Handles : \A i \in 1 .. Len(waiting_senders[h]) :
                ~SenderAt(h, i, t)
          /\ \A h \in Handles : \A i \in 1 .. Len(waiting_receivers[h]) :
                ~ReceiverAt(h, i, t)

SuspendedOnce ==
    \A t \in Threads :
        /\ KnownOnce(t)
        /\ pc[t] = "suspended" =>
              \/ \E h \in Handles : \E i \in 1 .. Len(waiting_senders[h]) :
                    SenderAt(h, i, t)
              \/ \E h \in Handles : \E i \in 1 .. Len(waiting_receivers[h]) :
                    ReceiverAt(h, i, t)
              \/ \E s \in Threads : WokenBy(s, t)

(* The messages of one sender leave a channel in the order it sent them,    *)
(* whichever of the four ways of sending it used for each of them.          *)
SenderOrder ==
    \A h \in Handles :
        LET passed == received[h] \o queue[h]
        IN \A i, k \in 1 .. Len(passed) :
              i < k /\ owner[passed[i]] = owner[passed[k]] => passed[i] < passed[k]

\* Programs whose receivers all wake senders, and senders all wake receivers.
ReceiversWake ==
    /\ ops \cap {"recv", "recv_with_task", "recv_blocking"} = {}
    /\ \A v \in Values : Payload(v) \notin {-2, -3}
SendersWake == ops \cap {"send", "send_with_task", "send_blocking"} = {}

SendersHaveWakers ==
    \A h \in Handles : waiting_senders[h] # <<>> =>
        queue[h] # <<>> \/ \E t \in Threads : pc[t] = "wakesender" /\ at[t] = h

(* As long as every receiver uses recv_and_wake, a waiting sender has       *)
(* somebody to wake it: the next receiver of a message that is there, or a  *)
(* receiver between its two critical sections.                              *)
SenderHasWaker == ReceiversWake => SendersHaveWakers

\* The inductive invariant behind SenderHasWaker.
WakerInv == SendersHaveWakers /\ \A t \in Threads : pc[t] # "receiving"

(* The threads that are about to wake a receiver of channel h, and the      *)
(* receivers that have been woken and have not repeated their call.         *)
Wakers(h) == {t \in Threads : /\ pc[t] \in {"wakereceiver", "retry"}
                              /\ at[t] = h}
             \cup {t \in Threads : \E s \in Threads :
                      woken_receiver[s] = t /\ at[t] = h}

(* As long as every sender uses send_and_wake, a receiver only waits beside *)
(* messages when another task has been, or is being, woken for each one.    *)
ReceiverHasWaker ==
    SendersWake =>
        \A h \in Handles : waiting_receivers[h] # <<>> =>
            Len(queue[h]) <= Cardinality(Wakers(h))

\* Programs with no send that waits for room, whose messages do not read as -3.
StreamsEnd ==
    /\ ops \cap {"send_blocking", "send_with_task"} = {}
    /\ \A v \in Values : Payload(v) # -3

ToldTheEnd(t) == ret[t] = -3 /\ at[t] \in Handles

(* -3 is the end of the stream: a channel that has told a receiver "closed  *)
(* and empty" stays closed and empty, unless the program has sends that     *)
(* wait for room and are completed after close, or sends the integer -3.    *)
EndOfStreamIsFinal ==
    StreamsEnd => \A t \in Threads :
                     ToldTheEnd(t) => closed[at[t]] /\ queue[at[t]] = <<>>

\* The inductive invariant behind EndOfStreamIsFinal.
EndInv ==
    /\ \A t \in Threads : pc[t] # "sending"
    /\ \A h \in Handles : waiting_senders[h] = <<>>
    /\ \A t \in Threads : ToldTheEnd(t) => closed[at[t]] /\ queue[at[t]] = <<>>

(* No messages are lost: the message of a sender that was woken is in the   *)
(* queue or was received.                                                   *)
WokenSenderSent == \A v \in Values : told[v] = "woken" => InQueue(v) \/ WasTaken(v)

(* A suspended sender is resumed as long as somebody keeps receiving: it    *)
(* waits for ever only when every thread waits to send.                     *)
WaitingSendersResume ==
    \A h \in Handles, t \in Threads :
        (\E i \in 1 .. Len(waiting_senders[h]) : SenderAt(h, i, t))
            ~> \/ pc[t] = "idle"
               \/ \A s \in Threads : pc[s] \in {"suspended", "sending"}
=============================================================================
