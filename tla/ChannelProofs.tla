---------------------------- MODULE ChannelProofs ----------------------------
(***************************************************************************)
(* Theorems about MpmcChannel, Actor and ChannelSelect for any number of   *)
(* threads, channels, actors and messages.                                 *)
(***************************************************************************)
EXTENDS Actor, ChannelSelect, SequenceFacts

(* A thread between two steps of a call names an existing channel, and a   *)
(* blocked sender holds a message; a handle that is not handed out yet has *)
(* an empty queue.  Of suspended tasks nothing is said, so that these facts *)
(* hold of actors and selectors too.                                       *)
Inside ==
    /\ \A t \in Threads :
          /\ pc[t] \in {"sending", "receiving", "wakesender", "wakereceiver"} => at[t] \in Known
          /\ pc[t] = "sending" => item[t] \in Values
    /\ \A h \in Handles : h \notin Known => queue[h] = <<>>

CallInv == TypeOK /\ Inside /\ SentIsKept

(* Appending to the queue of a channel keeps what is in it.                *)
LEMMA PutKeeps ==
    ASSUME TypeOK, NEW h \in Handles, NEW m \in Values,
           queue' = [queue EXCEPT ![h] = Append(@, m)]
    PROVE  /\ \A v \in Values : InQueue(v) => InQueue(v)'
           /\ InQueue(m)'
           /\ queue' \in [Handles -> Seq(Values)]
           /\ \A g \in Handles : g # h => queue'[g] = queue[g]
           /\ Len(queue'[h]) = Len(queue[h]) + 1
<1>1. queue \in [Handles -> Seq(Values)] BY DEF TypeOK
<1>2. queue'[h] = Append(queue[h], m) /\ queue[h] \in Seq(Values) BY <1>1
<1>3. /\ queue' \in [Handles -> Seq(Values)]
      /\ \A g \in Handles : g # h => queue'[g] = queue[g]
      /\ Len(queue'[h]) = Len(queue[h]) + 1
  BY <1>1, <1>2
<1>4. ASSUME NEW v \in Values, InQueue(v) PROVE InQueue(v)'
  <2>0. PICK g \in Handles : \E i \in 1 .. Len(queue[g]) : queue[g][i] = v
    BY <1>4 DEF InQueue, QueuedAt
  <2>1. PICK i \in 1 .. Len(queue[g]) : queue[g][i] = v
    BY <2>0
  <2>2. i \in 1 .. Len(queue'[g]) /\ queue'[g][i] = v
    BY <1>1, <1>2, <2>1
  <2> QED BY <2>2 DEF InQueue, QueuedAt
<1>5. InQueue(m)'
  <2>1. /\ Len(queue[h]) + 1 \in 1 .. Len(queue'[h])
        /\ queue'[h][Len(queue[h]) + 1] = m
    BY <1>1, <1>2
  <2> QED BY <2>1 DEF InQueue, QueuedAt
<1> QED BY <1>3, <1>4, <1>5

(* A message that is taken from a queue is among the received ones after.   *)
LEMMA TakeKeeps ==
    ASSUME TypeOK, NEW h \in Handles, queue[h] # <<>>,
           queue' = [queue EXCEPT ![h] = Tail(@)],
           received' = [received EXCEPT ![h] = Append(@, Head(queue[h]))]
    PROVE  /\ \A v \in Values : InQueue(v) \/ WasTaken(v)
                                   => InQueue(v)' \/ WasTaken(v)'
           /\ queue' \in [Handles -> Seq(Values)]
           /\ received' \in [Handles -> Seq(Values)]
           /\ Head(queue[h]) \in Values
           /\ \A g \in Handles : g # h => queue'[g] = queue[g]
           /\ Len(queue'[h]) = Len(queue[h]) - 1
<1>1. queue \in [Handles -> Seq(Values)] /\ received \in [Handles -> Seq(Values)]
  BY DEF TypeOK
<1>2. /\ queue'[h] = Tail(queue[h]) /\ queue[h] \in Seq(Values)
      /\ received'[h] = Append(received[h], Head(queue[h]))
      /\ Head(queue[h]) \in Values
  BY <1>1
<1>3. /\ queue' \in [Handles -> Seq(Values)]
      /\ received' \in [Handles -> Seq(Values)]
      /\ \A g \in Handles : g # h => queue'[g] = queue[g]
      /\ Len(queue'[h]) = Len(queue[h]) - 1
  BY <1>1, <1>2
<1>4. ASSUME NEW v \in Values, WasTaken(v) PROVE WasTaken(v)'
  <2>0. PICK g \in Handles : \E i \in 1 .. Len(received[g]) : received[g][i] = v
    BY <1>4 DEF WasTaken, ReceivedAt
  <2>1. PICK i \in 1 .. Len(received[g]) : received[g][i] = v
    BY <2>0
  <2>2. i \in 1 .. Len(received'[g]) /\ received'[g][i] = v
    BY <1>1, <1>2, <2>1
  <2> QED BY <2>2 DEF WasTaken, ReceivedAt
<1>5. ASSUME NEW v \in Values, InQueue(v) PROVE InQueue(v)' \/ WasTaken(v)'
  <2>0. PICK g \in Handles : \E i \in 1 .. Len(queue[g]) : queue[g][i] = v
    BY <1>5 DEF InQueue, QueuedAt
  <2>1. PICK i \in 1 .. Len(queue[g]) : queue[g][i] = v
    BY <2>0
  <2>2. CASE g # h
    <3>1. queue'[g] = queue[g] BY <1>3, <2>2
    <3> QED BY <3>1, <2>1 DEF InQueue, QueuedAt
  <2>3. CASE g = h /\ i # 1
    <3>1. i - 1 \in 1 .. Len(queue'[g]) /\ queue'[g][i - 1] = v
      BY <1>1, <1>2, <2>1, <2>3
    <3> QED BY <3>1 DEF InQueue, QueuedAt
  <2>4. CASE g = h /\ i = 1
    <3>1. v = Head(queue[h]) BY <1>1, <1>2, <2>1, <2>4
    <3>2. /\ Len(received[h]) + 1 \in 1 .. Len(received'[h])
          /\ received'[h][Len(received[h]) + 1] = v
      BY <1>1, <1>2, <3>1
    <3> QED BY <3>2 DEF WasTaken, ReceivedAt
  <2> QED BY <2>2, <2>3, <2>4
<1> QED BY <1>2, <1>3, <1>4, <1>5

-----------------------------------------------------------------------------
(* A step that leaves the messages alone keeps the ones reported sent.      *)
LEMMA QuietInv ==
    ASSUME CallInv, UNCHANGED <<queue, told, received>>, TypeOK', Inside'
    PROVE  CallInv'
<1>1. \A v \in Values : (InQueue(v)' <=> InQueue(v)) /\ (WasTaken(v)' <=> WasTaken(v))
  BY DEF InQueue, QueuedAt, WasTaken, ReceivedAt
<1> QED BY <1>1 DEF CallInv, SentIsKept

(* A call of an idle thread that only returns preserves the invariant.      *)
LEMMA AnswerInv ==
    ASSUME CallInv, NEW t \in Threads, NEW h \in Args, NEW r \in Int,
           pc[t] = "idle",
           at' = [at EXCEPT ![t] = h], ret' = [ret EXCEPT ![t] = r],
           UNCHANGED <<chanVars, pc, item, woken_sender, woken_receiver, histVars>>
    PROVE  CallInv'
<1> USE DEF CallInv, chanVars, histVars
<1>1. TypeOK' BY DEF TypeOK, Args, Known
<1>2. Inside' BY DEF TypeOK, Inside, Known
<1> QED BY <1>1, <1>2, QuietInv

(* The critical section of send preserves the invariant.                   *)
LEMMA TrySendInv ==
    ASSUME CallInv, NEW t \in Threads, NEW h \in Args,
           NEW p \in {"idle", "wakereceiver"}, pc[t] = "idle", TrySend(t, h, p)
    PROVE  CallInv'
<1> USE NamesAssumption, BoundsAssumption DEF CallInv
<1>1. CASE Admits(h)
  <2>1. h \in Known /\ h \in Handles BY <1>1 DEF Admits, Args, Known
  <2>2. PICK m \in Values : m = next_val BY DEF TrySend
  <2>3. /\ queue' = [queue EXCEPT ![h] = Append(@, m)]
        /\ told' = [told EXCEPT ![m] = "sent"]
        /\ owner' = [owner EXCEPT ![m] = t]
        /\ next_val' = m + 1
        /\ pc' = [pc EXCEPT ![t] = p]
        /\ at' = [at EXCEPT ![t] = h] /\ ret' = [ret EXCEPT ![t] = 0]
        /\ UNCHANGED <<next_chan, capacity, closed, waiting_senders,
                 waiting_receivers, item, woken_sender, woken_receiver, received>>
    BY <1>1, <2>2 DEF TrySend, NewMessage, Return
  <2>4. /\ \A v \in Values : InQueue(v) => InQueue(v)'
        /\ InQueue(m)'
        /\ queue' \in [Handles -> Seq(Values)]
        /\ \A g \in Handles : g # h => queue'[g] = queue[g]
        /\ Len(queue'[h]) = Len(queue[h]) + 1
    BY <2>1, <2>3, PutKeeps
  <2>5. TypeOK'
    <3>1. next_val' \in 1 .. MaxValues + 1 BY <2>2, <2>3 DEF Values
    <3>2. \A g \in Handles : capacity'[g] # 0 => Len(queue'[g]) <= capacity'[g]
      BY <1>1, <2>1, <2>3, <2>4 DEF TypeOK, Admits, Room
    <3> QED BY <2>1, <2>3, <2>4, <3>1, <3>2 DEF TypeOK, PC
  <2>6. Inside' BY <2>1, <2>3, <2>4 DEF Inside, Known, TypeOK
  <2>7. SentIsKept'
    <3>1. \A v \in Values : WasTaken(v)' <=> WasTaken(v)
      BY <2>3 DEF WasTaken, ReceivedAt
    <3>2. \A v \in Values : v # m => told'[v] = told[v]
      BY <2>3 DEF TypeOK
    <3> QED BY <2>4, <3>1, <3>2 DEF SentIsKept
  <2> QED BY <2>5, <2>6, <2>7
<1>2. CASE ~Admits(h)
  <2>1. /\ at' = [at EXCEPT ![t] = h] /\ ret' = [ret EXCEPT ![t] = Refusal(h)]
        /\ UNCHANGED <<chanVars, pc, item, woken_sender, woken_receiver, histVars>>
    BY <1>2 DEF TrySend, Return, chanVars, histVars
  <2>2. Refusal(h) \in Int BY DEF Refusal
  <2> QED BY <2>1, <2>2, AnswerInv
<1> QED BY <1>1, <1>2

(* Taking the first message of a channel preserves the invariant.           *)
LEMMA TakeInv ==
    ASSUME CallInv, NEW t \in Threads, NEW h \in Args,
           NEW p \in {"idle", "wakesender"}, HasMessage(h), Take(t, h, p)
    PROVE  CallInv'
<1> USE NamesAssumption DEF CallInv
<1>1. h \in Known /\ h \in Handles /\ queue[h] # <<>>
  BY DEF HasMessage, Args, Known
<1>2. PICK m : m = Head(queue[h]) OBVIOUS
<1>3. /\ queue' = [queue EXCEPT ![h] = Tail(@)]
      /\ received' = [received EXCEPT ![h] = Append(@, Head(queue[h]))]
      /\ pc' = [pc EXCEPT ![t] = p]
      /\ at' = [at EXCEPT ![t] = h] /\ ret' = [ret EXCEPT ![t] = Payload(m)]
      /\ UNCHANGED <<next_chan, capacity, closed, waiting_senders,
               waiting_receivers, item, woken_sender, woken_receiver, next_val,
               owner, told>>
  BY <1>2 DEF Take, Return
<1>4. /\ \A v \in Values : InQueue(v) \/ WasTaken(v)
                               => InQueue(v)' \/ WasTaken(v)'
      /\ queue' \in [Handles -> Seq(Values)]
      /\ received' \in [Handles -> Seq(Values)]
      /\ m \in Values
      /\ \A g \in Handles : g # h => queue'[g] = queue[g]
      /\ Len(queue'[h]) = Len(queue[h]) - 1
  BY <1>1, <1>2, <1>3, TakeKeeps
<1>5. TypeOK'
  <2>1. Payload(m) \in Int BY <1>4, PayloadAssumption
  <2>2. \A g \in Handles : capacity'[g] # 0 => Len(queue'[g]) <= capacity'[g]
    BY <1>1, <1>3, <1>4 DEF TypeOK
  <2> QED BY <1>1, <1>3, <1>4, <2>1, <2>2 DEF TypeOK, PC
<1>6. Inside' BY <1>1, <1>3, <1>4 DEF Inside, Known, TypeOK
<1>7. SentIsKept' BY <1>3, <1>4 DEF SentIsKept
<1> QED BY <1>5, <1>6, <1>7

(* A call that finds no message preserves the invariant.                    *)
LEMMA TakeNothingInv ==
    ASSUME CallInv, NEW t \in Threads, NEW h \in Args, TakeNothing(t, h)
    PROVE  CallInv'
<1> USE DEF CallInv, chanVars, histVars
<1>1. /\ at' = [at EXCEPT ![t] = h] /\ ret' = [ret EXCEPT ![t] = NotReceived(h)]
      /\ pc' = [pc EXCEPT ![t] = "idle"]
      /\ UNCHANGED <<chanVars, item, woken_sender, woken_receiver, histVars>>
  BY DEF TakeNothing, Return
<1>2. NotReceived(h) \in Int BY DEF NotReceived
<1>3. TypeOK' BY <1>1, <1>2 DEF TypeOK, Args, Known, PC
<1>4. Inside' BY <1>1 DEF TypeOK, Inside, Known
<1> QED BY <1>1, <1>3, <1>4, QuietInv

(* Creating a channel preserves the invariant: its queue is still empty.    *)
LEMMA CreateInv ==
    ASSUME CallInv, NEW t \in Threads, NEW c \in Capacities, Create(t, c)
    PROVE  CallInv'
<1> USE BoundsAssumption, CapacitiesAssumption DEF CallInv, histVars
<1>1. PICK h \in Handles : h = next_chan BY DEF Create
<1>2. PICK n \in Nat : n = IF c <= 0 THEN 0 ELSE c BY CapacitiesAssumption
<1>3. /\ next_chan' = h + 1
      /\ capacity' = [capacity EXCEPT ![h] = n]
      /\ at' = [at EXCEPT ![t] = h] /\ ret' = [ret EXCEPT ![t] = h]
      /\ UNCHANGED <<closed, queue, waiting_senders, waiting_receivers, pc, item,
                     woken_sender, woken_receiver, histVars>>
  BY <1>1, <1>2 DEF Create, Return
<1>4. queue[h] = <<>> BY <1>1 DEF Inside, Known, Handles
<1>5. TypeOK'
  <2>1. next_chan' \in 1 .. MaxChans + 1 /\ h \in Int BY <1>1, <1>3 DEF Handles
  <2>2. \A g \in Handles : capacity'[g] # 0 => Len(queue'[g]) <= capacity'[g]
    BY <1>2, <1>3, <1>4 DEF TypeOK
  <2> QED BY <1>1, <1>2, <1>3, <2>1, <2>2 DEF TypeOK
<1>6. Inside'
  <2>1. \A g \in Handles : g \in Known => g \in Known'
    BY <1>1, <1>3 DEF Known, Handles
  <2>2. \A g \in Known : g \in Handles BY DEF Known
  <2>3. h \in Known' BY <1>1, <1>3 DEF Known, Handles
  <2> QED BY <1>1, <1>3, <2>1, <2>2, <2>3 DEF TypeOK, Inside
<1> QED BY <1>3, <1>5, <1>6, QuietInv

(* Closing a channel preserves the invariant.                               *)
LEMMA CloseInv ==
    ASSUME CallInv, NEW t \in Threads, NEW h \in Args, NEW r \in Int,
           pc[t] = "idle",
           closed' = [g \in Handles |-> closed[g] \/ g = h],
           at' = [at EXCEPT ![t] = h], ret' = [ret EXCEPT ![t] = r],
           UNCHANGED <<next_chan, capacity, queue, waiting_senders,
                       waiting_receivers, pc, item, woken_sender, woken_receiver,
                       histVars>>
    PROVE  CallInv'
<1> USE DEF CallInv, histVars
<1>1. closed' \in [Handles -> BOOLEAN] BY DEF TypeOK
<1>2. TypeOK' BY <1>1 DEF TypeOK, Args, Known
<1>3. Inside' BY DEF TypeOK, Inside, Known
<1> QED BY <1>2, <1>3, QuietInv

(* Waking a receiver preserves the invariant.                               *)
LEMMA WakeReceiverInv ==
    ASSUME CallInv, NEW t \in Threads, WakeReceiver(t)
    PROVE  CallInv'
<1> USE DEF CallInv, histVars
<1>1. /\ pc' = [pc EXCEPT ![t] = "idle"]
      /\ UNCHANGED <<next_chan, capacity, closed, queue, waiting_senders, at, item,
                     ret, woken_sender, histVars>>
  BY DEF WakeReceiver
<1>2. PICK h \in Handles : h = at[t]
  BY DEF WakeReceiver, Inside, Known
<1>3. /\ waiting_receivers' \in [Handles -> Seq(Threads)]
      /\ woken_receiver' \in [Threads -> Threads \cup {NoTask}]
  <2>1. waiting_receivers[h] \in Seq(Threads) BY DEF TypeOK
  <2>2. CASE waiting_receivers[h] = <<>>
    BY <1>2, <2>2 DEF WakeReceiver, TypeOK
  <2>3. CASE waiting_receivers[h] # <<>>
    <3>1. /\ Head(waiting_receivers[h]) \in Threads
          /\ Tail(waiting_receivers[h]) \in Seq(Threads)
      BY <2>1, <2>3
    <3>2. /\ waiting_receivers' =
                [waiting_receivers EXCEPT ![h] = Tail(waiting_receivers[h])]
          /\ woken_receiver' =
                [woken_receiver EXCEPT ![t] = Head(waiting_receivers[h])]
      BY <1>2, <2>3 DEF WakeReceiver
    <3> QED BY <3>1, <3>2 DEF TypeOK
  <2> QED BY <2>2, <2>3
<1>4. TypeOK' BY <1>1, <1>3 DEF TypeOK, PC
<1>5. Inside' BY <1>1 DEF TypeOK, Inside, Known
<1> QED BY <1>1, <1>4, <1>5, QuietInv

(* Sending with suspension preserves the invariant.                         *)
LEMMA SendWithTaskInv ==
    ASSUME CallInv, NEW t \in Threads, NEW h \in Args, SendWithTask(t, h)
    PROVE  CallInv'
<1> USE NamesAssumption, BoundsAssumption DEF CallInv
<1>1. pc[t] = "idle" BY DEF SendWithTask, Ready
<1>2. CASE TrySend(t, h, "idle") BY <1>1, <1>2, TrySendInv
<1>3. CASE MustWaitToSend(h) /\ ~TrySend(t, h, "idle")
  <2>1. h \in Known /\ h \in Handles BY <1>3 DEF MustWaitToSend, Args, Known
  <2>2. PICK m \in Values : m = next_val BY <1>3 DEF SendWithTask
  <2>3. /\ waiting_senders' = [waiting_senders EXCEPT ![h] = Append(@, <<t, m>>)]
        /\ told' = [told EXCEPT ![m] = "wait"]
        /\ owner' = [owner EXCEPT ![m] = t]
        /\ next_val' = m + 1
        /\ pc' = [pc EXCEPT ![t] = "suspended"]
        /\ at' = [at EXCEPT ![t] = h] /\ ret' = [ret EXCEPT ![t] = 1]
        /\ UNCHANGED <<next_chan, capacity, closed, queue, waiting_receivers,
                       item, woken_sender, woken_receiver, received>>
    BY <1>3, <2>2 DEF SendWithTask, NewMessage, Return
  <2>4. TypeOK'
    <3>1. next_val' \in 1 .. MaxValues + 1 BY <2>2, <2>3 DEF Values
    <3>2. waiting_senders' \in [Handles -> Seq(Threads \X Values)]
      BY <2>1, <2>3 DEF TypeOK
    <3> QED BY <2>1, <2>3, <3>1, <3>2 DEF TypeOK, PC
  <2>5. Inside' BY <2>1, <2>3 DEF Inside, Known, TypeOK
  <2>6. SentIsKept'
    <3>1. \A v \in Values : (InQueue(v)' <=> InQueue(v)) /\ (WasTaken(v)' <=> WasTaken(v))
      BY <2>3 DEF InQueue, QueuedAt, WasTaken, ReceivedAt
    <3>2. \A v \in Values : told'[v] = "sent" => told[v] = "sent"
      BY <2>3 DEF TypeOK
    <3> QED BY <3>1, <3>2 DEF SentIsKept
  <2> QED BY <2>4, <2>5, <2>6
<1> QED BY <1>2, <1>3 DEF SendWithTask

(* Entering a blocking send preserves the invariant.                        *)
LEMMA SendBlockingInv ==
    ASSUME CallInv, NEW t \in Threads, NEW h \in Args, pc[t] = "idle",
           StartBlockingSend(t, h)
    PROVE  CallInv'
<1> USE NamesAssumption, BoundsAssumption DEF CallInv
<1>1. pc[t] = "idle" /\ StartBlockingSend(t, h) OBVIOUS
<1>2. CASE h = NoChan \/ closed[h]
  <2>1. /\ at' = [at EXCEPT ![t] = h] /\ ret' = [ret EXCEPT ![t] = Refusal(h)]
        /\ UNCHANGED <<chanVars, pc, item, woken_sender, woken_receiver, histVars>>
    BY <1>1, <1>2 DEF StartBlockingSend, Return, histVars
  <2>2. Refusal(h) \in Int BY DEF Refusal
  <2> QED BY <1>1, <2>1, <2>2, AnswerInv
<1>3. CASE ~(h = NoChan \/ closed[h])
  <2>1. h \in Known /\ h \in Handles BY <1>3 DEF Args, Known
  <2>2. PICK m \in Values : m = next_val BY <1>1 DEF StartBlockingSend
  <2>3. /\ item' = [item EXCEPT ![t] = m]
        /\ told' = [told EXCEPT ![m] = "nothing"]
        /\ owner' = [owner EXCEPT ![m] = t]
        /\ next_val' = m + 1
        /\ pc' = [pc EXCEPT ![t] = "sending"]
        /\ at' = [at EXCEPT ![t] = h] /\ ret' = [ret EXCEPT ![t] = 0]
        /\ UNCHANGED <<chanVars, woken_sender, woken_receiver, received>>
    BY <1>1, <1>3, <2>2 DEF StartBlockingSend, NewMessage, Return
  <2>4. TypeOK'
    <3>1. next_val' \in 1 .. MaxValues + 1 BY <2>2, <2>3 DEF Values
    <3> QED BY <2>1, <2>3, <3>1 DEF TypeOK, PC, chanVars
  <2>5. Inside' BY <2>1, <2>3 DEF Inside, Known, TypeOK, chanVars
  <2>6. SentIsKept'
    <3>1. \A v \in Values : (InQueue(v)' <=> InQueue(v)) /\ (WasTaken(v)' <=> WasTaken(v))
      BY <2>3 DEF InQueue, QueuedAt, WasTaken, ReceivedAt, chanVars
    <3>2. \A v \in Values : told'[v] = "sent" => told[v] = "sent"
      BY <2>3 DEF TypeOK
    <3> QED BY <3>1, <3>2 DEF SentIsKept
  <2> QED BY <2>4, <2>5, <2>6
<1> QED BY <1>2, <1>3

(* The completion of a blocking send preserves the invariant.               *)
LEMMA CompleteSendInv ==
    ASSUME CallInv, NEW t \in Threads, CompleteSend(t)
    PROVE  CallInv'
<1> USE DEF CallInv
<1>1. PICK h \in Known : h = at[t] BY DEF CompleteSend, Inside
<1>2. PICK m \in Values : m = item[t] BY DEF CompleteSend, Inside
<1>3. h \in Handles BY DEF Known
<1>4. /\ Room(h)
      /\ queue' = [queue EXCEPT ![h] = Append(@, m)]
      /\ told' = [told EXCEPT ![m] = "sent"]
      /\ item' = [item EXCEPT ![t] = 0]
      /\ pc' = [pc EXCEPT ![t] = "idle"]
      /\ at' = [at EXCEPT ![t] = h] /\ ret' = [ret EXCEPT ![t] = 0]
      /\ UNCHANGED <<next_chan, capacity, closed, waiting_senders,
               waiting_receivers, woken_sender, woken_receiver, next_val, owner,
               received>>
  BY <1>1, <1>2 DEF CompleteSend, Return
<1>5. /\ \A v \in Values : InQueue(v) => InQueue(v)'
      /\ InQueue(m)'
      /\ queue' \in [Handles -> Seq(Values)]
      /\ \A g \in Handles : g # h => queue'[g] = queue[g]
      /\ Len(queue'[h]) = Len(queue[h]) + 1
  BY <1>3, <1>4, PutKeeps
<1>6. TypeOK'
  <2>1. \A g \in Handles : capacity'[g] # 0 => Len(queue'[g]) <= capacity'[g]
    BY <1>3, <1>4, <1>5 DEF TypeOK, Room
  <2> QED BY <1>3, <1>4, <1>5, <2>1 DEF TypeOK, PC
<1>7. Inside' BY <1>1, <1>3, <1>4, <1>5 DEF Inside, Known, TypeOK
<1>8. SentIsKept'
  <2>1. \A v \in Values : WasTaken(v)' <=> WasTaken(v)
    BY <1>4 DEF WasTaken, ReceivedAt
  <2>2. \A v \in Values : v # m => told'[v] = told[v] BY <1>4 DEF TypeOK
  <2> QED BY <1>5, <2>1, <2>2 DEF SentIsKept
<1> QED BY <1>6, <1>7, <1>8

(* Waking a sender preserves the invariant, whether or not its message fits. *)
LEMMA WakeSenderInv ==
    ASSUME CallInv, NEW t \in Threads, WakeSender(t)
    PROVE  CallInv'
<1> USE DEF CallInv
<1>1. PICK h \in Known : h = at[t] BY DEF WakeSender, Inside
<1>2. h \in Handles BY DEF Known
<1>3. /\ pc' = [pc EXCEPT ![t] = "idle"]
      /\ UNCHANGED <<next_chan, capacity, closed, waiting_receivers, at, item, ret,
                     woken_receiver, next_val, owner, received>>
  BY DEF WakeSender
<1>4. waiting_senders[h] \in Seq(Threads \X Values) BY <1>2 DEF TypeOK
<1>5. \A v \in Values : WasTaken(v)' <=> WasTaken(v)
  BY <1>3 DEF WasTaken, ReceivedAt
<1>6. CASE waiting_senders[h] = <<>>
  <2>1. UNCHANGED <<waiting_senders, queue, told, woken_sender>>
    BY <1>1, <1>6 DEF WakeSender
  <2>2. TypeOK' BY <1>3, <2>1 DEF TypeOK, PC
  <2>3. Inside' BY <1>3, <2>1 DEF Inside, Known, TypeOK
  <2> QED BY <1>3, <2>1, <2>2, <2>3, QuietInv
<1>7. CASE waiting_senders[h] # <<>>
  <2>1. Head(waiting_senders[h]) \in Threads \X Values BY <1>4, <1>7
  <2>2. PICK s \in Threads, m \in Values : Head(waiting_senders[h]) = <<s, m>>
    BY <2>1
  <2>3. /\ waiting_senders' =
              [waiting_senders EXCEPT ![h] = Tail(waiting_senders[h])]
        /\ queue' = IF Room(h) THEN [queue EXCEPT ![h] = Append(@, m)] ELSE queue
        /\ told' = [told EXCEPT ![m] = "woken"]
        /\ woken_sender' = [woken_sender EXCEPT ![t] = s]
    BY <1>1, <1>7, <2>2 DEF WakeSender
  <2>4. waiting_senders' \in [Handles -> Seq(Threads \X Values)]
    BY <1>2, <1>4, <1>7, <2>3 DEF TypeOK
  <2>5. \A v \in Values : told'[v] = "sent" => told[v] = "sent"
    BY <2>3 DEF TypeOK
  <2>6. CASE Room(h)
    <3>1. queue' = [queue EXCEPT ![h] = Append(@, m)] BY <2>3, <2>6
    <3>2. /\ \A v \in Values : InQueue(v) => InQueue(v)'
          /\ queue' \in [Handles -> Seq(Values)]
          /\ \A g \in Handles : g # h => queue'[g] = queue[g]
          /\ Len(queue'[h]) = Len(queue[h]) + 1
      BY <1>2, <3>1, PutKeeps
    <3>3. \A g \in Handles : capacity'[g] # 0 => Len(queue'[g]) <= capacity'[g]
      <4>1. capacity[h] # 0 => Len(queue[h]) < capacity[h] BY <2>6 DEF Room
      <4>2. /\ queue[h] \in Seq(Values) /\ capacity[h] \in Nat
            /\ \A g \in Handles : capacity[g] # 0 => Len(queue[g]) <= capacity[g]
        BY <1>2 DEF TypeOK
      <4>3. capacity' = capacity BY <1>3
      <4>4. capacity'[h] # 0 => Len(queue'[h]) <= capacity'[h]
        BY <3>2, <4>1, <4>2, <4>3
      <4>5. ASSUME NEW g \in Handles, g # h, capacity'[g] # 0
            PROVE  Len(queue'[g]) <= capacity'[g]
        BY <3>2, <4>2, <4>3, <4>5
      <4> QED BY <4>4, <4>5
    <3>4. TypeOK' BY <1>3, <2>3, <2>4, <3>2, <3>3 DEF TypeOK, PC
    <3>5. Inside' BY <1>3, <3>2 DEF Inside, Known, TypeOK
    <3>6. SentIsKept' BY <1>5, <2>5, <3>2 DEF SentIsKept
    <3> QED BY <3>4, <3>5, <3>6
  <2>7. CASE ~Room(h)
    <3>1. queue' = queue BY <2>3, <2>7
    <3>2. TypeOK' BY <1>3, <2>3, <2>4, <3>1 DEF TypeOK, PC
    <3>3. Inside' BY <1>3, <3>1 DEF Inside, Known, TypeOK
    <3>4. \A v \in Values : InQueue(v)' <=> InQueue(v)
      BY <3>1 DEF InQueue, QueuedAt
    <3>5. SentIsKept' BY <1>5, <2>5, <3>4 DEF SentIsKept
    <3> QED BY <3>2, <3>3, <3>5
  <2> QED BY <2>6, <2>7
<1> QED BY <1>6, <1>7

(* Receiving with suspension preserves the invariant.                       *)
LEMMA RecvWithTaskInv ==
    ASSUME CallInv, NEW t \in Threads, NEW h \in Args, RecvWithTask(t, h)
    PROVE  CallInv'
<1> USE NamesAssumption DEF CallInv
<1>1. CASE HasMessage(h) /\ Take(t, h, "idle") BY <1>1, TakeInv
<1>2. CASE TakeNothing(t, h) BY <1>2, TakeNothingInv
<1>3. CASE MustWaitToReceive(h) /\ ~TakeNothing(t, h)
                                /\ ~(HasMessage(h) /\ Take(t, h, "idle"))
  <2>1. h \in Known /\ h \in Handles BY <1>3 DEF MustWaitToReceive, Args, Known
  <2>2. /\ waiting_receivers' = [waiting_receivers EXCEPT ![h] = Append(@, t)]
        /\ pc' = [pc EXCEPT ![t] = "suspended"]
        /\ at' = [at EXCEPT ![t] = h] /\ ret' = [ret EXCEPT ![t] = -2]
        /\ UNCHANGED <<next_chan, capacity, closed, queue, waiting_senders, item,
                       woken_sender, woken_receiver, histVars>>
    BY <1>3 DEF RecvWithTask, Return
  <2>3. waiting_receivers' \in [Handles -> Seq(Threads)]
    BY <2>1, <2>2 DEF TypeOK
  <2>4. TypeOK' BY <2>1, <2>2, <2>3 DEF TypeOK, PC, histVars
  <2>5. Inside' BY <2>1, <2>2 DEF Inside, Known, TypeOK
  <2> QED BY <2>2, <2>4, <2>5, QuietInv DEF histVars
<1> QED BY <1>1, <1>2, <1>3 DEF RecvWithTask

(* Entering a blocking receive preserves the invariant.                     *)
LEMMA RecvBlockingInv ==
    ASSUME CallInv, NEW t \in Threads, NEW h \in Args,
           StartBlockingRecv(t, h)
    PROVE  CallInv'
<1> USE NamesAssumption DEF CallInv, chanVars, histVars
<1>1. CASE h = NoChan BY <1>1, TakeNothingInv DEF StartBlockingRecv
<1>2. CASE h # NoChan
  <2>1. h \in Known /\ h \in Handles BY <1>2 DEF Args, Known
  <2>2. /\ pc' = [pc EXCEPT ![t] = "receiving"]
        /\ at' = [at EXCEPT ![t] = h] /\ ret' = [ret EXCEPT ![t] = 0]
        /\ UNCHANGED <<chanVars, item, woken_sender, woken_receiver, histVars>>
    BY <1>2 DEF StartBlockingRecv, Return
  <2>3. TypeOK' BY <2>1, <2>2 DEF TypeOK, PC
  <2>4. Inside' BY <2>1, <2>2 DEF Inside, Known, TypeOK
  <2> QED BY <2>2, <2>3, <2>4, QuietInv
<1> QED BY <1>1, <1>2

(* Reading the id of a woken task and resuming it preserve the invariant.   *)
LEMMA GetWokenInv ==
    ASSUME CallInv, NEW t \in Threads, GetWokenSender(t) \/ GetWokenReceiver(t)
    PROVE  CallInv'
<1> USE NamesAssumption DEF CallInv, chanVars, histVars
<1>1. CASE GetWokenSender(t)
  <2>1. PICK s \in Threads : s = woken_sender[t] BY <1>1 DEF GetWokenSender, TypeOK
  <2>2. /\ pc' = [pc EXCEPT ![s] = IF pc[s] = "suspended" THEN "idle" ELSE pc[s]]
        /\ woken_sender' = [woken_sender EXCEPT ![t] = NoTask]
        /\ UNCHANGED <<chanVars, at, item, ret, woken_receiver, histVars>>
    BY <1>1, <2>1 DEF GetWokenSender
  <2>3. TypeOK' BY <2>2 DEF TypeOK, PC
  <2>4. Inside' BY <2>2 DEF Inside, Known, TypeOK
  <2> QED BY <2>2, <2>3, <2>4, QuietInv
<1>2. CASE GetWokenReceiver(t)
  <2>1. PICK s \in Threads : s = woken_receiver[t]
    BY <1>2 DEF GetWokenReceiver, TypeOK
  <2>2. /\ pc' = [pc EXCEPT ![s] = IF pc[s] = "suspended" THEN "retry" ELSE pc[s]]
        /\ woken_receiver' = [woken_receiver EXCEPT ![t] = NoTask]
        /\ UNCHANGED <<chanVars, at, item, ret, woken_sender, histVars>>
    BY <1>2, <2>1 DEF GetWokenReceiver
  <2>3. TypeOK' BY <2>2 DEF TypeOK, PC
  <2>4. Inside' BY <2>2 DEF Inside, Known, TypeOK
  <2> QED BY <2>2, <2>3, <2>4, QuietInv
<1> QED BY <1>1, <1>2

-----------------------------------------------------------------------------
(* The initial states satisfy the invariant.                                *)
LEMMA InitCallInv == Init => CallInv
<1> SUFFICES ASSUME Init PROVE CallInv OBVIOUS
<1>1. TypeOK
  BY BoundsAssumption, NamesAssumption DEF Init, TypeOK, PC, Handles, Values
<1>2. Inside BY DEF Init, Inside
<1>3. SentIsKept BY DEF Init, SentIsKept
<1> QED BY <1>1, <1>2, <1>3 DEF CallInv

(* A step of a thread keeps the invariant: one case per operation.          *)
LEMMA StepKeepsCallInv ==
    ASSUME CallInv, NEW t \in Threads, Call(t) \/ Step(t) PROVE CallInv'
<1>1. CASE Call(t)
  <2>1. CASE \E c \in Capacities : Create(t, c) BY <2>1, CreateInv
  <2>2. ASSUME NEW h \in Args,
               \/ Send(t, h) \/ SendAndWake(t, h) \/ SendWithTask(t, h)
               \/ SendBlocking(t, h) \/ Recv(t, h) \/ RecvAndWake(t, h)
               \/ RecvWithTask(t, h) \/ RecvBlocking(t, h) \/ Close(t, h)
        PROVE  CallInv'
    <3>1. CASE Send(t, h) BY <3>1, TrySendInv DEF Send, Ready
    <3>2. CASE SendAndWake(t, h) BY <3>2, TrySendInv DEF SendAndWake, Ready
    <3>3. CASE Recv(t, h) BY <3>3, TakeInv, TakeNothingInv DEF Recv
    <3>4. CASE RecvAndWake(t, h)
      <4>1. CASE HasMessage(h)
        <5>1. PICK p \in {"idle", "wakesender"} : Take(t, h, p)
          BY <3>4, <4>1 DEF RecvAndWake
        <5> QED BY <4>1, <5>1, TakeInv
      <4>2. CASE ~HasMessage(h) BY <3>4, <4>2, TakeNothingInv DEF RecvAndWake
      <4> QED BY <4>1, <4>2
    <3>5. CASE SendBlocking(t, h) BY <3>5, SendBlockingInv DEF SendBlocking, Ready
    <3>6. CASE RecvBlocking(t, h) BY <3>6, RecvBlockingInv DEF RecvBlocking
    <3>7. CASE Close(t, h)
      <4>1. PICK r \in Int : r = IF h = NoChan THEN 1 ELSE 0 OBVIOUS
      <4> QED BY <3>7, <4>1, CloseInv DEF Close, Return, Ready
    <3> QED BY <2>2, <3>1, <3>2, <3>3, <3>4, <3>5, <3>6, <3>7, SendWithTaskInv,
               RecvWithTaskInv
  <2> QED BY <1>1, <2>1, <2>2 DEF Call
<1>2. CASE Step(t)
  <2>1. CASE CompleteRecv(t)
    <3>1. at[t] \in Args
      BY <2>1 DEF CompleteRecv, CallInv, Inside, Args
    <3> QED BY <2>1, <3>1, TakeInv DEF CompleteRecv
  <2> QED BY <1>2, <2>1, WakeReceiverInv, WakeSenderInv, CompleteSendInv,
             GetWokenInv DEF Step
<1> QED BY <1>1, <1>2

(* Every step preserves the invariant.                                      *)
LEMMA NextCallInv == CallInv /\ [Next]_vars => CallInv'
<1> SUFFICES ASSUME CallInv, [Next]_vars PROVE CallInv' OBVIOUS
<1>1. CASE UNCHANGED vars
  <2>1. TypeOK' BY <1>1 DEF CallInv, TypeOK, vars, chanVars, callVars, histVars
  <2>2. Inside' BY <1>1 DEF CallInv, Inside, Known, vars, chanVars, callVars, histVars
  <2> QED BY <1>1, <2>1, <2>2, QuietInv DEF vars, chanVars, callVars, histVars
<1> QED BY <1>1, StepKeepsCallInv DEF Next

(* CallInv holds in every reachable state.                                  *)
LEMMA CallInvHolds == Spec => []CallInv
<1> QED BY InitCallInv, NextCallInv, PTL DEF Spec

Parked == \A t \in Threads : pc[t] \in {"suspended", "retry"} => at[t] \in Known

(* A step of a thread that does not leave it parked at a bad handle.        *)
LEMMA ParkedFrame ==
    ASSUME TypeOK, Parked, \A h \in Known : h \in Known', NEW t \in Threads,
           \A s \in Threads \ {t} : /\ at'[s] = at[s]
                                    /\ pc'[s] \in {"suspended", "retry"} =>
                                          pc[s] \in {"suspended", "retry"},
           pc'[t] \in {"suspended", "retry"} =>
              at'[t] \in Known \/ (at'[t] = at[t] /\ pc[t] \in {"suspended", "retry"})
    PROVE  Parked'
BY DEF Parked

(* A task was told to suspend by a channel that exists.                     *)
LEMMA NextParked == CallInv /\ Parked /\ [Next]_vars => Parked'
<1> SUFFICES ASSUME CallInv, Parked, [Next]_vars PROVE Parked' OBVIOUS
<1> USE NamesAssumption
<1>0. TypeOK BY DEF CallInv
<1>1. \A h \in Known : h \in Known'
  <2>1. next_chan' = next_chan \/ next_chan' = next_chan + 1
    BY DEF Next, Call, Step, Create, Send, SendAndWake, SendWithTask, SendBlocking, Recv, RecvAndWake,
       RecvWithTask, RecvBlocking, Close, TrySend, Take, TakeNothing, StartBlockingSend,
       StartBlockingRecv, WakeReceiver, WakeSender, CompleteSend, CompleteRecv, GetWokenSender,
       GetWokenReceiver, vars, chanVars
  <2> QED BY <1>0, <2>1 DEF TypeOK, Known, Handles
<1>2. ASSUME NEW t \in Threads, NEW h \in Args, SendWithTask(t, h) \/ RecvWithTask(t, h)
      PROVE  Parked'
  <2>1. CASE SendWithTask(t, h)
    <3>1. CASE TrySend(t, h, "idle")
      <4>1. pc[t] = "idle" BY <2>1 DEF SendWithTask, Ready
      <4>2. pc' = [pc EXCEPT ![t] = "idle"] \/ pc' = pc BY <3>1 DEF TrySend
      <4>3. at' = [at EXCEPT ![t] = h] BY <3>1 DEF TrySend, Return
      <4> QED BY <1>0, <1>1, <4>1, <4>2, <4>3, ParkedFrame DEF TypeOK
    <3>2. CASE MustWaitToSend(h) /\ ~TrySend(t, h, "idle")
      <4>1. h \in Known BY <3>2 DEF MustWaitToSend, Args
      <4>2. pc' = [pc EXCEPT ![t] = "suspended"] /\ at' = [at EXCEPT ![t] = h]
        BY <2>1, <3>2 DEF SendWithTask, Return
      <4> QED BY <1>0, <1>1, <4>1, <4>2, ParkedFrame DEF TypeOK
    <3> QED BY <2>1, <3>1, <3>2 DEF SendWithTask
  <2>2. CASE RecvWithTask(t, h)
    <3>1. CASE Take(t, h, "idle") \/ TakeNothing(t, h)
      BY <1>0, <1>1, <3>1, ParkedFrame DEF Take, TakeNothing, Return, TypeOK
    <3>2. CASE MustWaitToReceive(h) /\ ~(Take(t, h, "idle") \/ TakeNothing(t, h))
      <4>1. h \in Known BY <3>2 DEF MustWaitToReceive, Args
      <4>2. pc' = [pc EXCEPT ![t] = "suspended"] /\ at' = [at EXCEPT ![t] = h]
        BY <2>2, <3>2 DEF RecvWithTask, Return
      <4> QED BY <1>0, <1>1, <4>1, <4>2, ParkedFrame DEF TypeOK
    <3> QED BY <2>2, <3>1, <3>2 DEF RecvWithTask
  <2> QED BY <1>2, <2>1, <2>2
<1>3. ASSUME NEW t \in Threads,
             \/ \E c \in Capacities : Create(t, c)
             \/ \E h \in Args : \/ Send(t, h) \/ SendAndWake(t, h) \/ SendBlocking(t, h)
                                \/ Close(t, h)
      PROVE  Parked'
  BY <1>0, <1>1, <1>3, ParkedFrame DEF Create, Send, SendAndWake, SendBlocking, Close, TrySend,
     StartBlockingSend, Return, Ready, TypeOK
<1>4. ASSUME NEW t \in Threads, NEW h \in Args,
             Recv(t, h) \/ RecvAndWake(t, h) \/ RecvBlocking(t, h)
      PROVE  Parked'
  BY <1>0, <1>1, <1>4, ParkedFrame DEF Recv, RecvAndWake, RecvBlocking, StartBlockingRecv, Take,
     TakeNothing, Return, Ready, TypeOK
<1>5. ASSUME NEW t \in Threads, Step(t) PROVE Parked'
  <2>1. CASE WakeReceiver(t) \/ WakeSender(t) \/ CompleteSend(t) \/ CompleteRecv(t)
    BY <1>0, <1>1, <2>1, ParkedFrame DEF WakeReceiver, WakeSender, CompleteSend, CompleteRecv, Take,
       Return, TypeOK
  <2>2. CASE GetWokenSender(t) \/ GetWokenReceiver(t)
    <3>1. \A s \in Threads : /\ at'[s] = at[s]
                             /\ pc'[s] \in {"suspended", "retry"} =>
                                   pc[s] \in {"suspended", "retry"}
      BY <1>0, <2>2 DEF GetWokenSender, GetWokenReceiver, TypeOK
    <3> QED BY <1>0, <1>1, <3>1, ParkedFrame
  <2> QED BY <1>5, <2>1, <2>2 DEF Step
<1>6. CASE UNCHANGED vars
  BY <1>6 DEF vars, callVars, chanVars, Parked, Known
<1> QED BY <1>2, <1>3, <1>4, <1>5, <1>6 DEF Next, Call

(* ChanInv holds in every reachable state.                                  *)
THEOREM ChannelInvariant == Spec => []ChanInv
<1>1. Init => Parked BY DEF Init, Parked
<1>2. CallInv /\ Parked => ChanInv BY DEF CallInv, Parked, ChanInv, Inside, Hands, TypeOK, PC
<1> QED BY <1>1, <1>2, CallInvHolds, NextParked, InitCallInv, NextCallInv, PTL DEF Spec

(* Every channel keeps to its capacity, and every variable to its type.     *)
THEOREM ChannelTypeOK == Spec => []TypeOK
<1>1. CallInv => TypeOK BY DEF CallInv
<1> QED BY <1>1, CallInvHolds, PTL

(* No message whose send returned 0 is ever lost, for any number of         *)
(* senders, receivers and channels, and across close.                       *)
THEOREM ChannelSentIsKept == Spec => []SentIsKept
<1>1. CallInv => SentIsKept BY DEF CallInv
<1> QED BY <1>1, CallInvHolds, PTL

-----------------------------------------------------------------------------
(* SendersHaveWakers is kept by a step that registers no sender, empties no    *)
(* queue and leaves the threads that are about to wake a sender alone.      *)
LEMMA WakerFrame ==
    ASSUME WakerInv, waiting_senders' = waiting_senders,
           \A h \in Handles : queue[h] # <<>> => queue'[h] # <<>>,
           \A t \in Threads : pc[t] = "wakesender" =>
                                 pc'[t] = "wakesender" /\ at'[t] = at[t],
           \A t \in Threads : pc'[t] # "receiving"
    PROVE  WakerInv'
BY DEF WakerInv, SendersHaveWakers

(* With waking receivers every step keeps a waker for the waiting senders.  *)
LEMMA NextWaker ==
    ASSUME ReceiversWake, CallInv, WakerInv, [Next]_vars
    PROVE  WakerInv'
<1>1. /\ \A h \in Handles : queue[h] \in Seq(Values) /\ capacity[h] \in Nat
      /\ pc \in [Threads -> PC] /\ at \in [Threads -> Handles \cup {NoChan}]
      /\ queue \in [Handles -> Seq(Values)]
      /\ \A t \in Threads : pc[t] # "receiving"
      /\ waiting_senders \in [Handles -> Seq(Threads \X Values)]
      /\ woken_sender \in [Threads -> Threads \cup {NoTask}]
      /\ woken_receiver \in [Threads -> Threads \cup {NoTask}]
  BY DEF CallInv, TypeOK, WakerInv
<1>2. CASE UNCHANGED vars
  BY <1>1, <1>2, WakerFrame DEF vars, chanVars, callVars
<1>3. ASSUME NEW t \in Threads, NEW h \in Args,
             NEW p \in {"idle", "wakereceiver"}, pc[t] = "idle", TrySend(t, h, p)
      PROVE  WakerInv'
  <2>1. /\ waiting_senders' = waiting_senders
        /\ pc' = pc \/ pc' = [pc EXCEPT ![t] = p]
        /\ at' = [at EXCEPT ![t] = h]
    BY <1>3 DEF TrySend, Return
  <2>2. \A g \in Handles : queue[g] # <<>> => queue'[g] # <<>>
    BY <1>1, <1>3 DEF TrySend
  <2> QED BY <1>1, <1>3, <2>1, <2>2, WakerFrame
<1>4. ASSUME NEW t \in Threads, Call(t) PROVE WakerInv'
  <2>1. ASSUME NEW c \in Capacities, Create(t, c) PROVE WakerInv'
    BY <1>1, <2>1, WakerFrame DEF Create, Return, Ready
  <2>2. ASSUME NEW h \in Args,
               \/ Send(t, h) \/ SendAndWake(t, h) \/ SendWithTask(t, h)
               \/ SendBlocking(t, h) \/ Recv(t, h) \/ RecvAndWake(t, h)
               \/ RecvWithTask(t, h) \/ RecvBlocking(t, h) \/ Close(t, h)
        PROVE  WakerInv'
    <3>1. CASE Send(t, h) BY <1>3, <3>1 DEF Send, Ready
    <3>2. CASE SendAndWake(t, h) BY <1>3, <3>2 DEF SendAndWake, Ready
    <3>3. CASE SendWithTask(t, h)
      <4>1. CASE TrySend(t, h, "idle") BY <1>3, <3>3, <4>1 DEF SendWithTask, Ready
      <4>2. CASE MustWaitToSend(h) /\ ~TrySend(t, h, "idle")
        <5>1. h \in Handles /\ queue[h] # <<>>
          BY <1>1, <4>2 DEF MustWaitToSend, Room, Args, Known
        <5>2. /\ waiting_senders' = [waiting_senders EXCEPT
                                        ![h] = Append(@, <<t, next_val>>)]
              /\ pc[t] = "idle" /\ pc' = [pc EXCEPT ![t] = "suspended"]
              /\ at' = [at EXCEPT ![t] = h] /\ queue' = queue
          BY <3>3, <4>2 DEF SendWithTask, Ready, Return
        <5>3. \A g \in Handles : g # h => waiting_senders'[g] = waiting_senders[g]
          BY <1>1, <5>2
        <5>4. \A s \in Threads : pc[s] = "wakesender" =>
                 pc'[s] = "wakesender" /\ at'[s] = at[s]
          BY <1>1, <5>2
        <5>5. \A s \in Threads : pc'[s] # "receiving" BY <1>1, <5>2
        <5> QED BY <5>1, <5>2, <5>3, <5>4, <5>5 DEF WakerInv, SendersHaveWakers
      <4> QED BY <3>3, <4>1, <4>2 DEF SendWithTask
    <3>4. CASE SendBlocking(t, h)
      <4>1. /\ UNCHANGED <<queue, waiting_senders>> /\ pc[t] = "idle"
            /\ at' = [at EXCEPT ![t] = h]
            /\ pc' = pc \/ pc' = [pc EXCEPT ![t] = "sending"]
        BY <3>4 DEF SendBlocking, StartBlockingSend, Ready, Return, chanVars
      <4> QED BY <1>1, <4>1, WakerFrame
    <3>5. CASE RecvAndWake(t, h)
      <4>1. CASE HasMessage(h)
        <5>1. h \in Handles /\ queue[h] # <<>> /\ Head(queue[h]) \in Values
          BY <1>1, <4>1 DEF HasMessage, Args, Known
        <5>2. Take(t, h, "wakesender") /\ pc[t] = "idle"
          BY <3>5, <4>1, <5>1 DEF RecvAndWake, Ready, ReceiversWake
        <5>3. /\ pc' = [pc EXCEPT ![t] = "wakesender"]
              /\ at' = [at EXCEPT ![t] = h]
              /\ waiting_senders' = waiting_senders
              /\ queue' = [queue EXCEPT ![h] = Tail(@)]
          BY <5>2 DEF Take, Return
        <5>4. pc'[t] = "wakesender" /\ at'[t] = h BY <1>1, <5>3
        <5>5. \A g \in Handles : g # h => queue'[g] = queue[g] BY <1>1, <5>3
        <5>6. \A s \in Threads : pc[s] = "wakesender" =>
                 pc'[s] = "wakesender" /\ at'[s] = at[s]
          BY <1>1, <5>2, <5>3
        <5>7. \A s \in Threads : pc'[s] # "receiving" BY <1>1, <5>3
        <5> QED BY <5>3, <5>4, <5>5, <5>6, <5>7 DEF WakerInv, SendersHaveWakers
      <4>2. CASE ~HasMessage(h)
        BY <1>1, <3>5, <4>2, WakerFrame
           DEF RecvAndWake, TakeNothing, Return, Ready, chanVars, PC
      <4> QED BY <4>1, <4>2
    <3>6. CASE Close(t, h)
      BY <1>1, <3>6, WakerFrame DEF Close, Ready, Return
    <3> QED BY <2>2, <3>1, <3>2, <3>3, <3>4, <3>5, <3>6
            DEF ReceiversWake, Recv, RecvWithTask, RecvBlocking
  <2> QED BY <1>4, <2>1, <2>2 DEF Call
<1>5. ASSUME NEW t \in Threads, Step(t) PROVE WakerInv'
  <2>1. CASE WakeReceiver(t)
    BY <1>1, <2>1, WakerFrame DEF WakeReceiver
  <2>2. CASE WakeSender(t)
    <3>1. PICK h \in Handles : h = at[t]
      BY <2>2 DEF WakeSender, CallInv, Inside, Known
    <3>2. pc[t] = "wakesender" /\ pc' = [pc EXCEPT ![t] = "idle"] /\ at' = at
      BY <2>2 DEF WakeSender
    <3>3. \A g \in Handles : g # h =>
             waiting_senders'[g] = waiting_senders[g] /\ queue'[g] = queue[g]
      BY <1>1, <2>2, <3>1 DEF WakeSender
    <3>4. waiting_senders'[h] # <<>> => queue'[h] # <<>>
      <4>1. CASE waiting_senders[h] = <<>>
        BY <2>2, <3>1, <4>1 DEF WakeSender
      <4>2. CASE waiting_senders[h] # <<>>
        <5>1. CASE Room(h)
          BY <1>1, <2>2, <3>1, <4>2, <5>1 DEF WakeSender
        <5>2. CASE ~Room(h)
          <6>1. queue' = queue BY <2>2, <3>1, <4>2, <5>2 DEF WakeSender
          <6>2. queue[h] # <<>> BY <1>1, <5>2 DEF Room
          <6> QED BY <6>1, <6>2
        <5> QED BY <5>1, <5>2
      <4> QED BY <4>1, <4>2
    <3>5. \A s \in Threads : pc[s] = "wakesender" /\ at[s] # h =>
             pc'[s] = "wakesender" /\ at'[s] = at[s]
      BY <1>1, <3>1, <3>2
    <3>6. \A s \in Threads : pc'[s] # "receiving" BY <1>1, <3>2
    <3> QED BY <3>3, <3>4, <3>5, <3>6 DEF WakerInv, SendersHaveWakers
  <2>3. CASE CompleteSend(t)
    <3>1. /\ waiting_senders' = waiting_senders
          /\ pc[t] = "sending" /\ pc' = [pc EXCEPT ![t] = "idle"]
          /\ at' = [at EXCEPT ![t] = at[t]]
      BY <2>3 DEF CompleteSend, Return
    <3>2. \A g \in Handles : queue[g] # <<>> => queue'[g] # <<>>
      <4>1. PICK h \in Handles, m \in Values : h = at[t] /\ m = item[t]
        BY <3>1 DEF CallInv, Inside, Known
      <4>2. queue' = [queue EXCEPT ![h] = Append(@, m)]
        BY <2>3, <4>1 DEF CompleteSend
      <4>3. /\ queue' \in [Handles -> Seq(Values)]
            /\ \A g \in Handles : g # h => queue'[g] = queue[g]
            /\ Len(queue'[h]) = Len(queue[h]) + 1
        BY <4>2, PutKeeps DEF CallInv
      <4>4. queue'[h] # <<>> BY <1>1, <4>3
      <4> QED BY <4>3, <4>4
    <3> QED BY <1>1, <3>1, <3>2, WakerFrame
  <2>4. CASE CompleteRecv(t) BY <1>1, <2>4 DEF CompleteRecv
  <2>5. CASE GetWokenSender(t)
    BY <1>1, <2>5, WakerFrame DEF GetWokenSender, chanVars
  <2>6. CASE GetWokenReceiver(t)
    BY <1>1, <2>6, WakerFrame DEF GetWokenReceiver, chanVars
  <2> QED BY <1>5, <2>1, <2>2, <2>3, <2>4, <2>5, <2>6 DEF Step
<1> QED BY <1>2, <1>4, <1>5 DEF Next

(* In a program that receives with recv_and_wake only, and never sends the  *)
(* sentinels -2 and -3, a suspended sender always has a waker, whatever     *)
(* the interleaving of the two critical sections of recv_and_wake.          *)
THEOREM ChannelSenderHasWaker == Spec => []SenderHasWaker
<1>1. Init => (ReceiversWake => WakerInv)
  BY DEF Init, WakerInv, SendersHaveWakers
<1>2. [Next]_vars => (ReceiversWake' <=> ReceiversWake)
  BY DEF Next, vars, ReceiversWake
<1>3. CallInv /\ (ReceiversWake => WakerInv) /\ [Next]_vars =>
         (ReceiversWake => WakerInv)'
  BY <1>2, NextWaker
<1>4. (ReceiversWake => WakerInv) => SenderHasWaker
  BY DEF WakerInv, SenderHasWaker
<1> QED BY <1>1, <1>3, <1>4, CallInvHolds, PTL DEF Spec

(* A step keeps the end of a stream if no channel that has ended is         *)
(* reopened or filled, no send starts to wait, and the thread that moves is *)
(* told the truth.                                                          *)
LEMMA EndFrame ==
    ASSUME EndInv, NEW t \in Threads,
           \A g \in Handles : closed[g] /\ queue[g] = <<>> =>
                                 closed'[g] /\ queue'[g] = <<>>,
           waiting_senders' = waiting_senders,
           \A s \in Threads : pc'[s] # "sending",
           \A s \in Threads : s # t => at'[s] = at[s] /\ ret'[s] = ret[s],
           ToldTheEnd(t)' => closed'[at'[t]] /\ queue'[at'[t]] = <<>>
    PROVE  EndInv'
<1>1. ASSUME NEW s \in Threads, s # t, ToldTheEnd(s)'
      PROVE  closed'[at'[s]] /\ queue'[at'[s]] = <<>>
  <2>1. at'[s] = at[s] /\ ret'[s] = ret[s] BY <1>1
  <2>2. ToldTheEnd(s) /\ at[s] \in Handles BY <1>1, <2>1 DEF ToldTheEnd
  <2>3. closed[at[s]] /\ queue[at[s]] = <<>> BY <2>2 DEF EndInv
  <2> QED BY <2>1, <2>2, <2>3
<1> QED BY <1>1 DEF EndInv

(* Without sends that wait, every step keeps the end of the streams.        *)
LEMMA NextEnd ==
    ASSUME StreamsEnd, CallInv, EndInv, [Next]_vars
    PROVE  EndInv'
<1>1. /\ \A h \in Handles : queue[h] \in Seq(Values) /\ closed[h] \in BOOLEAN
      /\ pc \in [Threads -> PC] /\ at \in [Threads -> Handles \cup {NoChan}]
      /\ queue \in [Handles -> Seq(Values)] /\ closed \in [Handles -> BOOLEAN]
      /\ ret \in [Threads -> Int]
      /\ \A t \in Threads : pc[t] # "sending"
      /\ \A h \in Handles : waiting_senders[h] = <<>>
      /\ woken_sender \in [Threads -> Threads \cup {NoTask}]
      /\ woken_receiver \in [Threads -> Threads \cup {NoTask}]
      /\ \A t \in Threads : ToldTheEnd(t) => closed[at[t]] /\ queue[at[t]] = <<>>
  BY DEF CallInv, TypeOK, EndInv
<1>2. CASE UNCHANGED vars
  BY <1>1, <1>2 DEF EndInv, ToldTheEnd, vars, chanVars, callVars
<1>3. ASSUME NEW t \in Threads, NEW h \in Args,
             NEW p \in {"idle", "wakereceiver"}, TrySend(t, h, p)
      PROVE  EndInv'
  <2>1. CASE Admits(h)
    <3>1. /\ queue' = [queue EXCEPT ![h] = Append(@, next_val)]
          /\ pc' = [pc EXCEPT ![t] = p]
          /\ at' = [at EXCEPT ![t] = h] /\ ret' = [ret EXCEPT ![t] = 0]
          /\ UNCHANGED <<closed, waiting_senders>>
      BY <1>3, <2>1 DEF TrySend, Return
    <3>2. \A g \in Handles : closed[g] => queue'[g] = queue[g]
      BY <1>1, <2>1, <3>1 DEF Admits
    <3>3. ret'[t] = 0 /\ \A s \in Threads : s # t => at'[s] = at[s] /\ ret'[s] = ret[s]
      BY <1>1, <3>1
    <3>4. \A s \in Threads : pc'[s] # "sending" BY <1>1, <3>1
    <3>5. ~ToldTheEnd(t)' BY <3>3 DEF ToldTheEnd
    <3>6. \A g \in Handles : closed[g] /\ queue[g] = <<>> =>
                              closed'[g] /\ queue'[g] = <<>>
      BY <3>1, <3>2
    <3> QED BY <3>1, <3>3, <3>4, <3>5, <3>6, EndFrame
  <2>2. CASE ~Admits(h)
    <3>1. /\ at' = [at EXCEPT ![t] = h] /\ ret' = [ret EXCEPT ![t] = Refusal(h)]
          /\ UNCHANGED <<closed, queue, pc, waiting_senders>>
      BY <1>3, <2>2 DEF TrySend, Return
    <3>2. Refusal(h) # -3 BY DEF Refusal
    <3>3. ret'[t] # -3 /\ \A s \in Threads : s # t => at'[s] = at[s] /\ ret'[s] = ret[s]
      BY <1>1, <3>1, <3>2
    <3> QED BY <1>1, <3>1, <3>3, EndFrame DEF ToldTheEnd
  <2> QED BY <2>1, <2>2
<1>4. ASSUME NEW t \in Threads, NEW h \in Args,
             NEW p \in {"idle", "wakesender"}, HasMessage(h), Take(t, h, p)
      PROVE  EndInv'
  <2>1. h \in Handles /\ queue[h] # <<>>
    BY <1>4, NamesAssumption DEF HasMessage, Args, Known
  <2>2. PICK m \in Values : m = Head(queue[h]) BY <1>1, <2>1
  <2>3. /\ queue' = [queue EXCEPT ![h] = Tail(@)]
        /\ pc' = [pc EXCEPT ![t] = p]
        /\ at' = [at EXCEPT ![t] = h] /\ ret' = [ret EXCEPT ![t] = Payload(m)]
        /\ UNCHANGED <<closed, waiting_senders>>
    BY <1>4, <2>2 DEF Take, Return
  <2>4. \A g \in Handles : queue[g] = <<>> => queue'[g] = <<>>
    BY <1>1, <2>1, <2>3
  <2>5. Payload(m) # -3 BY DEF StreamsEnd
  <2>6. ret'[t] # -3 /\ \A s \in Threads : s # t => at'[s] = at[s] /\ ret'[s] = ret[s]
    BY <1>1, <2>3, <2>5
  <2>7. \A s \in Threads : pc'[s] # "sending" BY <1>1, <2>3
  <2> QED BY <2>3, <2>4, <2>6, <2>7, EndFrame DEF ToldTheEnd
<1>5. ASSUME NEW t \in Threads, NEW h \in Args, ~HasMessage(h), TakeNothing(t, h)
      PROVE  EndInv'
  <2>1. /\ at' = [at EXCEPT ![t] = h] /\ ret' = [ret EXCEPT ![t] = NotReceived(h)]
        /\ pc' = [pc EXCEPT ![t] = "idle"]
        /\ UNCHANGED <<closed, queue, waiting_senders>>
    BY <1>5 DEF TakeNothing, Return, chanVars
  <2>2. at'[t] = h /\ ret'[t] = NotReceived(h)
    BY <1>1, <2>1
  <2>3. ToldTheEnd(t)' => closed'[at'[t]] /\ queue'[at'[t]] = <<>>
    BY <1>5, <2>1, <2>2, NamesAssumption DEF ToldTheEnd, NotReceived, HasMessage
  <2>4. /\ \A s \in Threads : s # t => at'[s] = at[s] /\ ret'[s] = ret[s]
        /\ \A s \in Threads : pc'[s] # "sending"
    BY <1>1, <2>1
  <2> QED BY <2>1, <2>3, <2>4, EndFrame
<1>6. ASSUME NEW t \in Threads, NEW h \in Args,
             \/ Send(t, h) \/ SendAndWake(t, h) \/ SendWithTask(t, h)
             \/ SendBlocking(t, h) \/ Recv(t, h) \/ RecvAndWake(t, h)
             \/ RecvWithTask(t, h) \/ RecvBlocking(t, h) \/ Close(t, h)
      PROVE  EndInv'
  <2>1. CASE Send(t, h) \/ SendAndWake(t, h)
    BY <1>3, <2>1 DEF Send, SendAndWake
  <2>2. CASE SendWithTask(t, h) \/ SendBlocking(t, h)
    BY <2>2 DEF SendWithTask, SendBlocking, StreamsEnd
  <2>3. CASE Recv(t, h) BY <1>4, <1>5, <2>3 DEF Recv
  <2>4. CASE RecvAndWake(t, h)
    <3>1. CASE HasMessage(h)
      <4>1. PICK p \in {"idle", "wakesender"} : Take(t, h, p)
        BY <2>4, <3>1 DEF RecvAndWake
      <4> QED BY <1>4, <3>1, <4>1
    <3>2. CASE ~HasMessage(h) BY <1>5, <2>4, <3>2 DEF RecvAndWake
    <3> QED BY <3>1, <3>2
  <2>5. CASE RecvWithTask(t, h)
    <3>1. CASE HasMessage(h) /\ Take(t, h, "idle") BY <1>4, <3>1
    <3>2. CASE ~HasMessage(h) /\ TakeNothing(t, h) BY <1>5, <3>2
    <3>3. CASE /\ pc' = [pc EXCEPT ![t] = "suspended"] /\ Return(t, h, -2)
               /\ UNCHANGED <<closed, queue, waiting_senders>>
      <4>1. /\ ret'[t] # -3
            /\ \A s \in Threads : s # t => at'[s] = at[s] /\ ret'[s] = ret[s]
            /\ \A s \in Threads : pc'[s] # "sending"
        BY <1>1, <3>3 DEF Return
      <4> QED BY <3>3, <4>1, EndFrame DEF ToldTheEnd
    <3> QED BY <2>5, <3>1, <3>2, <3>3 DEF RecvWithTask
  <2>6. CASE RecvBlocking(t, h)
    <3>1. CASE h = NoChan
      BY <1>5, <2>6, <3>1 DEF RecvBlocking, StartBlockingRecv, HasMessage
    <3>2. CASE h # NoChan
      <4>1. /\ pc' = [pc EXCEPT ![t] = "receiving"] /\ Return(t, h, 0)
            /\ UNCHANGED <<closed, queue, waiting_senders>>
        BY <2>6, <3>2 DEF RecvBlocking, StartBlockingRecv, chanVars
      <4>2. /\ ret'[t] # -3
            /\ \A s \in Threads : s # t => at'[s] = at[s] /\ ret'[s] = ret[s]
            /\ \A s \in Threads : pc'[s] # "sending"
        BY <1>1, <4>1 DEF Return
      <4> QED BY <4>1, <4>2, EndFrame DEF ToldTheEnd
    <3> QED BY <3>1, <3>2
  <2>7. CASE Close(t, h)
    <3>1. /\ closed' = [g \in Handles |-> closed[g] \/ g = h]
          /\ Return(t, h, IF h = NoChan THEN 1 ELSE 0)
          /\ UNCHANGED <<queue, waiting_senders, pc>>
      BY <2>7 DEF Close
    <3>2. /\ ret'[t] # -3
          /\ \A s \in Threads : s # t => at'[s] = at[s] /\ ret'[s] = ret[s]
          /\ \A g \in Handles : closed[g] => closed'[g]
      BY <1>1, <3>1 DEF Return
    <3> QED BY <1>1, <3>1, <3>2, EndFrame DEF ToldTheEnd
  <2> QED BY <1>6, <2>1, <2>2, <2>3, <2>4, <2>5, <2>6, <2>7
<1>7. ASSUME NEW t \in Threads, NEW c \in Capacities, Create(t, c) PROVE EndInv'
  <2>1. PICK h \in Handles : h = next_chan BY <1>7 DEF Create
  <2>2. /\ Return(t, h, h) /\ h # -3
        /\ UNCHANGED <<closed, queue, waiting_senders, pc>>
    BY <1>7, <2>1 DEF Create, Handles
  <2>3. /\ ret'[t] # -3
        /\ \A s \in Threads : s # t => at'[s] = at[s] /\ ret'[s] = ret[s]
    BY <1>1, <2>2 DEF Return
  <2> QED BY <1>1, <2>2, <2>3, EndFrame DEF ToldTheEnd
<1>8. ASSUME NEW t \in Threads, Step(t) PROVE EndInv'
  <2>1. CASE WakeReceiver(t) \/ WakeSender(t)
    <3>1. pc[t] \in {"wakesender", "wakereceiver"} /\ at[t] \in Handles
      BY <2>1 DEF WakeReceiver, WakeSender, CallInv, Inside, Known
    <3>2. UNCHANGED <<closed, queue, waiting_senders, at, ret>>
      BY <1>1, <2>1, <3>1 DEF WakeReceiver, WakeSender
    <3>3. \A s \in Threads : pc'[s] # "sending"
      BY <1>1, <2>1 DEF WakeReceiver, WakeSender
    <3> QED BY <1>1, <3>2, <3>3 DEF EndInv, ToldTheEnd
  <2>2. CASE CompleteSend(t) BY <1>1, <2>2 DEF CompleteSend
  <2>3. CASE CompleteRecv(t)
    <3>1. at[t] \in Args BY <2>3 DEF CompleteRecv, CallInv, Inside, Args
    <3> QED BY <1>4, <2>3, <3>1 DEF CompleteRecv
  <2>4. CASE GetWokenSender(t) \/ GetWokenReceiver(t)
    <3>1. UNCHANGED <<closed, queue, waiting_senders, at, ret>>
      BY <2>4 DEF GetWokenSender, GetWokenReceiver, chanVars
    <3>2. \A s \in Threads : pc'[s] # "sending"
      BY <1>1, <2>4 DEF GetWokenSender, GetWokenReceiver
    <3> QED BY <1>1, <3>1, <3>2 DEF EndInv, ToldTheEnd
  <2> QED BY <1>8, <2>1, <2>2, <2>3, <2>4 DEF Step
<1> QED BY <1>2, <1>6, <1>7, <1>8 DEF Next, Call

(* "Closed and empty" is final in a program without sends that wait for     *)
(* room: no receiver that was told -3 has missed a message, for any number  *)
(* of threads and channels.                                                 *)
THEOREM ChannelEndOfStreamIsFinal == Spec => []EndOfStreamIsFinal
<1>1. Init => EndInv
  <2> SUFFICES ASSUME Init PROVE EndInv OBVIOUS
  <2>1. \A t \in Threads : ret[t] = 0 /\ pc[t] = "idle" BY DEF Init
  <2>2. \A h \in Handles : waiting_senders[h] = <<>> BY DEF Init
  <2> QED BY <2>1, <2>2 DEF EndInv, ToldTheEnd
<1>2. (StreamsEnd => EndInv) /\ CallInv /\ [Next]_vars => (StreamsEnd => EndInv)'
  <2> SUFFICES ASSUME StreamsEnd => EndInv, CallInv, [Next]_vars, StreamsEnd'
               PROVE  EndInv'
    OBVIOUS
  <2>1. ops' = ops BY DEF Next, vars
  <2>2. StreamsEnd BY <2>1 DEF StreamsEnd
  <2> QED BY <2>2, NextEnd
<1>3. (StreamsEnd => EndInv) => EndOfStreamIsFinal
  BY DEF EndInv, EndOfStreamIsFinal
<1> QED BY <1>1, <1>2, <1>3, CallInvHolds, PTL DEF Spec

-----------------------------------------------------------------------------
(* MessagesOnce.  Once says of a message what OnePlace says, with positions  *)
(* that are any numbers, so that a step can be described by where the place  *)
(* of a message was before it.                                               *)

\* Message v is in one place at most.
Once(v) ==
    /\ \A s, t \in Threads : HeldBy(s, v) /\ HeldBy(t, v) => s = t
    /\ \A g, h \in Handles : \A i, k \in Nat :
          /\ WaitsAt(h, i, v) /\ WaitsAt(g, k, v) => g = h /\ k = i
          /\ QueuedAt(h, i, v) /\ QueuedAt(g, k, v) => g = h /\ k = i
          /\ ReceivedAt(h, i, v) /\ ReceivedAt(g, k, v) => g = h /\ k = i
          /\ ~(WaitsAt(h, i, v) /\ QueuedAt(g, k, v))
          /\ ~(WaitsAt(h, i, v) /\ ReceivedAt(g, k, v))
          /\ ~(QueuedAt(h, i, v) /\ ReceivedAt(g, k, v))
    /\ \A t \in Threads : HeldBy(t, v) =>
          \A h \in Handles : \A i \in Nat :
             ~WaitsAt(h, i, v) /\ ~QueuedAt(h, i, v) /\ ~ReceivedAt(h, i, v)

\* Message v is in no place at all.
Nowhere(v) ==
    /\ \A t \in Threads : ~HeldBy(t, v)
    /\ \A h \in Handles : \A i \in Nat :
          ~WaitsAt(h, i, v) /\ ~QueuedAt(h, i, v) /\ ~ReceivedAt(h, i, v)

\* The inductive invariant: a message that is not made yet is nowhere.
Apart == \A v \in Values : Once(v) /\ (v >= next_val => Nowhere(v))

(* Once implies OnePlace, the part of MessagesOnce about one message.       *)
LEMMA OnceIsOnePlace ==
    ASSUME NEW v \in Values, Once(v)
    PROVE  OnePlace(v)
<1>1. \A n : \A i \in 1 .. n : i \in Nat OBVIOUS
<1>2. ~(\E h \in Handles : \E i \in 1 .. Len(received[h]) :
          ReceivedAt(h, i, v) /\ InQueue(v))
  BY <1>1 DEF Once, InQueue
<1> HIDE DEF HeldBy, WaitsAt, QueuedAt, ReceivedAt, InQueue
<1>3. \A s, t \in Threads : HeldBy(s, v) /\ HeldBy(t, v) => s = t BY DEF Once
<1>4. \A h \in Handles : \A i \in 1 .. Len(waiting_senders[h]) :
         WaitsAt(h, i, v) =>
            /\ \A g \in Handles : \A k \in 1 .. Len(waiting_senders[g]) :
                  WaitsAt(g, k, v) => g = h /\ k = i
            /\ \A t \in Threads : ~HeldBy(t, v)
  BY <1>1 DEF Once
<1>5. \A h \in Handles : \A i \in 1 .. Len(queue[h]) : QueuedAt(h, i, v) =>
          /\ \A g \in Handles : \A k \in 1 .. Len(queue[g]) :
                QueuedAt(g, k, v) => g = h /\ k = i
          /\ \A t \in Threads : ~HeldBy(t, v)
          /\ \A g \in Handles : \A k \in 1 .. Len(waiting_senders[g]) :
                ~WaitsAt(g, k, v)
  BY <1>1 DEF Once
<1>6. \A h \in Handles : \A i \in 1 .. Len(received[h]) : ReceivedAt(h, i, v) =>
          /\ \A g \in Handles : \A k \in 1 .. Len(received[g]) :
                ReceivedAt(g, k, v) => g = h /\ k = i
          /\ \A t \in Threads : ~HeldBy(t, v)
          /\ \A g \in Handles : \A k \in 1 .. Len(waiting_senders[g]) :
                ~WaitsAt(g, k, v)
          /\ ~InQueue(v)
  BY <1>1, <1>2 DEF Once
<1> QED BY <1>3, <1>4, <1>5, <1>6 DEF OnePlace

(* A step that moves a message along its queue or list, or leaves it, keeps *)
(* it in one place.                                                         *)
LEMMA OnceShift ==
    ASSUME NEW v \in Values, NEW dw \in [Handles -> Nat], NEW dq \in [Handles -> Nat],
           Once(v),
           \A t \in Threads : HeldBy(t, v)' => HeldBy(t, v),
           \A h \in Handles : \A i \in Nat :
              /\ WaitsAt(h, i, v)' => WaitsAt(h, i + dw[h], v)
              /\ QueuedAt(h, i, v)' => QueuedAt(h, i + dq[h], v)
              /\ ReceivedAt(h, i, v)' => ReceivedAt(h, i, v)
    PROVE  Once(v)' /\ (Nowhere(v) => Nowhere(v)')
<1> HIDE DEF HeldBy, WaitsAt, QueuedAt, ReceivedAt
<1>1. \A h \in Handles : dw[h] \in Nat /\ dq[h] \in Nat OBVIOUS
<1>2. \A h \in Handles : \A i \in Nat : i + dw[h] \in Nat /\ i + dq[h] \in Nat
  BY <1>1
<1>3. Nowhere(v) => Nowhere(v)' BY <1>2 DEF Nowhere
<1>4. \A s, t \in Threads : HeldBy(s, v)' /\ HeldBy(t, v)' => s = t BY DEF Once
<1>5. ASSUME NEW g \in Handles, NEW h \in Handles, NEW i \in Nat, NEW k \in Nat
      PROVE  /\ WaitsAt(h, i, v)' /\ WaitsAt(g, k, v)' => g = h /\ k = i
             /\ QueuedAt(h, i, v)' /\ QueuedAt(g, k, v)' => g = h /\ k = i
             /\ ReceivedAt(h, i, v)' /\ ReceivedAt(g, k, v)' => g = h /\ k = i
             /\ ~(WaitsAt(h, i, v)' /\ QueuedAt(g, k, v)')
             /\ ~(WaitsAt(h, i, v)' /\ ReceivedAt(g, k, v)')
             /\ ~(QueuedAt(h, i, v)' /\ ReceivedAt(g, k, v)')
  <2>1. /\ k + dw[h] = i + dw[h] => k = i
        /\ k + dq[h] = i + dq[h] => k = i
    BY <1>1
  <2>2. /\ i + dw[h] \in Nat /\ k + dw[g] \in Nat
        /\ i + dq[h] \in Nat /\ k + dq[g] \in Nat
    BY <1>2
  <2>3. WaitsAt(h, i, v)' /\ WaitsAt(g, k, v)' => g = h /\ k = i
    BY <2>1, <2>2 DEF Once
  <2>4. QueuedAt(h, i, v)' /\ QueuedAt(g, k, v)' => g = h /\ k = i
    BY <2>1, <2>2 DEF Once
  <2> QED BY <2>2, <2>3, <2>4 DEF Once
<1>6. ASSUME NEW t \in Threads, HeldBy(t, v)', NEW h \in Handles, NEW i \in Nat
      PROVE  ~WaitsAt(h, i, v)' /\ ~QueuedAt(h, i, v)' /\ ~ReceivedAt(h, i, v)'
  BY <1>2, <1>6 DEF Once
<1> QED BY <1>3, <1>4, <1>5, <1>6 DEF Once

(* A message that is in the queue and nowhere else, in the list of waiting  *)
(* senders and nowhere else, and so on, is in one place.                    *)
LEMMA OnlyPlace ==
    ASSUME NEW v \in Values, NEW h \in Handles, NEW j \in Nat, NEW t \in Threads,
           \/ /\ \A s \in Threads : ~HeldBy(s, v)'
              /\ \A g \in Handles : \A i \in Nat :
                    /\ ~WaitsAt(g, i, v)' /\ ~ReceivedAt(g, i, v)'
                    /\ QueuedAt(g, i, v)' => g = h /\ i = j
           \/ /\ \A s \in Threads : ~HeldBy(s, v)'
              /\ \A g \in Handles : \A i \in Nat :
                    /\ ~QueuedAt(g, i, v)' /\ ~ReceivedAt(g, i, v)'
                    /\ WaitsAt(g, i, v)' => g = h /\ i = j
           \/ /\ \A s \in Threads : ~HeldBy(s, v)'
              /\ \A g \in Handles : \A i \in Nat :
                    /\ ~QueuedAt(g, i, v)' /\ ~WaitsAt(g, i, v)'
                    /\ ReceivedAt(g, i, v)' => g = h /\ i = j
           \/ /\ \A s \in Threads : HeldBy(s, v)' => s = t
              /\ \A g \in Handles : \A i \in Nat :
                    ~WaitsAt(g, i, v)' /\ ~QueuedAt(g, i, v)' /\ ~ReceivedAt(g, i, v)'
    PROVE  Once(v)'
<1> HIDE DEF HeldBy, WaitsAt, QueuedAt, ReceivedAt
<1> QED BY DEF Once

-----------------------------------------------------------------------------
(* Where the messages of a queue or list were before it changed.            *)
(* The places of the tail of a sequence.                                    *)
LEMMA TailAt ==
    ASSUME NEW S, NEW q \in Seq(S), q # <<>>
    PROVE  /\ 1 \in 1 .. Len(q) /\ Head(q) = q[1] /\ Head(q) \in S
           /\ \A i \in 1 .. Len(Tail(q)) : i + 1 \in 1 .. Len(q) /\ Tail(q)[i] = q[i + 1]
<1>1. Len(q) \in Nat /\ Len(q) # 0 /\ Len(Tail(q)) = Len(q) - 1 OBVIOUS
<1>2. \A i \in 1 .. Len(q) - 1 : Tail(q)[i] = q[i + 1] OBVIOUS
<1>3. Head(q) = q[1] /\ Head(q) \in S OBVIOUS
<1> QED BY <1>1, <1>2, <1>3

(* After an append to a queue its new message is at the end of it.         *)
LEMMA QueuePut ==
    ASSUME TypeOK, NEW h \in Handles, NEW m \in Values,
           queue' = [queue EXCEPT ![h] = Append(@, m)]
    PROVE  \A v \in Values : \A g \in Handles : \A i \in Nat :
              QueuedAt(g, i, v)' => \/ QueuedAt(g, i, v)
                                    \/ v = m /\ g = h /\ i = Len(queue[h]) + 1
<1>1. queue \in [Handles -> Seq(Values)] BY DEF TypeOK
<1>2. queue[h] \in Seq(Values) /\ queue'[h] = Append(queue[h], m) BY <1>1
<1>3. \A g \in Handles : g # h => queue'[g] = queue[g] BY <1>1
<1>4. \A i \in 1 .. Len(queue'[h]) :
         \/ i \in 1 .. Len(queue[h]) /\ queue'[h][i] = queue[h][i]
         \/ i = Len(queue[h]) + 1 /\ queue'[h][i] = m
  BY <1>2
<1> QED BY <1>3, <1>4 DEF QueuedAt

(* A sender that begins to wait files its message at the end of the list.  *)
LEMMA WaitPut ==
    ASSUME TypeOK, NEW h \in Handles, NEW m \in Values, NEW t \in Threads,
           waiting_senders' = [waiting_senders EXCEPT ![h] = Append(@, <<t, m>>)]
    PROVE  \A v \in Values : \A g \in Handles : \A i \in Nat :
              WaitsAt(g, i, v)' =>
                 \/ WaitsAt(g, i, v)
                 \/ v = m /\ g = h /\ i = Len(waiting_senders[h]) + 1
<1>1. waiting_senders \in [Handles -> Seq(Threads \X Values)] BY DEF TypeOK
<1>2. /\ waiting_senders[h] \in Seq(Threads \X Values)
      /\ waiting_senders'[h] = Append(waiting_senders[h], <<t, m>>)
      /\ <<t, m>> \in Threads \X Values
  BY <1>1
<1>3. \A g \in Handles : g # h => waiting_senders'[g] = waiting_senders[g] BY <1>1
<1>4. \A i \in 1 .. Len(waiting_senders'[h]) :
         \/ i \in 1 .. Len(waiting_senders[h])
            /\ waiting_senders'[h][i] = waiting_senders[h][i]
         \/ i = Len(waiting_senders[h]) + 1 /\ waiting_senders'[h][i] = <<t, m>>
  BY <1>2
<1> QED BY <1>3, <1>4 DEF WaitsAt

(* When the first waiting sender leaves, the others move up by one place.  *)
LEMMA WaitPop ==
    ASSUME TypeOK, NEW h \in Handles, waiting_senders[h] # <<>>,
           waiting_senders' = [waiting_senders EXCEPT ![h] = Tail(@)]
    PROVE  /\ WaitsAt(h, 1, Head(waiting_senders[h])[2])
           /\ \A v \in Values : \A g \in Handles : \A i \in Nat :
                 WaitsAt(g, i, v)' =>
                    i > 0 /\ WaitsAt(g, i + (IF g = h THEN 1 ELSE 0), v)
<1>1. waiting_senders \in [Handles -> Seq(Threads \X Values)] BY DEF TypeOK
<1>2. /\ waiting_senders[h] \in Seq(Threads \X Values)
      /\ waiting_senders'[h] = Tail(waiting_senders[h])
  BY <1>1
<1>3. \A g \in Handles : g # h => waiting_senders'[g] = waiting_senders[g] BY <1>1
<1>4. \A i \in 1 .. Len(waiting_senders'[h]) :
         /\ i + 1 \in 1 .. Len(waiting_senders[h])
         /\ waiting_senders'[h][i] = waiting_senders[h][i + 1]
  BY <1>2, TailAt
<1>5. /\ 1 \in 1 .. Len(waiting_senders[h])
      /\ Head(waiting_senders[h]) = waiting_senders[h][1]
  BY <1>2
<1>6. WaitsAt(h, 1, Head(waiting_senders[h])[2]) BY <1>5 DEF WaitsAt
<1>7. ASSUME NEW v \in Values, NEW g \in Handles, NEW i \in Nat, WaitsAt(g, i, v)'
      PROVE  i > 0 /\ WaitsAt(g, i + (IF g = h THEN 1 ELSE 0), v)
  <2>1. i \in 1 .. Len(waiting_senders'[g]) /\ waiting_senders'[g][i][2] = v
    BY <1>7 DEF WaitsAt
  <2>2. i > 0 /\ i + 0 = i BY <2>1
  <2>3. CASE g = h BY <1>4, <2>1, <2>2, <2>3 DEF WaitsAt
  <2>4. CASE g # h BY <1>3, <2>1, <2>2, <2>4 DEF WaitsAt
  <2> QED BY <2>3, <2>4
<1> QED BY <1>6, <1>7

(* A receive moves the first message of a queue to the end of received.    *)
LEMMA QueueTake ==
    ASSUME TypeOK, NEW h \in Handles, queue[h] # <<>>,
           queue' = [queue EXCEPT ![h] = Tail(@)],
           received' = [received EXCEPT ![h] = Append(@, Head(queue[h]))]
    PROVE  /\ QueuedAt(h, 1, Head(queue[h])) /\ Head(queue[h]) \in Values
           /\ \A v \in Values : \A g \in Handles : \A i \in Nat :
                 /\ QueuedAt(g, i, v)' =>
                       i > 0 /\ QueuedAt(g, i + (IF g = h THEN 1 ELSE 0), v)
                 /\ ReceivedAt(g, i, v)' =>
                       \/ ReceivedAt(g, i, v)
                       \/ v = Head(queue[h]) /\ g = h /\ i = Len(received[h]) + 1
<1>1. queue \in [Handles -> Seq(Values)] /\ received \in [Handles -> Seq(Values)]
  BY DEF TypeOK
<1>2. /\ queue[h] \in Seq(Values) /\ received[h] \in Seq(Values)
      /\ queue'[h] = Tail(queue[h]) /\ Head(queue[h]) \in Values
      /\ received'[h] = Append(received[h], Head(queue[h]))
  BY <1>1
<1>3. \A g \in Handles : g # h => queue'[g] = queue[g] /\ received'[g] = received[g]
  BY <1>1
<1>4. \A i \in 1 .. Len(queue'[h]) :
         i + 1 \in 1 .. Len(queue[h]) /\ queue'[h][i] = queue[h][i + 1]
  BY <1>2, TailAt
<1>5. 1 \in 1 .. Len(queue[h]) /\ Head(queue[h]) = queue[h][1] BY <1>2
<1>6. \A i \in 1 .. Len(received'[h]) :
         \/ i \in 1 .. Len(received[h]) /\ received'[h][i] = received[h][i]
         \/ i = Len(received[h]) + 1 /\ received'[h][i] = Head(queue[h])
  BY <1>2
<1>7. QueuedAt(h, 1, Head(queue[h])) BY <1>5 DEF QueuedAt
<1>8. ASSUME NEW v \in Values, NEW g \in Handles, NEW i \in Nat, QueuedAt(g, i, v)'
      PROVE  i > 0 /\ QueuedAt(g, i + (IF g = h THEN 1 ELSE 0), v)
  <2>1. i \in 1 .. Len(queue'[g]) /\ queue'[g][i] = v BY <1>8 DEF QueuedAt
  <2>2. i > 0 /\ i + 0 = i BY <2>1
  <2>3. CASE g = h BY <1>4, <2>1, <2>2, <2>3 DEF QueuedAt
  <2>4. CASE g # h BY <1>3, <2>1, <2>2, <2>4 DEF QueuedAt
  <2> QED BY <2>3, <2>4
<1>9. \A v \in Values : \A g \in Handles : \A i \in Nat :
         ReceivedAt(g, i, v)' =>
            \/ ReceivedAt(g, i, v)
            \/ v = Head(queue[h]) /\ g = h /\ i = Len(received[h]) + 1
  BY <1>3, <1>6 DEF ReceivedAt
<1> QED BY <1>2, <1>7, <1>8, <1>9

-----------------------------------------------------------------------------
(* A step that makes no message and puts none anywhere keeps them apart.    *)
LEMMA ApartQuiet ==
    ASSUME Apart, UNCHANGED <<queue, waiting_senders, received, next_val>>,
           \A t \in Threads : \A v \in Values : HeldBy(t, v)' => HeldBy(t, v)
    PROVE  Apart'
<1>1. \A v \in Values : \A h \in Handles : \A i \in Nat :
         /\ WaitsAt(h, i, v)' => WaitsAt(h, i, v)
         /\ QueuedAt(h, i, v)' => QueuedAt(h, i, v)
         /\ ReceivedAt(h, i, v)' => ReceivedAt(h, i, v)
  BY DEF WaitsAt, QueuedAt, ReceivedAt
<1> DEFINE Z == [h \in Handles |-> 0]
<1>2. Z \in [Handles -> Nat] /\ \A h \in Handles : \A i \in Nat : i + Z[h] = i
  OBVIOUS
<1> HIDE DEF Z
<1>3. ASSUME NEW v \in Values PROVE Once(v)' /\ (Nowhere(v) => Nowhere(v)')
  <2>1. Once(v) BY DEF Apart
  <2>2. \A h \in Handles : \A i \in Nat :
              /\ WaitsAt(h, i, v)' => WaitsAt(h, i + Z[h], v)
              /\ QueuedAt(h, i, v)' => QueuedAt(h, i + Z[h], v)
              /\ ReceivedAt(h, i, v)' => ReceivedAt(h, i, v)
    BY <1>1, <1>2
  <2> HIDE DEF HeldBy, WaitsAt, QueuedAt, ReceivedAt
  <2> QED BY <1>2, <2>1, <2>2, OnceShift
<1> QED BY <1>3 DEF Apart

(* The next message is made and put into one place, where only it is new.   *)
LEMMA ApartMake ==
    ASSUME TypeOK, Apart, NEW m \in Values, m = next_val, next_val' = m + 1,
           NEW t \in Threads, NEW h \in Handles, NEW j \in Nat,
           UNCHANGED received,
           \/ /\ \A s \in Threads : \A v \in Values : HeldBy(s, v)' => HeldBy(s, v)
              /\ waiting_senders' = waiting_senders
              /\ \A v \in Values : \A g \in Handles : \A i \in Nat :
                    QueuedAt(g, i, v)' =>
                       QueuedAt(g, i, v) \/ (v = m /\ g = h /\ i = j)
           \/ /\ \A s \in Threads : \A v \in Values : HeldBy(s, v)' => HeldBy(s, v)
              /\ queue' = queue
              /\ \A v \in Values : \A g \in Handles : \A i \in Nat :
                    WaitsAt(g, i, v)' =>
                       WaitsAt(g, i, v) \/ (v = m /\ g = h /\ i = j)
           \/ /\ \A s \in Threads : \A v \in Values :
                    HeldBy(s, v)' => HeldBy(s, v) \/ (v = m /\ s = t)
              /\ waiting_senders' = waiting_senders
              /\ queue' = queue
    PROVE  Apart'
<1>1. Nowhere(m) BY DEF Apart, Values
<1>2. \A v \in Values : \A g \in Handles : \A i \in Nat :
         /\ v # m => /\ QueuedAt(g, i, v)' => QueuedAt(g, i, v)
                     /\ WaitsAt(g, i, v)' => WaitsAt(g, i, v)
         /\ ReceivedAt(g, i, v)' => ReceivedAt(g, i, v)
  BY DEF QueuedAt, WaitsAt, ReceivedAt
<1>3. Once(m)'
  <2>1. \A g \in Handles : \A i \in Nat : ~ReceivedAt(g, i, m)'
    BY <1>1, <1>2 DEF Nowhere
  <2>2. /\ waiting_senders' = waiting_senders =>
              \A g \in Handles : \A i \in Nat : WaitsAt(g, i, m)' => WaitsAt(g, i, m)
        /\ queue' = queue =>
              \A g \in Handles : \A i \in Nat : QueuedAt(g, i, m)' => QueuedAt(g, i, m)
    BY DEF WaitsAt, QueuedAt
  <2> HIDE DEF HeldBy, WaitsAt, QueuedAt, ReceivedAt
  <2> QED BY <1>1, <2>1, <2>2, OnlyPlace DEF Nowhere
<1> DEFINE Z == [g \in Handles |-> 0]
<1>4. Z \in [Handles -> Nat] /\ \A g \in Handles : \A i \in Nat : i + Z[g] = i
  OBVIOUS
<1> HIDE DEF Z
<1>5. ASSUME NEW v \in Values, v # m PROVE Once(v)' /\ (Nowhere(v) => Nowhere(v)')
  <2>1. Once(v) BY DEF Apart
  <2>2. \A g \in Handles : \A i \in Nat :
              /\ WaitsAt(g, i, v)' => WaitsAt(g, i + Z[g], v)
              /\ QueuedAt(g, i, v)' => QueuedAt(g, i + Z[g], v)
              /\ ReceivedAt(g, i, v)' => ReceivedAt(g, i, v)
    BY <1>2, <1>4, <1>5
  <2>3. \A s \in Threads : HeldBy(s, v)' => HeldBy(s, v) BY <1>5
  <2> HIDE DEF HeldBy, WaitsAt, QueuedAt, ReceivedAt
  <2> QED BY <1>4, <2>1, <2>2, <2>3, OnceShift
<1>6. \A v \in Values : v >= next_val' => v # m /\ v >= next_val
  BY DEF Values
<1> QED BY <1>3, <1>5, <1>6 DEF Apart

(* A blocked or waiting message moves into the queue and leaves its place,  *)
(* or a waiting one is dropped.                                             *)
LEMMA ApartMove ==
    ASSUME TypeOK, Apart, NEW m \in Values, NEW h \in Handles, NEW j \in Nat,
           NEW dw \in [Handles -> Nat],
           UNCHANGED <<received, next_val>>,
           \A s \in Threads : \A v \in Values : HeldBy(s, v)' => HeldBy(s, v),
           \A v \in Values : \A g \in Handles : \A i \in Nat :
              /\ WaitsAt(g, i, v)' => WaitsAt(g, i + dw[g], v)
              /\ QueuedAt(g, i, v)' =>
                    QueuedAt(g, i, v) \/ (v = m /\ g = h /\ i = j),
           \A g \in Handles : \A i \in Nat :
              ~WaitsAt(g, i, m)' /\ ~QueuedAt(g, i, m) /\ ~ReceivedAt(g, i, m),
           \A s \in Threads : ~HeldBy(s, m)',
           m < next_val
    PROVE  Apart'
<1>1. \A v \in Values : \A g \in Handles : \A i \in Nat :
         ReceivedAt(g, i, v)' => ReceivedAt(g, i, v)
  BY DEF ReceivedAt
<1>2. Once(m)'
  <2>1. \A g \in Handles : \A i \in Nat :
           /\ ~ReceivedAt(g, i, m)' /\ ~WaitsAt(g, i, m)'
           /\ QueuedAt(g, i, m)' => g = h /\ i = j
    BY <1>1
  <2> HIDE DEF HeldBy, WaitsAt, QueuedAt, ReceivedAt
  <2> QED BY <2>1 DEF Once
<1> DEFINE Z == [g \in Handles |-> 0]
<1>3. Z \in [Handles -> Nat] /\ \A g \in Handles : \A i \in Nat : i + Z[g] = i
  OBVIOUS
<1> HIDE DEF Z
<1>4. ASSUME NEW v \in Values, v # m PROVE Once(v)' /\ (Nowhere(v) => Nowhere(v)')
  <2>1. Once(v) BY DEF Apart
  <2>2. \A g \in Handles : \A i \in Nat :
              /\ WaitsAt(g, i, v)' => WaitsAt(g, i + dw[g], v)
              /\ QueuedAt(g, i, v)' => QueuedAt(g, i + Z[g], v)
              /\ ReceivedAt(g, i, v)' => ReceivedAt(g, i, v)
    BY <1>1, <1>3, <1>4
  <2>3. \A s \in Threads : HeldBy(s, v)' => HeldBy(s, v) BY <1>4
  <2> HIDE DEF HeldBy, WaitsAt, QueuedAt, ReceivedAt
  <2> QED BY <1>3, <2>1, <2>2, <2>3, OnceShift
<1>5. next_val \in Nat /\ m \in Nat /\ ~(m >= next_val) BY DEF TypeOK, Values
<1> QED BY <1>2, <1>4, <1>5 DEF Apart

(* Taking the first message of a channel keeps the messages apart.          *)
LEMMA ApartTake ==
    ASSUME CallInv, Apart, NEW t \in Threads, NEW h \in Args,
           NEW p \in {"idle", "wakesender"}, HasMessage(h), Take(t, h, p)
    PROVE  Apart'
<1>1. h \in Handles /\ queue[h] # <<>> /\ TypeOK
  BY NamesAssumption DEF HasMessage, Args, Known, CallInv
<1>2. /\ queue' = [queue EXCEPT ![h] = Tail(@)]
      /\ received' = [received EXCEPT ![h] = Append(@, Head(queue[h]))]
      /\ pc' = [pc EXCEPT ![t] = p]
      /\ UNCHANGED <<waiting_senders, item, next_val>>
  BY DEF Take
<1>3. PICK m : m = Head(queue[h]) OBVIOUS
<1>4. /\ QueuedAt(h, 1, m) /\ m \in Values
      /\ \A v \in Values : \A g \in Handles : \A i \in Nat :
            /\ QueuedAt(g, i, v)' =>
                  i > 0 /\ QueuedAt(g, i + (IF g = h THEN 1 ELSE 0), v)
            /\ ReceivedAt(g, i, v)' =>
                  \/ ReceivedAt(g, i, v)
                  \/ v = m /\ g = h /\ i = Len(received[h]) + 1
  BY <1>1, <1>2, <1>3, QueueTake
<1>5. \A s \in Threads : \A v \in Values : HeldBy(s, v)' => HeldBy(s, v)
  BY <1>1, <1>2 DEF HeldBy, TypeOK
<1>6. \A v \in Values : \A g \in Handles : \A i \in Nat :
         WaitsAt(g, i, v)' => WaitsAt(g, i, v)
  BY <1>2 DEF WaitsAt
<1>7. Len(received[h]) + 1 \in Nat BY <1>1 DEF TypeOK
<1>8. Once(m)'
  <2>1. \A s \in Threads : ~HeldBy(s, m)
    BY <1>1, <1>4 DEF Apart, Once
  <2>2. \A g \in Handles : \A i \in Nat : ~WaitsAt(g, i, m) /\ ~ReceivedAt(g, i, m)
    BY <1>1, <1>4 DEF Apart, Once
  <2>3. ASSUME NEW g \in Handles, NEW i \in Nat PROVE ~QueuedAt(g, i, m)'
    <3>1. SUFFICES ASSUME QueuedAt(g, i, m)' PROVE FALSE OBVIOUS
    <3>2. i > 0 /\ QueuedAt(g, i + (IF g = h THEN 1 ELSE 0), m) BY <1>4, <3>1
    <3>3. i + (IF g = h THEN 1 ELSE 0) \in Nat OBVIOUS
    <3>4. g = h /\ i + (IF g = h THEN 1 ELSE 0) = 1
      BY <1>1, <1>4, <3>2, <3>3 DEF Apart, Once
    <3> QED BY <3>2, <3>4
  <2> HIDE DEF HeldBy, WaitsAt, QueuedAt, ReceivedAt
  <2>4. \A s \in Threads : ~HeldBy(s, m)' BY <1>4, <1>5, <2>1
  <2>5. \A g \in Handles : \A i \in Nat :
           /\ ~QueuedAt(g, i, m)' /\ ~WaitsAt(g, i, m)'
           /\ ReceivedAt(g, i, m)' => g = h /\ i = Len(received[h]) + 1
    BY <1>4, <1>6, <2>2, <2>3
  <2> QED BY <1>1, <1>4, <1>7, <2>4, <2>5, OnlyPlace
<1> DEFINE Z == [g \in Handles |-> 0]
           D == [g \in Handles |-> IF g = h THEN 1 ELSE 0]
<1>9. /\ Z \in [Handles -> Nat] /\ \A g \in Handles : \A i \in Nat : i + Z[g] = i
      /\ D \in [Handles -> Nat]
      /\ \A g \in Handles : D[g] = IF g = h THEN 1 ELSE 0
  OBVIOUS
<1> HIDE DEF Z, D
<1>10. ASSUME NEW v \in Values, v # m PROVE Once(v)' /\ (Nowhere(v) => Nowhere(v)')
  <2>1. Once(v) BY DEF Apart
  <2>2. \A g \in Handles : \A i \in Nat :
              /\ WaitsAt(g, i, v)' => WaitsAt(g, i + Z[g], v)
              /\ QueuedAt(g, i, v)' => QueuedAt(g, i + D[g], v)
              /\ ReceivedAt(g, i, v)' => ReceivedAt(g, i, v)
    BY <1>4, <1>6, <1>9, <1>10
  <2>3. \A s \in Threads : HeldBy(s, v)' => HeldBy(s, v) BY <1>5
  <2> HIDE DEF HeldBy, WaitsAt, QueuedAt, ReceivedAt
  <2> QED BY <1>9, <2>1, <2>2, <2>3, OnceShift
<1>11. ~(m >= next_val) BY <1>1, <1>4 DEF Apart, Nowhere
<1> QED BY <1>2, <1>8, <1>10, <1>11 DEF Apart

(* The critical section of send keeps the messages apart.                   *)
LEMMA ApartTrySend ==
    ASSUME CallInv, Apart, NEW t \in Threads, NEW h \in Args,
           NEW p \in {"idle", "wakereceiver"}, TrySend(t, h, p)
    PROVE  Apart'
<1>1. TypeOK BY DEF CallInv
<1>2. CASE Admits(h)
  <2>1. h \in Handles BY <1>2 DEF Admits, Args, Known
  <2>2. PICK m \in Values : m = next_val BY DEF TrySend
  <2>3. /\ queue' = [queue EXCEPT ![h] = Append(@, m)]
        /\ pc' = [pc EXCEPT ![t] = p] /\ next_val' = m + 1
        /\ UNCHANGED <<waiting_senders, item, received>>
    BY <1>2, <2>2 DEF TrySend, NewMessage
  <2>4. \A s \in Threads : \A v \in Values : HeldBy(s, v)' => HeldBy(s, v)
    BY <1>1, <2>3 DEF HeldBy, TypeOK
  <2>5. PICK j \in Nat : j = Len(queue[h]) + 1 BY <1>1, <2>1 DEF TypeOK
  <2>6. \A v \in Values : \A g \in Handles : \A i \in Nat :
           QueuedAt(g, i, v)' => QueuedAt(g, i, v) \/ (v = m /\ g = h /\ i = j)
    BY <1>1, <2>1, <2>3, <2>5, QueuePut
  <2> HIDE DEF HeldBy, WaitsAt, QueuedAt, ReceivedAt
  <2> QED BY <1>1, <2>1, <2>2, <2>3, <2>4, <2>6, ApartMake
<1>3. CASE ~Admits(h)
  BY <1>3, ApartQuiet DEF TrySend, HeldBy
<1> QED BY <1>2, <1>3

(* A sender that registers its message, and one that holds it while it      *)
(* blocks, keep the messages apart.                                         *)
LEMMA ApartWait ==
    ASSUME CallInv, Apart, NEW t \in Threads, NEW h \in Args,
           SendWithTask(t, h) \/ SendBlocking(t, h)
    PROVE  Apart'
<1>1. TypeOK BY DEF CallInv
<1>2. CASE TrySend(t, h, "idle") BY <1>2, ApartTrySend
<1>3. CASE SendWithTask(t, h) /\ ~TrySend(t, h, "idle")
  <2>1. h \in Handles BY <1>3 DEF SendWithTask, MustWaitToSend, Args, Known
  <2>2. PICK m \in Values : m = next_val BY <1>3 DEF SendWithTask
  <2>3. /\ waiting_senders' = [waiting_senders EXCEPT ![h] = Append(@, <<t, m>>)]
        /\ pc' = [pc EXCEPT ![t] = "suspended"] /\ next_val' = m + 1
        /\ UNCHANGED <<queue, item, received>>
    BY <1>3, <2>2 DEF SendWithTask, NewMessage
  <2>4. \A s \in Threads : \A v \in Values : HeldBy(s, v)' => HeldBy(s, v)
    BY <1>1, <2>3 DEF HeldBy, TypeOK
  <2>5. PICK j \in Nat : j = Len(waiting_senders[h]) + 1
    BY <1>1, <2>1 DEF TypeOK
  <2>6. \A v \in Values : \A g \in Handles : \A i \in Nat :
           WaitsAt(g, i, v)' => WaitsAt(g, i, v) \/ (v = m /\ g = h /\ i = j)
    BY <1>1, <2>1, <2>3, <2>5, WaitPut
  <2> HIDE DEF HeldBy, WaitsAt, QueuedAt, ReceivedAt
  <2>7. m = next_val /\ next_val' = m + 1 /\ received' = received /\ queue' = queue
    BY <2>2, <2>3
  <2> QED BY <1>1, <2>1, <2>4, <2>6, <2>7, ApartMake, SMTT(60)
<1>4. CASE SendBlocking(t, h) /\ (h = NoChan \/ closed[h])
  BY <1>4, ApartQuiet DEF SendBlocking, StartBlockingSend, HeldBy, chanVars
<1>5. CASE SendBlocking(t, h) /\ ~(h = NoChan \/ closed[h])
  <2>1. h \in Handles BY <1>5 DEF Args, Known
  <2>2. PICK m \in Values : m = next_val
    BY <1>5 DEF SendBlocking, StartBlockingSend
  <2>3. /\ item' = [item EXCEPT ![t] = m]
        /\ pc' = [pc EXCEPT ![t] = "sending"] /\ next_val' = m + 1
        /\ UNCHANGED <<queue, waiting_senders, received>>
    BY <1>5, <2>2 DEF SendBlocking, StartBlockingSend, NewMessage, chanVars
  <2>4. \A s \in Threads : \A v \in Values :
           HeldBy(s, v)' => HeldBy(s, v) \/ (v = m /\ s = t)
    BY <1>1, <2>3 DEF HeldBy, TypeOK
  <2> HIDE DEF HeldBy, WaitsAt, QueuedAt, ReceivedAt
  <2>5. /\ m = next_val /\ next_val' = m + 1 /\ received' = received
        /\ queue' = queue /\ waiting_senders' = waiting_senders
    BY <2>2, <2>3
  <2>6. 0 \in Nat OBVIOUS
  <2> QED BY <1>1, <2>1, <2>4, <2>5, <2>6, ApartMake, SMTT(60)
<1> QED BY <1>2, <1>3, <1>4, <1>5 DEF SendWithTask

(* A blocked send that finds room moves its message into the queue.         *)
LEMMA ApartCompleteSend ==
    ASSUME CallInv, Apart, NEW t \in Threads, CompleteSend(t)
    PROVE  Apart'
<1>1. TypeOK BY DEF CallInv
<1>2. PICK h \in Handles : h = at[t] BY DEF CompleteSend, CallInv, Inside, Known
<1>3. PICK m \in Values : m = item[t] BY DEF CompleteSend, CallInv, Inside
<1>4. /\ queue' = [queue EXCEPT ![h] = Append(@, m)]
      /\ pc' = [pc EXCEPT ![t] = "idle"] /\ item' = [item EXCEPT ![t] = 0]
      /\ UNCHANGED <<waiting_senders, received, next_val>>
  BY <1>2, <1>3 DEF CompleteSend
<1>5. HeldBy(t, m) BY <1>3 DEF HeldBy, CompleteSend
<1>6. PICK j \in Nat : j = Len(queue[h]) + 1 BY <1>1 DEF TypeOK
<1>7. \A v \in Values : \A g \in Handles : \A i \in Nat :
         QueuedAt(g, i, v)' => QueuedAt(g, i, v) \/ (v = m /\ g = h /\ i = j)
  BY <1>1, <1>4, <1>6, QueuePut
<1>8. \A s \in Threads : \A v \in Values :
         HeldBy(s, v)' => HeldBy(s, v) /\ s # t
  BY <1>1, <1>4 DEF HeldBy, TypeOK
<1> DEFINE Z == [g \in Handles |-> 0]
<1>9. Z \in [Handles -> Nat] /\ \A g \in Handles : \A i \in Nat : i + Z[g] = i
  OBVIOUS
<1> HIDE DEF Z
<1>10. \A v \in Values : \A g \in Handles : \A i \in Nat :
          WaitsAt(g, i, v)' => WaitsAt(g, i, v)
  BY <1>4 DEF WaitsAt
<1> HIDE DEF HeldBy, WaitsAt, QueuedAt, ReceivedAt
<1>11. \A g \in Handles : \A i \in Nat :
          ~WaitsAt(g, i, m) /\ ~QueuedAt(g, i, m) /\ ~ReceivedAt(g, i, m)
  BY <1>5 DEF Apart, Once
<1>12. \A s \in Threads : ~HeldBy(s, m)' BY <1>5, <1>8 DEF Apart, Once
<1>13. m < next_val
  <2>1. ~(m >= next_val) BY <1>5 DEF Apart, Nowhere
  <2> QED BY <1>1, <2>1 DEF TypeOK, Values
<1>14. \A v \in Values : \A g \in Handles : \A i \in Nat :
          WaitsAt(g, i, v)' => WaitsAt(g, i + Z[g], v)
  BY <1>9, <1>10
<1>15. \A g \in Handles : \A i \in Nat :
          ~WaitsAt(g, i, m)' /\ ~QueuedAt(g, i, m) /\ ~ReceivedAt(g, i, m)
  BY <1>10, <1>11
<1>16. \A v \in Values : \A g \in Handles : \A i \in Nat :
          /\ WaitsAt(g, i, v)' => WaitsAt(g, i + Z[g], v)
          /\ QueuedAt(g, i, v)' =>
                QueuedAt(g, i, v) \/ (v = m /\ g = h /\ i = j)
  BY <1>7, <1>14
<1>17. \A s \in Threads : \A v \in Values : HeldBy(s, v)' => HeldBy(s, v)
  BY <1>8
<1>18. Z \in [Handles -> Nat] /\ UNCHANGED <<received, next_val>> BY <1>4, <1>9
<1> QED BY <1>1, <1>12, <1>13, <1>15, <1>16, <1>17, <1>18, ApartMove, Zenon

(* Waking a sender moves its message into the queue, or drops it.           *)
LEMMA ApartWakeSender ==
    ASSUME CallInv, Apart, NEW t \in Threads, WakeSender(t)
    PROVE  Apart'
<1>1. TypeOK BY DEF CallInv
<1>2. PICK h \in Handles : h = at[t] BY DEF WakeSender, CallInv, Inside, Known
<1>3. /\ pc' = [pc EXCEPT ![t] = "idle"]
      /\ UNCHANGED <<item, received, next_val>>
  BY DEF WakeSender
<1>4. \A s \in Threads : \A v \in Values : HeldBy(s, v)' => HeldBy(s, v)
  BY <1>1, <1>3 DEF HeldBy, TypeOK
<1>5. CASE waiting_senders[h] = <<>>
  <2>1. UNCHANGED <<waiting_senders, queue>> BY <1>2, <1>5 DEF WakeSender
  <2> QED BY <1>3, <1>4, <2>1, ApartQuiet
<1>6. CASE waiting_senders[h] # <<>>
  <2>1. Head(waiting_senders[h]) \in Threads \X Values BY <1>1, <1>6 DEF TypeOK
  <2>2. PICK m \in Values : m = Head(waiting_senders[h])[2] BY <2>1
  <2>3. /\ waiting_senders' = [waiting_senders EXCEPT ![h] = Tail(@)]
        /\ queue' = IF Room(h) THEN [queue EXCEPT ![h] = Append(@, m)] ELSE queue
    BY <1>2, <1>6, <2>2 DEF WakeSender
  <2>4. /\ WaitsAt(h, 1, m)
        /\ \A v \in Values : \A g \in Handles : \A i \in Nat :
              WaitsAt(g, i, v)' =>
                 i > 0 /\ WaitsAt(g, i + (IF g = h THEN 1 ELSE 0), v)
    BY <1>1, <1>6, <2>2, <2>3, WaitPop
  <2>5. PICK j \in Nat : j = Len(queue[h]) + 1 BY <1>1 DEF TypeOK
  <2>6. \A v \in Values : \A g \in Handles : \A i \in Nat :
           QueuedAt(g, i, v)' => QueuedAt(g, i, v) \/ (v = m /\ g = h /\ i = j)
    <3>1. CASE Room(h) BY <1>1, <2>3, <2>5, <3>1, QueuePut
    <3>2. CASE ~Room(h) BY <2>3, <3>2 DEF QueuedAt
    <3> QED BY <3>1, <3>2
  <2> DEFINE D == [g \in Handles |-> IF g = h THEN 1 ELSE 0]
  <2>7. D \in [Handles -> Nat] /\ \A g \in Handles : D[g] = IF g = h THEN 1 ELSE 0
    OBVIOUS
  <2> HIDE DEF D, HeldBy, WaitsAt, QueuedAt, ReceivedAt
  <2>8. \A v \in Values : \A g \in Handles : \A i \in Nat :
           WaitsAt(g, i, v)' => WaitsAt(g, i + D[g], v)
    BY <2>4, <2>7
  <2>9. /\ \A s \in Threads : ~HeldBy(s, m)
        /\ \A g \in Handles : \A i \in Nat : ~QueuedAt(g, i, m) /\ ~ReceivedAt(g, i, m)
    BY <2>4 DEF Apart, Once
  <2>10. ASSUME NEW g \in Handles, NEW i \in Nat PROVE ~WaitsAt(g, i, m)'
    <3>1. SUFFICES ASSUME WaitsAt(g, i, m)' PROVE FALSE OBVIOUS
    <3>2. i > 0 /\ WaitsAt(g, i + (IF g = h THEN 1 ELSE 0), m) BY <2>4, <3>1
    <3>3. i + (IF g = h THEN 1 ELSE 0) \in Nat OBVIOUS
    <3>4. g = h /\ i + (IF g = h THEN 1 ELSE 0) = 1
      BY <2>4, <3>2, <3>3 DEF Apart, Once
    <3> QED BY <3>2, <3>4
  <2>11. m < next_val
    <3>1. ~(m >= next_val) BY <2>4 DEF Apart, Nowhere
    <3> QED BY <1>1, <3>1 DEF TypeOK, Values
  <2>12. \A s \in Threads : ~HeldBy(s, m)' BY <1>4, <2>9
  <2>13. \A g \in Handles : \A i \in Nat :
            ~WaitsAt(g, i, m)' /\ ~QueuedAt(g, i, m) /\ ~ReceivedAt(g, i, m)
    BY <2>9, <2>10
  <2> QED BY <1>1, <1>3, <1>4, <2>6, <2>7, <2>8, <2>11, <2>12, <2>13, ApartMove
<1> QED BY <1>5, <1>6

(* Every step keeps the messages apart: one case per operation.             *)
LEMMA NextApart ==
    ASSUME CallInv, Apart, [Next]_vars
    PROVE  Apart'
<1>0. TypeOK BY DEF CallInv
<1>1. CASE UNCHANGED vars
  BY <1>1, ApartQuiet DEF HeldBy, vars, chanVars, callVars, histVars
<1>2. ASSUME NEW t \in Threads, NEW h \in Args, TakeNothing(t, h) PROVE Apart'
  <2>1. pc' = [pc EXCEPT ![t] = "idle"]
        /\ UNCHANGED <<queue, waiting_senders, received, next_val, item>>
    BY <1>2 DEF TakeNothing, chanVars, histVars
  <2>2. \A s \in Threads : \A v \in Values : HeldBy(s, v)' => HeldBy(s, v)
    BY <1>0, <2>1 DEF HeldBy, TypeOK
  <2> QED BY <2>1, <2>2, ApartQuiet
<1>3. ASSUME NEW t \in Threads, NEW h \in Args,
             \/ Send(t, h) \/ SendAndWake(t, h) \/ SendWithTask(t, h)
             \/ SendBlocking(t, h) \/ Recv(t, h) \/ RecvAndWake(t, h)
             \/ RecvWithTask(t, h) \/ RecvBlocking(t, h) \/ Close(t, h)
      PROVE  Apart'
  <2>1. CASE Send(t, h) \/ SendAndWake(t, h)
    BY <2>1, ApartTrySend DEF Send, SendAndWake
  <2>2. CASE Recv(t, h) BY <1>2, <2>2, ApartTake DEF Recv
  <2>3. CASE RecvAndWake(t, h)
    <3>1. CASE HasMessage(h)
      <4>1. PICK p \in {"idle", "wakesender"} : Take(t, h, p)
        BY <2>3, <3>1 DEF RecvAndWake
      <4> QED BY <3>1, <4>1, ApartTake
    <3>2. CASE ~HasMessage(h) BY <1>2, <2>3, <3>2 DEF RecvAndWake
    <3> QED BY <3>1, <3>2
  <2>4. CASE RecvWithTask(t, h)
    <3>1. CASE HasMessage(h) /\ Take(t, h, "idle") BY <3>1, ApartTake
    <3>2. CASE TakeNothing(t, h) BY <1>2, <3>2
    <3>3. CASE /\ pc' = [pc EXCEPT ![t] = "suspended"]
               /\ UNCHANGED <<queue, waiting_senders, received, next_val, item>>
      <4>1. \A s \in Threads : \A v \in Values : HeldBy(s, v)' => HeldBy(s, v)
        BY <1>0, <3>3 DEF HeldBy, TypeOK
      <4> QED BY <3>3, <4>1, ApartQuiet
    <3>4. \/ HasMessage(h) /\ Take(t, h, "idle")
          \/ TakeNothing(t, h)
          \/ /\ pc' = [pc EXCEPT ![t] = "suspended"]
             /\ UNCHANGED <<queue, waiting_senders, received, next_val, item>>
      BY <2>4 DEF RecvWithTask, histVars
    <3> QED BY <3>1, <3>2, <3>3, <3>4
  <2>5. CASE RecvBlocking(t, h)
    <3>1. CASE h = NoChan BY <1>2, <2>5, <3>1 DEF RecvBlocking, StartBlockingRecv
    <3>2. CASE h # NoChan
      <4>1. /\ pc' = [pc EXCEPT ![t] = "receiving"]
            /\ UNCHANGED <<queue, waiting_senders, received, next_val, item>>
        BY <2>5, <3>2 DEF RecvBlocking, StartBlockingRecv, chanVars, histVars
      <4>2. \A s \in Threads : \A v \in Values : HeldBy(s, v)' => HeldBy(s, v)
        BY <1>0, <4>1 DEF HeldBy, TypeOK
      <4> QED BY <4>1, <4>2, ApartQuiet
    <3> QED BY <3>1, <3>2
  <2>6. CASE Close(t, h) BY <2>6, ApartQuiet DEF Close, HeldBy, histVars
  <2> QED BY <1>3, <2>1, <2>2, <2>3, <2>4, <2>5, <2>6, ApartWait
<1>4. ASSUME NEW t \in Threads, NEW c \in Capacities, Create(t, c) PROVE Apart'
  BY <1>4, ApartQuiet DEF Create, HeldBy, histVars
<1>5. ASSUME NEW t \in Threads, Step(t) PROVE Apart'
  <2>1. CASE WakeReceiver(t)
    <3>1. /\ pc' = [pc EXCEPT ![t] = "idle"]
          /\ UNCHANGED <<queue, waiting_senders, received, next_val, item>>
      BY <2>1 DEF WakeReceiver, histVars
    <3>2. \A s \in Threads : \A v \in Values : HeldBy(s, v)' => HeldBy(s, v)
      BY <1>0, <3>1 DEF HeldBy, TypeOK
    <3> QED BY <3>1, <3>2, ApartQuiet
  <2>2. CASE CompleteRecv(t)
    <3>1. at[t] \in Args BY <2>2 DEF CompleteRecv, CallInv, Inside, Args
    <3> QED BY <2>2, <3>1, ApartTake DEF CompleteRecv
  <2>3. CASE GetWokenSender(t) \/ GetWokenReceiver(t)
    <3>1. UNCHANGED <<queue, waiting_senders, received, next_val, item>>
      BY <2>3 DEF GetWokenSender, GetWokenReceiver, chanVars, histVars
    <3>2. \A s \in Threads : pc'[s] = "sending" => pc[s] = "sending"
      BY <1>0, <2>3, NamesAssumption DEF GetWokenSender, GetWokenReceiver, TypeOK
    <3>3. \A s \in Threads : \A v \in Values : HeldBy(s, v)' => HeldBy(s, v)
      BY <3>1, <3>2 DEF HeldBy
    <3> QED BY <3>1, <3>3, ApartQuiet
  <2> QED BY <1>5, <2>1, <2>2, <2>3, ApartWakeSender, ApartCompleteSend DEF Step
<1> QED BY <1>1, <1>3, <1>4, <1>5 DEF Next, Call

(* Apart holds in every reachable state.                                    *)
LEMMA MessagesApart == Spec => []Apart
<1>1. Init => Apart
  <2> SUFFICES ASSUME Init, NEW v \in Values PROVE Once(v) /\ Nowhere(v)
    BY DEF Apart
  <2>1. \A t \in Threads : ~HeldBy(t, v) BY DEF Init, HeldBy
  <2>2. \A h \in Handles : \A i \in Nat :
           ~WaitsAt(h, i, v) /\ ~QueuedAt(h, i, v) /\ ~ReceivedAt(h, i, v)
    BY DEF Init, WaitsAt, QueuedAt, ReceivedAt
  <2> QED BY <2>1, <2>2 DEF Once, Nowhere
<1>2. CallInv /\ Apart /\ [Next]_vars => Apart' BY NextApart
<1> QED BY <1>1, <1>2, CallInvHolds, PTL DEF Spec

(* No message is ever in two places or received twice, whatever senders,    *)
(* receivers and wakers race, for any number of threads and channels.       *)
THEOREM ChannelMessagesOnce == Spec => []MessagesOnce
<1>1. Apart => MessagesOnce BY OnceIsOnePlace DEF Apart, MessagesOnce
<1> QED BY <1>1, MessagesApart, PTL

-----------------------------------------------------------------------------
(* SenderOrder.  A suspended task is filed in one place at most, so a thread *)
(* has at most one message that is made and not yet in a queue, and that one *)
(* is newer than all its messages that are.                                  *)

\* Task t waits in one list, or was popped by one thread, never both.
FiledOnce(t) ==
    /\ \A g, h \in Handles : \A i, k \in Nat :
          /\ SenderAt(h, i, t) /\ SenderAt(g, k, t) => g = h /\ k = i
          /\ ReceiverAt(h, i, t) /\ ReceiverAt(g, k, t) => g = h /\ k = i
          /\ ~(SenderAt(h, i, t) /\ ReceiverAt(g, k, t))
    /\ \A r, s \in Threads :
          /\ woken_sender[r] = t /\ woken_sender[s] = t => r = s
          /\ woken_receiver[r] = t /\ woken_receiver[s] = t => r = s
          /\ ~(woken_sender[r] = t /\ woken_receiver[s] = t)
    /\ \A s \in Threads : WokenBy(s, t) =>
          \A h \in Handles : \A i \in Nat : ~SenderAt(h, i, t) /\ ~ReceiverAt(h, i, t)

\* Task t is in no list, and no thread has popped it.
NotFiled(t) ==
    /\ \A h \in Handles : \A i \in Nat : ~SenderAt(h, i, t) /\ ~ReceiverAt(h, i, t)
    /\ \A s \in Threads : ~WokenBy(s, t)

\* Only suspended tasks are filed, each of them once.
Filed == \A t \in Threads : FiledOnce(t) /\ (pc[t] # "suspended" => NotFiled(t))

(* A task keeps its place while the lists before it are popped.             *)
LEMMA FiledShift ==
    ASSUME NEW t \in Threads, NEW ds \in [Handles -> Nat], NEW dr \in [Handles -> Nat],
           FiledOnce(t),
           \A h \in Handles : \A i \in Nat :
              /\ SenderAt(h, i, t)' => SenderAt(h, i + ds[h], t)
              /\ ReceiverAt(h, i, t)' => ReceiverAt(h, i + dr[h], t),
           \A s \in Threads : /\ woken_sender'[s] = t => woken_sender[s] = t
                              /\ woken_receiver'[s] = t => woken_receiver[s] = t
    PROVE  FiledOnce(t)' /\ (NotFiled(t) => NotFiled(t)')
<1> HIDE DEF SenderAt, ReceiverAt
<1>1. \A h \in Handles : ds[h] \in Nat /\ dr[h] \in Nat OBVIOUS
<1>2. \A h \in Handles : \A i \in Nat : i + ds[h] \in Nat /\ i + dr[h] \in Nat
  BY <1>1
<1>3. \A s \in Threads : WokenBy(s, t)' => WokenBy(s, t) BY DEF WokenBy
<1>4. NotFiled(t) => NotFiled(t)' BY <1>2, <1>3 DEF NotFiled
<1>5. ASSUME NEW g \in Handles, NEW h \in Handles, NEW i \in Nat, NEW k \in Nat
      PROVE  /\ SenderAt(h, i, t)' /\ SenderAt(g, k, t)' => g = h /\ k = i
             /\ ReceiverAt(h, i, t)' /\ ReceiverAt(g, k, t)' => g = h /\ k = i
             /\ ~(SenderAt(h, i, t)' /\ ReceiverAt(g, k, t)')
  <2>1. /\ k + ds[h] = i + ds[h] => k = i
        /\ k + dr[h] = i + dr[h] => k = i
    BY <1>1
  <2>2. /\ i + ds[h] \in Nat /\ k + ds[g] \in Nat
        /\ i + dr[h] \in Nat /\ k + dr[g] \in Nat
    BY <1>2
  <2>3. SenderAt(h, i, t)' /\ SenderAt(g, k, t)' => g = h /\ k = i
    BY <2>1, <2>2 DEF FiledOnce
  <2>4. ReceiverAt(h, i, t)' /\ ReceiverAt(g, k, t)' => g = h /\ k = i
    BY <2>1, <2>2 DEF FiledOnce
  <2> QED BY <2>2, <2>3, <2>4 DEF FiledOnce
<1>6. \A r, s \in Threads :
          /\ woken_sender'[r] = t /\ woken_sender'[s] = t => r = s
          /\ woken_receiver'[r] = t /\ woken_receiver'[s] = t => r = s
          /\ ~(woken_sender'[r] = t /\ woken_receiver'[s] = t)
  BY DEF FiledOnce
<1>7. ASSUME NEW s \in Threads, WokenBy(s, t)', NEW h \in Handles, NEW i \in Nat
      PROVE  ~SenderAt(h, i, t)' /\ ~ReceiverAt(h, i, t)'
  BY <1>2, <1>3, <1>7 DEF FiledOnce
<1> QED BY <1>4, <1>5, <1>6, <1>7 DEF FiledOnce

(* A step that registers, wakes and resumes nobody keeps the tasks filed.   *)
LEMMA FiledQuiet ==
    ASSUME Filed,
           UNCHANGED <<waiting_senders, waiting_receivers, woken_sender, woken_receiver>>,
           \A t \in Threads : pc'[t] # "suspended" => pc[t] # "suspended"
    PROVE  Filed'
<1>1. \A t \in Threads : (FiledOnce(t)' <=> FiledOnce(t)) /\ (NotFiled(t)' <=> NotFiled(t))
  BY DEF FiledOnce, NotFiled, SenderAt, ReceiverAt, WokenBy
<1> QED BY <1>1 DEF Filed

-----------------------------------------------------------------------------
(* Where the tasks of the two lists were before the lists changed.          *)
LEMMA SenderPut ==
    ASSUME TypeOK, NEW h \in Handles, NEW m \in Values, NEW t \in Threads,
           waiting_senders' = [waiting_senders EXCEPT ![h] = Append(@, <<t, m>>)]
    PROVE  \A u \in Threads : \A g \in Handles : \A i \in Nat :
              SenderAt(g, i, u)' =>
                 \/ SenderAt(g, i, u)
                 \/ u = t /\ g = h /\ i = Len(waiting_senders[h]) + 1
<1>1. waiting_senders \in [Handles -> Seq(Threads \X Values)] BY DEF TypeOK
<1>2. /\ waiting_senders[h] \in Seq(Threads \X Values)
      /\ waiting_senders'[h] = Append(waiting_senders[h], <<t, m>>)
      /\ <<t, m>> \in Threads \X Values
  BY <1>1
<1>3. \A g \in Handles : g # h => waiting_senders'[g] = waiting_senders[g] BY <1>1
<1>4. \A i \in 1 .. Len(waiting_senders'[h]) :
         \/ i \in 1 .. Len(waiting_senders[h])
            /\ waiting_senders'[h][i] = waiting_senders[h][i]
         \/ i = Len(waiting_senders[h]) + 1 /\ waiting_senders'[h][i] = <<t, m>>
  BY <1>2
<1> QED BY <1>3, <1>4 DEF SenderAt

(* A receiver that begins to wait is put at the end of the list.           *)
LEMMA ReceiverPut ==
    ASSUME TypeOK, NEW h \in Handles, NEW t \in Threads,
           waiting_receivers' = [waiting_receivers EXCEPT ![h] = Append(@, t)]
    PROVE  \A u \in Threads : \A g \in Handles : \A i \in Nat :
              ReceiverAt(g, i, u)' =>
                 \/ ReceiverAt(g, i, u)
                 \/ u = t /\ g = h /\ i = Len(waiting_receivers[h]) + 1
<1>1. waiting_receivers \in [Handles -> Seq(Threads)] BY DEF TypeOK
<1>2. /\ waiting_receivers[h] \in Seq(Threads)
      /\ waiting_receivers'[h] = Append(waiting_receivers[h], t)
  BY <1>1
<1>3. \A g \in Handles : g # h => waiting_receivers'[g] = waiting_receivers[g] BY <1>1
<1>4. \A i \in 1 .. Len(waiting_receivers'[h]) :
         \/ i \in 1 .. Len(waiting_receivers[h])
            /\ waiting_receivers'[h][i] = waiting_receivers[h][i]
         \/ i = Len(waiting_receivers[h]) + 1 /\ waiting_receivers'[h][i] = t
  BY <1>2
<1> QED BY <1>3, <1>4 DEF ReceiverAt

(* When the first waiting sender is popped, the tasks behind it move up.   *)
LEMMA SenderPop ==
    ASSUME TypeOK, NEW h \in Handles, waiting_senders[h] # <<>>,
           waiting_senders' = [waiting_senders EXCEPT ![h] = Tail(@)]
    PROVE  /\ SenderAt(h, 1, Head(waiting_senders[h])[1])
           /\ Head(waiting_senders[h]) \in Threads \X Values
           /\ \A u \in Threads : \A g \in Handles : \A i \in Nat :
                 SenderAt(g, i, u)' =>
                    i > 0 /\ SenderAt(g, i + (IF g = h THEN 1 ELSE 0), u)
<1>1. waiting_senders \in [Handles -> Seq(Threads \X Values)] BY DEF TypeOK
<1>2. /\ waiting_senders[h] \in Seq(Threads \X Values)
      /\ waiting_senders'[h] = Tail(waiting_senders[h])
  BY <1>1
<1>3. \A g \in Handles : g # h => waiting_senders'[g] = waiting_senders[g] BY <1>1
<1>4. \A i \in 1 .. Len(waiting_senders'[h]) :
         /\ i + 1 \in 1 .. Len(waiting_senders[h])
         /\ waiting_senders'[h][i] = waiting_senders[h][i + 1]
  BY <1>2, TailAt
<1>5. /\ 1 \in 1 .. Len(waiting_senders[h])
      /\ Head(waiting_senders[h]) = waiting_senders[h][1]
      /\ Head(waiting_senders[h]) \in Threads \X Values
  BY <1>2, TailAt
<1>6. SenderAt(h, 1, Head(waiting_senders[h])[1]) BY <1>5 DEF SenderAt
<1>7. ASSUME NEW u \in Threads, NEW g \in Handles, NEW i \in Nat, SenderAt(g, i, u)'
      PROVE  i > 0 /\ SenderAt(g, i + (IF g = h THEN 1 ELSE 0), u)
  <2>1. i \in 1 .. Len(waiting_senders'[g]) /\ waiting_senders'[g][i][1] = u
    BY <1>7 DEF SenderAt
  <2>2. i > 0 /\ i + 0 = i BY <2>1
  <2>3. CASE g = h BY <1>4, <2>1, <2>2, <2>3 DEF SenderAt
  <2>4. CASE g # h BY <1>3, <2>1, <2>2, <2>4 DEF SenderAt
  <2> QED BY <2>3, <2>4
<1> QED BY <1>5, <1>6, <1>7

(* When the first waiting receiver is popped, the tasks behind it move up. *)
LEMMA ReceiverPop ==
    ASSUME TypeOK, NEW h \in Handles, waiting_receivers[h] # <<>>,
           waiting_receivers' = [waiting_receivers EXCEPT ![h] = Tail(@)]
    PROVE  /\ ReceiverAt(h, 1, Head(waiting_receivers[h]))
           /\ Head(waiting_receivers[h]) \in Threads
           /\ \A u \in Threads : \A g \in Handles : \A i \in Nat :
                 ReceiverAt(g, i, u)' =>
                    i > 0 /\ ReceiverAt(g, i + (IF g = h THEN 1 ELSE 0), u)
<1>1. waiting_receivers \in [Handles -> Seq(Threads)] BY DEF TypeOK
<1>2. /\ waiting_receivers[h] \in Seq(Threads)
      /\ waiting_receivers'[h] = Tail(waiting_receivers[h])
  BY <1>1
<1>3. \A g \in Handles : g # h => waiting_receivers'[g] = waiting_receivers[g] BY <1>1
<1>4. \A i \in 1 .. Len(waiting_receivers'[h]) :
         /\ i + 1 \in 1 .. Len(waiting_receivers[h])
         /\ waiting_receivers'[h][i] = waiting_receivers[h][i + 1]
  BY <1>2, TailAt
<1>5. /\ 1 \in 1 .. Len(waiting_receivers[h])
      /\ Head(waiting_receivers[h]) = waiting_receivers[h][1]
      /\ Head(waiting_receivers[h]) \in Threads
  BY <1>2, TailAt
<1>6. ReceiverAt(h, 1, Head(waiting_receivers[h])) BY <1>5 DEF ReceiverAt
<1>7. ASSUME NEW u \in Threads, NEW g \in Handles, NEW i \in Nat, ReceiverAt(g, i, u)'
      PROVE  i > 0 /\ ReceiverAt(g, i + (IF g = h THEN 1 ELSE 0), u)
  <2>1. i \in 1 .. Len(waiting_receivers'[g]) /\ waiting_receivers'[g][i] = u
    BY <1>7 DEF ReceiverAt
  <2>2. i > 0 /\ i + 0 = i BY <2>1
  <2>3. CASE g = h BY <1>4, <2>1, <2>2, <2>3 DEF ReceiverAt
  <2>4. CASE g # h BY <1>3, <2>1, <2>2, <2>4 DEF ReceiverAt
  <2> QED BY <2>3, <2>4
<1> QED BY <1>5, <1>6, <1>7

-----------------------------------------------------------------------------
(* A running task that registers itself is filed there and nowhere else.    *)
LEMMA FiledRegister ==
    ASSUME Filed, NEW t \in Threads, pc[t] # "suspended",
           NEW h \in Handles, NEW j \in Nat,
           pc \in [Threads -> PC], pc' = [pc EXCEPT ![t] = "suspended"],
           UNCHANGED <<woken_sender, woken_receiver>>,
           \/ /\ waiting_receivers' = waiting_receivers
              /\ \A u \in Threads : \A g \in Handles : \A i \in Nat :
                    SenderAt(g, i, u)' =>
                       SenderAt(g, i, u) \/ (u = t /\ g = h /\ i = j)
           \/ /\ waiting_senders' = waiting_senders
              /\ \A u \in Threads : \A g \in Handles : \A i \in Nat :
                    ReceiverAt(g, i, u)' =>
                       ReceiverAt(g, i, u) \/ (u = t /\ g = h /\ i = j)
    PROVE  Filed'
<1>1. NotFiled(t) BY DEF Filed
<1>2. /\ waiting_senders' = waiting_senders =>
            \A u \in Threads : \A g \in Handles : \A i \in Nat :
               SenderAt(g, i, u)' => SenderAt(g, i, u)
      /\ waiting_receivers' = waiting_receivers =>
            \A u \in Threads : \A g \in Handles : \A i \in Nat :
               ReceiverAt(g, i, u)' => ReceiverAt(g, i, u)
      /\ \A s, u \in Threads : WokenBy(s, u)' => WokenBy(s, u)
  BY DEF SenderAt, ReceiverAt, WokenBy
<1> DEFINE Z == [g \in Handles |-> 0]
<1>3. Z \in [Handles -> Nat] /\ \A g \in Handles : \A i \in Nat : i + Z[g] = i
  OBVIOUS
<1> HIDE DEF Z, SenderAt, ReceiverAt
<1>4. FiledOnce(t)'
  <2>1. \A s \in Threads : ~WokenBy(s, t)' BY <1>1, <1>2 DEF NotFiled
  <2>2. \A s \in Threads : woken_sender'[s] # t /\ woken_receiver'[s] # t
    BY <2>1 DEF WokenBy
  <2> QED BY <1>1, <1>2, <2>1, <2>2 DEF NotFiled, FiledOnce
<1>5. ASSUME NEW u \in Threads, u # t
      PROVE  FiledOnce(u)' /\ (NotFiled(u) => NotFiled(u)')
  <2>1. \A g \in Handles : \A i \in Nat :
           /\ SenderAt(g, i, u)' => SenderAt(g, i + Z[g], u)
           /\ ReceiverAt(g, i, u)' => ReceiverAt(g, i + Z[g], u)
    BY <1>2, <1>3, <1>5
  <2>2. FiledOnce(u) BY DEF Filed
  <2> QED BY <1>3, <2>1, <2>2, FiledShift
<1>6. \A u \in Threads : u # t => pc'[u] = pc[u] OBVIOUS
<1>7. pc'[t] = "suspended" OBVIOUS
<1> QED BY <1>4, <1>5, <1>6, <1>7 DEF Filed

(* A task that is woken leaves its list for the cell of the thread that     *)
(* wakes it.                                                                *)
LEMMA FiledWake ==
    ASSUME TypeOK, Filed, NEW t \in Threads, NEW h \in Handles, NEW w \in Threads,
           pc[t] # "suspended", pc' = [pc EXCEPT ![t] = "idle"],
           \/ /\ SenderAt(h, 1, w)
              /\ \A u \in Threads : \A g \in Handles : \A i \in Nat :
                    SenderAt(g, i, u)' =>
                       i > 0 /\ SenderAt(g, i + (IF g = h THEN 1 ELSE 0), u)
              /\ woken_sender' = [woken_sender EXCEPT ![t] = w]
              /\ UNCHANGED <<waiting_receivers, woken_receiver>>
           \/ /\ ReceiverAt(h, 1, w)
              /\ \A u \in Threads : \A g \in Handles : \A i \in Nat :
                    ReceiverAt(g, i, u)' =>
                       i > 0 /\ ReceiverAt(g, i + (IF g = h THEN 1 ELSE 0), u)
              /\ woken_receiver' = [woken_receiver EXCEPT ![t] = w]
              /\ UNCHANGED <<waiting_senders, woken_sender>>
    PROVE  Filed'
<1>1. /\ waiting_senders' = waiting_senders =>
            \A u \in Threads : \A g \in Handles : \A i \in Nat :
               SenderAt(g, i, u)' => SenderAt(g, i, u)
      /\ waiting_receivers' = waiting_receivers =>
            \A u \in Threads : \A g \in Handles : \A i \in Nat :
               ReceiverAt(g, i, u)' => ReceiverAt(g, i, u)
  BY DEF SenderAt, ReceiverAt
<1> DEFINE Z == [g \in Handles |-> 0]
           D == [g \in Handles |-> IF g = h THEN 1 ELSE 0]
<1>2. /\ Z \in [Handles -> Nat] /\ \A g \in Handles : \A i \in Nat : i + Z[g] = i
      /\ D \in [Handles -> Nat]
      /\ \A g \in Handles : D[g] = IF g = h THEN 1 ELSE 0
  OBVIOUS
<1> HIDE DEF Z, D, SenderAt, ReceiverAt
<1>3. /\ pc'[t] # "suspended"
      /\ \A u \in Threads : u # t => pc'[u] = pc[u]
      /\ FiledOnce(w) /\ 1 \in Nat
  BY DEF TypeOK, Filed
<1>4. pc[w] = "suspended" BY <1>3 DEF Filed, NotFiled
<1>5. /\ \A s \in Threads : woken_sender[s] # w /\ woken_receiver[s] # w
      /\ \A g \in Handles : \A i \in Nat :
            SenderAt(g, i, w) \/ ReceiverAt(g, i, w) => g = h /\ i = 1
  BY <1>3 DEF FiledOnce, WokenBy
<1>6. \A g \in Handles : \A i \in Nat :
         /\ i > 0 => i + (IF g = h THEN 1 ELSE 0) # 1 \/ g # h
         /\ i + (IF g = h THEN 1 ELSE 0) \in Nat
  OBVIOUS
<1>7. CASE /\ SenderAt(h, 1, w)
           /\ \A u \in Threads : \A g \in Handles : \A i \in Nat :
                 SenderAt(g, i, u)' =>
                    i > 0 /\ SenderAt(g, i + (IF g = h THEN 1 ELSE 0), u)
           /\ woken_sender' = [woken_sender EXCEPT ![t] = w]
           /\ UNCHANGED <<waiting_receivers, woken_receiver>>
  <2>1. /\ \A s \in Threads : woken_sender'[s] = w => s = t
        /\ \A s \in Threads : \A u \in Threads :
              u # w /\ woken_sender'[s] = u => woken_sender[s] = u
        /\ woken_receiver' = woken_receiver
    BY <1>5, <1>7 DEF TypeOK
  <2>2. \A g \in Handles : \A i \in Nat : ~SenderAt(g, i, w)'
    BY <1>5, <1>6, <1>7
  <2>3. \A g \in Handles : \A i \in Nat : ~ReceiverAt(g, i, w)'
    <3>1. \A g \in Handles : \A i \in Nat : ~ReceiverAt(g, i, w)
      BY <1>3, <1>7 DEF FiledOnce
    <3> QED BY <1>1, <1>7, <3>1
  <2>4. FiledOnce(w)' BY <1>5, <2>1, <2>2, <2>3 DEF FiledOnce
  <2>5. ASSUME NEW u \in Threads, u # w
        PROVE  FiledOnce(u)' /\ (NotFiled(u) => NotFiled(u)')
    <3>1. \A g \in Handles : \A i \in Nat :
             /\ SenderAt(g, i, u)' => SenderAt(g, i + D[g], u)
             /\ ReceiverAt(g, i, u)' => ReceiverAt(g, i + Z[g], u)
      BY <1>1, <1>2, <1>7
    <3>2. \A s \in Threads : /\ woken_sender'[s] = u => woken_sender[s] = u
                             /\ woken_receiver'[s] = u => woken_receiver[s] = u
      BY <2>1, <2>5
    <3>3. FiledOnce(u) BY DEF Filed
    <3> QED BY <1>2, <3>1, <3>2, <3>3, FiledShift
  <2>6. t # w BY <1>4
  <2> QED BY <1>3, <1>4, <2>4, <2>5, <2>6 DEF Filed
<1>8. CASE /\ ReceiverAt(h, 1, w)
           /\ \A u \in Threads : \A g \in Handles : \A i \in Nat :
                 ReceiverAt(g, i, u)' =>
                    i > 0 /\ ReceiverAt(g, i + (IF g = h THEN 1 ELSE 0), u)
           /\ woken_receiver' = [woken_receiver EXCEPT ![t] = w]
           /\ UNCHANGED <<waiting_senders, woken_sender>>
  <2>1. /\ \A s \in Threads : woken_receiver'[s] = w => s = t
        /\ \A s \in Threads : \A u \in Threads :
              u # w /\ woken_receiver'[s] = u => woken_receiver[s] = u
        /\ woken_sender' = woken_sender
    BY <1>5, <1>8 DEF TypeOK
  <2>2. \A g \in Handles : \A i \in Nat : ~ReceiverAt(g, i, w)'
    BY <1>5, <1>6, <1>8
  <2>3. \A g \in Handles : \A i \in Nat : ~SenderAt(g, i, w)'
    <3>1. \A g \in Handles : \A i \in Nat : ~SenderAt(g, i, w)
      BY <1>3, <1>8 DEF FiledOnce
    <3> QED BY <1>1, <1>8, <3>1
  <2>4. FiledOnce(w)' BY <1>5, <2>1, <2>2, <2>3 DEF FiledOnce
  <2>5. ASSUME NEW u \in Threads, u # w
        PROVE  FiledOnce(u)' /\ (NotFiled(u) => NotFiled(u)')
    <3>1. \A g \in Handles : \A i \in Nat :
             /\ SenderAt(g, i, u)' => SenderAt(g, i + Z[g], u)
             /\ ReceiverAt(g, i, u)' => ReceiverAt(g, i + D[g], u)
      BY <1>1, <1>2, <1>8
    <3>2. \A s \in Threads : /\ woken_sender'[s] = u => woken_sender[s] = u
                             /\ woken_receiver'[s] = u => woken_receiver[s] = u
      BY <2>1, <2>5
    <3>3. FiledOnce(u) BY DEF Filed
    <3> QED BY <1>2, <3>1, <3>2, <3>3, FiledShift
  <2>6. t # w BY <1>4
  <2> QED BY <1>3, <1>4, <2>4, <2>5, <2>6 DEF Filed
<1> QED BY <1>7, <1>8

(* A task that is resumed is taken out of the cell, its only place.         *)
LEMMA FiledResume ==
    ASSUME TypeOK, Filed, NEW t \in Threads, GetWokenSender(t) \/ GetWokenReceiver(t)
    PROVE  Filed'
<1>1. UNCHANGED <<waiting_senders, waiting_receivers>>
  BY DEF GetWokenSender, GetWokenReceiver, chanVars
<1>2. PICK w \in Threads :
         \/ /\ w = woken_sender[t] /\ woken_receiver' = woken_receiver
            /\ woken_sender' = [woken_sender EXCEPT ![t] = NoTask]
            /\ pc' = [pc EXCEPT ![w] = IF @ = "suspended" THEN "idle" ELSE @]
         \/ /\ w = woken_receiver[t] /\ woken_sender' = woken_sender
            /\ woken_receiver' = [woken_receiver EXCEPT ![t] = NoTask]
            /\ pc' = [pc EXCEPT ![w] = IF @ = "suspended" THEN "retry" ELSE @]
  BY DEF GetWokenSender, GetWokenReceiver, TypeOK
<1>3. WokenBy(t, w) /\ FiledOnce(w) BY <1>2 DEF WokenBy, Filed
<1>4. /\ \A u \in Threads : u # w => pc'[u] = pc[u]
      /\ \A u, s \in Threads : /\ woken_sender'[s] = u => woken_sender[s] = u
                               /\ woken_receiver'[s] = u => woken_receiver[s] = u
  BY <1>2, NamesAssumption DEF TypeOK
<1>5. \A u \in Threads : \A g \in Handles : \A i \in Nat :
         /\ SenderAt(g, i, u)' => SenderAt(g, i, u)
         /\ ReceiverAt(g, i, u)' => ReceiverAt(g, i, u)
  BY <1>1 DEF SenderAt, ReceiverAt
<1> DEFINE Z == [g \in Handles |-> 0]
<1>6. Z \in [Handles -> Nat] /\ \A g \in Handles : \A i \in Nat : i + Z[g] = i
  OBVIOUS
<1> HIDE DEF Z, SenderAt, ReceiverAt
<1>7. ASSUME NEW u \in Threads
      PROVE  FiledOnce(u)' /\ (NotFiled(u) => NotFiled(u)')
  <2>1. \A g \in Handles : \A i \in Nat :
           /\ SenderAt(g, i, u)' => SenderAt(g, i + Z[g], u)
           /\ ReceiverAt(g, i, u)' => ReceiverAt(g, i + Z[g], u)
    BY <1>5, <1>6
  <2>2. FiledOnce(u) BY DEF Filed
  <2>3. \A s \in Threads : /\ woken_sender'[s] = u => woken_sender[s] = u
                           /\ woken_receiver'[s] = u => woken_receiver[s] = u
    BY <1>4
  <2> QED BY <1>6, <2>1, <2>2, <2>3, FiledShift
<1>8. NotFiled(w)'
  <2>1. \A g \in Handles : \A i \in Nat : ~SenderAt(g, i, w) /\ ~ReceiverAt(g, i, w)
    BY <1>3 DEF FiledOnce
  <2>2. \A s \in Threads : woken_sender'[s] # w /\ woken_receiver'[s] # w
    <3>1. CASE w = woken_sender[t]
      <4>1. /\ \A s \in Threads : woken_sender[s] = w => s = t
            /\ \A s \in Threads : woken_receiver[s] # w
        BY <1>3, <3>1 DEF FiledOnce
      <4>2. /\ woken_sender' = [woken_sender EXCEPT ![t] = NoTask]
            /\ woken_receiver' = woken_receiver
        BY <1>2, <4>1
      <4>3. woken_sender'[t] = NoTask /\ NoTask # w
        BY <4>2, NamesAssumption DEF TypeOK
      <4> QED BY <1>4, <4>1, <4>3
    <3>2. CASE w = woken_receiver[t]
      <4>1. /\ \A s \in Threads : woken_receiver[s] = w => s = t
            /\ \A s \in Threads : woken_sender[s] # w
        BY <1>3, <3>2 DEF FiledOnce
      <4>2. /\ woken_receiver' = [woken_receiver EXCEPT ![t] = NoTask]
            /\ woken_sender' = woken_sender
        BY <1>2, <4>1
      <4>3. woken_receiver'[t] = NoTask /\ NoTask # w
        BY <4>2, NamesAssumption DEF TypeOK
      <4> QED BY <1>4, <4>1, <4>3
    <3> QED BY <1>2, <3>1, <3>2
  <2> QED BY <1>5, <2>1, <2>2 DEF NotFiled, WokenBy
<1> QED BY <1>4, <1>7, <1>8 DEF Filed

(* Every step keeps the tasks filed: one case per operation.                *)
LEMMA NextFiled ==
    ASSUME CallInv, Filed, [Next]_vars
    PROVE  Filed'
<1>0. TypeOK /\ pc \in [Threads -> PC] BY DEF CallInv, TypeOK
<1>1. CASE UNCHANGED vars
  BY <1>1, FiledQuiet DEF vars, chanVars, callVars
<1>2. ASSUME NEW t \in Threads, NEW p \in PC, pc[t] # "suspended",
             pc' = pc \/ pc' = [pc EXCEPT ![t] = p],
             UNCHANGED <<waiting_senders, waiting_receivers, woken_sender, woken_receiver>>
      PROVE  Filed'
  <2>1. \A u \in Threads : pc'[u] # "suspended" => pc[u] # "suspended"
    BY <1>0, <1>2
  <2> QED BY <1>2, <2>1, FiledQuiet
<1>3. ASSUME NEW t \in Threads, NEW h \in Args,
             \/ Send(t, h) \/ SendAndWake(t, h) \/ SendWithTask(t, h)
             \/ SendBlocking(t, h) \/ Recv(t, h) \/ RecvAndWake(t, h)
             \/ RecvWithTask(t, h) \/ RecvBlocking(t, h) \/ Close(t, h)
      PROVE  Filed'
  <2>0. pc[t] # "suspended"
    BY <1>3 DEF Send, SendAndWake, SendWithTask, SendBlocking, Recv, RecvAndWake,
                RecvWithTask, RecvBlocking, Close, Ready
  <2>1. ASSUME NEW p \in PC, TrySend(t, h, p) PROVE Filed'
    <3>1. /\ pc' = pc \/ pc' = [pc EXCEPT ![t] = p]
          /\ UNCHANGED <<waiting_senders, waiting_receivers, woken_sender, woken_receiver>>
      BY <2>1 DEF TrySend
    <3> QED BY <1>2, <2>0, <3>1
  <2>2. ASSUME NEW p \in PC, Take(t, h, p) \/ TakeNothing(t, h) PROVE Filed'
    <3>1. /\ pc' = [pc EXCEPT ![t] = p] \/ pc' = [pc EXCEPT ![t] = "idle"]
          /\ UNCHANGED <<waiting_senders, waiting_receivers, woken_sender, woken_receiver>>
      BY <2>2 DEF Take, TakeNothing, chanVars
    <3>2. "idle" \in PC BY DEF PC
    <3> QED BY <1>2, <2>0, <3>1, <3>2
  <2>3. {"idle", "wakesender", "wakereceiver", "sending", "receiving"} \subseteq PC
    BY DEF PC
  <2>4. CASE Send(t, h) \/ SendAndWake(t, h)
    BY <2>1, <2>3, <2>4 DEF Send, SendAndWake
  <2>5. CASE SendWithTask(t, h)
    <3>1. CASE TrySend(t, h, "idle") BY <2>1, <2>3, <3>1
    <3>2. CASE ~TrySend(t, h, "idle")
      <4>1. h \in Handles BY <2>5, <3>2 DEF SendWithTask, MustWaitToSend, Args, Known
      <4>2. PICK m \in Values : m = next_val BY <2>5, <3>2 DEF SendWithTask
      <4>3. /\ waiting_senders' = [waiting_senders EXCEPT ![h] = Append(@, <<t, m>>)]
            /\ pc' = [pc EXCEPT ![t] = "suspended"]
            /\ UNCHANGED <<waiting_receivers, woken_sender, woken_receiver>>
        BY <2>5, <3>2, <4>2 DEF SendWithTask
      <4>4. PICK j \in Nat : j = Len(waiting_senders[h]) + 1
        BY <1>0, <4>1 DEF TypeOK
      <4>5. \A u \in Threads : \A g \in Handles : \A i \in Nat :
               SenderAt(g, i, u)' =>
                  SenderAt(g, i, u) \/ (u = t /\ g = h /\ i = j)
        BY <1>0, <4>1, <4>3, <4>4, SenderPut
      <4> HIDE DEF SenderAt, ReceiverAt
      <4> QED BY <1>0, <2>0, <4>1, <4>3, <4>5, FiledRegister
    <3> QED BY <3>1, <3>2
  <2>6. CASE SendBlocking(t, h)
    <3>1. /\ pc' = pc \/ pc' = [pc EXCEPT ![t] = "sending"]
          /\ UNCHANGED <<waiting_senders, waiting_receivers, woken_sender, woken_receiver>>
      BY <2>6 DEF SendBlocking, StartBlockingSend, chanVars
    <3> QED BY <1>2, <2>0, <2>3, <3>1
  <2>7. CASE Recv(t, h) BY <2>2, <2>3, <2>7 DEF Recv
  <2>8. CASE RecvAndWake(t, h) BY <2>2, <2>3, <2>8 DEF RecvAndWake
  <2>9. CASE RecvWithTask(t, h)
    <3>1. CASE Take(t, h, "idle") \/ TakeNothing(t, h) BY <2>2, <2>3, <3>1
    <3>2. CASE ~(Take(t, h, "idle") \/ TakeNothing(t, h))
      <4>1. h \in Handles
        BY <2>9, <3>2 DEF RecvWithTask, MustWaitToReceive, Args, Known
      <4>2. /\ waiting_receivers' = [waiting_receivers EXCEPT ![h] = Append(@, t)]
            /\ pc' = [pc EXCEPT ![t] = "suspended"]
            /\ UNCHANGED <<waiting_senders, woken_sender, woken_receiver>>
        BY <2>9, <3>2 DEF RecvWithTask
      <4>3. PICK j \in Nat : j = Len(waiting_receivers[h]) + 1
        BY <1>0, <4>1 DEF TypeOK
      <4>4. \A u \in Threads : \A g \in Handles : \A i \in Nat :
               ReceiverAt(g, i, u)' =>
                  ReceiverAt(g, i, u) \/ (u = t /\ g = h /\ i = j)
        BY <1>0, <4>1, <4>2, <4>3, ReceiverPut
      <4> HIDE DEF SenderAt, ReceiverAt
      <4> QED BY <1>0, <2>0, <4>1, <4>2, <4>4, FiledRegister
    <3> QED BY <3>1, <3>2
  <2>10. CASE RecvBlocking(t, h)
    <3>1. CASE TakeNothing(t, h) BY <2>2, <2>3, <3>1
    <3>2. CASE ~TakeNothing(t, h)
      <4>1. /\ pc' = [pc EXCEPT ![t] = "receiving"]
            /\ UNCHANGED <<waiting_senders, waiting_receivers, woken_sender, woken_receiver>>
        BY <2>10, <3>2 DEF RecvBlocking, StartBlockingRecv, chanVars
      <4> QED BY <1>2, <2>0, <2>3, <4>1
    <3> QED BY <3>1, <3>2
  <2>11. CASE Close(t, h) BY <2>11, FiledQuiet DEF Close
  <2> QED BY <1>3, <2>4, <2>5, <2>6, <2>7, <2>8, <2>9, <2>10, <2>11
<1>4. ASSUME NEW t \in Threads, NEW c \in Capacities, Create(t, c) PROVE Filed'
  BY <1>4, FiledQuiet DEF Create
<1>5. ASSUME NEW t \in Threads, Step(t) PROVE Filed'
  <2>0. "idle" \in PC BY DEF PC
  <2>1. CASE WakeReceiver(t)
    <3>1. PICK h \in Handles : h = at[t]
      BY <2>1 DEF WakeReceiver, CallInv, Inside, Known
    <3>2. /\ pc[t] # "suspended" /\ pc' = [pc EXCEPT ![t] = "idle"]
          /\ UNCHANGED <<waiting_senders, woken_sender>>
      BY <2>1 DEF WakeReceiver
    <3>3. CASE waiting_receivers[h] = <<>>
      BY <1>2, <2>0, <2>1, <3>1, <3>2, <3>3 DEF WakeReceiver
    <3>4. CASE waiting_receivers[h] # <<>>
      <4>1. PICK w : w = Head(waiting_receivers[h]) OBVIOUS
      <4>2. /\ waiting_receivers' = [waiting_receivers EXCEPT ![h] = Tail(@)]
            /\ woken_receiver' = [woken_receiver EXCEPT ![t] = w]
        BY <2>1, <3>1, <3>4, <4>1 DEF WakeReceiver
      <4>3. /\ ReceiverAt(h, 1, w) /\ w \in Threads
            /\ \A u \in Threads : \A g \in Handles : \A i \in Nat :
                  ReceiverAt(g, i, u)' =>
                     i > 0 /\ ReceiverAt(g, i + (IF g = h THEN 1 ELSE 0), u)
        BY <1>0, <3>4, <4>1, <4>2, ReceiverPop
      <4> HIDE DEF SenderAt, ReceiverAt
      <4> QED BY <1>0, <3>2, <4>2, <4>3, FiledWake
    <3> QED BY <3>3, <3>4
  <2>2. CASE WakeSender(t)
    <3>1. PICK h \in Handles : h = at[t]
      BY <2>2 DEF WakeSender, CallInv, Inside, Known
    <3>2. /\ pc[t] # "suspended" /\ pc' = [pc EXCEPT ![t] = "idle"]
          /\ UNCHANGED <<waiting_receivers, woken_receiver>>
      BY <2>2 DEF WakeSender
    <3>3. CASE waiting_senders[h] = <<>>
      BY <1>2, <2>0, <2>2, <3>1, <3>2, <3>3 DEF WakeSender
    <3>4. CASE waiting_senders[h] # <<>>
      <4>1. PICK w : w = Head(waiting_senders[h])[1] OBVIOUS
      <4>2. /\ waiting_senders' = [waiting_senders EXCEPT ![h] = Tail(@)]
            /\ woken_sender' = [woken_sender EXCEPT ![t] = w]
        BY <2>2, <3>1, <3>4, <4>1 DEF WakeSender
      <4>3. /\ SenderAt(h, 1, w) /\ w \in Threads
            /\ \A u \in Threads : \A g \in Handles : \A i \in Nat :
                  SenderAt(g, i, u)' =>
                     i > 0 /\ SenderAt(g, i + (IF g = h THEN 1 ELSE 0), u)
        BY <1>0, <3>4, <4>1, <4>2, SenderPop
      <4> HIDE DEF SenderAt, ReceiverAt
      <4> QED BY <1>0, <3>2, <4>2, <4>3, FiledWake
    <3> QED BY <3>3, <3>4
  <2>3. CASE CompleteSend(t) \/ CompleteRecv(t)
    <3>1. /\ pc[t] # "suspended" /\ pc' = [pc EXCEPT ![t] = "idle"]
          /\ UNCHANGED <<waiting_senders, waiting_receivers, woken_sender, woken_receiver>>
      BY <2>3 DEF CompleteSend, CompleteRecv, Take
    <3> QED BY <1>2, <2>0, <3>1
  <2>4. CASE GetWokenSender(t) \/ GetWokenReceiver(t) BY <1>0, <2>4, FiledResume
  <2> QED BY <1>5, <2>1, <2>2, <2>3, <2>4 DEF Step
<1> QED BY <1>1, <1>3, <1>4, <1>5 DEF Next, Call

-----------------------------------------------------------------------------
(* The order of the messages of a sender, by the places they are in.        *)

\* Message v is or has been in a queue.
Passed(v) == \E h \in Handles : \E i \in Nat : QueuedAt(h, i, v) \/ ReceivedAt(h, i, v)

\* Thread t has made message m, and waits to put it into a queue.
Pending(t, m) ==
    \/ HeldBy(t, m)
    \/ \E h \in Handles : \E i \in Nat : SenderAt(h, i, t) /\ WaitsAt(h, i, m)

\* Messages of one owner are received and queued in the order they were made.
InOrder ==
    \A v, w \in Values : owner[v] = owner[w] =>
        \A h \in Handles : \A i, k \in Nat :
            /\ i < k /\ QueuedAt(h, i, v) /\ QueuedAt(h, k, w) => v < w
            /\ i < k /\ ReceivedAt(h, i, v) /\ ReceivedAt(h, k, w) => v < w
            /\ ReceivedAt(h, i, v) /\ QueuedAt(h, k, w) => v < w

\* A thread has one pending message at most, the newest of its messages.
PendingIsLast ==
    \A t \in Threads : \A m \in Values : Pending(t, m) =>
        /\ owner[m] = t
        /\ \A v \in Values : Passed(v) /\ owner[v] = t => v < m

\* The inductive invariant behind SenderOrder, beside Apart and Filed.
OrderInv == InOrder /\ PendingIsLast

(* The places of two sequences in a row.                                    *)
LEMMA ConcatAt ==
    ASSUME NEW S, NEW r \in Seq(S), NEW q \in Seq(S),
           NEW j \in 1 .. Len(r \o q)
    PROVE  \/ j \in 1 .. Len(r) /\ (r \o q)[j] = r[j] /\ r[j] \in S
           \/ /\ ~(j \in 1 .. Len(r)) /\ j - Len(r) \in 1 .. Len(q)
              /\ (r \o q)[j] = q[j - Len(r)] /\ q[j - Len(r)] \in S
<1>1. Len(r) \in Nat /\ Len(q) \in Nat /\ Len(r \o q) = Len(r) + Len(q) OBVIOUS
<1>2. CASE j <= Len(r)
  <2>1. j \in 1 .. Len(r) BY <1>1, <1>2
  <2>2. (r \o q)[j] = r[j] /\ r[j] \in S BY <1>1, <2>1
  <2> QED BY <2>1, <2>2
<1>3. CASE ~(j <= Len(r))
  <2>1. /\ ~(j \in 1 .. Len(r)) /\ j - Len(r) \in 1 .. Len(q)
        /\ j \in 1 .. Len(r) + Len(q) /\ j > Len(r)
    BY <1>1, <1>3
  <2>2. (r \o q)[j] = q[j - Len(r)] BY <1>1, <2>1
  <2>3. q[j - Len(r)] \in S BY <2>1
  <2> QED BY <2>1, <2>2, <2>3
<1> QED BY <1>1, <1>2, <1>3

(* InOrder, by places, implies SenderOrder, stated over one sequence.      *)
LEMMA InOrderIsSenderOrder ==
    ASSUME TypeOK, InOrder
    PROVE  SenderOrder
<1> SUFFICES ASSUME NEW h \in Handles,
                    NEW i \in 1 .. Len(received[h] \o queue[h]),
                    NEW k \in 1 .. Len(received[h] \o queue[h]),
                    i < k,
                    owner[(received[h] \o queue[h])[i]] =
                       owner[(received[h] \o queue[h])[k]]
             PROVE  (received[h] \o queue[h])[i] < (received[h] \o queue[h])[k]
  BY DEF SenderOrder
<1> DEFINE r == received[h]
           q == queue[h]
           n == Len(received[h])
<1>1. r \in Seq(Values) /\ q \in Seq(Values) /\ n \in Nat BY DEF TypeOK
<1>2. \A j \in 1 .. Len(r \o q) :
         \/ j \in 1 .. Len(r) /\ (r \o q)[j] = r[j] /\ r[j] \in Values
         \/ /\ ~(j \in 1 .. Len(r)) /\ j - n \in 1 .. Len(q)
            /\ (r \o q)[j] = q[j - n] /\ q[j - n] \in Values
  <2> HIDE DEF r, q
  <2> QED BY <1>1, ConcatAt DEF r
<1>3. \A j \in 1 .. Len(r \o q) :
         \/ j \in 1 .. Len(r) /\ ReceivedAt(h, j, (r \o q)[j]) /\ (r \o q)[j] \in Values
         \/ /\ ~(j \in 1 .. Len(r)) /\ QueuedAt(h, j - n, (r \o q)[j])
            /\ j - n \in Nat /\ (r \o q)[j] \in Values
  <2> SUFFICES ASSUME NEW j \in 1 .. Len(r \o q)
               PROVE \/ /\ j \in 1 .. Len(r) /\ ReceivedAt(h, j, (r \o q)[j])
                        /\ (r \o q)[j] \in Values
                     \/ /\ ~(j \in 1 .. Len(r)) /\ QueuedAt(h, j - n, (r \o q)[j])
                        /\ j - n \in Nat /\ (r \o q)[j] \in Values
    OBVIOUS
  <2>1. CASE j \in 1 .. Len(r) BY <1>2, <2>1 DEF ReceivedAt
  <2>2. CASE ~(j \in 1 .. Len(r))
    <3>1. /\ j - n \in 1 .. Len(q) /\ (r \o q)[j] = q[j - n]
          /\ (r \o q)[j] \in Values
      <4> HIDE DEF r, q, n
      <4> QED BY <1>2, <2>2
    <3>2. j - n \in Nat BY <3>1
    <3> QED BY <2>2, <3>1, <3>2 DEF QueuedAt
  <2> QED BY <2>1, <2>2
<1>4. i \in Nat /\ k \in Nat /\ i - n < k - n BY <1>1
<1>5. CASE i \in 1 .. Len(r) /\ k \in 1 .. Len(r)
  BY <1>3, <1>4, <1>5 DEF InOrder
<1>6. CASE i \in 1 .. Len(r) /\ ~(k \in 1 .. Len(r))
  BY <1>3, <1>4, <1>6 DEF InOrder
<1>7. CASE ~(i \in 1 .. Len(r)) /\ k \in 1 .. Len(r)
  BY <1>1, <1>4, <1>7
<1>8. CASE ~(i \in 1 .. Len(r)) /\ ~(k \in 1 .. Len(r))
  BY <1>3, <1>4, <1>8 DEF InOrder
<1> QED BY <1>5, <1>6, <1>7, <1>8

(* A step that puts nothing into a queue keeps the order; the one message   *)
(* that may have become pending is newer than all there are.                *)
LEMMA OrderPend ==
    ASSUME OrderInv, UNCHANGED <<queue, received>>,
           NEW n, NEW t \in Threads,
           \A v \in Values : v # n => owner'[v] = owner[v],
           ~Passed(n),
           \A s \in Threads : \A m \in Values :
              Pending(s, m)' =>
                 \/ Pending(s, m) /\ m # n
                 \/ /\ s = t /\ m = n /\ owner'[n] = t
                    /\ \A v \in Values : Passed(v) => v < n
    PROVE  OrderInv'
<1>1. /\ \A v \in Values : \A h \in Handles : \A i \in Nat :
            /\ QueuedAt(h, i, v)' <=> QueuedAt(h, i, v)
            /\ ReceivedAt(h, i, v)' <=> ReceivedAt(h, i, v)
      /\ \A v \in Values : Passed(v)' <=> Passed(v)
  BY DEF QueuedAt, ReceivedAt, Passed
<1> HIDE DEF QueuedAt, ReceivedAt
<1>2. \A v \in Values : \A h \in Handles : \A i \in Nat :
         QueuedAt(h, i, v)' \/ ReceivedAt(h, i, v)' => v # n /\ owner'[v] = owner[v]
  BY <1>1 DEF Passed
<1>3. InOrder' BY <1>1, <1>2 DEF OrderInv, InOrder
<1> HIDE DEF Passed, Pending
<1>4. \A v \in Values : Passed(v) => v # n /\ owner'[v] = owner[v] OBVIOUS
<1>5. ASSUME NEW s \in Threads, NEW m \in Values, Pending(s, m)'
      PROVE  /\ owner'[m] = s
             /\ \A v \in Values : Passed(v)' /\ owner'[v] = s => v < m
  <2>1. CASE Pending(s, m) /\ m # n
    BY <1>1, <1>4, <2>1 DEF OrderInv, PendingIsLast
  <2>2. CASE /\ s = t /\ m = n /\ owner'[n] = t
             /\ \A v \in Values : Passed(v) => v < n
    BY <1>1, <2>2
  <2> QED BY <1>5, <2>1, <2>2
<1>6. PendingIsLast' BY <1>5 DEF PendingIsLast
<1> QED BY <1>3, <1>6 DEF OrderInv

(* A message that enters a queue is the newest of its sender, who has no    *)
(* other pending one.                                                       *)
LEMMA OrderPut ==
    ASSUME OrderInv, TypeOK, NEW n \in Values, NEW t \in Threads, NEW h \in Handles,
           queue' = [queue EXCEPT ![h] = Append(@, n)],
           UNCHANGED received,
           \A v \in Values : v # n => owner'[v] = owner[v],
           owner'[n] = t, ~Passed(n),
           \A v \in Values : Passed(v) /\ owner[v] = t => v < n,
           \A s \in Threads : \A m \in Values :
              Pending(s, m)' => Pending(s, m) /\ m # n /\ s # t
    PROVE  OrderInv'
<1>1. PICK j \in Nat : j = Len(queue[h]) + 1 BY DEF TypeOK
<1>2. /\ \A v \in Values : \A g \in Handles : \A i \in Nat :
            QueuedAt(g, i, v)' =>
               QueuedAt(g, i, v) \/ (v = n /\ g = h /\ i = j)
      /\ \A v \in Values : \A g \in Handles : \A i \in Nat :
            ReceivedAt(g, i, v)' => ReceivedAt(g, i, v)
  BY <1>1, QueuePut DEF ReceivedAt
<1>3. \A v \in Values : \A i \in Nat : QueuedAt(h, i, v) => i < j
  BY <1>1 DEF QueuedAt, TypeOK
<1> HIDE DEF QueuedAt, ReceivedAt
<1>4. \A v \in Values : Passed(v)' => Passed(v) \/ v = n
  BY <1>2 DEF Passed
<1>5. \A v \in Values : Passed(v) => v # n /\ owner'[v] = owner[v] OBVIOUS
<1>6. ASSUME NEW v \in Values, NEW w \in Values, owner'[v] = owner'[w],
             NEW g \in Handles, NEW i \in Nat, NEW k \in Nat
      PROVE  /\ i < k /\ QueuedAt(g, i, v)' /\ QueuedAt(g, k, w)' => v < w
             /\ i < k /\ ReceivedAt(g, i, v)' /\ ReceivedAt(g, k, w)' => v < w
             /\ ReceivedAt(g, i, v)' /\ QueuedAt(g, k, w)' => v < w
  <2>1. /\ QueuedAt(g, i, v) \/ ReceivedAt(g, i, v) => Passed(v)
        /\ QueuedAt(g, k, w) \/ ReceivedAt(g, k, w) => Passed(w)
    BY DEF Passed
  <2>2. Passed(v) /\ Passed(w) => owner[v] = owner[w] BY <1>5, <1>6
  <2>3. Passed(v) /\ w = n => v < w
    BY <1>5, <1>6
  <2> HIDE DEF Passed
  <2>4. ASSUME i < k, QueuedAt(g, i, v)', QueuedAt(g, k, w)' PROVE v < w
    <3>1. CASE QueuedAt(g, i, v) /\ QueuedAt(g, k, w)
      BY <2>1, <2>2, <2>4, <3>1 DEF OrderInv, InOrder
    <3>2. CASE QueuedAt(g, i, v) /\ w = n BY <2>1, <2>3, <3>2
    <3>3. CASE ~QueuedAt(g, i, v)
      <4>1. g = h /\ i = j BY <1>2, <2>4, <3>3
      <4>2. ~QueuedAt(g, k, w)
        <5>1. QueuedAt(h, k, w) => k < j BY <1>3
        <5>2. ~(k < j) BY <2>4, <4>1
        <5> QED BY <4>1, <5>1, <5>2
      <4>3. k = j BY <1>2, <2>4, <4>2
      <4> QED BY <2>4, <4>1, <4>3
    <3> QED BY <1>2, <2>4, <3>1, <3>2, <3>3
  <2>5. i < k /\ ReceivedAt(g, i, v)' /\ ReceivedAt(g, k, w)' => v < w
    BY <1>2, <2>1, <2>2 DEF OrderInv, InOrder
  <2>6. ASSUME ReceivedAt(g, i, v)', QueuedAt(g, k, w)' PROVE v < w
    <3>1. ReceivedAt(g, i, v) BY <1>2, <2>6
    <3>2. CASE QueuedAt(g, k, w)
      BY <2>1, <2>2, <3>1, <3>2 DEF OrderInv, InOrder
    <3>3. CASE w = n BY <2>1, <2>3, <3>1, <3>3
    <3> QED BY <1>2, <2>6, <3>2, <3>3
  <2> QED BY <2>4, <2>5, <2>6
<1>7. InOrder' BY <1>6 DEF InOrder
<1> HIDE DEF Passed, Pending
<1>8. ASSUME NEW s \in Threads, NEW m \in Values, Pending(s, m)'
      PROVE  /\ owner'[m] = s
             /\ \A v \in Values : Passed(v)' /\ owner'[v] = s => v < m
  <2>1. Pending(s, m) /\ m # n /\ s # t BY <1>8
  <2>2. owner[m] = s /\ \A v \in Values : Passed(v) /\ owner[v] = s => v < m
    BY <2>1 DEF OrderInv, PendingIsLast
  <2> QED BY <1>4, <1>5, <2>1, <2>2
<1>9. PendingIsLast' BY <1>8 DEF PendingIsLast
<1> QED BY <1>7, <1>9 DEF OrderInv

(* Taking the first message of a queue keeps the order.                     *)
LEMMA OrderTake ==
    ASSUME OrderInv, TypeOK, NEW h \in Handles, queue[h] # <<>>,
           queue' = [queue EXCEPT ![h] = Tail(@)],
           received' = [received EXCEPT ![h] = Append(@, Head(queue[h]))],
           UNCHANGED owner,
           \A s \in Threads : \A m \in Values : Pending(s, m)' => Pending(s, m)
    PROVE  OrderInv'
<1>1. PICK j \in Nat : j = Len(received[h]) + 1 BY DEF TypeOK
<1>2. PICK x : x = Head(queue[h]) OBVIOUS
<1>3. /\ QueuedAt(h, 1, x) /\ x \in Values
      /\ \A v \in Values : \A g \in Handles : \A i \in Nat :
            /\ QueuedAt(g, i, v)' =>
                  i > 0 /\ QueuedAt(g, i + (IF g = h THEN 1 ELSE 0), v)
            /\ ReceivedAt(g, i, v)' =>
                  ReceivedAt(g, i, v) \/ (v = x /\ g = h /\ i = j)
  BY <1>1, <1>2, QueueTake
<1>4. \A v \in Values : \A i \in Nat : ReceivedAt(h, i, v) => i < j
  BY <1>1 DEF ReceivedAt, TypeOK
<1>5. \A v \in Values : \A g \in Handles : \A i \in Nat :
         ReceivedAt(g, i, v) => i > 0
  BY DEF ReceivedAt
<1> HIDE DEF QueuedAt, ReceivedAt
<1>6. \A v \in Values : Passed(v)' => Passed(v)
  <2>1. \A g \in Handles : \A i \in Nat : i + (IF g = h THEN 1 ELSE 0) \in Nat
    OBVIOUS
  <2>2. 1 \in Nat OBVIOUS
  <2> QED BY <1>3, <2>1, <2>2 DEF Passed
<1>7. ASSUME NEW v \in Values, NEW w \in Values, owner[v] = owner[w],
             NEW g \in Handles, NEW i \in Nat, NEW k \in Nat
      PROVE  /\ i < k /\ QueuedAt(g, i, v)' /\ QueuedAt(g, k, w)' => v < w
             /\ i < k /\ ReceivedAt(g, i, v)' /\ ReceivedAt(g, k, w)' => v < w
             /\ ReceivedAt(g, i, v)' /\ QueuedAt(g, k, w)' => v < w
  <2>1. PICK d \in Nat : d = IF g = h THEN 1 ELSE 0 OBVIOUS
  <2>2. i + d \in Nat /\ k + d \in Nat /\ (i < k => i + d < k + d) OBVIOUS
  <2>3. i < k /\ QueuedAt(g, i, v)' /\ QueuedAt(g, k, w)' => v < w
    BY <1>3, <1>7, <2>1, <2>2 DEF OrderInv, InOrder
  <2>4. ASSUME i < k, ReceivedAt(g, i, v)', ReceivedAt(g, k, w)' PROVE v < w
    <3>1. CASE ReceivedAt(g, i, v) /\ ReceivedAt(g, k, w)
      BY <1>7, <2>4, <3>1 DEF OrderInv, InOrder
    <3>2. CASE ReceivedAt(g, i, v) /\ w = x /\ g = h
      BY <1>3, <1>7, <3>2 DEF OrderInv, InOrder
    <3>3. CASE ~ReceivedAt(g, i, v)
      <4>1. g = h /\ i = j BY <1>3, <2>4, <3>3
      <4>2. ~(k < j) BY <2>4, <4>1
      <4>3. ~ReceivedAt(g, k, w) BY <1>4, <4>1, <4>2
      <4>4. k = j BY <1>3, <2>4, <4>3
      <4> QED BY <2>4, <4>1, <4>4
    <3> QED BY <1>3, <2>4, <3>1, <3>2, <3>3
  <2>5. ASSUME ReceivedAt(g, i, v)', QueuedAt(g, k, w)' PROVE v < w
    <3>1. k > 0 /\ QueuedAt(g, k + d, w) BY <1>3, <2>1, <2>5
    <3>2. CASE ReceivedAt(g, i, v)
      BY <1>7, <2>2, <3>1, <3>2 DEF OrderInv, InOrder
    <3>3. CASE v = x /\ g = h
      <4>1. 1 < k + d /\ 1 \in Nat BY <2>1, <3>1, <3>3
      <4> QED BY <1>3, <1>7, <2>2, <3>1, <3>3, <4>1 DEF OrderInv, InOrder
    <3> QED BY <1>3, <2>5, <3>2, <3>3
  <2> QED BY <2>3, <2>4, <2>5
<1>8. InOrder' BY <1>7 DEF InOrder
<1> HIDE DEF Passed, Pending
<1>9. PendingIsLast' BY <1>6 DEF OrderInv, PendingIsLast
<1> QED BY <1>8, <1>9 DEF OrderInv

(* A step that moves no message keeps the order.                           *)
LEMMA OrderQuiet ==
    ASSUME OrderInv, UNCHANGED <<queue, received, owner>>,
           \A s \in Threads : \A m \in Values : Pending(s, m)' => Pending(s, m)
    PROVE  OrderInv'
<1>1. InOrder' BY DEF OrderInv, InOrder, QueuedAt, ReceivedAt
<1>2. \A v \in Values : Passed(v)' <=> Passed(v)
  BY DEF Passed, QueuedAt, ReceivedAt
<1> HIDE DEF Passed, Pending
<1>3. PendingIsLast' BY <1>2 DEF OrderInv, PendingIsLast
<1> QED BY <1>1, <1>3 DEF OrderInv

(* The messages that are in a queue, received or pending are made, and      *)
(* nothing is both pending and passed; only a thread that blocks or is      *)
(* suspended has a pending message.                                         *)
LEMMA PendingFacts ==
    ASSUME Apart, Filed
    PROVE  /\ \A v \in Values : Passed(v) => ~(v >= next_val)
           /\ \A s \in Threads : \A v \in Values :
                 Pending(s, v) => ~(v >= next_val) /\ ~Passed(v)
           /\ \A s \in Threads : \A v \in Values :
                 Pending(s, v) => pc[s] \in {"sending", "suspended"}
<1>1. \A v \in Values : Passed(v) => ~(v >= next_val)
  BY DEF Passed, Apart, Nowhere
<1>2. ASSUME NEW s \in Threads, NEW v \in Values, Pending(s, v)
      PROVE  ~(v >= next_val) /\ ~Passed(v) /\ pc[s] \in {"sending", "suspended"}
  <2>1. Once(v) /\ (v >= next_val => Nowhere(v)) BY DEF Apart
  <2>2. CASE HeldBy(s, v)
    <3>1. pc[s] = "sending" BY <2>2 DEF HeldBy
    <3> QED BY <2>1, <2>2, <3>1 DEF Once, Nowhere, Passed
  <2>3. CASE \E h \in Handles : \E i \in Nat : SenderAt(h, i, s) /\ WaitsAt(h, i, v)
    <3>1. PICK h \in Handles : \E i \in Nat : SenderAt(h, i, s) /\ WaitsAt(h, i, v)
      BY <2>3
    <3>2. PICK i \in Nat : SenderAt(h, i, s) /\ WaitsAt(h, i, v) BY <3>1
    <3> HIDE DEF SenderAt, WaitsAt, QueuedAt, ReceivedAt, HeldBy
    <3>3. pc[s] = "suspended" BY <3>2 DEF Filed, NotFiled
    <3>4. ~Passed(v) BY <2>1, <3>2 DEF Once, Passed
    <3>5. ~(v >= next_val) BY <2>1, <3>2 DEF Nowhere
    <3> QED BY <3>3, <3>4, <3>5
  <2> QED BY <1>2, <2>2, <2>3 DEF Pending
<1> QED BY <1>1, <1>2

(* A step that files and makes no message leaves nothing new pending.      *)
LEMMA PendingFrame ==
    ASSUME waiting_senders' = waiting_senders,
           \A s \in Threads : \A v \in Values : HeldBy(s, v)' => HeldBy(s, v)
    PROVE  \A s \in Threads : \A v \in Values : Pending(s, v)' => Pending(s, v)
<1>1. \A s \in Threads : \A v \in Values : \A h \in Handles : \A i \in Nat :
         /\ SenderAt(h, i, s)' => SenderAt(h, i, s)
         /\ WaitsAt(h, i, v)' => WaitsAt(h, i, v)
  BY DEF SenderAt, WaitsAt
<1> HIDE DEF SenderAt, WaitsAt, HeldBy
<1> QED BY <1>1 DEF Pending

(* The critical section of send keeps the order.                            *)
LEMMA OrderTrySend ==
    ASSUME CallInv, Apart, Filed, OrderInv, NEW t \in Threads, NEW h \in Args,
           NEW p \in {"idle", "wakereceiver"}, pc[t] = "idle", TrySend(t, h, p)
    PROVE  OrderInv'
<1>0. TypeOK BY DEF CallInv
<1>1. CASE Admits(h)
  <2>1. h \in Handles BY <1>1 DEF Admits, Args, Known
  <2>2. PICK n \in Values : n = next_val BY DEF TrySend
  <2>3. /\ queue' = [queue EXCEPT ![h] = Append(@, n)]
        /\ owner' = [owner EXCEPT ![n] = t]
        /\ pc' = [pc EXCEPT ![t] = p]
        /\ UNCHANGED <<waiting_senders, item, received>>
    BY <1>1, <2>2 DEF TrySend, NewMessage
  <2>4. owner'[n] = t /\ \A v \in Values : v # n => owner'[v] = owner[v]
    BY <1>0, <2>3 DEF TypeOK
  <2>5. \A s \in Threads : \A v \in Values : HeldBy(s, v)' => HeldBy(s, v)
    BY <1>0, <2>3 DEF HeldBy, TypeOK
  <2>6. \A s \in Threads : \A v \in Values : Pending(s, v)' => Pending(s, v)
    BY <2>3, <2>5, PendingFrame
  <2> HIDE DEF Pending, Passed
  <2>7. n >= next_val /\ \A v \in Values : ~(v >= next_val) => v < n /\ v # n
    BY <1>0, <2>2 DEF TypeOK, Values
  <2>8. /\ ~Passed(n) /\ \A v \in Values : Passed(v) => v < n
        /\ \A s \in Threads : \A v \in Values :
              Pending(s, v)' => Pending(s, v) /\ v # n /\ s # t
    BY <2>6, <2>7, PendingFacts
  <2> QED BY <1>0, <2>1, <2>3, <2>4, <2>8, OrderPut
<1>2. CASE ~Admits(h)
  <2>1. UNCHANGED <<queue, received, owner, waiting_senders, pc, item>>
    BY <1>2 DEF TrySend
  <2>2. \A s \in Threads : \A v \in Values : HeldBy(s, v)' => HeldBy(s, v)
    BY <2>1 DEF HeldBy
  <2> QED BY <2>1, <2>2, PendingFrame, OrderQuiet
<1> QED BY <1>1, <1>2

(* A message that starts to wait is newer than all there are.               *)
LEMMA OrderWait ==
    ASSUME CallInv, Apart, Filed, OrderInv, NEW t \in Threads, NEW h \in Args,
           SendWithTask(t, h) \/ SendBlocking(t, h)
    PROVE  OrderInv'
<1>0. TypeOK /\ pc[t] = "idle" BY DEF CallInv, SendWithTask, SendBlocking, Ready
<1>1. CASE TrySend(t, h, "idle") BY <1>0, <1>1, OrderTrySend
<1>2. CASE SendBlocking(t, h) /\ (h = NoChan \/ closed[h])
  <2>1. UNCHANGED <<queue, received, owner, waiting_senders, pc, item>>
    BY <1>2 DEF SendBlocking, StartBlockingSend, chanVars
  <2>2. \A s \in Threads : \A v \in Values : HeldBy(s, v)' => HeldBy(s, v)
    BY <2>1 DEF HeldBy
  <2> QED BY <2>1, <2>2, PendingFrame, OrderQuiet
<1>3. CASE \/ SendWithTask(t, h) /\ ~TrySend(t, h, "idle")
           \/ SendBlocking(t, h) /\ ~(h = NoChan \/ closed[h])
  <2>1. h \in Handles
    BY <1>3 DEF SendWithTask, MustWaitToSend, Args, Known
  <2>2. PICK n \in Values : n = next_val
    BY <1>3 DEF SendWithTask, SendBlocking, StartBlockingSend
  <2>3. /\ owner' = [owner EXCEPT ![n] = t]
        /\ UNCHANGED <<queue, received>>
        /\ \/ /\ waiting_senders' = [waiting_senders EXCEPT ![h] = Append(@, <<t, n>>)]
              /\ pc' = [pc EXCEPT ![t] = "suspended"]
              /\ item' = item
           \/ /\ waiting_senders' = waiting_senders
              /\ pc' = [pc EXCEPT ![t] = "sending"]
              /\ item' = [item EXCEPT ![t] = n]
    BY <1>3, <2>2 DEF SendWithTask, SendBlocking, StartBlockingSend, NewMessage, chanVars
  <2>4. owner'[n] = t /\ \A v \in Values : v # n => owner'[v] = owner[v]
    BY <1>0, <2>3 DEF TypeOK
  <2>5. \A s \in Threads : \A v \in Values :
           HeldBy(s, v)' => HeldBy(s, v) \/ (s = t /\ v = n)
    BY <1>0, <2>3 DEF HeldBy, TypeOK
  <2>6. \A s \in Threads : \A v \in Values : \A g \in Handles : \A i \in Nat :
           SenderAt(g, i, s)' /\ WaitsAt(g, i, v)' =>
              (SenderAt(g, i, s) /\ WaitsAt(g, i, v)) \/ (s = t /\ v = n)
    <3>1. CASE waiting_senders' = waiting_senders BY <3>1 DEF SenderAt, WaitsAt
    <3>2. CASE waiting_senders' = [waiting_senders EXCEPT ![h] = Append(@, <<t, n>>)]
      <4>1. PICK j \in Nat : j = Len(waiting_senders[h]) + 1
        BY <1>0, <2>1 DEF TypeOK
      <4>2. \A u \in Threads : \A v \in Values :
               ~SenderAt(h, j, u) /\ ~WaitsAt(h, j, v)
        BY <1>0, <2>1, <4>1 DEF SenderAt, WaitsAt, TypeOK
      <4>3. \A u \in Threads : \A g \in Handles : \A i \in Nat :
               SenderAt(g, i, u)' =>
                  SenderAt(g, i, u) \/ (u = t /\ g = h /\ i = j)
        BY <1>0, <2>1, <3>2, <4>1, SenderPut
      <4>4. \A v \in Values : \A g \in Handles : \A i \in Nat :
               WaitsAt(g, i, v)' =>
                  WaitsAt(g, i, v) \/ (v = n /\ g = h /\ i = j)
        BY <1>0, <2>1, <3>2, <4>1, WaitPut
      <4> HIDE DEF SenderAt, WaitsAt
      <4> QED BY <4>2, <4>3, <4>4
    <3> QED BY <2>3, <3>1, <3>2
  <2>7. \A s \in Threads : \A v \in Values :
           Pending(s, v)' => Pending(s, v) \/ (s = t /\ v = n)
    <3> HIDE DEF SenderAt, WaitsAt, HeldBy
    <3> QED BY <2>5, <2>6 DEF Pending
  <2> HIDE DEF Pending, Passed
  <2>8. n >= next_val /\ \A v \in Values : ~(v >= next_val) => v < n /\ v # n
    BY <1>0, <2>2 DEF TypeOK, Values
  <2>9. /\ ~Passed(n) /\ \A v \in Values : Passed(v) => v < n
        /\ \A s \in Threads : \A v \in Values :
              Pending(s, v)' => (Pending(s, v) /\ v # n) \/ (s = t /\ v = n)
    BY <2>7, <2>8, PendingFacts
  <2> QED BY <2>3, <2>4, <2>9, OrderPend
<1> QED BY <1>1, <1>2, <1>3 DEF SendWithTask

(* A blocked send puts its message behind all earlier ones of its thread.   *)
LEMMA OrderCompleteSend ==
    ASSUME CallInv, Apart, Filed, OrderInv, NEW t \in Threads, CompleteSend(t)
    PROVE  OrderInv'
<1>0. TypeOK /\ pc[t] = "sending" BY DEF CallInv, CompleteSend
<1>1. PICK h \in Handles : h = at[t] BY DEF CompleteSend, CallInv, Inside, Known
<1>2. PICK n \in Values : n = item[t] BY DEF CompleteSend, CallInv, Inside
<1>3. /\ queue' = [queue EXCEPT ![h] = Append(@, n)]
      /\ pc' = [pc EXCEPT ![t] = "idle"] /\ item' = [item EXCEPT ![t] = 0]
      /\ UNCHANGED <<waiting_senders, received, owner>>
  BY <1>1, <1>2 DEF CompleteSend
<1>4. HeldBy(t, n) /\ Pending(t, n) BY <1>0, <1>2 DEF HeldBy, Pending
<1>5. \A s \in Threads : \A v \in Values : HeldBy(s, v)' => HeldBy(s, v) /\ s # t
  BY <1>0, <1>3 DEF HeldBy, TypeOK
<1>6. \A s \in Threads : \A v \in Values : Pending(s, v)' => Pending(s, v)
  BY <1>3, <1>5, PendingFrame
<1>7. ASSUME NEW s \in Threads, NEW v \in Values, Pending(s, v)'
      PROVE  Pending(s, v) /\ v # n /\ s # t
  <2>1. CASE HeldBy(s, v)'
    <3> HIDE DEF HeldBy
    <3> QED BY <1>4, <1>5, <1>6, <1>7, <2>1 DEF Apart, Once
  <2>2. CASE ~HeldBy(s, v)'
    <3>1. PICK g \in Handles : \E i \in Nat : SenderAt(g, i, s)' /\ WaitsAt(g, i, v)'
      BY <1>7, <2>2 DEF Pending
    <3>2. PICK i \in Nat : SenderAt(g, i, s)' /\ WaitsAt(g, i, v)' BY <3>1
    <3>3. SenderAt(g, i, s) /\ WaitsAt(g, i, v)
      BY <1>3, <3>2 DEF SenderAt, WaitsAt
    <3> HIDE DEF SenderAt, WaitsAt, HeldBy
    <3>4. pc[s] = "suspended" BY <3>3 DEF Filed, NotFiled
    <3>5. v # n BY <1>4, <3>3 DEF Apart, Once
    <3> QED BY <1>0, <1>6, <1>7, <3>4, <3>5
  <2> QED BY <2>1, <2>2
<1> HIDE DEF Pending, Passed
<1>8. /\ ~Passed(n) /\ owner[n] = t
      /\ \A v \in Values : Passed(v) /\ owner[v] = t => v < n
  BY <1>4, PendingFacts DEF OrderInv, PendingIsLast
<1>9. owner'[n] = t /\ \A v \in Values : v # n => owner'[v] = owner[v]
  BY <1>3, <1>8
<1> QED BY <1>0, <1>3, <1>7, <1>8, <1>9, OrderPut

(* The message of a woken sender comes behind all its earlier ones.         *)
LEMMA OrderWakeSender ==
    ASSUME CallInv, Apart, Filed, OrderInv, NEW t \in Threads, WakeSender(t)
    PROVE  OrderInv'
<1>0. TypeOK BY DEF CallInv
<1>1. PICK h \in Handles : h = at[t] BY DEF WakeSender, CallInv, Inside, Known
<1>2. /\ pc' = [pc EXCEPT ![t] = "idle"]
      /\ UNCHANGED <<item, received, owner>>
  BY DEF WakeSender
<1>3. \A s \in Threads : \A v \in Values : HeldBy(s, v)' => HeldBy(s, v)
  BY <1>0, <1>2 DEF HeldBy, TypeOK
<1>4. CASE waiting_senders[h] = <<>>
  <2>1. UNCHANGED <<waiting_senders, queue>> BY <1>1, <1>4 DEF WakeSender
  <2> QED BY <1>2, <1>3, <2>1, PendingFrame, OrderQuiet
<1>5. CASE waiting_senders[h] # <<>>
  <2>1. Head(waiting_senders[h]) \in Threads \X Values BY <1>0, <1>5 DEF TypeOK
  <2>2. PICK w \in Threads, n \in Values :
           w = Head(waiting_senders[h])[1] /\ n = Head(waiting_senders[h])[2]
    BY <2>1
  <2>3. /\ waiting_senders' = [waiting_senders EXCEPT ![h] = Tail(@)]
        /\ queue' = IF Room(h) THEN [queue EXCEPT ![h] = Append(@, n)] ELSE queue
    BY <1>1, <1>5, <2>2 DEF WakeSender
  <2>4. /\ SenderAt(h, 1, w)
        /\ \A u \in Threads : \A g \in Handles : \A i \in Nat :
              SenderAt(g, i, u)' =>
                 i > 0 /\ SenderAt(g, i + (IF g = h THEN 1 ELSE 0), u)
    BY <1>0, <1>5, <2>2, <2>3, SenderPop
  <2>5. /\ WaitsAt(h, 1, n)
        /\ \A v \in Values : \A g \in Handles : \A i \in Nat :
              WaitsAt(g, i, v)' =>
                 i > 0 /\ WaitsAt(g, i + (IF g = h THEN 1 ELSE 0), v)
    BY <1>0, <1>5, <2>2, <2>3, WaitPop
  <2> HIDE DEF SenderAt, WaitsAt, HeldBy, QueuedAt, ReceivedAt
  <2>6. 1 \in Nat /\ Pending(w, n) BY <2>4, <2>5 DEF Pending
  <2>7. pc[w] = "suspended" /\ FiledOnce(w) BY <2>4, <2>6 DEF Filed, NotFiled
  <2>8. ASSUME NEW s \in Threads, NEW v \in Values, Pending(s, v)'
        PROVE  Pending(s, v) /\ v # n /\ s # w
    <3>1. CASE HeldBy(s, v)'
      <4>1. HeldBy(s, v) /\ pc[s] = "sending" BY <1>3, <3>1 DEF HeldBy
      <4>2. v # n BY <2>5, <2>6, <4>1 DEF Apart, Once
      <4> QED BY <2>7, <4>1, <4>2 DEF Pending
    <3>2. CASE ~HeldBy(s, v)'
      <4>1. PICK g \in Handles : \E i \in Nat : SenderAt(g, i, s)' /\ WaitsAt(g, i, v)'
        BY <2>8, <3>2 DEF Pending
      <4>2. PICK i \in Nat : SenderAt(g, i, s)' /\ WaitsAt(g, i, v)' BY <4>1
      <4>3. PICK k \in Nat : k = i + (IF g = h THEN 1 ELSE 0) OBVIOUS
      <4>4. i > 0 /\ SenderAt(g, k, s) /\ WaitsAt(g, k, v)
        BY <2>4, <2>5, <4>2, <4>3
      <4>5. ~(g = h /\ k = 1) BY <4>3, <4>4
      <4>6. s # w BY <2>4, <2>6, <2>7, <4>4, <4>5 DEF FiledOnce
      <4>7. v # n BY <2>5, <2>6, <4>4, <4>5 DEF Apart, Once
      <4> QED BY <4>4, <4>6, <4>7 DEF Pending
    <3> QED BY <3>1, <3>2
  <2> HIDE DEF Pending, Passed
  <2>9. /\ ~Passed(n) /\ owner[n] = w
        /\ \A v \in Values : Passed(v) /\ owner[v] = w => v < n
    BY <2>6, PendingFacts DEF OrderInv, PendingIsLast
  <2>10. owner'[n] = w /\ \A v \in Values : v # n => owner'[v] = owner[v]
    BY <1>2, <2>9
  <2>11. CASE Room(h)
    <3>1. queue' = [queue EXCEPT ![h] = Append(@, n)] BY <2>3, <2>11
    <3> QED BY <1>0, <1>2, <2>8, <2>9, <2>10, <3>1, OrderPut
  <2>12. CASE ~Room(h)
    <3>1. queue' = queue BY <2>3, <2>12
    <3> QED BY <1>2, <2>8, <3>1, OrderQuiet
  <2> QED BY <2>11, <2>12
<1> QED BY <1>4, <1>5

(* Every step keeps the order: one case per operation.                      *)
LEMMA NextOrder ==
    ASSUME CallInv, Apart, Filed, OrderInv, [Next]_vars
    PROVE  OrderInv'
<1>0. TypeOK BY DEF CallInv
<1>1. ASSUME UNCHANGED <<queue, received, owner, waiting_senders, item>>,
             \A s \in Threads : pc'[s] = "sending" => pc[s] = "sending"
      PROVE  OrderInv'
  <2>1. \A s \in Threads : \A v \in Values : HeldBy(s, v)' => HeldBy(s, v)
    BY <1>1 DEF HeldBy
  <2> QED BY <1>1, <2>1, PendingFrame, OrderQuiet
<1>2. CASE UNCHANGED vars
  BY <1>1, <1>2 DEF vars, chanVars, callVars, histVars
<1>3. ASSUME NEW t \in Threads, NEW h \in Args, TakeNothing(t, h) PROVE OrderInv'
  <2>1. /\ pc' = [pc EXCEPT ![t] = "idle"]
        /\ UNCHANGED <<queue, received, owner, waiting_senders, item>>
    BY <1>3 DEF TakeNothing, chanVars, histVars
  <2>2. \A s \in Threads : pc'[s] = "sending" => pc[s] = "sending"
    BY <1>0, <2>1 DEF TypeOK
  <2> QED BY <1>1, <2>1, <2>2
<1>4. ASSUME NEW t \in Threads, NEW h \in Args,
             NEW p \in {"idle", "wakesender"}, HasMessage(h), Take(t, h, p)
      PROVE  OrderInv'
  <2>1. h \in Handles /\ queue[h] # <<>>
    BY <1>4, NamesAssumption DEF HasMessage, Args, Known
  <2>2. /\ queue' = [queue EXCEPT ![h] = Tail(@)]
        /\ received' = [received EXCEPT ![h] = Append(@, Head(queue[h]))]
        /\ pc' = [pc EXCEPT ![t] = p]
        /\ UNCHANGED <<waiting_senders, item, owner>>
    BY <1>4 DEF Take
  <2>3. \A s \in Threads : \A v \in Values : HeldBy(s, v)' => HeldBy(s, v)
    BY <1>0, <2>2 DEF HeldBy, TypeOK
  <2>4. \A s \in Threads : \A m \in Values : Pending(s, m)' => Pending(s, m)
    BY <2>2, <2>3, PendingFrame
  <2> QED BY <1>0, <2>1, <2>2, <2>4, OrderTake
<1>5. ASSUME NEW t \in Threads, NEW h \in Args,
             \/ Send(t, h) \/ SendAndWake(t, h) \/ SendWithTask(t, h)
             \/ SendBlocking(t, h) \/ Recv(t, h) \/ RecvAndWake(t, h)
             \/ RecvWithTask(t, h) \/ RecvBlocking(t, h) \/ Close(t, h)
      PROVE  OrderInv'
  <2>1. CASE Send(t, h) \/ SendAndWake(t, h)
    BY <2>1, OrderTrySend DEF Send, SendAndWake, Ready
  <2>2. CASE Recv(t, h) BY <1>3, <1>4, <2>2 DEF Recv
  <2>3. CASE RecvAndWake(t, h)
    <3>1. CASE HasMessage(h)
      <4>1. PICK p \in {"idle", "wakesender"} : Take(t, h, p)
        BY <2>3, <3>1 DEF RecvAndWake
      <4> QED BY <1>4, <3>1, <4>1
    <3>2. CASE ~HasMessage(h) BY <1>3, <2>3, <3>2 DEF RecvAndWake
    <3> QED BY <3>1, <3>2
  <2>4. CASE RecvWithTask(t, h)
    <3>1. CASE HasMessage(h) /\ Take(t, h, "idle") BY <1>4, <3>1
    <3>2. CASE TakeNothing(t, h) BY <1>3, <3>2
    <3>3. CASE /\ pc' = [pc EXCEPT ![t] = "suspended"]
               /\ UNCHANGED <<queue, received, owner, waiting_senders, item>>
      <4>1. \A s \in Threads : pc'[s] = "sending" => pc[s] = "sending"
        BY <1>0, <3>3 DEF TypeOK
      <4> QED BY <1>1, <3>3, <4>1
    <3>4. \/ HasMessage(h) /\ Take(t, h, "idle")
          \/ TakeNothing(t, h)
          \/ /\ pc' = [pc EXCEPT ![t] = "suspended"]
             /\ UNCHANGED <<queue, received, owner, waiting_senders, item>>
      BY <2>4 DEF RecvWithTask, histVars
    <3> QED BY <3>1, <3>2, <3>3, <3>4
  <2>5. CASE RecvBlocking(t, h)
    <3>1. CASE h = NoChan BY <1>3, <2>5, <3>1 DEF RecvBlocking, StartBlockingRecv
    <3>2. CASE h # NoChan
      <4>1. /\ pc' = [pc EXCEPT ![t] = "receiving"]
            /\ UNCHANGED <<queue, received, owner, waiting_senders, item>>
        BY <2>5, <3>2 DEF RecvBlocking, StartBlockingRecv, chanVars, histVars
      <4>2. \A s \in Threads : pc'[s] = "sending" => pc[s] = "sending"
        BY <1>0, <4>1 DEF TypeOK
      <4> QED BY <1>1, <4>1, <4>2
    <3> QED BY <3>1, <3>2
  <2>6. CASE Close(t, h) BY <1>1, <2>6 DEF Close, histVars
  <2> QED BY <1>5, <2>1, <2>2, <2>3, <2>4, <2>5, <2>6, OrderWait
<1>6. ASSUME NEW t \in Threads, NEW c \in Capacities, Create(t, c) PROVE OrderInv'
  BY <1>1, <1>6 DEF Create, histVars
<1>7. ASSUME NEW t \in Threads, Step(t) PROVE OrderInv'
  <2>1. CASE WakeReceiver(t)
    <3>1. /\ pc' = [pc EXCEPT ![t] = "idle"]
          /\ UNCHANGED <<queue, received, owner, waiting_senders, item>>
      BY <2>1 DEF WakeReceiver, histVars
    <3>2. \A s \in Threads : pc'[s] = "sending" => pc[s] = "sending"
      BY <1>0, <3>1 DEF TypeOK
    <3> QED BY <1>1, <3>1, <3>2
  <2>2. CASE CompleteRecv(t)
    <3>1. at[t] \in Args BY <2>2 DEF CompleteRecv, CallInv, Inside, Args
    <3> QED BY <1>4, <2>2, <3>1 DEF CompleteRecv
  <2>3. CASE GetWokenSender(t) \/ GetWokenReceiver(t)
    <3>1. UNCHANGED <<queue, received, owner, waiting_senders, item>>
      BY <2>3 DEF GetWokenSender, GetWokenReceiver, chanVars, histVars
    <3>2. \A s \in Threads : pc'[s] = "sending" => pc[s] = "sending"
      BY <1>0, <2>3, NamesAssumption DEF GetWokenSender, GetWokenReceiver, TypeOK
    <3> QED BY <1>1, <3>1, <3>2
  <2> QED BY <1>7, <2>1, <2>2, <2>3, OrderWakeSender, OrderCompleteSend DEF Step
<1> QED BY <1>2, <1>5, <1>6, <1>7 DEF Next, Call

(* The messages of a sender leave a channel in the order in which it made   *)
(* them, whichever ways of sending it used, for any number of threads,      *)
(* channels and messages.                                                   *)
THEOREM ChannelSenderOrder == Spec => []SenderOrder
<1>1. Init => Filed /\ OrderInv
  <2> SUFFICES ASSUME Init PROVE Filed /\ OrderInv OBVIOUS
  <2>1. /\ \A t \in Threads : woken_sender[t] = NoTask /\ woken_receiver[t] = NoTask
        /\ \A t \in Threads : pc[t] = "idle"
        /\ \A h \in Handles : /\ waiting_senders[h] = <<>> /\ waiting_receivers[h] = <<>>
                              /\ queue[h] = <<>> /\ received[h] = <<>>
    BY DEF Init
  <2>2. \A h \in Handles : \A i \in Nat :
           /\ \A t \in Threads : ~SenderAt(h, i, t) /\ ~ReceiverAt(h, i, t)
           /\ \A v \in Values : ~QueuedAt(h, i, v) /\ ~ReceivedAt(h, i, v)
    BY <2>1 DEF SenderAt, ReceiverAt, QueuedAt, ReceivedAt
  <2>3. \A t, v : ~HeldBy(t, v) \/ t \notin Threads BY <2>1 DEF HeldBy
  <2> HIDE DEF SenderAt, ReceiverAt, QueuedAt, ReceivedAt, HeldBy
  <2>4. \A s, t \in Threads : woken_sender[s] # t /\ woken_receiver[s] # t
    BY <2>1, NamesAssumption
  <2>5. Filed BY <2>2, <2>4 DEF Filed, FiledOnce, NotFiled, WokenBy
  <2>6. OrderInv BY <2>2, <2>3 DEF OrderInv, InOrder, PendingIsLast, Pending
  <2> QED BY <2>5, <2>6
<1>2. CallInv /\ Apart /\ Filed /\ OrderInv /\ [Next]_vars => Filed' /\ OrderInv'
  BY NextFiled, NextOrder
<1>3. CallInv /\ OrderInv => SenderOrder
  BY InOrderIsSenderOrder DEF CallInv, OrderInv
<1> QED BY <1>1, <1>2, <1>3, CallInvHolds, MessagesApart, PTL DEF Spec

-----------------------------------------------------------------------------
(* The place of a thread in an actor call and its place in the channel call *)
(* made from it agree, and the call has an actor to work on.                *)
Links ==
    \A t \in Threads :
        /\ apc[t] = "sending" <=> pc[t] = "sending"
        /\ apc[t] \in {"send", "recv", "count"} => pc[t] = "idle"
        /\ apc[t] \in {"send", "sending", "count"} => at[t] \in Known
        /\ apc[t] = "recv" => at[t] \in Args

\* The threads that have delivered a message to actor a and not counted it.
Counting(a) == {t \in Threads : apc[t] = "count" /\ at[t] = a}

Counts ==
    \A a \in Handles :
        /\ IsFiniteSet(Counting(a))
        /\ message_count[a] + Cardinality(Counting(a))
              = Len(received[a]) + Len(queue[a])

ActorInv == CallInv /\ ActorTypeOK /\ Links /\ Counts

-----------------------------------------------------------------------------
(* A step of a thread that neither starts nor ends counting keeps the sets  *)
(* of threads that have to count.                                           *)
LEMMA SameCounting ==
    ASSUME NEW t \in Threads, apc[t] # "count", apc'[t] # "count",
           \A s \in Threads \ {t} : apc'[s] = apc[s] /\ at'[s] = at[s]
    PROVE  \A a \in Handles : Counting(a)' = Counting(a)
BY DEF Counting

(* Counts survives a step that changes neither side of the equation.        *)
LEMMA CountsKept ==
    ASSUME Counts, \A a \in Handles : Counting(a)' = Counting(a),
           UNCHANGED <<message_count, received, queue>>
    PROVE  Counts'
BY DEF Counts

(* The two sides of Counts when a message is delivered or counted.          *)
LEMMA Balance ==
    ASSUME NEW m \in Int, NEW c \in Int, NEW r \in Int, NEW q \in Int, m + c = r + q
    PROVE  /\ (m + 1) + c = r + (q + 1)
           /\ m + (c + 1) = r + (q + 1)
           /\ (m + 1) + (c - 1) = r + q
OBVIOUS

(* Taking a message moves it from one term of the sum to the other.         *)
LEMMA CountsTake ==
    ASSUME ActorInv, NEW t \in Threads, NEW a \in Args, HasMessage(a),
           Take(t, a, "idle"), apc[t] = "none", UNCHANGED actorVars
    PROVE  Counts'
<1> USE NamesAssumption DEF ActorInv, CallInv, actorVars
<1>1. a \in Handles /\ queue[a] # <<>> BY DEF HasMessage, Args, Known
<1>2. /\ queue' = [queue EXCEPT ![a] = Tail(@)]
      /\ received' = [received EXCEPT ![a] = Append(@, Head(queue[a]))]
      /\ at' = [at EXCEPT ![t] = a]
  BY DEF Take, Return
<1>3. \A b \in Handles : Counting(b)' = Counting(b)
  BY <1>2, SameCounting DEF TypeOK
<1>4. queue \in [Handles -> Seq(Values)] /\ received \in [Handles -> Seq(Values)]
  BY DEF TypeOK
<1>5. \A b \in Handles : Len(received'[b]) + Len(queue'[b]) = Len(received[b]) + Len(queue[b])
  <2>1. Len(queue'[a]) = Len(queue[a]) - 1 /\ Len(queue[a]) \in Nat BY <1>1, <1>2, <1>4
  <2>2. Head(queue[a]) \in Values BY <1>1, <1>4
  <2>3. Len(received'[a]) = Len(received[a]) + 1 /\ Len(received[a]) \in Nat
    BY <1>1, <1>2, <1>4, <2>2
  <2>4. \A b \in Handles : b # a => queue'[b] = queue[b] /\ received'[b] = received[b]
    BY <1>2, <1>4
  <2>5. Len(received'[a]) + Len(queue'[a]) = Len(received[a]) + Len(queue[a])
    <3>1. PICK r \in Nat, q \in Nat : r = Len(received[a]) /\ q = Len(queue[a])
      BY <2>1, <2>3
    <3>2. Len(received'[a]) = r + 1 /\ Len(queue'[a]) = q - 1 BY <2>1, <2>3, <3>1
    <3>3. (r + 1) + (q - 1) = r + q OBVIOUS
    <3> QED BY <3>1, <3>2, <3>3
  <2> QED BY <2>4, <2>5
<1> QED BY <1>3, <1>5 DEF Counts

-----------------------------------------------------------------------------
(* A call that only answers, and one that leaves the lock to go on at place *)
(* p, preserve the invariant.                                               *)
LEMMA AnswerKeeps ==
    ASSUME ActorInv, NEW t \in Threads, NEW a \in Args, NEW r \in Int,
           NEW p \in {"none", "send", "recv"}, Free(t), Answer(t, a, r),
           p = "send" => a \in Known,
           apc' = [apc EXCEPT ![t] = p], UNCHANGED <<state, message_count>>
    PROVE  ActorInv'
<1> USE DEF ActorInv
<1>1. pc[t] = "idle" /\ apc[t] = "none" BY DEF Free, Ready
<1>2. /\ at' = [at EXCEPT ![t] = a] /\ ret' = [ret EXCEPT ![t] = r]
      /\ UNCHANGED <<chanVars, pc, item, woken_sender, woken_receiver, histVars>>
  BY DEF Answer, Return
<1>3. CallInv' BY <1>1, <1>2, AnswerInv
<1>4. ActorTypeOK' BY <1>2, <1>3 DEF ActorTypeOK, CallInv, Known, chanVars
<1>5. Known' = Known /\ Args' = Args BY <1>2 DEF Known, Args, chanVars
<1>6. Links' BY <1>1, <1>2, <1>5 DEF Links, ActorTypeOK, TypeOK
<1>7. Counts'
  <2>1. \A b \in Handles : Counting(b)' = Counting(b)
    BY <1>1, <1>2, SameCounting DEF ActorTypeOK, TypeOK
  <2> QED BY <1>2, <2>1, CountsKept DEF chanVars, histVars
<1> QED BY <1>3, <1>4, <1>6, <1>7

(* Creating an actor preserves the invariant.                               *)
LEMMA ActorCreateInv ==
    ASSUME ActorInv, NEW t \in Threads, NEW c \in Capacities, ActorCreate(t, c)
    PROVE  ActorInv'
<1> USE DEF ActorInv
<1>1. CallInv' BY CreateInv DEF ActorCreate
<1>2. PICK h \in Handles : h = next_chan BY DEF ActorCreate, Create
<1>3. /\ next_chan' = h + 1 /\ at' = [at EXCEPT ![t] = h]
      /\ pc[t] = "idle" /\ apc[t] = "none"
      /\ state' = [state EXCEPT ![h] = "Running"]
      /\ UNCHANGED <<queue, received, pc, message_count, apc>>
  BY <1>2 DEF ActorCreate, Create, Return, Ready, histVars
<1>4. Known' = Known \cup {h} BY <1>2, <1>3 DEF Known, Handles
<1>5. ActorTypeOK' BY <1>1, <1>3, <1>4 DEF ActorTypeOK, CallInv, States
<1>6. Links' BY <1>3, <1>4 DEF Links, Args, ActorTypeOK, TypeOK
<1>7. Counts'
  <2>1. \A b \in Handles : Counting(b)' = Counting(b)
    BY <1>3, SameCounting DEF ActorTypeOK, TypeOK
  <2> QED BY <1>3, <2>1, CountsKept
<1> QED BY <1>1, <1>5, <1>6, <1>7

(* A send counts the message exactly when the mailbox takes it.             *)
LEMMA ActorSendInv ==
    ASSUME ActorInv, NEW t \in Threads, NEW a \in Args, ActorSend(t, a)
    PROVE  ActorInv'
<1> USE NamesAssumption DEF ActorInv
<1>1. pc[t] = "idle" /\ apc[t] = "none" /\ UNCHANGED <<state, apc>>
  BY DEF ActorSend, Free, Ready
<1>2. CASE ~Accepting(a)
  <2>1. Rejection(a) \in Int BY DEF Rejection
  <2>2. apc' = [apc EXCEPT ![t] = "none"] BY <1>1 DEF ActorTypeOK
  <2> QED BY <1>1, <1>2, <2>1, <2>2, AnswerKeeps DEF ActorSend
<1>3. CASE Accepting(a) /\ ~Admits(a)
  <2>1. Refusal(a) \in Int BY DEF Refusal
  <2>2. apc' = [apc EXCEPT ![t] = "none"] BY <1>1 DEF ActorTypeOK
  <2>3. Answer(t, a, Refusal(a)) /\ UNCHANGED <<state, message_count>>
    BY <1>1, <1>3 DEF ActorSend, TrySend, Answer, chanVars, histVars
  <2> QED BY <1>1, <2>1, <2>2, <2>3, AnswerKeeps DEF ActorSend
<1>4. CASE Accepting(a) /\ Admits(a)
  <2>1. a \in Known /\ a \in Handles BY <1>4 DEF Accepting, Args, Known
  <2>2. PICK m \in Values : m = next_val BY <1>4 DEF ActorSend, TrySend
  <2>3. /\ TrySend(t, a, "idle")
        /\ queue' = [queue EXCEPT ![a] = Append(@, m)]
        /\ at' = [at EXCEPT ![t] = a] /\ pc' = [pc EXCEPT ![t] = "idle"]
        /\ message_count' = [message_count EXCEPT ![a] = @ + 1]
        /\ UNCHANGED <<next_chan, received>>
    BY <1>4, <2>2 DEF ActorSend, TrySend, Return
  <2>4. CallInv' BY <1>1, <2>3, TrySendInv
  <2>5. Known' = Known /\ Args' = Args BY <2>3 DEF Known, Args
  <2>6. ActorTypeOK' BY <1>1, <2>1, <2>3, <2>4, <2>5 DEF ActorTypeOK, CallInv
  <2>7. Links' BY <1>1, <2>3, <2>5 DEF Links, ActorTypeOK, TypeOK
  <2>8. Counts'
    <3>1. \A b \in Handles : Counting(b)' = Counting(b)
      BY <1>1, <2>3, SameCounting DEF ActorTypeOK, TypeOK
    <3>2. Len(queue'[a]) = Len(queue[a]) + 1 /\ Len(queue[a]) \in Nat
      BY <2>1, <2>3 DEF ActorTypeOK, TypeOK
    <3>3. message_count'[a] = message_count[a] + 1 /\ message_count[a] \in Nat
      BY <2>1, <2>3 DEF ActorTypeOK
    <3>4. \A b \in Handles : b # a => /\ queue'[b] = queue[b]
                                      /\ message_count'[b] = message_count[b]
      BY <2>3 DEF ActorTypeOK, TypeOK
    <3>5. Cardinality(Counting(a)) \in Nat /\ Len(received[a]) \in Nat
      BY <2>1, FS_CardinalityType DEF Counts, ActorTypeOK, TypeOK
    <3>6. message_count'[a] + Cardinality(Counting(a))' = Len(received'[a]) + Len(queue'[a])
      <4>1. message_count[a] + Cardinality(Counting(a)) = Len(received[a]) + Len(queue[a])
        BY <2>1 DEF Counts
      <4>2. Cardinality(Counting(a))' = Cardinality(Counting(a)) /\ received'[a] = received[a]
        BY <2>1, <2>3, <3>1
      <4>3. PICK n \in Int, c \in Int, r \in Int, q \in Int :
                /\ n = message_count[a] /\ c = Cardinality(Counting(a))
                /\ r = Len(received[a]) /\ q = Len(queue[a])
        <5>1. /\ message_count[a] \in Int /\ Cardinality(Counting(a)) \in Int
              /\ Len(received[a]) \in Int /\ Len(queue[a]) \in Int
          BY <3>2, <3>3, <3>5
        <5> QED BY <5>1
      <4>4. n + c = r + q BY <4>1, <4>3
      <4>5. (n + 1) + c = r + (q + 1) BY <4>4, Balance
      <4> QED BY <3>2, <3>3, <4>2, <4>3, <4>5
    <3> QED BY <2>3, <3>1, <3>4, <3>6 DEF Counts
  <2> QED BY <2>4, <2>6, <2>7, <2>8
<1> QED BY <1>2, <1>3, <1>4

(* The first critical section of a blocking send preserves the invariant.   *)
LEMMA ActorSendBlockingInv ==
    ASSUME ActorInv, NEW t \in Threads, NEW a \in Args, ActorSendBlocking(t, a)
    PROVE  ActorInv'
<1> USE NamesAssumption DEF ActorInv
<1>1. CASE ~Accepting(a)
  <2>1. Rejection(a) \in Int BY DEF Rejection
  <2>2. apc' = [apc EXCEPT ![t] = "none"]
    BY <1>1 DEF ActorSendBlocking, Free, ActorTypeOK
  <2> QED BY <1>1, <2>1, <2>2, AnswerKeeps DEF ActorSendBlocking
<1>2. CASE Accepting(a)
  <2>1. a \in Known BY <1>2 DEF Accepting, Args
  <2> QED BY <1>2, <2>1, AnswerKeeps DEF ActorSendBlocking, EnterCall, Goto
<1> QED BY <1>1, <1>2

(* Entering the mailbox of a blocking send preserves the invariant.         *)
LEMMA EnterMailboxSendInv ==
    ASSUME ActorInv, NEW t \in Threads, EnterMailboxSend(t)
    PROVE  ActorInv'
<1> USE NamesAssumption DEF ActorInv
<1>1. pc[t] = "idle" /\ apc[t] = "send" /\ at[t] \in Known
  BY DEF EnterMailboxSend, Links
<1>2. at[t] \in Args /\ at[t] \in Handles /\ at[t] # NoChan BY <1>1 DEF Args, Known
<1>3. CallInv' BY <1>1, <1>2, SendBlockingInv DEF EnterMailboxSend
<1>4. PICK p \in {"none", "sending"} : p = IF closed[at[t]] THEN "none" ELSE "sending"
  OBVIOUS
<1>5. /\ apc' = [apc EXCEPT ![t] = p]
      /\ pc' = [pc EXCEPT ![t] = IF p = "none" THEN "idle" ELSE "sending"]
      /\ UNCHANGED <<next_chan, at, queue, received, state, message_count>>
  BY <1>1, <1>2, <1>4
     DEF EnterMailboxSend, StartBlockingSend, Return, Goto, chanVars, ActorTypeOK, TypeOK
<1>6. Known' = Known /\ Args' = Args BY <1>5 DEF Known, Args
<1>7. ActorTypeOK' BY <1>3, <1>5, <1>6 DEF ActorTypeOK, CallInv
<1>8. Links' BY <1>1, <1>5, <1>6 DEF Links, ActorTypeOK, TypeOK
<1>9. Counts'
  <2>1. \A b \in Handles : Counting(b)' = Counting(b)
    BY <1>1, <1>5, SameCounting DEF ActorTypeOK, TypeOK
  <2> QED BY <1>5, <2>1, CountsKept
<1> QED BY <1>3, <1>7, <1>8, <1>9

(* The delivery of a blocking send makes its thread one that has to count.  *)
LEMMA LeaveMailboxSendInv ==
    ASSUME ActorInv, NEW t \in Threads, LeaveMailboxSend(t)
    PROVE  ActorInv'
<1> USE NamesAssumption DEF ActorInv
<1>1. pc[t] = "sending" /\ apc[t] = "sending" /\ at[t] \in Known
  BY DEF LeaveMailboxSend, Links
<1>2. PICK a \in Handles : a = at[t] BY <1>1 DEF Known
<1>3. item[t] \in Values BY <1>1 DEF CallInv, Inside
<1>4. CallInv' BY CompleteSendInv DEF LeaveMailboxSend
<1>5. /\ apc' = [apc EXCEPT ![t] = "count"]
      /\ pc' = [pc EXCEPT ![t] = "idle"]
      /\ queue' = [queue EXCEPT ![a] = Append(@, item[t])]
      /\ UNCHANGED <<next_chan, at, received, state, message_count>>
  BY <1>2 DEF LeaveMailboxSend, CompleteSend, Return, Goto, ActorTypeOK, TypeOK
<1>6. Known' = Known /\ Args' = Args BY <1>5 DEF Known, Args
<1>7. ActorTypeOK' BY <1>4, <1>5, <1>6 DEF ActorTypeOK, CallInv
<1>8. Links' BY <1>1, <1>5, <1>6 DEF Links, ActorTypeOK, TypeOK
<1>9. Counts'
  <2>1. Counting(a)' = Counting(a) \cup {t} /\ t \notin Counting(a)
    BY <1>1, <1>2, <1>5 DEF Counting, ActorTypeOK
  <2>2. \A b \in Handles : b # a => Counting(b)' = Counting(b) /\ queue'[b] = queue[b]
    BY <1>1, <1>2, <1>5 DEF Counting, ActorTypeOK, TypeOK
  <2>3. Len(queue'[a]) = Len(queue[a]) + 1 /\ Len(queue[a]) \in Nat
    BY <1>3, <1>5 DEF ActorTypeOK, TypeOK
  <2>4. IsFiniteSet(Counting(a)) /\ Cardinality(Counting(a)) \in Nat
        /\ message_count[a] + Cardinality(Counting(a)) = Len(received[a]) + Len(queue[a])
    BY FS_CardinalityType DEF Counts
  <2>5. /\ IsFiniteSet(Counting(a) \cup {t})
        /\ Cardinality(Counting(a) \cup {t}) = Cardinality(Counting(a)) + 1
    BY <2>1, <2>4, FS_AddElement
  <2>6. message_count[a] \in Nat /\ Len(received[a]) \in Nat BY DEF ActorTypeOK, TypeOK
  <2>7. message_count'[a] + Cardinality(Counting(a))' = Len(received'[a]) + Len(queue'[a])
    <3>1. Cardinality(Counting(a))' = Cardinality(Counting(a)) + 1 BY <2>1, <2>5
    <3>2. message_count'[a] = message_count[a] /\ received'[a] = received[a] BY <1>5
    <3>3. PICK m \in Int, c \in Int, r \in Int, q \in Int :
                /\ m = message_count[a] /\ c = Cardinality(Counting(a))
                /\ r = Len(received[a]) /\ q = Len(queue[a])
      BY <2>3, <2>4, <2>6
    <3>4. m + c = r + q BY <2>4, <3>3
    <3>5. m + (c + 1) = r + (q + 1) BY <3>4, Balance
    <3> QED BY <2>3, <3>1, <3>2, <3>3, <3>5
  <2>8. IsFiniteSet(Counting(a))' BY <2>1, <2>5
  <2> QED BY <1>5, <2>2, <2>7, <2>8 DEF Counts
<1> QED BY <1>4, <1>7, <1>8, <1>9

(* Counting a delivered message preserves the invariant.                    *)
LEMMA CountSentInv ==
    ASSUME ActorInv, NEW t \in Threads, CountSent(t)
    PROVE  ActorInv'
<1> USE NamesAssumption DEF ActorInv
<1>1. pc[t] = "idle" /\ apc[t] = "count" /\ at[t] \in Known BY DEF CountSent, Links
<1>2. PICK a \in Handles : a = at[t] BY <1>1 DEF Known
<1>3. /\ apc' = [apc EXCEPT ![t] = "none"]
      /\ message_count' = [message_count EXCEPT ![a] = @ + 1]
      /\ UNCHANGED <<chanVars, callVars, histVars, state>>
  BY <1>2 DEF CountSent, Goto
<1>4. CallInv'
  <2>1. TypeOK' BY <1>3 DEF CallInv, TypeOK, chanVars, callVars, histVars
  <2>2. Inside' BY <1>3 DEF CallInv, Inside, Known, chanVars, callVars, histVars
  <2> QED BY <1>3, <2>1, <2>2, QuietInv DEF chanVars, histVars
<1>5. Known' = Known /\ Args' = Args BY <1>3 DEF Known, Args, chanVars
<1>6. ActorTypeOK' BY <1>3, <1>4, <1>5 DEF ActorTypeOK, CallInv
<1>7. Links' BY <1>1, <1>3, <1>5 DEF Links, ActorTypeOK, TypeOK, callVars
<1>8. Counts'
  <2>1. Counting(a)' = Counting(a) \ {t} /\ t \in Counting(a)
    BY <1>1, <1>2, <1>3 DEF Counting, ActorTypeOK, callVars
  <2>2. \A b \in Handles : b # a => Counting(b)' = Counting(b)
                                    /\ message_count'[b] = message_count[b]
    BY <1>1, <1>2, <1>3 DEF Counting, ActorTypeOK, callVars
  <2>3. message_count'[a] = message_count[a] + 1 /\ message_count[a] \in Nat
    BY <1>3 DEF ActorTypeOK
  <2>4. IsFiniteSet(Counting(a)) /\ Cardinality(Counting(a)) \in Nat
        /\ message_count[a] + Cardinality(Counting(a)) = Len(received[a]) + Len(queue[a])
    BY FS_CardinalityType DEF Counts
  <2>5. /\ IsFiniteSet(Counting(a) \ {t})
        /\ Cardinality(Counting(a) \ {t}) = Cardinality(Counting(a)) - 1
    BY <2>1, <2>4, FS_RemoveElement
  <2>6. UNCHANGED <<received, queue>> BY <1>3 DEF chanVars, histVars
  <2>7. message_count'[a] + Cardinality(Counting(a))' = Len(received'[a]) + Len(queue'[a])
    <3>1. Cardinality(Counting(a))' = Cardinality(Counting(a)) - 1 BY <2>1, <2>5
    <3>2. Len(queue[a]) \in Nat /\ Len(received[a]) \in Nat BY DEF ActorTypeOK, TypeOK
    <3>3. PICK m \in Int, c \in Int, r \in Int, q \in Int :
                /\ m = message_count[a] /\ c = Cardinality(Counting(a))
                /\ r = Len(received[a]) /\ q = Len(queue[a])
      BY <2>3, <2>4, <3>2
    <3>4. m + c = r + q BY <2>4, <3>3
    <3>5. (m + 1) + (c - 1) = r + q BY <3>4, Balance
    <3> QED BY <2>3, <2>6, <3>1, <3>3, <3>5
  <2>8. IsFiniteSet(Counting(a))' BY <2>1, <2>5
  <2> QED BY <2>2, <2>6, <2>7, <2>8 DEF Counts
<1> QED BY <1>4, <1>6, <1>7, <1>8

(* Taking a message in an actor call preserves the invariant.               *)
LEMMA TakeKeepsActors ==
    ASSUME ActorInv, NEW t \in Threads, NEW a \in Args, HasMessage(a),
           Take(t, a, "idle"), pc[t] \in {"idle", "receiving"}, apc[t] = "none",
           UNCHANGED actorVars
    PROVE  ActorInv'
<1> USE DEF ActorInv
<1>1. CallInv' BY TakeInv
<1>2. /\ pc' = [pc EXCEPT ![t] = "idle"] /\ at' = [at EXCEPT ![t] = a]
      /\ UNCHANGED <<next_chan, state, message_count, apc>>
  BY DEF Take, Return, actorVars
<1>3. Known' = Known /\ Args' = Args BY <1>2 DEF Known, Args
<1>4. ActorTypeOK' BY <1>1, <1>2, <1>3 DEF ActorTypeOK, CallInv
<1>5. Links' BY <1>2, <1>3 DEF Links, ActorTypeOK, TypeOK
<1>6. Counts' BY CountsTake
<1> QED BY <1>1, <1>4, <1>5, <1>6

(* The receiving calls preserve the invariant.                              *)
LEMMA ActorRecvInv ==
    ASSUME ActorInv, NEW t \in Threads, NEW a \in Args, ActorRecv(t, a)
    PROVE  ActorInv'
<1>1. pc[t] = "idle" /\ apc[t] = "none" /\ UNCHANGED actorVars
  BY DEF ActorRecv, Free, Ready
<1>2. apc' = [apc EXCEPT ![t] = "none"] /\ UNCHANGED <<state, message_count>>
  BY <1>1 DEF actorVars, ActorInv, ActorTypeOK
<1>3. CASE HasFailed(a)
  <2>1. PICK r \in Int : r = -4 OBVIOUS
  <2>2. Answer(t, a, r) /\ Free(t) BY <1>3, <2>1 DEF ActorRecv
  <2> QED BY <1>2, <2>2, AnswerKeeps
<1>4. CASE ~HasFailed(a) /\ HasMessage(a)
  BY <1>1, <1>4, TakeKeepsActors DEF ActorRecv
<1>5. CASE ~HasFailed(a) /\ ~HasMessage(a)
  <2>1. NotReceived(a) \in Int BY DEF NotReceived
  <2>2. TakeNothing(t, a) BY <1>5 DEF ActorRecv
  <2>3. pc' = pc BY <1>1, <2>2 DEF TakeNothing, ActorInv, ActorTypeOK, TypeOK
  <2>4. Answer(t, a, NotReceived(a)) BY <2>2, <2>3 DEF TakeNothing, Answer
  <2> QED BY <1>2, <2>1, <2>4, AnswerKeeps DEF ActorRecv
<1> QED BY <1>3, <1>4, <1>5

(* The check before a blocking receive preserves the invariant.             *)
LEMMA ActorRecvBlockingInv ==
    ASSUME ActorInv, NEW t \in Threads, NEW a \in Args, ActorRecvBlocking(t, a)
    PROVE  ActorInv'
<1>1. CASE HasFailed(a) /\ Answer(t, a, -4) /\ UNCHANGED apc
  <2>1. apc' = [apc EXCEPT ![t] = "none"]
    BY <1>1 DEF ActorRecvBlocking, Free, ActorInv, ActorTypeOK
  <2>2. PICK r \in Int : r = -4 OBVIOUS
  <2>3. /\ Answer(t, a, r) /\ Free(t)
        /\ UNCHANGED <<state, message_count>>
    BY <1>1, <2>2 DEF ActorRecvBlocking
  <2> QED BY <2>1, <2>3, AnswerKeeps
<1>2. CASE EnterCall(t, a, "recv")
  <2>1. PICK p \in {"none", "send", "recv"} : p = "recv" OBVIOUS
  <2>2. PICK r \in Int : r = 0 OBVIOUS
  <2>3. /\ Answer(t, a, r) /\ Free(t) /\ apc' = [apc EXCEPT ![t] = p]
        /\ UNCHANGED <<state, message_count>>
    BY <1>2, <2>1, <2>2 DEF ActorRecvBlocking, EnterCall, Goto
  <2>4. p # "send" BY <2>1
  <2> QED BY <2>3, <2>4, AnswerKeeps
<1> QED BY <1>1, <1>2 DEF ActorRecvBlocking

(* Entering the mailbox of a blocking receive preserves the invariant.      *)
LEMMA EnterMailboxRecvInv ==
    ASSUME ActorInv, NEW t \in Threads, EnterMailboxRecv(t)
    PROVE  ActorInv'
<1> USE DEF ActorInv
<1>1. pc[t] = "idle" /\ apc[t] = "recv" /\ at[t] \in Args
  BY DEF EnterMailboxRecv, Links
<1>2. CallInv' BY <1>1, RecvBlockingInv DEF EnterMailboxRecv
<1>3. PICK p \in {"idle", "receiving"} : pc' = [pc EXCEPT ![t] = p]
  BY DEF EnterMailboxRecv, StartBlockingRecv, TakeNothing
<1>4. /\ apc' = [apc EXCEPT ![t] = "none"]
      /\ UNCHANGED <<next_chan, at, queue, received, state, message_count>>
  BY DEF EnterMailboxRecv, StartBlockingRecv, TakeNothing, Return, Goto, chanVars,
         histVars, ActorTypeOK, TypeOK
<1>5. Known' = Known /\ Args' = Args BY <1>4 DEF Known, Args
<1>6. ActorTypeOK' BY <1>2, <1>4, <1>5 DEF ActorTypeOK, CallInv
<1>7. Links' BY <1>1, <1>3, <1>4, <1>5 DEF Links, ActorTypeOK, TypeOK
<1>8. Counts'
  <2>1. \A b \in Handles : Counting(b)' = Counting(b)
    BY <1>1, <1>4, SameCounting DEF ActorTypeOK, TypeOK
  <2> QED BY <1>4, <2>1, CountsKept
<1> QED BY <1>2, <1>6, <1>7, <1>8

(* The completion of a blocking receive preserves the invariant.            *)
LEMMA LeaveMailboxRecvInv ==
    ASSUME ActorInv, NEW t \in Threads, LeaveMailboxRecv(t)
    PROVE  ActorInv'
<1>1. pc[t] = "receiving" /\ HasMessage(at[t]) /\ Take(t, at[t], "idle")
      /\ UNCHANGED actorVars
  BY DEF LeaveMailboxRecv, CompleteRecv
<1>2. at[t] \in Args BY <1>1 DEF ActorInv, CallInv, Inside, Args
<1>3. apc[t] = "none" BY <1>1 DEF ActorInv, Links, ActorTypeOK
<1> QED BY <1>1, <1>2, <1>3, TakeKeepsActors

(* A change of the life-cycle state preserves the invariant, with the       *)
(* mailbox closed or left open.                                             *)
LEMMA BecomeInv ==
    ASSUME ActorInv, NEW t \in Threads, NEW a \in Args, NEW s \in States \ {"None"},
           Become(t, a, s), CloseMailbox(a) \/ UNCHANGED closed
    PROVE  ActorInv'
<1> USE NamesAssumption DEF ActorInv
<1>1. pc[t] = "idle" /\ apc[t] = "none" BY DEF Become, Free, Ready
<1>2. PICK r \in Int : r = IF a = NoChan THEN 1 ELSE 0 OBVIOUS
<1>3. /\ state' = [b \in Handles |-> IF b = a THEN s ELSE state[b]]
      /\ at' = [at EXCEPT ![t] = a] /\ ret' = [ret EXCEPT ![t] = r]
      /\ UNCHANGED <<next_chan, capacity, queue, waiting_senders, waiting_receivers,
                     pc, item, woken_sender, woken_receiver, histVars,
                     message_count, apc>>
  BY <1>2 DEF Become, Return
<1>4. CallInv'
  <2>1. CASE CloseMailbox(a) BY <1>1, <1>3, <2>1, CloseInv DEF CloseMailbox
  <2>2. CASE UNCHANGED closed BY <1>1, <1>3, <2>2, AnswerInv DEF chanVars
  <2> QED BY <2>1, <2>2
<1>5. Known' = Known /\ Args' = Args BY <1>3 DEF Known, Args
<1>6. ActorTypeOK'
  <2>1. state' \in [Handles -> States] BY <1>3 DEF ActorTypeOK
  <2>2. \A b \in Handles : state'[b] # "None" => b \in Known'
    BY <1>3, <1>5 DEF ActorTypeOK, Args
  <2> QED BY <1>3, <1>4, <2>1, <2>2 DEF ActorTypeOK, CallInv
<1>7. Links' BY <1>1, <1>3, <1>5 DEF Links, ActorTypeOK, TypeOK
<1>8. Counts'
  <2>1. \A b \in Handles : Counting(b)' = Counting(b)
    BY <1>1, <1>3, SameCounting DEF ActorTypeOK, TypeOK
  <2> QED BY <1>3, <2>1, CountsKept DEF histVars
<1> QED BY <1>4, <1>6, <1>7, <1>8

-----------------------------------------------------------------------------
(* The initial states satisfy the invariant.                                *)
LEMMA InitActorInv == ActorInit => ActorInv
<1> SUFFICES ASSUME ActorInit PROVE ActorInv OBVIOUS
<1>1. CallInv BY InitCallInv DEF ActorInit
<1>2. ActorTypeOK BY <1>1 DEF ActorInit, ActorTypeOK, CallInv, States
<1>3. Links BY DEF ActorInit, Init, Links
<1>4. Counts
  <2>1. \A a \in Handles : Counting(a) = {} BY DEF ActorInit, Counting
  <2>2. \A a \in Handles : message_count[a] = 0 /\ queue[a] = <<>> /\ received[a] = <<>>
    BY DEF ActorInit, Init
  <2> QED BY <2>1, <2>2, FS_EmptySet DEF Counts
<1> QED BY <1>1, <1>2, <1>3, <1>4 DEF ActorInv

(* Every step preserves the invariant: one case per operation.              *)
LEMMA NextActorInv == ActorInv /\ [ActorNext]_allVars => ActorInv'
<1> SUFFICES ASSUME ActorInv, [ActorNext]_allVars PROVE ActorInv' OBVIOUS
<1>1. CASE UNCHANGED allVars
  <2> USE DEF ActorInv, allVars, vars, chanVars, callVars, histVars, actorVars
  <2>1. CallInv'
    <3>1. TypeOK' BY <1>1 DEF CallInv, TypeOK
    <3>2. Inside' BY <1>1 DEF CallInv, Inside, Known
    <3> QED BY <1>1, <3>1, <3>2, QuietInv
  <2>2. ActorTypeOK' BY <1>1, <2>1 DEF ActorTypeOK, CallInv, Known
  <2>3. Links' BY <1>1 DEF Links, Known, Args
  <2>4. Counts' BY <1>1 DEF Counts, Counting
  <2> QED BY <2>1, <2>2, <2>3, <2>4
<1>2. ASSUME NEW t \in Threads, ActorCall(t) PROVE ActorInv'
  <2>1. CASE \E c \in Capacities : ActorCreate(t, c) BY <2>1, ActorCreateInv
  <2>2. ASSUME NEW a \in Args,
               \/ ActorSend(t, a) \/ ActorSendBlocking(t, a)
               \/ ActorRecv(t, a) \/ ActorRecvBlocking(t, a)
               \/ ActorStop(t, a) \/ MarkStopped(t, a) \/ MarkFailed(t, a)
        PROVE  ActorInv'
    <3>1. CASE ActorStop(t, a) BY <3>1, BecomeInv DEF ActorStop, States
    <3>2. CASE MarkStopped(t, a) BY <3>2, BecomeInv DEF MarkStopped, States
    <3>3. CASE MarkFailed(t, a) BY <3>3, BecomeInv DEF MarkFailed, States
    <3> QED BY <2>2, <3>1, <3>2, <3>3, ActorSendInv, ActorSendBlockingInv,
               ActorRecvInv, ActorRecvBlockingInv
  <2> QED BY <1>2, <2>1, <2>2 DEF ActorCall
<1>3. ASSUME NEW t \in Threads, ActorStep(t) PROVE ActorInv'
  BY <1>3, EnterMailboxSendInv, LeaveMailboxSendInv, CountSentInv,
     EnterMailboxRecvInv, LeaveMailboxRecvInv DEF ActorStep
<1> QED BY <1>1, <1>2, <1>3 DEF ActorNext

(* ActorInv holds in every reachable state.                                 *)
LEMMA ActorInvariant == ActorSpec => []ActorInv
<1> QED BY InitActorInv, NextActorInv, PTL DEF ActorSpec

(* actor_message_count is the number of messages the mailbox has taken,     *)
(* short of the blocking sends that have delivered and not yet counted, for *)
(* any number of threads and actors.                                        *)
THEOREM ActorCountsDelivered == ActorSpec => []CountsDelivered
<1>1. ActorInv => CountsDelivered
  BY DEF ActorInv, Counts, Counting, CountsDelivered
<1> QED BY <1>1, ActorInvariant, PTL

-----------------------------------------------------------------------------
(* How a step can change what a mailbox holds or has given out.             *)
LEMMA MailboxSteps ==
    ASSUME ActorInv, ActorNext
    PROVE  \/ UNCHANGED <<queue, received>>
           \/ /\ UNCHANGED received
              /\ \E a \in Handles : /\ state[a] = "Running"
                                    /\ \A b \in Handles \ {a} : queue'[b] = queue[b]
           \/ /\ UNCHANGED received
              /\ \E t \in Threads :
                    /\ apc[t] = "sending" /\ apc'[t] = "count"
                    /\ \A b \in Handles \ {at[t]} : queue'[b] = queue[b]
           \/ \E t \in Threads, a \in Handles :
                    /\ Take(t, a, "idle") /\ queue[a] # <<>>
                    /\ \/ state[a] # "Failed"
                       \/ pc[t] = "receiving" /\ at[t] = a
<1> USE NamesAssumption DEF ActorInv, CallInv, chanVars, histVars, callVars, actorVars
<1>1. ASSUME NEW t \in Threads, ActorCall(t)
      PROVE  \/ UNCHANGED <<queue, received>>
             \/ /\ UNCHANGED received
                /\ \E a \in Handles : /\ state[a] = "Running"
                                      /\ \A b \in Handles \ {a} : queue'[b] = queue[b]
             \/ \E a \in Handles : /\ Take(t, a, "idle") /\ queue[a] # <<>>
                                   /\ state[a] # "Failed"
  <2>1. CASE \E c \in Capacities : ActorCreate(t, c)
    BY <2>1 DEF ActorCreate, Create
  <2>2. ASSUME NEW a \in Args, ActorSendBlocking(t, a) \/ ActorRecvBlocking(t, a)
                               \/ ActorStop(t, a) \/ MarkStopped(t, a) \/ MarkFailed(t, a)
        PROVE  UNCHANGED <<queue, received>>
    BY <2>2 DEF ActorSendBlocking, ActorRecvBlocking, ActorStop, MarkStopped,
                MarkFailed, Become, EnterCall, Answer
  <2>3. ASSUME NEW a \in Args, ActorSend(t, a)
        PROVE  /\ UNCHANGED received
               /\ \/ UNCHANGED queue
                  \/ /\ a \in Handles /\ state[a] = "Running"
                     /\ \A b \in Handles \ {a} : queue'[b] = queue[b]
    <3>1. CASE ~Accepting(a) BY <2>3, <3>1 DEF ActorSend, Answer
    <3>2. CASE Accepting(a)
      <4>1. a \in Handles /\ state[a] = "Running" BY <3>2 DEF Accepting, Args, Known
      <4>2. TrySend(t, a, "idle") BY <2>3, <3>2 DEF ActorSend
      <4>3. /\ UNCHANGED received
            /\ UNCHANGED queue \/ queue' = [queue EXCEPT ![a] = Append(@, next_val)]
        BY <4>2 DEF TrySend
      <4> QED BY <4>1, <4>3 DEF TypeOK
    <3> QED BY <3>1, <3>2
  <2>4. ASSUME NEW a \in Args, ActorRecv(t, a)
        PROVE  \/ UNCHANGED <<queue, received>>
               \/ /\ Take(t, a, "idle") /\ queue[a] # <<>>
                  /\ a \in Handles /\ state[a] # "Failed"
    BY <2>4 DEF ActorRecv, HasFailed, HasMessage, Answer, TakeNothing, Args, Known
  <2> QED BY <1>1, <2>1, <2>2, <2>3, <2>4 DEF ActorCall
<1>2. ASSUME NEW t \in Threads, ActorStep(t)
      PROVE  \/ UNCHANGED <<queue, received>>
             \/ /\ UNCHANGED received
                /\ apc[t] = "sending" /\ apc'[t] = "count"
                /\ \A b \in Handles \ {at[t]} : queue'[b] = queue[b]
             \/ /\ at[t] \in Handles
                /\ Take(t, at[t], "idle") /\ queue[at[t]] # <<>>
                /\ pc[t] = "receiving"
  <2>1. CASE EnterMailboxSend(t) \/ CountSent(t) \/ EnterMailboxRecv(t)
    BY <2>1 DEF EnterMailboxSend, CountSent, EnterMailboxRecv, StartBlockingSend,
                StartBlockingRecv, TakeNothing
  <2>2. CASE LeaveMailboxSend(t)
    BY <2>2 DEF LeaveMailboxSend, CompleteSend, Goto, ActorTypeOK, TypeOK
  <2>3. CASE LeaveMailboxRecv(t)
    BY <2>3 DEF LeaveMailboxRecv, CompleteRecv, HasMessage, TypeOK
  <2> QED BY <1>2, <2>1, <2>2, <2>3 DEF ActorStep
<1>3. PICK t \in Threads : ActorCall(t) \/ ActorStep(t) BY DEF ActorNext
<1>4. CASE ActorCall(t) BY <1>1, <1>4
<1>5. CASE ActorStep(t) BY <1>2, <1>5
<1> QED BY <1>3, <1>4, <1>5

(* Only calls that looked at the state of an actor before it was stopped or *)
(* failed still deliver a message to it or take one from it.                *)
THEOREM ActorEndedIsQuiet == ActorSpec => EndedActorIsQuiet
<1>1. ASSUME ActorInv, ActorNext, NEW a \in Handles,
             state[a] \in {"Stopping", "Stopped", "Failed"},
             Len(queue'[a]) > Len(queue[a])
      PROVE  \E t \in Threads : apc[t] = "sending" /\ at[t] = a /\ apc'[t] = "count"
  <2> USE DEF ActorInv, ActorTypeOK, TypeOK
  <2>1. queue[a] \in Seq(Values) /\ Len(queue[a]) \in Nat BY <1>1
  <2>2. queue'[a] # queue[a] BY <1>1, <2>1
  <2>3. ASSUME NEW t \in Threads, NEW b \in Handles, Take(t, b, "idle"),
               queue[b] # <<>>
        PROVE  FALSE
    <3>1. queue' = [queue EXCEPT ![b] = Tail(@)] BY <2>3 DEF Take
    <3>2. b = a BY <2>2, <3>1
    <3>3. Len(queue'[a]) = Len(queue[a]) - 1 BY <1>1, <2>1, <2>3, <3>1, <3>2
    <3> QED BY <1>1, <2>1, <3>3
  <2> QED BY <1>1, <2>2, <2>3, MailboxSteps
<1>2. ASSUME ActorInv, ActorNext, NEW a \in Handles, state[a] = "Failed",
             received'[a] # received[a]
      PROVE  \E t \in Threads : pc[t] = "receiving" /\ at[t] = a /\ pc'[t] = "idle"
  <2> USE DEF ActorInv, ActorTypeOK, TypeOK
  <2>1. PICK t \in Threads, b \in Handles :
            /\ Take(t, b, "idle")
            /\ state[b] # "Failed" \/ (pc[t] = "receiving" /\ at[t] = b)
    BY <1>2, MailboxSteps
  <2>2. received' = [received EXCEPT ![b] = Append(@, Head(queue[b]))]
        /\ pc' = [pc EXCEPT ![t] = "idle"]
    BY <2>1 DEF Take
  <2>3. a = b BY <1>2, <2>2
  <2> QED BY <1>2, <2>1, <2>2, <2>3
<1>3. ActorInv /\ [ActorNext]_allVars =>
        [\A a \in Handles :
          (state[a] \in {"Stopping", "Stopped", "Failed"} /\ Len(queue'[a]) > Len(queue[a]))
              => \E t \in Threads : apc[t] = "sending" /\ at[t] = a /\ apc'[t] = "count"
        ]_allVars
  BY <1>1
<1>4. ActorInv /\ [ActorNext]_allVars =>
        [\A a \in Handles :
          (state[a] = "Failed" /\ received'[a] # received[a])
              => \E t \in Threads : pc[t] = "receiving" /\ at[t] = a /\ pc'[t] = "idle"
        ]_allVars
  BY <1>2
<1>5. ActorSpec => StoppedAcceptsNothing
  BY <1>3, ActorInvariant, PTL DEF ActorSpec, StoppedAcceptsNothing
<1>6. ActorSpec => FailedDeliversNothing
  BY <1>4, ActorInvariant, PTL DEF ActorSpec, FailedDeliversNothing
<1> QED BY <1>5, <1>6 DEF EndedActorIsQuiet

-----------------------------------------------------------------------------
(* ChannelSelect.  The variables of select have their types, and a thread   *)
(* that is not a selector has nothing in them.                              *)
Placed ==
    /\ sel \in [Threads -> Seq(Args)] /\ \A t \in Threads : Len(sel[t]) <= MaxSelect
    /\ sel_index \in [Threads -> -1 .. MaxSelect - 1]
    /\ sel_msg \in [Threads -> Values \cup {0}]
    /\ sel_ret \in [Threads -> {-1, 0, 1, 2, 3}]
    /\ missed \in [Threads -> BOOLEAN]
    /\ spc \in [Threads -> [kind : {"none", "try", "task", "register", "waiting", "blocked"},
                            i : 0 .. MaxSelect, all_closed : BOOLEAN]]
    /\ \A t \in Threads :
          /\ spc[t].kind \in {"try", "task"} => spc[t].i \in 1 .. Len(sel[t])
          /\ spc[t].kind # "none" => t \in Selectors
          /\ spc[t].kind \in {"try", "task", "register", "blocked"} => pc[t] = "idle"

(* A closed channel that is empty stays so, in programs without sends that  *)
(* wait for room.                                                           *)
NoWaitingSends == ops \cap {"send_blocking", "send_with_task"} = {}

NobodySends ==
    /\ \A t \in Threads : pc[t] # "sending"
    /\ \A h \in Handles : waiting_senders[h] = <<>>

Ended(h) == closed[h] /\ queue[h] = <<>>

(* The channels that a select has passed over as closed have ended.         *)
PassedEnded ==
    \A t \in Threads : spc[t].kind \in {"try", "task"} /\ spc[t].all_closed =>
        \A i \in 1 .. Len(sel[t]) : i < spc[t].i /\ sel[t][i] # NoChan => Ended(sel[t][i])

ToldEnded ==
    \A t \in Threads : sel_ret[t] = 2 =>
        \A i \in 1 .. Len(sel[t]) : sel[t][i] # NoChan => Ended(sel[t][i])

EndsInv == NoWaitingSends => NobodySends /\ PassedEnded /\ ToldEnded

(* The cell for the woken receiver is free when one is about to be woken.   *)
CellFree == \A t \in Threads : pc[t] = "wakereceiver" => woken_receiver[t] = NoTask

Sleeps(t) == pc[t] = "suspended" /\ At(t, "waiting")
Woken(t) == \E s \in Threads : woken_receiver[s] = t
Registered(t, h) == \E k \in 1 .. Len(waiting_receivers[h]) : ReceiverAt(h, k, t)

\* SelectorIsRegistered, of one thread.
Listed(t) == Woken(t) \/ \A i \in 1 .. Len(sel[t]) : sel[t][i] \in Open => Registered(t, sel[t][i])

(* With one selector only it is registered; and unless a message came       *)
(* between its passes, a channel it is not registered on has ended.         *)
OnlySelectors == \A h \in Handles : \A k \in 1 .. Len(waiting_receivers[h]) :
                    waiting_receivers[h][k] \in Selectors

Covered(t) == \/ Woken(t) \/ missed[t]
              \/ \A i \in 1 .. Len(sel[t]) : sel[t][i] # NoChan =>
                    Registered(t, sel[t][i]) \/ Ended(sel[t][i])

HasWaker(t) == \/ missed[t] \/ Woken(t)
               \/ \A i \in 1 .. Len(sel[t]) : HasMessage(sel[t][i]) =>
                     \E s \in Threads : pc[s] = "wakereceiver" /\ at[s] = sel[t][i]

SleepersInv ==
    /\ CellFree
    /\ \A t \in Threads : Sleeps(t) => Listed(t)
    /\ OneSelector =>
          /\ NobodySends /\ OnlySelectors
          /\ \A t \in Threads : Sleeps(t) => Covered(t) /\ HasWaker(t)

\* The inductive invariant behind SelectSafe.
SelectInv == CallInv /\ Placed /\ IndexNamesSource /\ EndsInv /\ SleepersInv

(* It says what select promises.                                            *)
LEMMA SelectInvMeans == SelectInv => SelectSafe
<1> SUFFICES ASSUME SelectInv PROVE SelectSafe OBVIOUS
<1>1. SelectTypeOK BY DEF SelectInv, CallInv, Placed, SelectTypeOK
<1>2. SelectEndIsFinal BY DEF SelectInv, EndsInv, NoWaitingSends, ToldEnded, Ended, SelectEndIsFinal
<1>3. SelectorIsRegistered
  BY DEF SelectInv, SleepersInv, Sleeps, Listed, Woken, Registered, SelectorIsRegistered
<1>4. SelectorHasWaker
  BY DEF SelectInv, SleepersInv, Sleeps, HasWaker, Woken, SelectorHasWaker
<1> QED BY <1>1, <1>2, <1>3, <1>4 DEF SelectInv, SelectSafe

(* What a step of the plain channel calls does to the rest of a program:    *)
(* channels are never forgotten or opened again, and what was received      *)
(* stays; a thread that makes no step is at most resumed.                   *)
LEMMA PlainFrame ==
    ASSUME TypeOK, NEW t \in Threads, Call(t) \/ Step(t)
    PROVE  /\ \A h \in Known : h \in Known' /\ (closed[h] => closed'[h])
           /\ \A h \in Handles : \A i : \A v : ReceivedAt(h, i, v) => ReceivedAt(h, i, v)'
           /\ \A s \in Threads \ {t} : /\ at'[s] = at[s]
                                       /\ \/ pc'[s] = pc[s]
                                          \/ pc[s] = "suspended" /\ pc'[s] \in {"idle", "retry"}
<1>1. \A h \in Known : h \in Known'
  <2>1. next_chan' = next_chan \/ next_chan' = next_chan + 1
    BY DEF Call, Step, Create, Send, SendAndWake, SendWithTask, SendBlocking, Recv, RecvAndWake,
       RecvWithTask, RecvBlocking, Close, TrySend, Take, TakeNothing, StartBlockingSend,
       StartBlockingRecv, WakeReceiver, WakeSender, CompleteSend, CompleteRecv, GetWokenSender,
       GetWokenReceiver, chanVars
  <2> QED BY <2>1 DEF TypeOK, Known, Handles
<1>2. closed' = closed \/ \E h \in Args : closed' = [g \in Handles |-> closed[g] \/ g = h]
    BY DEF Call, Step, Create, Send, SendAndWake, SendWithTask, SendBlocking, Recv, RecvAndWake,
       RecvWithTask, RecvBlocking, Close, TrySend, Take, TakeNothing, StartBlockingSend,
       StartBlockingRecv, WakeReceiver, WakeSender, CompleteSend, CompleteRecv, GetWokenSender,
       GetWokenReceiver, chanVars
<1>3. \A h \in Known : closed[h] => closed'[h] BY <1>2 DEF Known
<1>4. received' = received \/ \E h \in Handles : \E v \in Values :
                                  received' = [received EXCEPT ![h] = Append(@, v)]
  <2>1. ASSUME NEW h \in Args \cup Handles, NEW p, HasMessage(h), Take(t, h, p)
        PROVE  \E g \in Handles : \E v \in Values : received' = [received EXCEPT ![g] = Append(@, v)]
    <3>1. h \in Handles BY <2>1 DEF HasMessage, Args, Known
    <3>2. Head(queue[h]) \in Values BY <2>1, <3>1 DEF HasMessage, TypeOK
    <3> QED BY <2>1, <3>1, <3>2 DEF Take
  <2>2. CASE \E h \in Args : Recv(t, h) \/ RecvAndWake(t, h) \/ RecvWithTask(t, h)
    <3>1. PICK h \in Args : Recv(t, h) \/ RecvAndWake(t, h) \/ RecvWithTask(t, h) BY <2>2
    <3>2. (\E p : HasMessage(h) /\ Take(t, h, p)) \/ received' = received
      BY <3>1 DEF Recv, RecvAndWake, RecvWithTask, TakeNothing, histVars
    <3> QED BY <2>1, <3>2
  <2>3. CASE CompleteRecv(t)
    <3>1. at[t] \in Args \cup Handles BY DEF TypeOK, Args
    <3> QED BY <2>1, <2>3, <3>1 DEF CompleteRecv
  <2> QED
    BY <2>2, <2>3 DEF Call, Step, Create, Send, SendAndWake, SendWithTask, SendBlocking,
       RecvBlocking, Close, TrySend, TakeNothing, StartBlockingSend,
       StartBlockingRecv, WakeReceiver, WakeSender, CompleteSend, GetWokenSender,
       GetWokenReceiver, histVars
<1>5. ASSUME NEW h \in Handles, NEW i, NEW v, ReceivedAt(h, i, v) PROVE ReceivedAt(h, i, v)'
  <2>1. CASE received' = received BY <1>5, <2>1 DEF ReceivedAt
  <2>2. CASE received' # received
    <3>1. PICK g \in Handles, w \in Values : received' = [received EXCEPT ![g] = Append(@, w)]
      BY <1>4, <2>2
    <3>2. received[h] \in Seq(Values) BY DEF TypeOK
    <3>3. i \in 1 .. Len(received[h]) /\ received[h][i] = v BY <1>5 DEF ReceivedAt
    <3>4. received'[h] = received[h] \/ received'[h] = Append(received[h], w) BY <3>1 DEF TypeOK
    <3>5. i \in 1 .. Len(received'[h]) /\ received'[h][i] = v BY <3>2, <3>3, <3>4
    <3> QED BY <3>5 DEF ReceivedAt
  <2> QED BY <2>1, <2>2
<1>6. \A s \in Threads \ {t} : /\ at'[s] = at[s]
                               /\ \/ pc'[s] = pc[s]
                                  \/ pc[s] = "suspended" /\ pc'[s] \in {"idle", "retry"}
  <2>1. CASE \/ \E c \in Capacities : Create(t, c)
             \/ \E h \in Args : Send(t, h) \/ SendAndWake(t, h) \/ SendBlocking(t, h) \/ Close(t, h)
    BY <2>1 DEF Create, Send, SendAndWake, SendBlocking, Close, TrySend, StartBlockingSend, Return,
       TypeOK
  <2>2. CASE \E h \in Args : Recv(t, h) \/ RecvAndWake(t, h) \/ RecvBlocking(t, h)
    BY <2>2 DEF Recv, RecvAndWake, RecvBlocking, StartBlockingRecv, Take, TakeNothing, Return, TypeOK
  <2>3. CASE \E h \in Args : SendWithTask(t, h)
    BY <2>3 DEF SendWithTask, TrySend, Return, TypeOK
  <2>4. CASE \E h \in Args : RecvWithTask(t, h)
    BY <2>4 DEF RecvWithTask, Take, TakeNothing, Return, TypeOK
  <2>5. CASE WakeReceiver(t) \/ WakeSender(t) \/ CompleteSend(t) \/ CompleteRecv(t)
    BY <2>5 DEF WakeReceiver, WakeSender, CompleteSend, CompleteRecv, Take, Return, TypeOK
  <2>6. CASE GetWokenSender(t) \/ GetWokenReceiver(t)
    BY <2>6 DEF GetWokenSender, GetWokenReceiver, TypeOK
  <2> QED BY <2>1, <2>2, <2>3, <2>4, <2>5, <2>6 DEF Call, Step
<1> QED BY <1>1, <1>3, <1>5, <1>6

(* The lists of waiting receivers and the cells of woken ones change in     *)
(* three ways.                                                              *)
LEMMA PlainLists ==
    ASSUME TypeOK, NEW t \in Threads, Call(t) \/ Step(t)
    PROVE  \/ /\ UNCHANGED <<waiting_receivers, woken_receiver>>
              /\ pc'[t] = "wakereceiver" => woken_receiver[t] = NoTask
           \/ /\ \E h \in Handles : waiting_receivers' = [waiting_receivers EXCEPT ![h] = Append(@, t)]
              /\ UNCHANGED woken_receiver
              /\ "recv_with_task" \in ops /\ pc'[t] = "suspended"
           \/ WakeReceiver(t) \/ GetWokenReceiver(t)
<1>1. CASE \E c \in Capacities : Create(t, c)
  BY <1>1 DEF Create, Ready
<1>2. CASE \E h \in Args : Send(t, h) \/ SendAndWake(t, h) \/ SendBlocking(t, h) \/ Close(t, h)
  BY <1>2 DEF Send, SendAndWake, SendBlocking, Close, TrySend, StartBlockingSend, Ready, TypeOK, chanVars
<1>3. CASE \E h \in Args : Recv(t, h) \/ RecvAndWake(t, h) \/ RecvBlocking(t, h)
  BY <1>3 DEF Recv, RecvAndWake, RecvBlocking, StartBlockingRecv, Take, TakeNothing, Ready, TypeOK,
     chanVars
<1>4. CASE \E h \in Args : SendWithTask(t, h)
  BY <1>4 DEF SendWithTask, TrySend, Ready, TypeOK
<1>5. CASE \E h \in Args : RecvWithTask(t, h)
  <2>1. PICK h \in Args : RecvWithTask(t, h) BY <1>5
  <2>2. CASE MustWaitToReceive(h) /\ ~(Take(t, h, "idle") \/ TakeNothing(t, h))
    <3>1. h \in Handles BY <2>2 DEF MustWaitToReceive, Args, Known
    <3> QED BY <2>1, <2>2, <3>1 DEF RecvWithTask, TypeOK
  <2>3. CASE Take(t, h, "idle") \/ TakeNothing(t, h)
    BY <2>3 DEF Take, TakeNothing, TypeOK, chanVars
  <2> QED BY <2>1, <2>2, <2>3 DEF RecvWithTask
<1>6. CASE WakeSender(t) \/ CompleteSend(t) \/ CompleteRecv(t)
  BY <1>6 DEF WakeSender, CompleteSend, CompleteRecv, Take, TypeOK
<1>7. CASE GetWokenSender(t)
  BY <1>7 DEF GetWokenSender, TypeOK, chanVars
<1> QED BY <1>1, <1>2, <1>3, <1>4, <1>5, <1>6, <1>7 DEF Call, Step

(* A channel that was empty is sent to: it is open and, if senders wake,    *)
(* somebody is about to wake a receiver, or a send that waited is done.     *)
LEMMA PlainQueues ==
    ASSUME TypeOK, Inside, NEW t \in Threads, Call(t) \/ Step(t)
    PROVE  /\ \A h \in Handles : queue[h] = <<>> =>
                \/ queue'[h] = <<>>
                \/ pc[t] = "sending"
                \/ waiting_senders[h] # <<>>
                \/ ~closed[h] /\ (SendersWake => pc'[t] = "wakereceiver" /\ at'[t] = h)
           /\ NoWaitingSends => /\ pc'[t] # "sending"
                                /\ \A h \in Handles : waiting_senders[h] = <<>> => waiting_senders'[h] = <<>>
           /\ pc[t] = "wakereceiver" => WakeReceiver(t)
<1>1. \A h \in Handles : queue[h] = <<>> =>
                \/ queue'[h] = <<>>
                \/ pc[t] = "sending"
                \/ waiting_senders[h] # <<>>
                \/ ~closed[h] /\ (SendersWake => pc'[t] = "wakereceiver" /\ at'[t] = h)
  <2> SUFFICES ASSUME NEW h \in Handles, queue[h] = <<>>, pc[t] # "sending",
                      waiting_senders[h] = <<>>, queue'[h] # <<>>
               PROVE  ~closed[h] /\ (SendersWake => pc'[t] = "wakereceiver" /\ at'[t] = h)
    OBVIOUS
  <2>1. ASSUME NEW g \in Args, NEW p, TrySend(t, g, p)
        PROVE  ~closed[h] /\ pc'[t] = p /\ at'[t] = h
    <3>1. Admits(g) /\ queue' = [queue EXCEPT ![g] = Append(@, next_val)]
      BY <2>1 DEF TrySend
    <3>2. g = h BY <3>1 DEF TypeOK
    <3> QED BY <2>1, <3>1, <3>2 DEF TrySend, Admits, Return, TypeOK
  <2>2. CASE \E g \in Args : Send(t, g) \/ SendAndWake(t, g) \/ SendWithTask(t, g)
    <3>1. PICK g \in Args : Send(t, g) \/ SendAndWake(t, g) \/ SendWithTask(t, g) BY <2>2
    <3>2. CASE Send(t, g) BY <2>1, <3>2 DEF Send, SendersWake
    <3>3. CASE SendAndWake(t, g) BY <2>1, <3>3 DEF SendAndWake, SendersWake
    <3>4. CASE SendWithTask(t, g) BY <2>1, <3>4 DEF SendWithTask, SendersWake
    <3> QED BY <3>1, <3>2, <3>3, <3>4
  <2>3. ASSUME NEW g \in Args \cup Handles, NEW p, HasMessage(g), Take(t, g, p) PROVE FALSE
    <3>1. queue[g] # <<>> BY <2>3 DEF HasMessage
    <3>2. g # h BY <3>1
    <3> QED BY <2>3, <3>2 DEF Take, TypeOK
  <2>4. CASE \E g \in Args : Recv(t, g) \/ RecvAndWake(t, g) \/ RecvWithTask(t, g)
    BY <2>3, <2>4 DEF Recv, RecvAndWake, RecvWithTask, TakeNothing, chanVars
  <2>5. CASE CompleteRecv(t)
    <3>1. at[t] \in Args \cup Handles BY DEF TypeOK, Args
    <3> QED BY <2>3, <2>5, <3>1 DEF CompleteRecv
  <2>6. CASE WakeSender(t)
    <3>1. PICK g \in Handles : g = at[t] BY <2>6 DEF WakeSender, Inside, Known
    <3>2. CASE waiting_senders[g] = <<>> BY <2>6, <3>1, <3>2 DEF WakeSender
    <3>3. CASE waiting_senders[g] # <<>>
      <4>1. g # h BY <3>3
      <4> QED BY <2>6, <3>1, <3>3, <4>1 DEF WakeSender, TypeOK
    <3> QED BY <3>2, <3>3
  <2> QED
    BY <2>2, <2>4, <2>5, <2>6 DEF Call, Step, Create, SendBlocking, RecvBlocking, Close, TakeNothing,
       StartBlockingSend, StartBlockingRecv, WakeReceiver, CompleteSend, GetWokenSender,
       GetWokenReceiver, chanVars
<1>2. ASSUME NoWaitingSends
      PROVE  pc'[t] # "sending" /\ \A h \in Handles : waiting_senders[h] = <<>> => waiting_senders'[h] = <<>>
  <2>1. CASE \E c \in Capacities : Create(t, c)
    BY <2>1 DEF Create, Ready
  <2>2. CASE \E h \in Args : Send(t, h) \/ SendAndWake(t, h) \/ Close(t, h)
    BY <2>2 DEF Send, SendAndWake, Close, TrySend, Ready, TypeOK
  <2>3. CASE \E h \in Args : Recv(t, h) \/ RecvAndWake(t, h) \/ RecvBlocking(t, h)
    BY <2>3 DEF Recv, RecvAndWake, RecvBlocking, StartBlockingRecv, Take, TakeNothing, Ready, TypeOK,
       chanVars
  <2>4. CASE \E h \in Args : SendBlocking(t, h) \/ SendWithTask(t, h)
    BY <1>2, <2>4 DEF SendBlocking, SendWithTask, NoWaitingSends
  <2>5. CASE \E h \in Args : RecvWithTask(t, h)
    BY <2>5 DEF RecvWithTask, Take, TakeNothing, TypeOK, chanVars
  <2>6. CASE WakeReceiver(t) \/ CompleteSend(t) \/ CompleteRecv(t)
    BY <2>6 DEF WakeReceiver, CompleteSend, CompleteRecv, Take, TypeOK
  <2>7. CASE WakeSender(t)
    <3>1. pc'[t] # "sending" BY <2>7 DEF WakeSender, TypeOK
    <3>2. PICK g \in Handles : g = at[t] BY <2>7 DEF WakeSender, Inside, Known
    <3>3. CASE waiting_senders[g] = <<>> BY <2>7, <3>1, <3>2, <3>3 DEF WakeSender
    <3>4. CASE waiting_senders[g] # <<>>
      <4>1. waiting_senders' = [waiting_senders EXCEPT ![g] = Tail(waiting_senders[g])]
        BY <2>7, <3>2, <3>4 DEF WakeSender
      <4> QED BY <3>1, <3>4, <4>1 DEF TypeOK
    <3> QED BY <3>3, <3>4
  <2>8. CASE GetWokenSender(t) \/ GetWokenReceiver(t)
    BY <2>8 DEF GetWokenSender, GetWokenReceiver, TypeOK, chanVars
  <2> QED BY <2>1, <2>2, <2>3, <2>4, <2>5, <2>6, <2>7, <2>8 DEF Call, Step
<1>3. ASSUME pc[t] = "wakereceiver" PROVE WakeReceiver(t)
  BY <1>3 DEF Call, Step, Create, Send, SendAndWake, SendWithTask, SendBlocking, Recv, RecvAndWake,
       RecvWithTask, RecvBlocking, Close, Ready, WakeSender, CompleteSend, CompleteRecv, GetWokenSender,
       GetWokenReceiver
<1> QED BY <1>1, <1>2, <1>3

(* The steps of the threads that do not select.                             *)
PlainStep(t) == (Call(t) \/ Step(t)) /\ UNCHANGED selVars /\ UNCHANGED ops

(* A selector that sleeps on after a step of another thread keeps its       *)
(* places in the lists, unless it was popped and its waker knows it.        *)
LEMMA PlainWaits ==
    ASSUME TypeOK, Inside, CellFree, NEW t \in Threads, Call(t) \/ Step(t),
           NEW s \in Threads, s # t, pc'[s] = "suspended"
    PROVE  /\ pc[s] = "suspended"
           /\ Woken(s) => Woken(s)'
           /\ \A h \in Handles : Registered(s, h) => Registered(s, h)' \/ Woken(s)'
<1>1. pc[s] = "suspended" BY PlainFrame
<1>2. CASE UNCHANGED <<waiting_receivers, woken_receiver>>
  BY <1>1, <1>2 DEF Woken, Registered, ReceiverAt
<1>3. CASE /\ \E h \in Handles : waiting_receivers' = [waiting_receivers EXCEPT ![h] = Append(@, t)]
           /\ UNCHANGED woken_receiver
  <2>1. Woken(s) => Woken(s)' BY <1>3 DEF Woken
  <2>2. PICK g \in Handles : waiting_receivers' = [waiting_receivers EXCEPT ![g] = Append(@, t)] BY <1>3
  <2>3. ASSUME NEW h \in Handles, Registered(s, h) PROVE Registered(s, h)'
    <3>1. PICK k \in 1 .. Len(waiting_receivers[h]) : waiting_receivers[h][k] = s
      BY <2>3 DEF Registered, ReceiverAt
    <3>2. waiting_receivers[h] \in Seq(Threads) BY DEF TypeOK
    <3>3. waiting_receivers'[h] = waiting_receivers[h] \/ waiting_receivers'[h] = Append(waiting_receivers[h], t)
      BY <2>2 DEF TypeOK
    <3>4. k \in 1 .. Len(waiting_receivers'[h]) /\ waiting_receivers'[h][k] = s
      BY <3>1, <3>2, <3>3
    <3> QED BY <3>4 DEF Registered, ReceiverAt
  <2> QED BY <1>1, <2>1, <2>3
<1>4. CASE WakeReceiver(t)
  <2>1. woken_receiver[t] = NoTask BY <1>4 DEF CellFree, WakeReceiver
  <2>2. PICK g \in Handles : g = at[t] BY <1>4 DEF WakeReceiver, Inside, Known
  <2>3. CASE waiting_receivers[g] = <<>>
    BY <1>1, <1>4, <2>2, <2>3 DEF WakeReceiver, Woken, Registered, ReceiverAt
  <2>4. CASE waiting_receivers[g] # <<>>
    <3>1. PICK w \in Seq(Threads) : w = waiting_receivers[g] BY DEF TypeOK
    <3>2. /\ waiting_receivers' = [waiting_receivers EXCEPT ![g] = Tail(w)]
          /\ woken_receiver' = [woken_receiver EXCEPT ![t] = Head(w)]
      BY <1>4, <2>2, <2>4, <3>1 DEF WakeReceiver
    <3>3. Woken(s) => Woken(s)' BY <2>1, <3>2, NamesAssumption DEF Woken, TypeOK
    <3>4. ASSUME NEW h \in Handles, Registered(s, h), ~Woken(s)' PROVE Registered(s, h)'
      <4>1. PICK k \in 1 .. Len(waiting_receivers[h]) : waiting_receivers[h][k] = s
        BY <3>4 DEF Registered, ReceiverAt
      <4>2. CASE h # g
        <5>1. waiting_receivers'[h] = waiting_receivers[h] BY <3>2, <4>2 DEF TypeOK
        <5> QED BY <4>1, <5>1 DEF Registered, ReceiverAt
      <4>3. CASE h = g
        <5>1. waiting_receivers'[h] = Tail(w) BY <3>2, <4>3 DEF TypeOK
        <5>2. k # 1
          <6>1. woken_receiver'[t] = Head(w) BY <3>2 DEF TypeOK
          <6>2. Head(w) # s BY <3>4, <6>1 DEF Woken
          <6> QED BY <2>4, <3>1, <4>1, <4>3, <6>2
        <5>3. k - 1 \in 1 .. Len(Tail(w)) /\ Tail(w)[k - 1] = s
          BY <2>4, <3>1, <4>1, <4>3, <5>2
        <5> QED BY <5>1, <5>3 DEF Registered, ReceiverAt
      <4> QED BY <4>2, <4>3
    <3> QED BY <1>1, <3>3, <3>4
  <2> QED BY <2>3, <2>4
<1>5. CASE GetWokenReceiver(t)
  <2>1. woken_receiver[t] # s
    BY <1>1, <1>5 DEF GetWokenReceiver, TypeOK
  <2>2. Woken(s) => Woken(s)' BY <1>5, <2>1 DEF GetWokenReceiver, Woken, TypeOK
  <2>3. UNCHANGED waiting_receivers BY <1>5 DEF GetWokenReceiver, chanVars
  <2> QED BY <1>1, <2>2, <2>3 DEF Registered, ReceiverAt
<1> QED BY <1>2, <1>3, <1>4, <1>5, PlainLists

(* In programs without sends that wait for room the other threads do not    *)
(* undo the end of a channel.                                               *)
LEMMA PlainEnds ==
    ASSUME TypeOK, Inside, NoWaitingSends, NobodySends, NEW t \in Threads, Call(t) \/ Step(t)
    PROVE  NobodySends' /\ \A h \in Known : Ended(h) => Ended(h)'
<1>1. \A s \in Threads : pc'[s] # "sending" BY PlainFrame, PlainQueues DEF NobodySends
<1>2. \A h \in Handles : waiting_senders'[h] = <<>> BY PlainQueues DEF NobodySends
<1>3. ASSUME NEW h \in Known, Ended(h) PROVE Ended(h)'
  <2>1. closed'[h] BY <1>3, PlainFrame DEF Ended
  <2>2. h \in Handles BY DEF Known
  <2>3. queue'[h] = <<>> BY <1>3, <2>2, PlainQueues DEF Ended, NobodySends
  <2> QED BY <2>1, <2>3 DEF Ended
<1> QED BY <1>1, <1>2, <1>3 DEF NobodySends

(* ... and the cell for a woken receiver is free when it is about to be     *)
(* filled.                                                                  *)
LEMMA PlainCells ==
    ASSUME TypeOK, Inside, CellFree, NEW t \in Threads, Call(t) \/ Step(t) PROVE CellFree'
<1> SUFFICES ASSUME NEW s \in Threads, pc'[s] = "wakereceiver" PROVE woken_receiver'[s] = NoTask
  BY DEF CellFree
<1>1. s # t => pc[s] = "wakereceiver" BY PlainFrame
<1>2. CASE UNCHANGED woken_receiver /\ s # t BY <1>1, <1>2 DEF CellFree
<1>3. CASE UNCHANGED <<waiting_receivers, woken_receiver>> /\ (pc'[t] = "wakereceiver" => woken_receiver[t] = NoTask)
  BY <1>2, <1>3
<1>4. CASE WakeReceiver(t)
  <2>1. s # t BY <1>4 DEF WakeReceiver, TypeOK
  <2>2. woken_receiver'[s] = woken_receiver[s]
    <3>1. PICK r : r = Head(waiting_receivers[at[t]]) OBVIOUS
    <3>2. woken_receiver' = woken_receiver \/ woken_receiver' = [woken_receiver EXCEPT ![t] = r]
      BY <1>4, <3>1 DEF WakeReceiver
    <3> QED BY <2>1, <3>2 DEF TypeOK
  <2> QED BY <1>1, <2>1, <2>2 DEF CellFree
<1>5. CASE GetWokenReceiver(t)
  BY <1>1, <1>5 DEF GetWokenReceiver, CellFree, TypeOK
<1>6. pc'[t] = "suspended" /\ UNCHANGED woken_receiver => s # t /\ UNCHANGED woken_receiver OBVIOUS
<1> QED BY <1>2, <1>3, <1>4, <1>5, <1>6, PlainLists

(* Without recv_with_task nobody but selectors gets on a list.              *)
LEMMA PlainRegisters ==
    ASSUME TypeOK, Inside, OneSelector, OnlySelectors, NEW t \in Threads, Call(t) \/ Step(t)
    PROVE  OnlySelectors'
<1>1. CASE UNCHANGED waiting_receivers BY <1>1 DEF OnlySelectors
<1>2. CASE WakeReceiver(t)
  <2>1. PICK g \in Handles : g = at[t] BY <1>2 DEF WakeReceiver, Inside, Known
  <2>2. CASE waiting_receivers[g] = <<>>
    BY <1>2, <2>1, <2>2 DEF WakeReceiver, OnlySelectors
  <2>3. CASE waiting_receivers[g] # <<>>
    <3>1. PICK w \in Seq(Threads) : w = waiting_receivers[g] BY DEF TypeOK
    <3>2. waiting_receivers' = [waiting_receivers EXCEPT ![g] = Tail(w)]
      BY <1>2, <2>1, <2>3, <3>1 DEF WakeReceiver
    <3> SUFFICES ASSUME NEW h \in Handles, NEW k \in 1 .. Len(waiting_receivers'[h])
                 PROVE  waiting_receivers'[h][k] \in Selectors
      BY DEF OnlySelectors
    <3>3. CASE h # g BY <3>2, <3>3 DEF OnlySelectors, TypeOK
    <3>4. CASE h = g
      <4>1. waiting_receivers'[h] = Tail(w) BY <3>2, <3>4 DEF TypeOK
      <4>2. k + 1 \in 1 .. Len(w) /\ Tail(w)[k] = w[k + 1] BY <2>3, <3>1, <4>1
      <4> QED BY <3>1, <3>4, <4>1, <4>2 DEF OnlySelectors
    <3> QED BY <3>3, <3>4
  <2> QED BY <2>2, <2>3
<1>3. CASE GetWokenReceiver(t)
  BY <1>1, <1>3 DEF GetWokenReceiver, chanVars
<1>4. "recv_with_task" \notin ops BY DEF OneSelector
<1> QED BY <1>1, <1>2, <1>3, <1>4, PlainLists

(* Of a selector that sleeps, its promises outlive a step of another        *)
(* thread.                                                                  *)
LEMMA PlainSleeper ==
    ASSUME TypeOK, Inside, Placed, CellFree, NEW t \in Threads, PlainStep(t),
           NEW s \in Threads, s # t, Sleeps(s)'
    PROVE  /\ Sleeps(s)
           /\ Listed(s) => Listed(s)'
           /\ OneSelector /\ NobodySends /\ OnlySelectors /\ Covered(s) => Covered(s)'
           /\ OneSelector /\ NobodySends /\ OnlySelectors /\ Covered(s) /\ HasWaker(s) => HasWaker(s)'
<1>1. Call(t) \/ Step(t) BY DEF PlainStep
<1>2. sel' = sel /\ spc' = spc /\ missed' = missed BY DEF PlainStep, selVars
<1>3. pc'[s] = "suspended" BY DEF Sleeps
<1>4. /\ Sleeps(s)
      /\ Woken(s) => Woken(s)'
      /\ \A h \in Handles : Registered(s, h) => Registered(s, h)' \/ Woken(s)'
  BY <1>1, <1>2, <1>3, PlainWaits DEF Sleeps, At
<1>5. /\ sel[s] \in Seq(Args)
      /\ \A i \in 1 .. Len(sel[s]) : sel[s][i] \in Args
  <2>1. sel[s] \in Seq(Args) BY DEF Placed
  <2> QED BY <2>1
<1>6. \A i \in 1 .. Len(sel[s]) : sel[s][i] # NoChan => sel[s][i] \in Known /\ sel[s][i] \in Handles
  BY <1>5 DEF Args, Known
<1>7. Listed(s) => Listed(s)'
  <2> SUFFICES ASSUME Listed(s), ~Woken(s)' PROVE Listed(s)' BY DEF Listed
  <2>1. \A i \in 1 .. Len(sel[s]) : sel[s][i] \in Open => Registered(s, sel[s][i])
    BY <1>4 DEF Listed
  <2>2. ASSUME NEW i \in 1 .. Len(sel[s]), sel[s][i] \in Open' PROVE sel[s][i] \in Open
    <3>1. PICK c : c = sel[s][i] OBVIOUS
    <3>2. c \in Handles /\ ~closed'[c] BY <1>2, <2>2, <3>1 DEF Open, Known
    <3>3. c \in Known BY <1>6, <3>1, <3>2, NamesAssumption
    <3>4. ~closed[c] BY <1>1, <3>2, <3>3, PlainFrame
    <3> QED BY <3>1, <3>3, <3>4 DEF Open
  <2>3. ASSUME NEW i \in 1 .. Len(sel'[s]), sel'[s][i] \in Open' PROVE Registered(s, sel[s][i])'
    <3>1. i \in 1 .. Len(sel[s]) /\ sel'[s][i] = sel[s][i] BY <1>2
    <3>2. sel[s][i] \in Open BY <1>2, <2>2, <2>3, <3>1
    <3>3. PICK c \in Handles : c = sel[s][i] BY <3>2 DEF Open, Known
    <3>4. Registered(s, c)' BY <1>4, <2>1, <3>1, <3>2, <3>3
    <3> QED BY <3>1, <3>3, <3>4
  <2> QED BY <2>3 DEF Listed
<1>8. ASSUME OneSelector, NobodySends, OnlySelectors, Covered(s), ~Woken(s)', ~missed[s],
             NEW i \in 1 .. Len(sel[s]), NEW c \in Handles, c = sel[s][i], c # NoChan
      PROVE  (Registered(s, c) /\ Registered(s, c)') \/ Ended(c)'
  <2>1. Registered(s, c) \/ Ended(c) BY <1>4, <1>8 DEF Covered
  <2>2. c \in Known BY <1>6, <1>8
  <2>3. NoWaitingSends BY <1>8 DEF OneSelector, SendersWake, NoWaitingSends
  <2>4. Ended(c) => Ended(c)' BY <1>1, <1>8, <2>2, <2>3, PlainEnds
  <2> QED BY <1>4, <1>8, <2>1, <2>2, <2>4
<1>9. ASSUME OneSelector, NobodySends, OnlySelectors, Covered(s) PROVE Covered(s)'
  <2>1. CASE Woken(s)' \/ missed'[s] BY <2>1 DEF Covered
  <2>2. CASE ~Woken(s)' /\ ~missed[s]
    <3> SUFFICES ASSUME NEW i \in 1 .. Len(sel'[s]), sel'[s][i] # NoChan
                 PROVE  Registered(s, sel[s][i])' \/ Ended(sel[s][i])'
      BY DEF Covered
    <3>1. PICK c \in Handles : c = sel[s][i] /\ c # NoChan BY <1>2, <1>6
    <3>2. Registered(s, c)' \/ Ended(c)' BY <1>2, <1>8, <1>9, <2>2, <3>1
    <3> QED BY <1>2, <3>1, <3>2
  <2> QED BY <1>2, <2>1, <2>2
<1>10. ASSUME OneSelector, NobodySends, OnlySelectors, Covered(s), HasWaker(s),
              ~Woken(s)', ~missed[s], NEW i \in 1 .. Len(sel[s]), HasMessage(sel[s][i])'
       PROVE  \E u \in Threads : pc'[u] = "wakereceiver" /\ at'[u] = sel[s][i]
  <2>0. sel[s][i] # NoChan /\ queue'[sel[s][i]] # <<>> BY <1>2, <1>10 DEF HasMessage
  <2>1. PICK c \in Handles : c = sel[s][i] /\ c # NoChan /\ queue'[c] # <<>>
    BY <1>6, <2>0
  <2>2. Registered(s, c) BY <1>8, <1>10, <2>1 DEF Ended
  <2>3. CASE queue[c] = <<>>
    <3>1. pc'[t] = "wakereceiver" /\ at'[t] = c
      BY <1>1, <1>10, <2>1, <2>3, PlainQueues DEF OneSelector, NobodySends
    <3> QED BY <2>1, <3>1
  <2>4. CASE queue[c] # <<>>
    <3>1. HasMessage(sel[s][i]) BY <2>1, <2>4 DEF HasMessage
    <3>2. PICK u \in Threads : pc[u] = "wakereceiver" /\ at[u] = c
      BY <1>4, <1>10, <2>1, <3>1 DEF HasWaker
    <3>3. CASE u # t
      <4>1. pc'[u] = "wakereceiver" /\ at'[u] = c BY <1>1, <3>2, <3>3, PlainFrame
      <4> QED BY <2>1, <4>1
    <3>4. CASE u = t
      <4>1. WakeReceiver(t) BY <1>1, <3>2, <3>4, PlainQueues
      <4>2. PICK w \in Seq(Threads) : w = waiting_receivers[c] BY DEF TypeOK
      <4>3. w # <<>> /\ Head(w) \in Selectors
        BY <1>10, <2>2, <4>2 DEF Registered, OnlySelectors
      <4>4. Head(w) = s
        <5>1. s \in Selectors BY <1>4 DEF Sleeps, At, Placed
        <5> QED BY <1>10, <4>3, <5>1 DEF OneSelector
      <4>5. woken_receiver'[t] = s
        BY <3>2, <3>4, <4>1, <4>2, <4>3, <4>4 DEF WakeReceiver, TypeOK
      <4> QED BY <1>10, <4>5 DEF Woken
    <3> QED BY <3>3, <3>4
  <2> QED BY <2>3, <2>4
<1>11. ASSUME OneSelector, NobodySends, OnlySelectors, Covered(s), HasWaker(s) PROVE HasWaker(s)'
  <2>1. CASE Woken(s)' \/ missed'[s] BY <2>1 DEF HasWaker
  <2>2. CASE ~Woken(s)' /\ ~missed[s]
    <3>1. \A i \in 1 .. Len(sel[s]) : HasMessage(sel[s][i])' =>
             \E u \in Threads : pc'[u] = "wakereceiver" /\ at'[u] = sel[s][i]
      BY <1>10, <1>11, <2>2
    <3> QED BY <1>2, <3>1 DEF HasWaker, HasMessage
  <2> QED BY <1>2, <2>1, <2>2
<1> QED BY <1>4, <1>7, <1>9, <1>11

(* A step of a thread that does not select keeps what select promises.      *)
LEMMA PlainKeeps ==
    ASSUME SelectInv, NEW t \in Threads \ Selectors, PlainStep(t) PROVE SelectInv'
<1>1. TypeOK /\ Inside /\ CallInv /\ Placed /\ CellFree /\ (Call(t) \/ Step(t))
  BY DEF SelectInv, CallInv, SleepersInv, PlainStep
<1>2. UNCHANGED <<sel, sel_index, sel_msg, sel_ret, spc, missed, ops>>
  BY DEF PlainStep, selVars
<1>3. CallInv' BY <1>1, StepKeepsCallInv
<1>4. Args \subseteq Args'
  <2>1. \A h \in Known : h \in Known' BY <1>1, PlainFrame
  <2> QED BY <2>1 DEF Args
<1>5. Placed'
  <2>1. sel' \in [Threads -> Seq(Args')] /\ \A s \in Threads : Len(sel'[s]) <= MaxSelect
    <3>1. sel \in [Threads -> Seq(Args)] /\ \A s \in Threads : Len(sel[s]) <= MaxSelect
      BY <1>1 DEF Placed
    <3>2. \A s \in Threads : sel[s] \in Seq(Args') BY <1>4, <3>1
    <3> QED BY <1>2, <3>1, <3>2
  <2>2. \A s \in Threads :
          /\ spc'[s].kind \in {"try", "task"} => spc'[s].i \in 1 .. Len(sel'[s])
          /\ spc'[s].kind # "none" => s \in Selectors
          /\ spc'[s].kind \in {"try", "task", "register", "blocked"} => pc'[s] = "idle"
    <3> SUFFICES ASSUME NEW s \in Threads
                 PROVE  /\ spc'[s].kind \in {"try", "task"} => spc'[s].i \in 1 .. Len(sel'[s])
                        /\ spc'[s].kind # "none" => s \in Selectors
                        /\ spc'[s].kind \in {"try", "task", "register", "blocked"} => pc'[s] = "idle"
      OBVIOUS
    <3>1. s # t => pc'[s] = pc[s] \/ pc[s] = "suspended" BY <1>1, PlainFrame
    <3> QED BY <1>1, <1>2, <3>1 DEF Placed
  <2>3. /\ sel_index' \in [Threads -> -1 .. MaxSelect - 1]
        /\ sel_msg' \in [Threads -> Values \cup {0}]
        /\ sel_ret' \in [Threads -> {-1, 0, 1, 2, 3}]
        /\ missed' \in [Threads -> BOOLEAN]
        /\ spc' \in [Threads -> [kind : {"none", "try", "task", "register", "waiting", "blocked"},
                            i : 0 .. MaxSelect, all_closed : BOOLEAN]]
    BY <1>1, <1>2 DEF Placed
  <2> QED BY <2>1, <2>2, <2>3 DEF Placed
<1>6. IndexNamesSource'
  <2> SUFFICES ASSUME NEW s \in Threads, sel_index[s] # -1
               PROVE  /\ sel_index[s] < Len(sel[s])
                      /\ LET h == sel[s][sel_index[s] + 1]
                         IN h \in Handles /\ \E i \in 1 .. Len(received'[h]) : ReceivedAt(h, i, sel_msg[s])'
    BY <1>2 DEF IndexNamesSource, ReceivedAt
  <2>1. PICK h : h = sel[s][sel_index[s] + 1] OBVIOUS
  <2>2. /\ sel_index[s] < Len(sel[s]) /\ h \in Handles
        /\ \E i \in 1 .. Len(received[h]) : ReceivedAt(h, i, sel_msg[s])
    BY <2>1 DEF SelectInv, IndexNamesSource
  <2>3. \E i : ReceivedAt(h, i, sel_msg[s])' BY <1>1, <1>2, <2>2, PlainFrame DEF ReceivedAt
  <2> QED BY <1>2, <2>1, <2>2, <2>3 DEF ReceivedAt
<1>7. \A s \in Threads : \A i \in 1 .. Len(sel[s]) : sel[s][i] # NoChan => sel[s][i] \in Known
  <2> SUFFICES ASSUME NEW s \in Threads, NEW i \in 1 .. Len(sel[s]), sel[s][i] # NoChan
               PROVE  sel[s][i] \in Known
    OBVIOUS
  <2>1. sel[s] \in Seq(Args) BY <1>1 DEF Placed
  <2>2. sel[s][i] \in Args BY <2>1
  <2> QED BY <2>2 DEF Args
<1>8. EndsInv'
  <2> SUFFICES ASSUME NoWaitingSends PROVE NobodySends' /\ PassedEnded' /\ ToldEnded'
    BY <1>2 DEF EndsInv, NoWaitingSends
  <2>1. NobodySends /\ PassedEnded /\ ToldEnded BY DEF SelectInv, EndsInv
  <2>2. NobodySends' /\ \A h \in Known : Ended(h) => Ended(h)' BY <1>1, <2>1, PlainEnds
  <2>3. PassedEnded'
    <3> SUFFICES ASSUME NEW s \in Threads, spc[s].kind \in {"try", "task"}, spc[s].all_closed,
                        NEW i \in 1 .. Len(sel[s]), i < spc[s].i, sel[s][i] # NoChan
                 PROVE  closed'[sel[s][i]] /\ queue'[sel[s][i]] = <<>>
      BY <1>2 DEF PassedEnded, Ended
    <3>1. PICK c \in Known : c = sel[s][i] /\ Ended(c) BY <1>7, <2>1 DEF PassedEnded
    <3> QED BY <2>2, <3>1 DEF Ended
  <2>4. ToldEnded'
    <3> SUFFICES ASSUME NEW s \in Threads, sel_ret[s] = 2,
                        NEW i \in 1 .. Len(sel[s]), sel[s][i] # NoChan
                 PROVE  closed'[sel[s][i]] /\ queue'[sel[s][i]] = <<>>
      BY <1>2 DEF ToldEnded, Ended
    <3>1. PICK c \in Known : c = sel[s][i] /\ Ended(c) BY <1>7, <2>1 DEF ToldEnded
    <3> QED BY <2>2, <3>1 DEF Ended
  <2> QED BY <2>2, <2>3, <2>4
<1>9. SleepersInv'
  <2>1. CellFree' BY <1>1, PlainCells
  <2>2. ASSUME NEW s \in Threads, Sleeps(s)' PROVE s # t
    BY <1>1, <1>2, <2>2 DEF Sleeps, At, Placed
  <2>3. ASSUME NEW s \in Threads, Sleeps(s)' PROVE Listed(s)'
    <3>1. s # t BY <2>2, <2>3
    <3>2. Sleeps(s) /\ (Listed(s) => Listed(s)') BY <1>1, <2>3, <3>1, PlainSleeper
    <3> QED BY <3>2 DEF SelectInv, SleepersInv
  <2>4. ASSUME OneSelector
        PROVE  NobodySends' /\ OnlySelectors' /\ \A s \in Threads : Sleeps(s)' => Covered(s)' /\ HasWaker(s)'
    <3>1. NobodySends /\ OnlySelectors /\ NoWaitingSends
      BY <2>4 DEF SelectInv, SleepersInv, OneSelector, SendersWake, NoWaitingSends
    <3>2. NobodySends' BY <1>1, <3>1, PlainEnds
    <3>3. OnlySelectors' BY <1>1, <2>4, <3>1, PlainRegisters
    <3>4. ASSUME NEW s \in Threads, Sleeps(s)' PROVE Covered(s)' /\ HasWaker(s)'
      <4>1. s # t BY <2>2, <3>4
      <4>2. /\ Sleeps(s)
            /\ Covered(s) => Covered(s)'
            /\ Covered(s) /\ HasWaker(s) => HasWaker(s)'
        BY <1>1, <2>4, <3>1, <3>4, <4>1, PlainSleeper
      <4> QED BY <2>4, <4>2 DEF SelectInv, SleepersInv
    <3> QED BY <3>2, <3>3, <3>4
  <2>5. OneSelector' <=> OneSelector BY <1>2 DEF OneSelector, SendersWake
  <2> QED BY <2>1, <2>3, <2>4, <2>5 DEF SleepersInv
<1> QED BY <1>3, <1>5, <1>6, <1>8, <1>9 DEF SelectInv

(* What SelectInv says of one selector.                                     *)
PlacedAt(t) ==
    /\ sel[t] \in Seq(Args) /\ Len(sel[t]) <= MaxSelect
    /\ sel_index[t] \in -1 .. MaxSelect - 1
    /\ sel_msg[t] \in Values \cup {0}
    /\ sel_ret[t] \in {-1, 0, 1, 2, 3}
    /\ missed[t] \in BOOLEAN
    /\ spc[t] \in [kind : {"none", "try", "task", "register", "waiting", "blocked"},
                   i : 0 .. MaxSelect, all_closed : BOOLEAN]
    /\ spc[t].kind \in {"try", "task"} => spc[t].i \in 1 .. Len(sel[t])
    /\ spc[t].kind \in {"try", "task", "register", "blocked"} => pc[t] = "idle"

NamesSource(t) ==
    sel_index[t] # -1 =>
        /\ sel_index[t] < Len(sel[t])
        /\ sel[t][sel_index[t] + 1] \in Handles
        /\ \E i \in 1 .. Len(received[sel[t][sel_index[t] + 1]]) :
              ReceivedAt(sel[t][sel_index[t] + 1], i, sel_msg[t])

PassedOver(t) ==
    spc[t].kind \in {"try", "task"} /\ spc[t].all_closed =>
        \A i \in 1 .. Len(sel[t]) : i < spc[t].i /\ sel[t][i] # NoChan => Ended(sel[t][i])

ToldEnd(t) ==
    sel_ret[t] = 2 => \A i \in 1 .. Len(sel[t]) : sel[t][i] # NoChan => Ended(sel[t][i])

Own(t) ==
    /\ PlacedAt(t) /\ NamesSource(t)
    /\ NoWaitingSends => PassedOver(t) /\ ToldEnd(t)
    /\ Sleeps(t) => Listed(t) /\ Covered(t) /\ HasWaker(t)

(* The steps of a selector: it only changes its own variables, takes at     *)
(* most one message, and moves only itself in the lists of receivers.       *)
OwnStep(t) ==
    /\ UNCHANGED <<ops, next_chan, capacity, closed, waiting_senders, at, item, ret, woken_sender,
                   woken_receiver, next_val, owner, told>>
    /\ pc[t] \in {"idle", "retry"}
    /\ pc' = [pc EXCEPT ![t] = "idle"] \/ pc' = [pc EXCEPT ![t] = "suspended"]
    /\ \E x : sel' = [sel EXCEPT ![t] = x]
    /\ \E x : sel_index' = [sel_index EXCEPT ![t] = x]
    /\ \E x : sel_msg' = [sel_msg EXCEPT ![t] = x]
    /\ \E x : sel_ret' = [sel_ret EXCEPT ![t] = x]
    /\ \E x : spc' = [spc EXCEPT ![t] = x]
    /\ \E x : missed' = [missed EXCEPT ![t] = x]

TakesAtMostOne ==
    \/ UNCHANGED <<queue, received>>
    \/ \E h \in Handles : /\ queue[h] # <<>>
                          /\ queue' = [queue EXCEPT ![h] = Tail(@)]
                          /\ received' = [received EXCEPT ![h] = Append(@, Head(queue[h]))]

MovesItself(t) ==
    /\ waiting_receivers' \in [Handles -> Seq(Threads)]
    /\ \A s \in Threads \ {t} : \A h \in Handles : Registered(s, h)' <=> Registered(s, h)

(* The messages and the calls of a channel after a step of a selector.      *)
LEMMA OwnFrame ==
    ASSUME CallInv, NEW t \in Threads, OwnStep(t), TakesAtMostOne, MovesItself(t)
    PROVE  /\ CallInv'
           /\ \A h \in Handles : queue[h] = <<>> => queue'[h] = <<>>
           /\ \A h \in Handles : \A i : \A v : ReceivedAt(h, i, v) => ReceivedAt(h, i, v)'
           /\ \A s \in Threads \ {t} : pc'[s] = pc[s]
           /\ pc'[t] \in {"idle", "suspended"}
<1>1. TypeOK /\ Inside BY DEF CallInv
<1>2. /\ \A s \in Threads \ {t} : pc'[s] = pc[s]
      /\ pc'[t] \in {"idle", "suspended"} /\ pc' \in [Threads -> PC]
  BY <1>1 DEF OwnStep, TypeOK, PC
<1>3. CASE UNCHANGED <<queue, received>>
  <2>1. TypeOK' BY <1>1, <1>2, <1>3 DEF OwnStep, MovesItself, TypeOK
  <2>2. Inside' BY <1>1, <1>2, <1>3 DEF OwnStep, Inside, Known
  <2>3. CallInv' BY <1>3, <2>1, <2>2, QuietInv DEF OwnStep
  <2> QED BY <1>2, <1>3, <2>3 DEF ReceivedAt
<1>4. CASE queue' # queue \/ received' # received
  <2>1. PICK g \in Handles : /\ queue[g] # <<>>
                             /\ queue' = [queue EXCEPT ![g] = Tail(@)]
                             /\ received' = [received EXCEPT ![g] = Append(@, Head(queue[g]))]
    BY <1>4 DEF TakesAtMostOne
  <2>2. /\ \A v \in Values : InQueue(v) \/ WasTaken(v) => InQueue(v)' \/ WasTaken(v)'
        /\ queue' \in [Handles -> Seq(Values)] /\ received' \in [Handles -> Seq(Values)]
        /\ Head(queue[g]) \in Values
        /\ \A h \in Handles : h # g => queue'[h] = queue[h]
        /\ Len(queue'[g]) = Len(queue[g]) - 1
    BY <1>1, <2>1, TakeKeeps
  <2>3. \A h \in Handles : capacity'[h] # 0 => Len(queue'[h]) <= capacity'[h]
    BY <1>1, <2>1, <2>2 DEF TypeOK, OwnStep
  <2>4. TypeOK' BY <1>1, <1>2, <2>2, <2>3 DEF OwnStep, MovesItself, TypeOK
  <2>5. Inside' BY <1>1, <1>2, <2>1, <2>2 DEF OwnStep, Inside, Known
  <2>6. SentIsKept' BY <2>2 DEF CallInv, SentIsKept, OwnStep
  <2>7. ASSUME NEW h \in Handles, NEW i, NEW v, ReceivedAt(h, i, v) PROVE ReceivedAt(h, i, v)'
    <3>1. received[h] \in Seq(Values) BY <1>1 DEF TypeOK
    <3>2. PICK w \in Values : w = Head(queue[g]) BY <2>2
    <3>3. received'[h] = received[h] \/ received'[h] = Append(received[h], w)
      BY <1>1, <2>1, <3>2 DEF TypeOK
    <3>4. i \in 1 .. Len(received[h]) /\ received[h][i] = v BY <2>7 DEF ReceivedAt
    <3>5. i \in 1 .. Len(received'[h]) /\ received'[h][i] = v BY <3>1, <3>2, <3>3, <3>4
    <3> QED BY <3>5 DEF ReceivedAt
  <2> QED BY <1>2, <2>1, <2>2, <2>4, <2>5, <2>6, <2>7 DEF CallInv
<1> QED BY <1>3, <1>4

(* A selector's step keeps the whole invariant if it keeps its own part.    *)
LEMMA OwnKeeps ==
    ASSUME SelectInv, NEW t \in Selectors, OwnStep(t), TakesAtMostOne, MovesItself(t), Own(t)'
    PROVE  SelectInv'
<1>0. t \in Threads BY SelectAssumption
<1>1. TypeOK /\ Inside /\ CallInv /\ Placed /\ CellFree
  BY DEF SelectInv, CallInv, SleepersInv
<1>2. /\ CallInv'
      /\ \A h \in Handles : queue[h] = <<>> => queue'[h] = <<>>
      /\ \A h \in Handles : \A i : \A v : ReceivedAt(h, i, v) => ReceivedAt(h, i, v)'
      /\ \A s \in Threads \ {t} : pc'[s] = pc[s]
      /\ pc'[t] \in {"idle", "suspended"}
  BY <1>0, <1>1, OwnFrame
<1>3. /\ UNCHANGED <<ops, next_chan, closed, waiting_senders, at, woken_receiver>>
      /\ Known' = Known /\ Args' = Args
      /\ DOMAIN sel' = Threads /\ DOMAIN sel_index' = Threads /\ DOMAIN sel_msg' = Threads
      /\ DOMAIN sel_ret' = Threads /\ DOMAIN spc' = Threads /\ DOMAIN missed' = Threads
      /\ \A s \in Threads \ {t} :
            /\ sel'[s] = sel[s] /\ sel_index'[s] = sel_index[s] /\ sel_msg'[s] = sel_msg[s]
            /\ sel_ret'[s] = sel_ret[s] /\ spc'[s] = spc[s] /\ missed'[s] = missed[s]
  BY <1>1 DEF OwnStep, Placed, Known, Args
<1>3a. /\ \E x : sel' = [sel EXCEPT ![t] = x]
       /\ \E x : sel_index' = [sel_index EXCEPT ![t] = x]
       /\ \E x : sel_msg' = [sel_msg EXCEPT ![t] = x]
       /\ \E x : sel_ret' = [sel_ret EXCEPT ![t] = x]
       /\ \E x : spc' = [spc EXCEPT ![t] = x]
       /\ \E x : missed' = [missed EXCEPT ![t] = x]
  BY DEF OwnStep
<1>4. Placed'
  <2>1. PlacedAt(t)' BY DEF Own
  <2>2. \A s \in Threads \ {t} : PlacedAt(s)'
    BY <1>1, <1>2, <1>3 DEF Placed, PlacedAt
  <2>3. \A s \in Threads : PlacedAt(s)' BY <2>1, <2>2
  <2>4. sel' \in [Threads -> Seq(Args')] /\ sel_index' \in [Threads -> -1 .. MaxSelect - 1]
    BY <1>1, <1>3a, <2>1, <1>3 DEF Placed, PlacedAt
  <2>5. sel_msg' \in [Threads -> Values \cup {0}] /\ sel_ret' \in [Threads -> {-1, 0, 1, 2, 3}]
    BY <1>1, <1>3a, <2>1, <1>0 DEF Placed, PlacedAt
  <2>6. missed' \in [Threads -> BOOLEAN]
    BY <1>1, <1>3a, <2>1, <1>0 DEF Placed, PlacedAt
  <2>7. spc' \in [Threads -> [kind : {"none", "try", "task", "register", "waiting", "blocked"},
                            i : 0 .. MaxSelect, all_closed : BOOLEAN]]
    BY <1>1, <1>3a, <2>1, <1>0 DEF Placed, PlacedAt
  <2>8. \A s \in Threads : spc'[s].kind # "none" => s \in Selectors
    BY <1>1, <1>3 DEF Placed
  <2> QED BY <2>3, <2>4, <2>5, <2>6, <2>7, <2>8 DEF Placed, PlacedAt
<1>5. IndexNamesSource'
  <2> SUFFICES ASSUME NEW s \in Threads PROVE NamesSource(s)'
    BY DEF IndexNamesSource, NamesSource
  <2>1. CASE s = t BY <2>1 DEF Own
  <2>2. CASE s # t
    <3> SUFFICES ASSUME sel_index[s] # -1
                 PROVE  /\ sel_index[s] < Len(sel[s])
                        /\ sel[s][sel_index[s] + 1] \in Handles
                        /\ \E i \in 1 .. Len(received'[sel[s][sel_index[s] + 1]]) :
                              /\ i \in 1 .. Len(received'[sel[s][sel_index[s] + 1]])
                              /\ received'[sel[s][sel_index[s] + 1]][i] = sel_msg[s]
      BY <1>3, <2>2 DEF NamesSource, ReceivedAt
    <3>1. PICK h : h = sel[s][sel_index[s] + 1] OBVIOUS
    <3>2. PICK v : v = sel_msg[s] OBVIOUS
    <3>3. /\ sel_index[s] < Len(sel[s]) /\ h \in Handles
          /\ \E i \in 1 .. Len(received[h]) : ReceivedAt(h, i, v)
      BY <3>1, <3>2 DEF SelectInv, IndexNamesSource
    <3>4. \E i : ReceivedAt(h, i, v)' BY <1>2, <3>3
    <3> QED BY <3>1, <3>2, <3>3, <3>4 DEF ReceivedAt
  <2> QED BY <2>1, <2>2
<1>6. \A h \in Handles : Ended(h) => Ended(h)' BY <1>2, <1>3 DEF Ended
<1>7. NobodySends => NobodySends' BY <1>0, <1>2, <1>3 DEF NobodySends
<1>8. \A s \in Threads : \A i \in 1 .. Len(sel[s]) : sel[s][i] # NoChan => sel[s][i] \in Handles
  <2> SUFFICES ASSUME NEW s \in Threads, NEW i \in 1 .. Len(sel[s]), sel[s][i] # NoChan
               PROVE  sel[s][i] \in Handles
    OBVIOUS
  <2>1. sel[s] \in Seq(Args) BY <1>1 DEF Placed
  <2>2. sel[s][i] \in Args BY <2>1
  <2> QED BY <2>2 DEF Args, Known
<1>9. EndsInv'
  <2> SUFFICES ASSUME NoWaitingSends PROVE NobodySends' /\ PassedEnded' /\ ToldEnded'
    BY <1>3 DEF EndsInv, NoWaitingSends
  <2>1. NobodySends /\ PassedEnded /\ ToldEnded BY DEF SelectInv, EndsInv
  <2>2. NoWaitingSends' BY <1>3 DEF NoWaitingSends
  <2>3. ASSUME NEW s \in Threads PROVE PassedOver(s)' /\ ToldEnd(s)'
    <3>1. CASE s = t BY <2>2, <3>1 DEF Own
    <3>2. CASE s # t
      <4>1. \A i \in 1 .. Len(sel[s]) : sel[s][i] # NoChan /\ closed[sel[s][i]] /\ queue[sel[s][i]] = <<>>
               => closed'[sel[s][i]] /\ queue'[sel[s][i]] = <<>>
        BY <1>6, <1>8 DEF Ended
      <4>2. PassedOver(s)' BY <1>3, <2>1, <3>2, <4>1 DEF PassedOver, PassedEnded, Ended
      <4>3. ToldEnd(s)' BY <1>3, <2>1, <3>2, <4>1 DEF ToldEnd, ToldEnded, Ended
      <4> QED BY <4>2, <4>3
    <3> QED BY <3>1, <3>2
  <2> QED BY <1>7, <2>1, <2>3 DEF PassedOver, PassedEnded, ToldEnd, ToldEnded
<1>10. CellFree' BY <1>1, <1>2, <1>3 DEF CellFree
<1>11. ASSUME NEW s \in Threads, s # t, Sleeps(s)' PROVE Sleeps(s) /\ Listed(s)'
  <2>1. Sleeps(s) BY <1>2, <1>3, <1>11 DEF Sleeps, At
  <2>2. Listed(s) BY <2>1 DEF SelectInv, SleepersInv
  <2>3. CASE Woken(s)
    <3>1. woken_receiver' = woken_receiver BY <1>3
    <3>2. Woken(s)' BY <2>3, <3>1 DEF Woken
    <3> QED BY <2>1, <3>2 DEF Listed
  <2>4. CASE ~Woken(s)
    <3>1. ASSUME NEW i \in 1 .. Len(sel'[s]), sel'[s][i] \in Open' PROVE Registered(s, sel[s][i])'
      <4>1. i \in 1 .. Len(sel[s]) /\ sel'[s][i] = sel[s][i] BY <1>3, <1>11, <3>1
      <4>2. sel[s][i] \in Open BY <1>3, <3>1, <4>1 DEF Open
      <4>3. PICK c \in Handles : c = sel[s][i] BY <4>2 DEF Open, Known
      <4>4. Registered(s, c)' BY <1>11, <2>2, <2>4, <4>1, <4>2, <4>3 DEF Listed, MovesItself
      <4> QED BY <4>1, <4>3, <4>4
    <3> QED BY <2>1, <3>1 DEF Listed
  <2> QED BY <2>1, <2>3, <2>4
<1>12. SleepersInv'
  <2>1. \A s \in Threads : Sleeps(s)' => Listed(s)' BY <1>11 DEF Own
  <2>2. OneSelector' <=> OneSelector BY <1>3 DEF OneSelector, SendersWake
  <2>3. ASSUME OneSelector PROVE NobodySends' /\ OnlySelectors'
    <3>1. NobodySends /\ OnlySelectors BY <2>3 DEF SelectInv, SleepersInv
    <3>2. ASSUME NEW h \in Handles, NEW k \in 1 .. Len(waiting_receivers'[h])
          PROVE  waiting_receivers'[h][k] \in Selectors
      <4>1. waiting_receivers'[h] \in Seq(Threads) BY DEF MovesItself
      <4>2. PICK s \in Threads : s = waiting_receivers'[h][k] BY <4>1
      <4>3. Registered(s, h)' BY <4>2 DEF Registered, ReceiverAt
      <4>4. CASE s # t
        <5>1. Registered(s, h) BY <4>3, <4>4 DEF MovesItself
        <5> QED BY <3>1, <4>2, <5>1 DEF Registered, ReceiverAt, OnlySelectors
      <4> QED BY <4>2, <4>4
    <3> QED BY <1>7, <3>1, <3>2 DEF OnlySelectors
  <2>4. ASSUME OneSelector, NEW s \in Threads, Sleeps(s)' PROVE Covered(s)' /\ HasWaker(s)'
    <3>1. s = t
      <4>1. spc'[s].kind # "none" BY <2>4 DEF Sleeps, At
      <4> QED BY <1>4, <2>4, <4>1 DEF Placed, OneSelector
    <3> QED BY <2>4, <3>1 DEF Own
  <2> QED BY <1>10, <2>1, <2>2, <2>3, <2>4 DEF SleepersInv
<1> QED BY <1>2, <1>4, <1>5, <1>9, <1>12 DEF SelectInv

(* What the invariant says of one selector.                                 *)
LEMMA OwnNow ==
    ASSUME SelectInv, NEW t \in Selectors
    PROVE  /\ t \in Threads /\ PlacedAt(t) /\ NamesSource(t)
           /\ NoWaitingSends => PassedOver(t) /\ ToldEnd(t)
           /\ DOMAIN sel = Threads /\ DOMAIN sel_index = Threads /\ DOMAIN sel_msg = Threads
           /\ DOMAIN sel_ret = Threads /\ DOMAIN spc = Threads /\ DOMAIN missed = Threads
           /\ pc \in [Threads -> PC]
           /\ \A i \in 1 .. Len(sel[t]) : sel[t][i] \in Args
<1>1. t \in Threads BY SelectAssumption
<1>2. PlacedAt(t) BY <1>1 DEF SelectInv, Placed, PlacedAt
<1>3. NamesSource(t) BY <1>1 DEF SelectInv, IndexNamesSource, NamesSource
<1>4. NoWaitingSends => PassedOver(t) /\ ToldEnd(t)
  BY <1>1 DEF SelectInv, EndsInv, PassedEnded, ToldEnded, PassedOver, ToldEnd
<1>5. /\ DOMAIN sel = Threads /\ DOMAIN sel_index = Threads /\ DOMAIN sel_msg = Threads
      /\ DOMAIN sel_ret = Threads /\ DOMAIN spc = Threads /\ DOMAIN missed = Threads
  BY DEF SelectInv, Placed
<1>6. \A i \in 1 .. Len(sel[t]) : sel[t][i] \in Args BY <1>2 DEF PlacedAt
<1> QED BY <1>1, <1>2, <1>3, <1>4, <1>5, <1>6 DEF SelectInv, CallInv, TypeOK

(* The lists of receivers do not change.                                    *)
LEMMA ListsStay ==
    ASSUME SelectInv, NEW t \in Threads, UNCHANGED waiting_receivers PROVE MovesItself(t)
BY DEF SelectInv, CallInv, TypeOK, MovesItself, Registered, ReceiverAt

(* Nor do the promises of a selector that makes a step beside the channels. *)
LEMMA OwnQuiet ==
    ASSUME SelectInv, NEW t \in Selectors, OwnStep(t), UNCHANGED <<queue, received, waiting_receivers>>,
           pc'[t] = "idle", PlacedAt(t)', NamesSource(t)', NoWaitingSends => PassedOver(t)' /\ ToldEnd(t)'
    PROVE  SelectInv'
<1>1. t \in Threads BY SelectAssumption
<1>2. ~Sleeps(t)' BY DEF Sleeps
<1>3. NoWaitingSends' <=> NoWaitingSends BY DEF OwnStep, NoWaitingSends
<1>4. Own(t)' BY <1>2, <1>3 DEF Own
<1>5. TakesAtMostOne BY DEF TakesAtMostOne
<1> QED BY <1>1, <1>4, <1>5, ListsStay, OwnKeeps

(* Changing the set keeps the invariant.                                    *)
LEMMA ClearKeeps ==
    ASSUME SelectInv, NEW t \in Selectors, SelectClear(t), UNCHANGED ops PROVE SelectInv'
<1>1. /\ t \in Threads /\ PlacedAt(t) /\ NamesSource(t)
      /\ DOMAIN sel = Threads /\ DOMAIN sel_index = Threads /\ DOMAIN sel_msg = Threads
      /\ DOMAIN sel_ret = Threads /\ DOMAIN spc = Threads /\ DOMAIN missed = Threads
      /\ pc \in [Threads -> PC]
  BY OwnNow
<1>2. pc[t] = "idle" /\ spc[t].kind = "none" BY DEF SelectClear, MaySelect, Ready, At
<1>3. PICK none : none = <<>> OBVIOUS
<1>3a. none \in Seq(Args) /\ Len(none) = 0 BY <1>3
<1>4. /\ sel' = [sel EXCEPT ![t] = none] /\ sel_index' = [sel_index EXCEPT ![t] = -1]
      /\ sel_msg' = [sel_msg EXCEPT ![t] = 0] /\ sel_ret' = [sel_ret EXCEPT ![t] = -1]
      /\ UNCHANGED <<chanVars, callVars, histVars, spc, missed>>
  BY <1>3 DEF SelectClear
<1>4a. spc' = [spc EXCEPT ![t] = spc[t]] /\ missed' = [missed EXCEPT ![t] = missed[t]]
  BY <1>1, <1>4 DEF SelectInv, Placed
<1>5. OwnStep(t)
  <2>1. pc' = [pc EXCEPT ![t] = "idle"] BY <1>1, <1>2, <1>4 DEF callVars
  <2>2. UNCHANGED <<ops, next_chan, capacity, closed, waiting_senders, at, item, ret, woken_sender,
                    woken_receiver, next_val, owner, told>>
    BY <1>4 DEF chanVars, callVars, histVars
  <2>3. sel' = [sel EXCEPT ![t] = none] /\ sel_index' = [sel_index EXCEPT ![t] = -1]
        /\ sel_msg' = [sel_msg EXCEPT ![t] = 0] /\ sel_ret' = [sel_ret EXCEPT ![t] = -1]
    BY <1>4
  <2> QED BY <1>2, <1>4a, <2>1, <2>2, <2>3 DEF OwnStep
<1>6. /\ sel'[t] = none /\ sel_index'[t] = -1 /\ sel_msg'[t] = 0 /\ sel_ret'[t] = -1
      /\ spc'[t] = spc[t] /\ missed'[t] = missed[t] /\ pc'[t] = "idle"
      /\ UNCHANGED <<queue, received, waiting_receivers, next_chan>>
  BY <1>1, <1>2, <1>4 DEF chanVars, callVars, histVars
<1>7. PlacedAt(t)'
  <2>1. sel'[t] \in Seq(Args') BY <1>3a, <1>6 DEF Args, Known
  <2> QED BY <1>1, <1>2, <1>3a, <1>6, <2>1, SelectAssumption DEF PlacedAt
<1>8. NamesSource(t)' BY <1>6 DEF NamesSource
<1>9. PassedOver(t)' /\ ToldEnd(t)' BY <1>2, <1>6 DEF PassedOver, ToldEnd
<1> QED BY <1>5, <1>6, <1>7, <1>8, <1>9, OwnQuiet

(* ... also when a channel is added.                                        *)
LEMMA AddKeeps ==
    ASSUME SelectInv, NEW t \in Selectors, NEW h \in Args, SelectAdd(t, h), UNCHANGED ops PROVE SelectInv'
<1>1. /\ t \in Threads /\ PlacedAt(t) /\ NamesSource(t)
      /\ DOMAIN sel = Threads /\ DOMAIN sel_index = Threads /\ DOMAIN sel_msg = Threads
      /\ DOMAIN sel_ret = Threads /\ DOMAIN spc = Threads /\ DOMAIN missed = Threads
      /\ pc \in [Threads -> PC]
  BY OwnNow
<1>2. pc[t] = "idle" /\ spc[t].kind = "none" BY DEF SelectAdd, MaySelect, Ready, At
<1>3. PICK s \in Seq(Args) : s = sel[t] BY <1>1 DEF PlacedAt
<1>3a. PICK r : r = Append(s, h) OBVIOUS
<1>3b. /\ r \in Seq(Args) /\ Len(r) = Len(s) + 1 /\ \A i \in 1 .. Len(s) : r[i] = s[i]
  BY <1>3a
<1>4. /\ sel' = [sel EXCEPT ![t] = r]
      /\ sel_ret' = [sel_ret EXCEPT ![t] = -1]
      /\ UNCHANGED <<chanVars, callVars, histVars, sel_index, sel_msg, spc, missed>>
      /\ Len(s) < MaxSelect
  BY <1>1, <1>3, <1>3a DEF SelectAdd
<1>4a. /\ spc' = [spc EXCEPT ![t] = spc[t]] /\ missed' = [missed EXCEPT ![t] = missed[t]]
       /\ sel_index' = [sel_index EXCEPT ![t] = sel_index[t]] /\ sel_msg' = [sel_msg EXCEPT ![t] = sel_msg[t]]
  BY <1>1, <1>4 DEF SelectInv, Placed
<1>5. OwnStep(t)
  <2>1. pc' = [pc EXCEPT ![t] = "idle"] BY <1>1, <1>2, <1>4 DEF callVars
  <2>2. UNCHANGED <<ops, next_chan, capacity, closed, waiting_senders, at, item, ret, woken_sender,
                    woken_receiver, next_val, owner, told>>
    BY <1>4 DEF chanVars, callVars, histVars
  <2>3. sel' = [sel EXCEPT ![t] = r] /\ sel_ret' = [sel_ret EXCEPT ![t] = -1] BY <1>4
  <2> QED BY <1>2, <1>4a, <2>1, <2>2, <2>3 DEF OwnStep
<1>6. /\ sel'[t] = r /\ sel_index'[t] = sel_index[t] /\ sel_msg'[t] = sel_msg[t] /\ sel_ret'[t] = -1
      /\ spc'[t] = spc[t] /\ missed'[t] = missed[t] /\ pc'[t] = "idle"
      /\ UNCHANGED <<queue, received, waiting_receivers, next_chan>>
  BY <1>1, <1>2, <1>4 DEF chanVars, callVars, histVars
<1>7. PlacedAt(t)'
  <2>1. sel'[t] \in Seq(Args') BY <1>3b, <1>6 DEF Args, Known
  <2>2. Len(sel'[t]) <= MaxSelect BY <1>3b, <1>4, <1>6, SelectAssumption
  <2> QED BY <1>1, <1>2, <1>6, <2>1, <2>2, SelectAssumption DEF PlacedAt
<1>8. NamesSource(t)'
  <2> SUFFICES ASSUME sel_index[t] # -1
               PROVE  /\ sel_index[t] < Len(r) /\ r[sel_index[t] + 1] = s[sel_index[t] + 1]
    BY <1>1, <1>3, <1>6 DEF NamesSource, ReceivedAt
  <2>1. sel_index[t] \in -1 .. MaxSelect - 1 /\ sel_index[t] < Len(s)
    BY <1>1, <1>3 DEF PlacedAt, NamesSource
  <2>2. sel_index[t] + 1 \in 1 .. Len(s) BY <2>1, SelectAssumption
  <2> QED BY <1>3b, <2>1, <2>2
<1>9. PassedOver(t)' /\ ToldEnd(t)' BY <1>2, <1>6 DEF PassedOver, ToldEnd
<1> QED BY <1>5, <1>6, <1>7, <1>8, <1>9, OwnQuiet

(* A select returns with r or comes to place p, without a message.          *)
Goes(t, p, r) ==
    /\ pc[t] \in {"idle", "retry"}
    /\ pc' = [pc EXCEPT ![t] = "idle"]
    /\ spc' = [spc EXCEPT ![t] = p] /\ sel_ret' = [sel_ret EXCEPT ![t] = r]
    /\ UNCHANGED <<chanVars, at, item, ret, woken_sender, woken_receiver, histVars, ops>>
    /\ UNCHANGED <<sel, sel_index, sel_msg, missed>>

(* Such a step keeps the invariant if what it says of the ends is true.     *)
LEMMA GoesKeeps ==
    ASSUME SelectInv, NEW t \in Selectors, NEW p, NEW r, Goes(t, p, r),
           p \in [kind : {"none", "try", "task", "register", "blocked"}, i : 0 .. MaxSelect,
                  all_closed : BOOLEAN],
           p.kind \in {"try", "task"} => p.i \in 1 .. Len(sel[t]),
           r \in {-1, 0, 1, 2, 3},
           NoWaitingSends /\ p.kind \in {"try", "task"} /\ p.all_closed =>
               \A i \in 1 .. Len(sel[t]) : i < p.i /\ sel[t][i] # NoChan => Ended(sel[t][i]),
           NoWaitingSends /\ r = 2 =>
               \A i \in 1 .. Len(sel[t]) : sel[t][i] # NoChan => Ended(sel[t][i])
    PROVE  SelectInv'
<1>1. /\ t \in Threads /\ PlacedAt(t) /\ NamesSource(t)
      /\ DOMAIN sel_ret = Threads /\ DOMAIN spc = Threads
      /\ pc \in [Threads -> PC]
  BY OwnNow
<1>2. /\ sel' = [sel EXCEPT ![t] = sel[t]] /\ missed' = [missed EXCEPT ![t] = missed[t]]
      /\ sel_index' = [sel_index EXCEPT ![t] = sel_index[t]] /\ sel_msg' = [sel_msg EXCEPT ![t] = sel_msg[t]]
  BY <1>1 DEF SelectInv, Placed, Goes
<1>3. OwnStep(t)
  <2>1. /\ spc' = [spc EXCEPT ![t] = p] /\ sel_ret' = [sel_ret EXCEPT ![t] = r]
        /\ pc[t] \in {"idle", "retry"} /\ pc' = [pc EXCEPT ![t] = "idle"]
    BY DEF Goes
  <2>2. UNCHANGED <<ops, next_chan, capacity, closed, waiting_senders, at, item, ret, woken_sender,
                    woken_receiver, next_val, owner, told>>
    BY DEF Goes, chanVars, histVars
  <2> QED BY <1>2, <2>1, <2>2 DEF OwnStep
<1>4. /\ spc'[t] = p /\ sel_ret'[t] = r /\ pc'[t] = "idle"
      /\ UNCHANGED <<sel, sel_index, sel_msg, missed, queue, closed, received, waiting_receivers, next_chan>>
  BY <1>1 DEF Goes, chanVars, histVars
<1>5. PlacedAt(t)'
  <2>1. sel'[t] \in Seq(Args') BY <1>1, <1>4 DEF PlacedAt, Args, Known
  <2> QED BY <1>1, <1>4, <2>1 DEF PlacedAt
<1>6. NamesSource(t)' BY <1>1, <1>4 DEF NamesSource, ReceivedAt
<1>7. ASSUME NoWaitingSends PROVE PassedOver(t)' /\ ToldEnd(t)'
  BY <1>4, <1>7 DEF PassedOver, ToldEnd, Ended
<1> QED BY <1>3, <1>4, <1>5, <1>6, <1>7, OwnQuiet

(* Of taking the message at the head of channel number i of the set.        *)
Took(t, i) ==
    /\ pc[t] \in {"idle", "retry"}
    /\ SelectTake(t, i)
    /\ UNCHANGED <<ops, next_chan, capacity, closed, waiting_senders, waiting_receivers, at, item, ret,
                   woken_sender, woken_receiver, next_val, owner, told, sel, missed>>

(* A select that takes a message reports where it comes from.               *)
LEMMA TookKeeps ==
    ASSUME SelectInv, NEW t \in Selectors, NEW i \in 1 .. Len(sel[t]), HasMessage(sel[t][i]), Took(t, i)
    PROVE  SelectInv'
<1>1. /\ t \in Threads /\ PlacedAt(t)
      /\ DOMAIN sel = Threads /\ DOMAIN sel_index = Threads /\ DOMAIN sel_msg = Threads
      /\ DOMAIN sel_ret = Threads /\ DOMAIN spc = Threads /\ DOMAIN missed = Threads
      /\ pc \in [Threads -> PC] /\ sel[t][i] \in Args
  BY OwnNow
<1>2. TypeOK BY DEF SelectInv, CallInv
<1>3. PICK h \in Handles : h = sel[t][i] /\ queue[h] # <<>>
  BY <1>1 DEF HasMessage, Args, Known
<1>4. PICK m \in Values : m = Head(queue[h]) BY <1>2, <1>3 DEF TypeOK
<1>5. /\ queue' = [queue EXCEPT ![h] = Tail(@)]
      /\ received' = [received EXCEPT ![h] = Append(@, Head(queue[h]))]
      /\ sel_index' = [sel_index EXCEPT ![t] = i - 1]
      /\ sel_msg' = [sel_msg EXCEPT ![t] = m]
      /\ sel_ret' = [sel_ret EXCEPT ![t] = 0]
      /\ spc' = [spc EXCEPT ![t] = NoPlace]
      /\ pc' = [pc EXCEPT ![t] = "idle"]
  BY <1>3, <1>4 DEF Took, SelectTake, SelectReturn
<1>6. /\ pc[t] \in {"idle", "retry"}
      /\ UNCHANGED <<ops, next_chan, capacity, closed, waiting_senders, at, item, ret, woken_sender,
                   woken_receiver, next_val, owner, told>>
      /\ UNCHANGED <<sel, missed, waiting_receivers>>
  BY DEF Took
<1>7. sel' = [sel EXCEPT ![t] = sel[t]] /\ missed' = [missed EXCEPT ![t] = missed[t]]
  BY <1>6 DEF SelectInv, Placed
<1>8. OwnStep(t)
  BY <1>5, <1>6, <1>7 DEF OwnStep
<1>9. TakesAtMostOne BY <1>3, <1>5 DEF TakesAtMostOne
<1>10. MovesItself(t) BY <1>1, <1>6, ListsStay
<1>11. /\ sel'[t] = sel[t] /\ missed'[t] = missed[t] /\ sel_index'[t] = i - 1 /\ sel_msg'[t] = m
       /\ sel_ret'[t] = 0 /\ spc'[t] = NoPlace /\ pc'[t] = "idle"
  BY <1>1, <1>5, <1>6
<1>12. Len(sel[t]) \in Nat /\ Len(sel[t]) <= MaxSelect BY <1>1 DEF PlacedAt
<1>13. PlacedAt(t)'
  <2>1. sel'[t] \in Seq(Args') BY <1>1, <1>6, <1>11 DEF PlacedAt, Args, Known
  <2>2. sel_index'[t] \in -1 .. MaxSelect - 1 BY <1>11, <1>12, SelectAssumption
  <2>3. spc'[t] \in [kind : {"none", "try", "task", "register", "waiting", "blocked"},
                   i : 0 .. MaxSelect, all_closed : BOOLEAN] /\ spc'[t].kind = "none"
    BY <1>11, SelectAssumption DEF NoPlace, Place
  <2> QED BY <1>1, <1>11, <2>1, <2>2, <2>3 DEF PlacedAt
<1>14. NamesSource(t)'
  <2>1. sel_index'[t] < Len(sel'[t]) /\ sel'[t][sel_index'[t] + 1] = h
    BY <1>3, <1>11, <1>12
  <2>2. received[h] \in Seq(Values) BY <1>2 DEF TypeOK
  <2>3. received'[h] = Append(received[h], m) BY <1>2, <1>4, <1>5 DEF TypeOK
  <2>4. /\ Len(received[h]) + 1 \in 1 .. Len(received'[h])
        /\ received'[h][Len(received[h]) + 1] = m
    BY <2>2, <2>3
  <2> QED BY <1>11, <2>1, <2>4 DEF NamesSource, ReceivedAt
<1>15. PassedOver(t)' /\ ToldEnd(t)' BY <1>11 DEF PassedOver, ToldEnd, NoPlace, Place
<1>16. ~Sleeps(t)' BY <1>11 DEF Sleeps
<1>17. Own(t)' BY <1>13, <1>14, <1>15, <1>16 DEF Own
<1> QED BY <1>8, <1>9, <1>10, <1>17, OwnKeeps

(* A select tries one channel of its set.                                   *)
LEMMA TryKeeps ==
    ASSUME SelectInv, NEW t \in Selectors, NEW k \in {"try", "task"}, NEW i \in 1 .. Len(sel[t]),
           NEW ac \in BOOLEAN, pc[t] \in {"idle", "retry"}, TryChannel(t, k, i, ac), UNCHANGED ops,
           NoWaitingSends /\ ac =>
               \A j \in 1 .. Len(sel[t]) : j < i /\ sel[t][j] # NoChan => Ended(sel[t][j])
    PROVE  SelectInv'
<1>1. /\ t \in Threads /\ PlacedAt(t) /\ (NoWaitingSends => ToldEnd(t))
      /\ DOMAIN sel_ret = Threads
      /\ \A j \in 1 .. Len(sel[t]) : sel[t][j] \in Args
  BY OwnNow
<1>2. CASE HasMessage(sel[t][i])
  BY <1>2, TookKeeps DEF TryChannel, Took
<1>3. CASE ~HasMessage(sel[t][i])
  <2>1. PICK ac2 \in BOOLEAN : ac2 = (ac /\ sel[t][i] \notin Open) OBVIOUS
  <2>2. ASSUME NoWaitingSends, ac2, NEW j \in 1 .. Len(sel[t]), j < i + 1, sel[t][j] # NoChan
        PROVE  Ended(sel[t][j])
    <3>1. CASE j < i BY <2>1, <2>2, <3>1
    <3>2. CASE j = i
      <4>1. sel[t][i] \in Known /\ closed[sel[t][i]]
        BY <1>1, <2>1, <2>2, <3>2 DEF Open, Args
      <4> QED BY <1>3, <2>2, <3>2, <4>1 DEF HasMessage, Ended
    <3> QED BY <2>2, <3>1, <3>2
  <2>3. /\ \/ i < Len(sel[t]) /\ SelectGoesOn(t, Place(k, i + 1, ac2))
           \/ i = Len(sel[t]) /\ ac2 /\ SelectReturn(t, 2)
           \/ i = Len(sel[t]) /\ ~ac2 /\ k = "try" /\ SelectReturn(t, 1)
           \/ i = Len(sel[t]) /\ ~ac2 /\ k = "task" /\ SelectGoesOn(t, Place("register", 0, FALSE))
        /\ UNCHANGED <<queue, received, sel_index, sel_msg>>
        /\ UNCHANGED <<next_chan, capacity, closed, waiting_senders,
                      waiting_receivers, at, item, ret, woken_sender,
                      woken_receiver, next_val, owner, told, sel, missed>>
    <3>1. AllClosed(t, i, ac) = ac2 BY <2>1 DEF AllClosed
    <3> QED BY <1>3, <3>1 DEF TryChannel
  <2>4. UNCHANGED <<chanVars, at, item, ret, woken_sender, woken_receiver, histVars, ops>>
        /\ UNCHANGED <<sel, sel_index, sel_msg, missed>>
    BY <2>3 DEF chanVars, histVars
  <2>5. i \in Nat /\ Len(sel[t]) \in Nat /\ Len(sel[t]) <= MaxSelect /\ i >= 1 BY <1>1 DEF PlacedAt
  <2>6. sel_ret[t] \in {-1, 0, 1, 2, 3} /\ sel_ret = [sel_ret EXCEPT ![t] = sel_ret[t]]
    BY <1>1 DEF PlacedAt, SelectInv, Placed
  <2>7. NoWaitingSends /\ sel_ret[t] = 2 =>
               \A j \in 1 .. Len(sel[t]) : sel[t][j] # NoChan => Ended(sel[t][j])
    BY <1>1 DEF ToldEnd
  <2>8. CASE i < Len(sel[t]) /\ SelectGoesOn(t, Place(k, i + 1, ac2))
    <3>1. PICK p : p = Place(k, i + 1, ac2) OBVIOUS
    <3>2. /\ p \in [kind : {"none", "try", "task", "register", "blocked"}, i : 0 .. MaxSelect,
                  all_closed : BOOLEAN]
          /\ p.i = i + 1 /\ p.i \in 1 .. Len(sel[t]) /\ p.all_closed = ac2
      BY <2>5, <2>8, <3>1, SelectAssumption DEF Place
    <3>3. Goes(t, p, sel_ret[t]) BY <2>4, <2>6, <2>8, <3>1 DEF Goes, SelectGoesOn
    <3> QED BY <2>2, <2>6, <2>7, <3>2, <3>3, GoesKeeps
  <2>9. ASSUME NEW r \in {1, 2}, i = Len(sel[t]), r = 2 => ac2, SelectReturn(t, r) PROVE SelectInv'
    <3>1. PICK p : p = NoPlace OBVIOUS
    <3>2. /\ p \in [kind : {"none", "try", "task", "register", "blocked"}, i : 0 .. MaxSelect,
                  all_closed : BOOLEAN]
          /\ p.kind = "none"
      BY <3>1, SelectAssumption DEF NoPlace, Place
    <3>3. Goes(t, p, r) BY <2>4, <2>9, <3>1 DEF Goes, SelectReturn
    <3>4. NoWaitingSends /\ r = 2 =>
               \A j \in 1 .. Len(sel[t]) : sel[t][j] # NoChan => Ended(sel[t][j])
      BY <2>2, <2>5, <2>9
    <3> QED BY <3>2, <3>3, <3>4, GoesKeeps
  <2>10. CASE i = Len(sel[t]) /\ SelectGoesOn(t, Place("register", 0, FALSE))
    <3>1. PICK p : p = Place("register", 0, FALSE) OBVIOUS
    <3>2. /\ p \in [kind : {"none", "try", "task", "register", "blocked"}, i : 0 .. MaxSelect,
                  all_closed : BOOLEAN]
          /\ p.kind = "register"
      BY <3>1, SelectAssumption DEF Place
    <3>3. Goes(t, p, sel_ret[t]) BY <2>4, <2>6, <2>10, <3>1 DEF Goes, SelectGoesOn
    <3> QED BY <2>6, <2>7, <3>2, <3>3, GoesKeeps
  <2>11. CASE i = Len(sel[t]) /\ ac2 /\ SelectReturn(t, 2) BY <2>9, <2>11
  <2>12. CASE i = Len(sel[t]) /\ SelectReturn(t, 1) BY <2>9, <2>12
  <2> QED BY <2>3, <2>8, <2>10, <2>11, <2>12
<1> QED BY <1>2, <1>3

(* The calls that select: the first channel is tried.                       *)
LEMMA CallsKeep ==
    ASSUME SelectInv, NEW t \in Selectors, UNCHANGED ops,
           TrySelectRecv(t) \/ SelectRecvWithTask(t) \/ SelectRecvBlocking(t) \/ SelectNextChannel(t)
    PROVE  SelectInv'
<1>1. /\ t \in Threads /\ PlacedAt(t) /\ (NoWaitingSends => PassedOver(t) /\ ToldEnd(t))
      /\ DOMAIN sel_ret = Threads
      /\ \A j \in 1 .. Len(sel[t]) : sel[t][j] \in Args
  BY OwnNow
<1>2. sel[t] \in Seq(Args) /\ sel_ret[t] \in {-1, 0, 1, 2, 3} /\ sel_ret = [sel_ret EXCEPT ![t] = sel_ret[t]]
  BY <1>1 DEF PlacedAt, SelectInv, Placed
<1>3. PICK p : p = NoPlace OBVIOUS
<1>4. /\ p \in [kind : {"none", "try", "task", "register", "blocked"}, i : 0 .. MaxSelect,
              all_closed : BOOLEAN]
      /\ p.kind = "none"
  BY <1>3, SelectAssumption DEF NoPlace, Place
<1>5. ASSUME EmptySelect(t), pc[t] \in {"idle", "retry"} PROVE SelectInv'
  <2>1. Goes(t, p, 3) BY <1>3, <1>5 DEF EmptySelect, SelectReturn, Goes
  <2> QED BY <1>4, <2>1, GoesKeeps
<1>6. ASSUME sel[t] # <<>>, NEW k \in {"try", "task"}, pc[t] \in {"idle", "retry"}, TryChannel(t, k, 1, TRUE)
      PROVE  SelectInv'
  <2>1. 1 \in 1 .. Len(sel[t]) BY <1>2, <1>6
  <2>2. \A j \in 1 .. Len(sel[t]) : ~(j < 1) OBVIOUS
  <2> QED BY <1>6, <2>1, <2>2, TryKeeps
<1>7. CASE TrySelectRecv(t) BY <1>5, <1>6, <1>7 DEF TrySelectRecv, MaySelect, Ready
<1>8. CASE SelectRecvWithTask(t) BY <1>5, <1>6, <1>8 DEF SelectRecvWithTask, MaySelect, Ready
<1>9. CASE SelectNextChannel(t)
  <2>1. PICK k \in {"try", "task"} : spc[t].kind = k /\ TryChannel(t, k, spc[t].i, spc[t].all_closed)
    BY <1>9 DEF SelectNextChannel, At
  <2>2. pc[t] = "idle" /\ spc[t].i \in 1 .. Len(sel[t]) /\ spc[t].all_closed \in BOOLEAN
    BY <1>1, <2>1 DEF PlacedAt
  <2>3. NoWaitingSends /\ spc[t].all_closed =>
               \A j \in 1 .. Len(sel[t]) : j < spc[t].i /\ sel[t][j] # NoChan => Ended(sel[t][j])
    BY <1>1, <2>1 DEF PassedOver
  <2>4. PICK i \in 1 .. Len(sel[t]), ac \in BOOLEAN : i = spc[t].i /\ ac = spc[t].all_closed
    BY <2>2
  <2> QED BY <2>1, <2>2, <2>3, <2>4, TryKeeps
<1>10. CASE SelectRecvBlocking(t)
  <2>1. pc[t] \in {"idle", "retry"} BY <1>10 DEF SelectRecvBlocking, MaySelect, Ready
  <2>2. CASE EmptySelect(t) BY <1>5, <2>1, <2>2
  <2>3. CASE ~EmptySelect(t)
    <3>1. UNCHANGED <<chanVars, at, item, ret, woken_sender, woken_receiver, histVars, ops>>
          /\ UNCHANGED <<sel, sel_index, sel_msg, missed>>
      BY <1>10, <2>3 DEF SelectRecvBlocking
    <3>2. CASE \A i \in 1 .. Len(sel[t]) : sel[t][i] = NoChan
      <4>1. Goes(t, p, 2) BY <1>3, <1>10, <2>1, <2>3, <3>1, <3>2 DEF SelectRecvBlocking, SelectReturn, Goes
      <4> QED BY <1>4, <3>2, <4>1, GoesKeeps
    <3>3. CASE ~(\A i \in 1 .. Len(sel[t]) : sel[t][i] = NoChan)
      <4>1. PICK q : q = Place("blocked", 0, FALSE) OBVIOUS
      <4>2. /\ q \in [kind : {"none", "try", "task", "register", "blocked"}, i : 0 .. MaxSelect,
                    all_closed : BOOLEAN]
            /\ q.kind = "blocked"
        BY <4>1, SelectAssumption DEF Place
      <4>3. Goes(t, q, sel_ret[t])
        BY <1>2, <1>10, <2>1, <2>3, <3>1, <3>3, <4>1 DEF SelectRecvBlocking, SelectGoesOn, Goes
      <4>4. NoWaitingSends /\ sel_ret[t] = 2 =>
               \A j \in 1 .. Len(sel[t]) : sel[t][j] # NoChan => Ended(sel[t][j])
        BY <1>1 DEF ToldEnd
      <4> QED BY <1>2, <4>2, <4>3, <4>4, GoesKeeps
    <3> QED BY <3>2, <3>3
  <2> QED BY <2>2, <2>3
<1> QED BY <1>7, <1>8, <1>9, <1>10

(* Registered, by the elements of the list.                                 *)
LEMMA RegisteredIn ==
    ASSUME NEW A, waiting_receivers \in [Handles -> Seq(A)], NEW h \in Handles, NEW s
    PROVE  Registered(s, h) <=> s \in ToSet(waiting_receivers[h])
<1>1. PICK w \in Seq(A) : w = waiting_receivers[h] OBVIOUS
<1>2. DOMAIN w = 1 .. Len(w) BY <1>1
<1> QED BY <1>1, <1>2 DEF Registered, ReceiverAt, ToSet

(* One list when a selector registers.                                      *)
LEMMA RegisterFacts ==
    ASSUME SelectInv, NEW t \in Selectors, NEW h \in Handles,
           NEW list, list = waiting_receivers[h] \o [i \in 1 .. Len(Registers(t, h)) |-> t]
    PROVE  /\ list \in Seq(Threads)
           /\ \A s \in Threads \ {t} : s \in ToSet(list) <=> s \in ToSet(waiting_receivers[h])
           /\ \A i \in 1 .. Len(sel[t]) : sel[t][i] = h /\ h \in Open => t \in ToSet(list)
<1>1. t \in Threads /\ sel[t] \in Seq(Args) BY OwnNow DEF PlacedAt
<1>2. PICK w \in Seq(Threads) : w = waiting_receivers[h] BY DEF SelectInv, CallInv, TypeOK
<1>3. PICK q \in Seq(Args) : q = sel[t] BY <1>1
<1>4. PICK S : S = {h} \cap Open OBVIOUS
<1>5. PICK r \in Seq(Args) : r = Retain(q, S) BY RetainPlaces, Zenon
<1>6. ToSet(r) = ToSet(q) \cap S
  <2>1. ToSet(Retain(q, S)) = ToSet(q) \cap S BY RetainFacts, Zenon
  <2> QED BY <1>5, <2>1
<1>7. PICK n \in Nat : n = Len(r) OBVIOUS
<1>8. PICK u : u = [i \in 1 .. n |-> t] OBVIOUS
<1>9. u \in Seq(Threads) /\ Len(u) = n /\ \A i \in 1 .. n : u[i] = t BY <1>1, <1>7, <1>8
<1>10. list = w \o u BY <1>2, <1>3, <1>4, <1>5, <1>7, <1>8 DEF Registers
<1>11. list \in Seq(Threads) /\ ToSet(list) = ToSet(w) \cup ToSet(u)
  <2>1. w \o u \in Seq(Threads) /\ ToSet(w \o u) = ToSet(w) \cup ToSet(u)
    BY <1>9, ConcatFacts
  <2> QED BY <1>10, <2>1
<1>12. ToSet(u) = IF n = 0 THEN {} ELSE {t}
  <2>1. DOMAIN u = 1 .. n BY <1>8
  <2>2. n # 0 => 1 \in 1 .. n BY <1>7
  <2>3. n = 0 => 1 .. n = {} OBVIOUS
  <2> QED BY <1>9, <2>1, <2>2, <2>3 DEF ToSet
<1>13. ASSUME NEW i \in 1 .. Len(q), q[i] = h, h \in Open PROVE n # 0
  <2>1. DOMAIN q = 1 .. Len(q) /\ DOMAIN r = 1 .. Len(r) OBVIOUS
  <2>2. h \in ToSet(q) BY <1>13, <2>1 DEF ToSet
  <2>3. h \in ToSet(r) BY <1>4, <1>6, <1>13, <2>2
  <2>4. \E j \in 1 .. Len(r) : r[j] = h BY <2>1, <2>3 DEF ToSet
  <2> QED BY <1>7, <2>4
<1> QED BY <1>2, <1>3, <1>11, <1>12, <1>13

(* The second pass registers the task wherever a channel is still open, and *)
(* notes whether a message has come: a closed channel without one has       *)
(* ended.                                                                   *)
LEMMA RegisterKeeps ==
    ASSUME SelectInv, NEW t \in Selectors, SelectRegister(t), UNCHANGED ops PROVE SelectInv'
<1>1. /\ t \in Threads /\ PlacedAt(t) /\ NamesSource(t)
      /\ DOMAIN sel = Threads /\ DOMAIN sel_index = Threads /\ DOMAIN sel_msg = Threads
      /\ DOMAIN sel_ret = Threads /\ DOMAIN spc = Threads /\ DOMAIN missed = Threads
      /\ pc \in [Threads -> PC]
      /\ \A i \in 1 .. Len(sel[t]) : sel[t][i] \in Args
  BY OwnNow
<1>2. pc[t] = "idle" BY <1>1 DEF SelectRegister, At, PlacedAt
<1>3. PICK m \in BOOLEAN : m = \E i \in 1 .. Len(sel[t]) : HasMessage(sel[t][i]) OBVIOUS
<1>4. PICK p : p = Place("waiting", 0, FALSE) OBVIOUS
<1>5. /\ missed' = [missed EXCEPT ![t] = m] /\ sel_ret' = [sel_ret EXCEPT ![t] = 1]
      /\ spc' = [spc EXCEPT ![t] = p] /\ pc' = [pc EXCEPT ![t] = "suspended"]
      /\ UNCHANGED <<next_chan, capacity, closed, queue, waiting_senders, at, item,
                     ret, woken_sender, woken_receiver, histVars, sel, sel_index, sel_msg, ops>>
  BY <1>3, <1>4 DEF SelectRegister
<1>6. /\ sel' = [sel EXCEPT ![t] = sel[t]] /\ sel_index' = [sel_index EXCEPT ![t] = sel_index[t]]
      /\ sel_msg' = [sel_msg EXCEPT ![t] = sel_msg[t]]
  BY <1>5 DEF SelectInv, Placed
<1>7. OwnStep(t)
  <2>1. UNCHANGED <<ops, next_chan, capacity, closed, waiting_senders, at, item, ret, woken_sender,
                   woken_receiver, next_val, owner, told>>
    BY <1>5 DEF histVars
  <2> QED BY <1>2, <1>5, <1>6, <2>1 DEF OwnStep
<1>8. TakesAtMostOne BY <1>5 DEF TakesAtMostOne, histVars
<1>9. waiting_receivers' = [h \in Handles |-> waiting_receivers[h] \o
                                                 [i \in 1 .. Len(Registers(t, h)) |-> t]]
  BY DEF SelectRegister
<1>10. ASSUME NEW h \in Handles
       PROVE  /\ waiting_receivers'[h] \in Seq(Threads)
              /\ \A s \in Threads \ {t} : s \in ToSet(waiting_receivers'[h]) <=> s \in ToSet(waiting_receivers[h])
              /\ \A i \in 1 .. Len(sel[t]) : sel[t][i] = h /\ h \in Open => t \in ToSet(waiting_receivers'[h])
  <2>1. PICK list : list = waiting_receivers[h] \o [i \in 1 .. Len(Registers(t, h)) |-> t]
    BY Zenon
  <2>2. waiting_receivers'[h] = list BY <1>9, <2>1, Zenon
  <2> QED BY <2>1, <2>2, RegisterFacts
<1>11. waiting_receivers' \in [Handles -> Seq(Threads)] BY <1>9, <1>10
<1>11a. waiting_receivers \in [Handles -> Seq(Threads)] BY DEF SelectInv, CallInv, TypeOK
<1>12. MovesItself(t)
  <2>1. ASSUME NEW s \in Threads \ {t}, NEW h \in Handles PROVE Registered(s, h)' <=> Registered(s, h)
    <3>1. Registered(s, h) <=> s \in ToSet(waiting_receivers[h]) BY <1>11a, RegisteredIn
    <3>2. Registered(s, h)' <=> s \in ToSet(waiting_receivers'[h])
      <4>1. PICK w \in Seq(Threads) : w = waiting_receivers'[h] BY <1>11
      <4>2. DOMAIN w = 1 .. Len(w) BY <4>1
      <4> QED BY <4>1, <4>2 DEF Registered, ReceiverAt, ToSet
    <3> QED BY <1>10, <3>1, <3>2
  <2> QED BY <1>11, <2>1 DEF MovesItself
<1>13. /\ sel'[t] = sel[t] /\ missed'[t] = m /\ sel_index'[t] = sel_index[t] /\ sel_msg'[t] = sel_msg[t]
       /\ sel_ret'[t] = 1 /\ spc'[t] = p /\ pc'[t] = "suspended"
       /\ UNCHANGED <<queue, closed, next_chan, received>>
  BY <1>1, <1>5 DEF histVars
<1>14. /\ p \in [kind : {"none", "try", "task", "register", "waiting", "blocked"},
                 i : 0 .. MaxSelect, all_closed : BOOLEAN]
       /\ p.kind = "waiting"
  BY <1>4, SelectAssumption DEF Place
<1>15. PlacedAt(t)'
  <2>1. sel'[t] \in Seq(Args') BY <1>1, <1>13 DEF PlacedAt, Args, Known
  <2> QED BY <1>1, <1>13, <1>14, <2>1 DEF PlacedAt
<1>16. NamesSource(t)' BY <1>1, <1>13 DEF NamesSource, ReceivedAt
<1>17. PassedOver(t)' /\ ToldEnd(t)' BY <1>13, <1>14 DEF PassedOver, ToldEnd
<1>18. ASSUME NEW i \in 1 .. Len(sel[t]), NEW c \in Handles, c = sel[t][i], c \in Open
       PROVE  Registered(t, c)'
  <2>1. t \in ToSet(waiting_receivers'[c]) BY <1>10, <1>18
  <2>2. PICK w \in Seq(Threads) : w = waiting_receivers'[c] BY <1>11
  <2>3. DOMAIN w = 1 .. Len(w) BY <2>2
  <2> QED BY <2>1, <2>2, <2>3 DEF Registered, ReceiverAt, ToSet
<1>19. Listed(t)'
  <2>1. ASSUME NEW i \in 1 .. Len(sel'[t]), sel'[t][i] \in Open' PROVE Registered(t, sel[t][i])'
    <3>1. i \in 1 .. Len(sel[t]) /\ sel[t][i] \in Open BY <1>13, <2>1 DEF Open, Known
    <3>2. PICK c \in Handles : c = sel[t][i] /\ c \in Open BY <3>1 DEF Open, Known
    <3>3. Registered(t, c)' BY <1>18, <3>1, <3>2
    <3> QED BY <1>13, <3>2, <3>3
  <2> QED BY <2>1 DEF Listed
<1>20. Covered(t)' /\ HasWaker(t)'
  <2>1. CASE m BY <1>13, <2>1 DEF Covered, HasWaker
  <2>2. CASE ~m
    <3>1. \A i \in 1 .. Len(sel[t]) : ~(sel[t][i] # NoChan /\ queue[sel[t][i]] # <<>>)
      BY <1>3, <2>2 DEF HasMessage
    <3>2. HasWaker(t)' BY <1>13, <3>1 DEF HasWaker, HasMessage
    <3>3. ASSUME NEW i \in 1 .. Len(sel'[t]), sel'[t][i] # NoChan
          PROVE  Registered(t, sel[t][i])' \/ Ended(sel[t][i])'
      <4>1. i \in 1 .. Len(sel[t]) /\ sel'[t][i] = sel[t][i] BY <1>13, <3>3
      <4>2. PICK c \in Known : c = sel[t][i] /\ c # NoChan BY <1>1, <3>3, <4>1 DEF Args
      <4>3. c \in Handles BY DEF Known
      <4>4. c \in Open => Registered(t, c)' BY <1>18, <4>1, <4>2, <4>3
      <4>5. c \notin Open => Ended(c)' BY <1>13, <3>1, <4>1, <4>2 DEF Open, Ended
      <4> QED BY <4>1, <4>2, <4>4, <4>5
    <3> QED BY <3>2, <3>3 DEF Covered
  <2> QED BY <2>1, <2>2
<1>21. Own(t)' BY <1>15, <1>16, <1>17, <1>19, <1>20 DEF Own
<1> QED BY <1>7, <1>8, <1>12, <1>21, OwnKeeps

(* select_deregister drops the entries of the caller, and no other.         *)
LEMMA DeregisterKeeps ==
    ASSUME SelectInv, NEW t \in Selectors, NEW e, SelectDeregister(t, e), UNCHANGED ops PROVE SelectInv'
<1>1. /\ t \in Threads /\ PlacedAt(t) /\ NamesSource(t) /\ (NoWaitingSends => PassedOver(t) /\ ToldEnd(t))
      /\ pc \in [Threads -> PC]
  BY OwnNow
<1>2. pc[t] = "idle" BY DEF SelectDeregister, MaySelect, Ready
<1>3. UNCHANGED <<next_chan, capacity, closed, queue, waiting_senders, callVars, histVars, selVars>>
  BY DEF SelectDeregister
<1>4. /\ sel' = [sel EXCEPT ![t] = sel[t]] /\ missed' = [missed EXCEPT ![t] = missed[t]]
      /\ sel_index' = [sel_index EXCEPT ![t] = sel_index[t]] /\ sel_msg' = [sel_msg EXCEPT ![t] = sel_msg[t]]
      /\ sel_ret' = [sel_ret EXCEPT ![t] = sel_ret[t]] /\ spc' = [spc EXCEPT ![t] = spc[t]]
      /\ pc' = [pc EXCEPT ![t] = "idle"]
  BY <1>1, <1>2, <1>3 DEF SelectInv, Placed, selVars, callVars
<1>5. OwnStep(t)
  <2>1. UNCHANGED <<ops, next_chan, capacity, closed, waiting_senders, at, item, ret, woken_sender,
                   woken_receiver, next_val, owner, told>>
    BY <1>3 DEF callVars, histVars
  <2> QED BY <1>2, <1>4, <2>1 DEF OwnStep
<1>6. TakesAtMostOne BY <1>3 DEF TakesAtMostOne, histVars
<1>7. waiting_receivers \in [Handles -> Seq(Threads)] BY DEF SelectInv, CallInv, TypeOK
<1>8. /\ DOMAIN waiting_receivers' = Handles
      /\ \A h \in Handles : \/ waiting_receivers'[h] = waiting_receivers[h]
                            \/ waiting_receivers'[h] = Retain(waiting_receivers[h], Threads \ {t})
  BY DEF SelectDeregister
<1>8a. waiting_receivers' = [h \in Handles |-> waiting_receivers'[h]] BY DEF SelectDeregister
<1>9. ASSUME NEW h \in Handles
      PROVE  /\ waiting_receivers'[h] \in Seq(Threads)
             /\ \A s \in Threads \ {t} : s \in ToSet(waiting_receivers'[h]) <=> s \in ToSet(waiting_receivers[h])
  <2>1. PICK w \in Seq(Threads) : w = waiting_receivers[h] BY <1>7
  <2>2. PICK S : S = Threads \ {t} OBVIOUS
  <2>3. PICK r \in Seq(Threads) : r = Retain(w, S) BY RetainPlaces, Zenon
  <2>4. ToSet(Retain(w, S)) = ToSet(w) \cap S BY RetainFacts, Zenon
  <2>5. waiting_receivers'[h] = w \/ waiting_receivers'[h] = r
    BY <1>8, <2>1, <2>2, <2>3
  <2> QED BY <2>1, <2>2, <2>3, <2>4, <2>5
<1>10. waiting_receivers' \in [Handles -> Seq(Threads)] BY <1>8a, <1>9
<1>11. MovesItself(t)
  <2>1. ASSUME NEW s \in Threads \ {t}, NEW h \in Handles PROVE Registered(s, h)' <=> Registered(s, h)
    <3>1. Registered(s, h) <=> s \in ToSet(waiting_receivers[h]) BY <1>7, RegisteredIn
    <3>2. Registered(s, h)' <=> s \in ToSet(waiting_receivers'[h])
      <4>1. PICK w \in Seq(Threads) : w = waiting_receivers'[h] BY <1>10
      <4>2. DOMAIN w = 1 .. Len(w) BY <4>1
      <4> QED BY <4>1, <4>2 DEF Registered, ReceiverAt, ToSet
    <3> QED BY <1>9, <3>1, <3>2
  <2> QED BY <1>10, <2>1 DEF MovesItself
<1>12. UNCHANGED <<sel, missed, sel_index, sel_msg, sel_ret, spc, pc, queue, closed, received, next_chan, ops>>
  BY <1>3 DEF selVars, callVars, histVars
<1>13. PlacedAt(t)' BY <1>1, <1>12 DEF PlacedAt, Args, Known
<1>14. NamesSource(t)' BY <1>1, <1>12 DEF NamesSource, ReceivedAt
<1>15. NoWaitingSends' => PassedOver(t)' /\ ToldEnd(t)'
  BY <1>1, <1>12 DEF NoWaitingSends, PassedOver, ToldEnd, Ended
<1>16. ~Sleeps(t)' BY <1>2, <1>12 DEF Sleeps
<1>17. Own(t)' BY <1>13, <1>14, <1>15, <1>16 DEF Own
<1> QED BY <1>5, <1>6, <1>11, <1>17, OwnKeeps

-----------------------------------------------------------------------------
(* The invariant holds at the start.                                        *)
LEMMA InitSelectInv == SelectInit => SelectInv
<1> SUFFICES ASSUME SelectInit PROVE SelectInv OBVIOUS
<1>0. Init /\ spc = [t \in Threads |-> NoPlace] /\ sel = [t \in Threads |-> <<>>]
      /\ sel_ret = [t \in Threads |-> -1] /\ sel_index = [t \in Threads |-> -1]
      /\ pc = [t \in Threads |-> "idle"] /\ waiting_receivers = [h \in Handles |-> <<>>]
      /\ waiting_senders = [h \in Handles |-> <<>>]
  BY DEF SelectInit, Init
<1>1. CallInv BY <1>0, InitCallInv
<1>2. Placed
  <2>1. PICK none : none = <<>> OBVIOUS
  <2>2. none \in Seq(Args) /\ Len(none) = 0 BY <2>1
  <2>3. sel = [t \in Threads |-> none] BY <1>0, <2>1
  <2>4. sel \in [Threads -> Seq(Args)] /\ \A t \in Threads : Len(sel[t]) <= MaxSelect
    BY <2>2, <2>3, SelectAssumption
  <2>5. PICK p : p = NoPlace OBVIOUS
  <2>6. /\ p \in [kind : {"none", "try", "task", "register", "waiting", "blocked"},
                  i : 0 .. MaxSelect, all_closed : BOOLEAN]
        /\ p.kind = "none"
    BY <2>5, SelectAssumption DEF NoPlace, Place
  <2>7. spc = [t \in Threads |-> p] BY <1>0, <2>5
  <2> QED BY <2>4, <2>6, <2>7, SelectAssumption DEF SelectInit, Placed
<1>3. IndexNamesSource BY <1>0 DEF IndexNamesSource
<1>4. EndsInv
  BY <1>0 DEF EndsInv, NobodySends, PassedEnded, ToldEnded, NoPlace, Place
<1>5. SleepersInv
  BY <1>0 DEF SleepersInv, CellFree, Sleeps, NobodySends, OnlySelectors
<1> QED BY <1>1, <1>2, <1>3, <1>4, <1>5 DEF SelectInv

(* A stuttering step keeps it.                                              *)
LEMMA StillSelectInv == SelectInv /\ UNCHANGED selAllVars => SelectInv'
<1> SUFFICES ASSUME SelectInv, UNCHANGED selAllVars PROVE SelectInv' OBVIOUS
<1>1. /\ UNCHANGED <<ops, next_chan, capacity, closed, queue, waiting_senders, waiting_receivers>>
      /\ UNCHANGED <<pc, at, item, ret, woken_sender, woken_receiver, next_val, owner, told, received>>
      /\ UNCHANGED <<sel, sel_index, sel_msg, sel_ret, spc, missed>>
  BY DEF selAllVars, vars, chanVars, callVars, histVars, selVars
<1>2. CallInv'
  <2>1. UNCHANGED vars BY DEF selAllVars
  <2> QED BY <2>1, NextCallInv DEF SelectInv
<1>3. Placed' BY <1>1 DEF SelectInv, Placed, Args, Known
<1>4. IndexNamesSource' BY <1>1 DEF SelectInv, IndexNamesSource, ReceivedAt
<1>5. EndsInv'
  BY <1>1 DEF SelectInv, EndsInv, NoWaitingSends, NobodySends, PassedEnded, ToldEnded, Ended
<1>6. SleepersInv'
  BY <1>1 DEF SelectInv, SleepersInv, CellFree, Sleeps, At, Listed, Woken, Registered, ReceiverAt, Open,
     Known, OneSelector, SendersWake, NobodySends, OnlySelectors, Covered, Ended, HasWaker, HasMessage
<1> QED BY <1>2, <1>3, <1>4, <1>5, <1>6 DEF SelectInv

(* Every step keeps it: one case per operation.                             *)
LEMMA NextSelectInv == SelectInv /\ [SelectNext]_selAllVars => SelectInv'
<1> SUFFICES ASSUME SelectInv, SelectNext PROVE SelectInv' BY StillSelectInv
<1>1. UNCHANGED ops BY DEF SelectNext
<1>2. PICK t \in Threads : PlainCall(t) \/ SelectCall(t) \/ SelectStep(t) BY DEF SelectNext
<1>3. CASE PlainCall(t) BY <1>1, <1>3, PlainKeeps DEF PlainCall, PlainStep
<1>4. ASSUME NEW k, spc[t].kind = k, k # "none" PROVE t \in Selectors
  BY <1>4 DEF SelectInv, Placed
<1>5. CASE SelectCall(t)
  <2>1. t \in Selectors
    BY <1>4, <1>5 DEF SelectCall, SelectClear, SelectAdd, TrySelectRecv, SelectRecvWithTask, At,
       SelectRecvBlocking, SelectDeregister, MaySelect
  <2> QED BY <1>1, <1>5, <2>1, ClearKeeps, AddKeeps, CallsKeep, DeregisterKeeps DEF SelectCall
<1>6. CASE SelectStep(t)
  <2>1. t \in Selectors
    BY <1>4, <1>6 DEF SelectStep, SelectNextChannel, SelectRegister, CompleteSelect, At
  <2>2. ASSUME NEW i \in 1 .. Len(sel[t]), CompleteSelect(t, i) PROVE SelectInv'
    <3>1. pc[t] = "idle" BY <2>2 DEF CompleteSelect, At, SelectInv, Placed
    <3>2. Took(t, i) /\ HasMessage(sel[t][i]) BY <1>1, <2>2, <3>1 DEF CompleteSelect, Took
    <3> QED BY <2>1, <3>2, TookKeeps
  <2> QED BY <1>1, <1>6, <2>1, <2>2, CallsKeep, RegisterKeeps DEF SelectStep
<1> QED BY <1>2, <1>3, <1>5, <1>6

(* For any threads, channels, messages and select sets: a select reports    *)
(* the channel its message came from, its end is the end of every channel   *)
(* although each was looked at under a lock of its own, and a task that     *)
(* waits in it is registered wherever a message can still come, with a      *)
(* waker for each that did not slip in between its two passes.              *)
THEOREM SelectIsSafe == SelectSpec => []SelectSafe
<1> QED BY InitSelectInv, NextSelectInv, SelectInvMeans, PTL DEF SelectSpec

=============================================================================
