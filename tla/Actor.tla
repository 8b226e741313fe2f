-------------------------------- MODULE Actor --------------------------------
(***************************************************************************)
(* Actors, runtime/ffi.inc.rs (the __arth_actor_* calls): a channel that   *)
(* serves as mailbox, a life-cycle state and a message count, kept in a    *)
(* map of their own.  The calls hold the lock of the actor map while they  *)
(* use the mailbox, except the blocking ones, which check the state, let   *)
(* the lock go and then block on the mailbox.                              *)
(*                                                                         *)
(* An actor is named by its mailbox handle.  Threads use mailboxes only    *)
(* through actor calls here.                                               *)
(***************************************************************************)
EXTENDS MpmcChannel

VARIABLES
    state,              \* the life-cycle state of each actor
    message_count,      \* messages accepted
    apc                 \* where a thread is between its critical sections

actorVars == <<state, message_count, apc>>
allVars == <<vars, actorVars>>

States == {"None", "Running", "Stopping", "Stopped", "Failed"}

ActorInit ==
    /\ Init
    /\ state = [a \in Handles |-> "None"]
    /\ message_count = [a \in Handles |-> 0]
    /\ apc = [t \in Threads |-> "none"]

Free(t) == Ready(t) /\ apc[t] = "none"

Goto(t, p) == apc' = [apc EXCEPT ![t] = p]

\* A call that returns r and changes nothing else.
Answer(t, a, r) == Return(t, a, r) /\ UNCHANGED <<chanVars, pc, item, woken_sender,
                                                  woken_receiver, histVars>>

\* The lock is released with the call, not yet answered, at place p.
EnterCall(t, a, p) == Answer(t, a, 0) /\ Goto(t, p)

\* actor_create, actor_spawn: a new mailbox, then the actor that owns it.
ActorCreate(t, c) ==
    /\ apc[t] = "none"
    /\ Create(t, c)
    /\ state' = [state EXCEPT ![next_chan] = "Running"]
    /\ UNCHANGED <<message_count, apc>>

-----------------------------------------------------------------------------
Accepting(a) == a # NoChan /\ state[a] = "Running"

Rejection(a) == IF a = NoChan THEN 3 ELSE IF state[a] = "Failed" THEN 4 ELSE 2

\* Mutant: the message is counted whether or not the mailbox took it.
Mut_ActorSend(t, a) ==
    /\ Free(t)
    /\ \/ ~Accepting(a) /\ Answer(t, a, Rejection(a)) /\ UNCHANGED message_count
       \/ /\ Accepting(a)
          /\ TrySend(t, a, "idle")
          /\ message_count' = [message_count EXCEPT ![a] = @ + 1]
    /\ UNCHANGED <<state, apc>>

ActorSend(t, a) ==
    /\ Free(t)
    /\ \/ ~Accepting(a) /\ Answer(t, a, Rejection(a)) /\ UNCHANGED message_count
       \/ /\ Accepting(a)
          /\ TrySend(t, a, "idle")
          /\ message_count' = IF Admits(a)
                              THEN [message_count EXCEPT ![a] = @ + 1]
                              ELSE message_count
    /\ UNCHANGED <<state, apc>>

\* The first critical section of actor_send_blocking.
ActorSendBlocking(t, a) ==
    /\ Free(t)
    /\ \/ ~Accepting(a) /\ Answer(t, a, Rejection(a)) /\ UNCHANGED apc
       \/ /\ Accepting(a)
          /\ EnterCall(t, a, "send")
    /\ UNCHANGED <<state, message_count>>

\* The actor map is unlocked: the channel call.
EnterMailboxSend(t) ==
    /\ apc[t] = "send"
    /\ StartBlockingSend(t, at[t])
    /\ Goto(t, IF closed[at[t]] THEN "none" ELSE "sending")
    /\ UNCHANGED <<state, message_count>>

LeaveMailboxSend(t) ==
    /\ apc[t] = "sending"
    /\ CompleteSend(t)
    /\ Goto(t, "count")
    /\ UNCHANGED <<state, message_count>>

\* The second critical section: the message is counted after it was sent.
CountSent(t) ==
    /\ apc[t] = "count"
    /\ message_count' = [message_count EXCEPT ![at[t]] = @ + 1]
    /\ Goto(t, "none")
    /\ UNCHANGED <<chanVars, callVars, histVars, state>>

-----------------------------------------------------------------------------
\* Mutant: receivers look for the wrong final state.
Mut_HasFailed(a) == a # NoChan /\ state[a] = "Stopped"

HasFailed(a) == a # NoChan /\ state[a] = "Failed"

ActorRecv(t, a) ==
    /\ Free(t)
    /\ IF HasFailed(a) THEN Answer(t, a, -4)
       ELSE IF HasMessage(a) THEN Take(t, a, "idle") ELSE TakeNothing(t, a)
    /\ UNCHANGED actorVars

\* A blocking receive checks for failure once, before it enters the mailbox.
ActorRecvBlocking(t, a) ==
    /\ Free(t)
    /\ \/ HasFailed(a) /\ Answer(t, a, -4) /\ UNCHANGED apc
       \/ ~HasFailed(a) /\ EnterCall(t, a, "recv")
    /\ UNCHANGED <<state, message_count>>

EnterMailboxRecv(t) ==
    /\ apc[t] = "recv"
    /\ StartBlockingRecv(t, at[t])
    /\ Goto(t, "none")
    /\ UNCHANGED <<state, message_count>>

LeaveMailboxRecv(t) == CompleteRecv(t) /\ UNCHANGED actorVars

-----------------------------------------------------------------------------
(* The life cycle.  Every transition is allowed from every state.          *)

Become(t, a, s) ==
    /\ Free(t)
    /\ state' = [b \in Handles |-> IF b = a THEN s ELSE state[b]]
    /\ Return(t, a, IF a = NoChan THEN 1 ELSE 0)
    /\ UNCHANGED <<next_chan, capacity, queue, waiting_senders, waiting_receivers,
                   pc, item, woken_sender, woken_receiver, histVars,
                   message_count, apc>>

CloseMailbox(a) == closed' = [b \in Handles |-> closed[b] \/ b = a]

\* actor_close and actor_stop.
ActorStop(t, a) == Become(t, a, "Stopping") /\ CloseMailbox(a)

\* actor_mark_stopped leaves the mailbox as it is.
MarkStopped(t, a) == Become(t, a, "Stopped") /\ UNCHANGED closed

MarkFailed(t, a) == Become(t, a, "Failed") /\ CloseMailbox(a)

-----------------------------------------------------------------------------
ActorCall(t) ==
    \/ \E c \in Capacities : ActorCreate(t, c)
    \/ \E a \in Args : \/ ActorSend(t, a) \/ ActorSendBlocking(t, a)
                       \/ ActorRecv(t, a) \/ ActorRecvBlocking(t, a)
                       \/ ActorStop(t, a) \/ MarkStopped(t, a) \/ MarkFailed(t, a)

ActorStep(t) ==
    \/ EnterMailboxSend(t) \/ LeaveMailboxSend(t) \/ CountSent(t)
    \/ EnterMailboxRecv(t) \/ LeaveMailboxRecv(t)

ActorNext == (\E t \in Threads : ActorCall(t) \/ ActorStep(t)) /\ UNCHANGED ops

ActorSpec == ActorInit /\ [][ActorNext]_allVars

-----------------------------------------------------------------------------
(* Properties.                                                             *)

ActorTypeOK ==
    /\ TypeOK
    /\ state \in [Handles -> States]
    /\ message_count \in [Handles -> Nat]
    /\ apc \in [Threads -> {"none", "send", "sending", "count", "recv"}]
    /\ \A a \in Handles : state[a] # "None" => a \in Known

(* message_count is the number of messages the mailbox has taken, short of  *)
(* the blocking sends that have delivered and not yet counted.              *)
CountsDelivered ==
    \A a \in Handles : state[a] # "None" =>
        message_count[a] + Cardinality({t \in Threads : apc[t] = "count" /\ at[t] = a})
            = Len(received[a]) + Len(queue[a])

(* For a graceful stop no new messages are accepted, only existing ones     *)
(* drained: what still arrives at an actor that is not running is the       *)
(* message of a blocking send that passed the check of the state before.    *)
StoppedAcceptsNothing ==
    [][\A a \in Handles :
          (state[a] \in {"Stopping", "Stopped", "Failed"} /\ Len(queue'[a]) > Len(queue[a]))
              => \E t \in Threads : apc[t] = "sending" /\ at[t] = a /\ apc'[t] = "count"
      ]_allVars

(* The pending messages of a failed actor are discarded: the receivers that *)
(* still get one have passed the check of the state before the failure.     *)
FailedDeliversNothing ==
    [][\A a \in Handles :
          (state[a] = "Failed" /\ received'[a] # received[a])
              => \E t \in Threads : pc[t] = "receiving" /\ at[t] = a /\ pc'[t] = "idle"
      ]_allVars

(* An actor that was stopped or has failed is quiet (actor_send, actor_recv,*)
(* actor_mark_failed): only calls that looked at its state before it ended  *)
(* still deliver or take a message.                                         *)
EndedActorIsQuiet == StoppedAcceptsNothing /\ FailedDeliversNothing

=============================================================================
