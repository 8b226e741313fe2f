---------------------------- MODULE ChannelSelect ----------------------------
(***************************************************************************)
(* Selecting over several channels, runtime/ffi.inc.rs (the                *)
(* __arth_mpmc_chan_select_* calls).  A thread builds a list of channels   *)
(* in thread-local storage and then tries them in order, each under a lock *)
(* acquisition of its own.  The suspending form goes through the list a    *)
(* second time, under one more acquisition, to register its task on every  *)
(* channel that is open by then; the blocking form waits on clones of the  *)
(* receiver ends.  One step is one critical section.                       *)
(*                                                                         *)
(* A selecting task that was woken repeats its select.  A task leaves the  *)
(* lists it is registered on only through select_deregister, which the     *)
(* program calls, or by being woken.                                       *)
(***************************************************************************)
EXTENDS MpmcChannel, Retaining

CONSTANTS
    Selectors,    \* the threads that select, and make no other calls
    MaxSelect     \* bound on the length of a select set

ASSUME SelectAssumption == Selectors \subseteq Threads /\ MaxSelect \in Nat

VARIABLES
    sel,          \* SELECT_CHANNELS of each thread
    sel_index,    \* SELECT_RESULT_INDEX
    sel_msg,      \* the message of SELECT_RESULT_VALUE; 0 when cleared
    sel_ret,      \* what the last select on the set returned; -1 before
    spc,          \* where a selecting thread is
    missed        \* history: a message came between the two passes

selVars == <<sel, sel_index, sel_msg, sel_ret, spc, missed>>
selAllVars == <<vars, selVars>>

\* Where a selecting thread is: the kind of the select, the place it tries
\* next and whether the channels tried so far were all closed.
Place(k, i, ac) == [kind |-> k, i |-> i, all_closed |-> ac]
NoPlace == Place("none", 0, FALSE)

SelectInit ==
    /\ Init
    /\ sel = [t \in Threads |-> <<>>]
    /\ sel_index = [t \in Threads |-> -1]
    /\ sel_msg = [t \in Threads |-> 0]
    /\ sel_ret = [t \in Threads |-> -1]
    /\ spc = [t \in Threads |-> NoPlace]
    /\ missed = [t \in Threads |-> FALSE]

At(t, k) == spc[t].kind = k

\* A selector makes a call; one that was woken only repeats its select.
MaySelect(t) == t \in Selectors /\ Ready(t) /\ At(t, "none")

SelectClear(t) ==
    /\ MaySelect(t)
    /\ sel' = [sel EXCEPT ![t] = <<>>]
    /\ sel_index' = [sel_index EXCEPT ![t] = -1]
    /\ sel_msg' = [sel_msg EXCEPT ![t] = 0]
    /\ sel_ret' = [sel_ret EXCEPT ![t] = -1]
    /\ UNCHANGED <<chanVars, callVars, histVars, spc, missed>>

SelectAdd(t, h) ==
    /\ MaySelect(t)
    /\ Len(sel[t]) < MaxSelect
    /\ sel' = [sel EXCEPT ![t] = Append(@, h)]
    /\ sel_ret' = [sel_ret EXCEPT ![t] = -1]
    /\ UNCHANGED <<chanVars, callVars, histVars, sel_index, sel_msg, spc, missed>>

-----------------------------------------------------------------------------
\* The select of t is over with result r, or has come to place p.
SelectReturn(t, r) ==
    /\ sel_ret' = [sel_ret EXCEPT ![t] = r]
    /\ spc' = [spc EXCEPT ![t] = NoPlace]
    /\ pc' = [pc EXCEPT ![t] = "idle"]

SelectGoesOn(t, p) ==
    /\ spc' = [spc EXCEPT ![t] = p]
    /\ pc' = [pc EXCEPT ![t] = "idle"]
    /\ UNCHANGED sel_ret

\* The message at the head of channel number i of the set is taken.
SelectTake(t, i) ==
    LET h == sel[t][i]
    IN /\ queue' = [queue EXCEPT ![h] = Tail(@)]
       /\ received' = [received EXCEPT ![h] = Append(@, Head(queue[h]))]
       /\ sel_index' = [sel_index EXCEPT ![t] = i - 1]
       /\ sel_msg' = [sel_msg EXCEPT ![t] = Head(queue[h])]
       /\ SelectReturn(t, 0)

Open == {h \in Known : ~closed[h]}

\* Whether the channels up to number i are closed, or not known at all.
AllClosed(t, i, ac) == ac /\ sel[t][i] \notin Open

(* Channel number i of the set is tried, in a critical section of its own.  *)
(* After the last one the call returns or goes on to register the task.     *)
TryChannel(t, k, i, ac) ==
    LET ac2 == AllClosed(t, i, ac)
    IN /\ IF HasMessage(sel[t][i])
          THEN SelectTake(t, i)
          ELSE /\ \/ i < Len(sel[t]) /\ SelectGoesOn(t, Place(k, i + 1, ac2))
                  \/ i = Len(sel[t]) /\ ac2 /\ SelectReturn(t, 2)
                  \/ i = Len(sel[t]) /\ ~ac2 /\ k = "try" /\ SelectReturn(t, 1)
                  \/ /\ i = Len(sel[t]) /\ ~ac2 /\ k = "task"
                     /\ SelectGoesOn(t, Place("register", 0, FALSE))
               /\ UNCHANGED <<queue, received, sel_index, sel_msg>>
       /\ UNCHANGED <<next_chan, capacity, closed, waiting_senders,
                      waiting_receivers, at, item, ret, woken_sender,
                      woken_receiver, next_val, owner, told, sel, missed>>

EmptySelect(t) ==
    /\ sel[t] = <<>>
    /\ SelectReturn(t, 3)
    /\ UNCHANGED <<chanVars, at, item, ret, woken_sender, woken_receiver, histVars,
                   sel, sel_index, sel_msg, missed>>

TrySelectRecv(t) ==
    /\ "try_select" \in ops
    /\ MaySelect(t)
    /\ EmptySelect(t) \/ (sel[t] # <<>> /\ TryChannel(t, "try", 1, TRUE))

\* Also the call that a woken task repeats.
SelectRecvWithTask(t) ==
    /\ "select_with_task" \in ops
    /\ MaySelect(t) \/ (pc[t] = "retry" /\ At(t, "waiting"))
    /\ EmptySelect(t) \/ (sel[t] # <<>> /\ TryChannel(t, "task", 1, TRUE))

SelectNextChannel(t) ==
    \E k \in {"try", "task"} :
        At(t, k) /\ TryChannel(t, k, spc[t].i, spc[t].all_closed)

Registers(t, h) == Retain(sel[t], {h} \cap Open)

\* Mutant: the task is only registered on the first channel of its set.
Mut_SelectRegister(t) ==
    /\ At(t, "register")
    /\ waiting_receivers' =
          [h \in Handles |-> waiting_receivers[h] \o
              IF h = sel[t][1] /\ h \in Open THEN <<t>> ELSE <<>>]
    /\ missed' = [missed EXCEPT ![t] = \E i \in 1 .. Len(sel[t]) :
                     HasMessage(sel[t][i])]
    /\ sel_ret' = [sel_ret EXCEPT ![t] = 1]
    /\ spc' = [spc EXCEPT ![t] = Place("waiting", 0, FALSE)]
    /\ pc' = [pc EXCEPT ![t] = "suspended"]
    /\ UNCHANGED <<next_chan, capacity, closed, queue, waiting_senders, at, item,
                   ret, woken_sender, woken_receiver, histVars, sel, sel_index,
                   sel_msg>>

(* The second pass: the task is registered once for each time an open       *)
(* channel is in the set, whatever has been sent or closed since the first. *)
SelectRegister(t) ==
    /\ At(t, "register")
    /\ waiting_receivers' =
          [h \in Handles |-> waiting_receivers[h] \o
              [i \in 1 .. Len(Registers(t, h)) |-> t]]
    /\ missed' = [missed EXCEPT ![t] = \E i \in 1 .. Len(sel[t]) :
                     HasMessage(sel[t][i])]
    /\ sel_ret' = [sel_ret EXCEPT ![t] = 1]
    /\ spc' = [spc EXCEPT ![t] = Place("waiting", 0, FALSE)]
    /\ pc' = [pc EXCEPT ![t] = "suspended"]
    /\ UNCHANGED <<next_chan, capacity, closed, queue, waiting_senders, at, item,
                   ret, woken_sender, woken_receiver, histVars, sel, sel_index,
                   sel_msg>>

(* The registrations of t on the channels of its set are dropped, except on *)
(* channel number except: -1, or the index the select has reported.         *)
SelectDeregister(t, except) ==
    /\ "select_with_task" \in ops
    /\ MaySelect(t)
    /\ waiting_receivers' =
          [h \in Handles |->
              IF \E i \in 1 .. Len(sel[t]) : sel[t][i] = h /\ i - 1 # except
              THEN Retain(waiting_receivers[h], Threads \ {t})
              ELSE waiting_receivers[h]]
    /\ UNCHANGED <<next_chan, capacity, closed, queue, waiting_senders, callVars,
                   histVars, selVars>>

-----------------------------------------------------------------------------
\* The blocking form keeps the receiver ends of the channels that exist.
SelectRecvBlocking(t) ==
    /\ "select_blocking" \in ops
    /\ MaySelect(t)
    /\ \/ EmptySelect(t)
       \/ /\ sel[t] # <<>>
          /\ IF \A i \in 1 .. Len(sel[t]) : sel[t][i] = NoChan
             THEN SelectReturn(t, 2)
             ELSE SelectGoesOn(t, Place("blocked", 0, FALSE))
          /\ UNCHANGED <<chanVars, at, item, ret, woken_sender, woken_receiver,
                         histVars, sel, sel_index, sel_msg, missed>>

\* Any channel with a message may be the one chosen; a closed one stays silent.
CompleteSelect(t, i) ==
    /\ At(t, "blocked")
    /\ HasMessage(sel[t][i])
    /\ SelectTake(t, i)
    /\ UNCHANGED <<next_chan, capacity, closed, waiting_senders,
                   waiting_receivers, at, item, ret, woken_sender,
                   woken_receiver, next_val, owner, told, sel, missed>>

-----------------------------------------------------------------------------
SelectCall(t) ==
    \/ SelectClear(t)
    \/ \E h \in Args : SelectAdd(t, h)
    \/ TrySelectRecv(t) \/ SelectRecvWithTask(t) \/ SelectRecvBlocking(t)
    \/ \E e \in {-1, sel_index[t]} : SelectDeregister(t, e)

SelectStep(t) ==
    \/ SelectNextChannel(t) \/ SelectRegister(t)
    \/ \E i \in 1 .. Len(sel[t]) : CompleteSelect(t, i)

\* The other threads create, fill, empty and close the channels.
PlainCall(t) == t \notin Selectors /\ (Call(t) \/ Step(t)) /\ UNCHANGED selVars

SelectNext ==
    /\ \E t \in Threads : PlainCall(t) \/ SelectCall(t) \/ SelectStep(t)
    /\ UNCHANGED ops

SelectSpec == SelectInit /\ [][SelectNext]_selAllVars

-----------------------------------------------------------------------------
(* Properties.                                                             *)

SelectTypeOK ==
    /\ TypeOK
    /\ sel \in [Threads -> Seq(Args)]
    /\ sel_index \in [Threads -> -1 .. MaxSelect - 1]
    /\ sel_msg \in [Threads -> Values \cup {0}]
    /\ sel_ret \in [Threads -> {-1, 0, 1, 2, 3}]
    /\ missed \in [Threads -> BOOLEAN]
    /\ \A t \in Threads :
          /\ spc[t] \in [kind : {"none", "try", "task", "register", "waiting",
                                 "blocked"}, i : 0 .. MaxSelect,
                         all_closed : BOOLEAN]
          /\ spc[t].kind \in {"try", "task"} => spc[t].i \in 1 .. Len(sel[t])

(* The index that a select reports names the channel that its value was     *)
(* received from, with unknown handles and repeated channels in the set.    *)
IndexNamesSource ==
    \A t \in Threads : sel_index[t] # -1 =>
        /\ sel_index[t] < Len(sel[t])
        /\ LET h == sel[t][sel_index[t] + 1]
           IN h \in Handles /\ \E i \in 1 .. Len(received[h]) :
                 ReceivedAt(h, i, sel_msg[t])

(* "All channels closed" is the end of every stream in the set, although    *)
(* each channel was looked at at another moment: they all stay closed and   *)
(* empty, in programs without sends that wait for room.                     *)
SelectEndIsFinal ==
    ops \cap {"send_blocking", "send_with_task"} = {} =>
        \A t \in Threads : sel_ret[t] = 2 =>
            \A i \in 1 .. Len(sel[t]) : sel[t][i] # NoChan =>
                closed[sel[t][i]] /\ queue[sel[t][i]] = <<>>

(* A suspended selector is registered on every open channel of its set,     *)
(* unless it has been popped from one of the lists and is about to be       *)
(* resumed.                                                                 *)
SelectorIsRegistered ==
    \A t \in Threads : (pc[t] = "suspended" /\ At(t, "waiting")) =>
        \/ \E s \in Threads : woken_receiver[s] = t
        \/ \A i \in 1 .. Len(sel[t]) :
              LET h == sel[t][i]
              IN h \in Open =>
                    \E k \in 1 .. Len(waiting_receivers[h]) : ReceiverAt(h, k, t)

\* Programs whose senders wake receivers, and whose only receiver selects.
OneSelector ==
    /\ SendersWake
    /\ \A s, t \in Selectors : s = t
    /\ ops \cap {"recv_with_task"} = {}

(* A selector sleeps beside a message only when the message came between    *)
(* its two passes: every other message has a waker on its way.              *)
SelectorHasWaker ==
    OneSelector =>
        \A t \in Threads : (pc[t] = "suspended" /\ At(t, "waiting")) =>
            \/ missed[t]
            \/ \E s \in Threads : woken_receiver[s] = t
            \/ \A i \in 1 .. Len(sel[t]) : HasMessage(sel[t][i]) =>
                  \E s \in Threads : pc[s] = "wakereceiver" /\ at[s] = sel[t][i]

(* What select promises (try_select_recv, select_recv_with_task,            *)
(* select_recv_blocking): its index names the source of its message, its    *)
(* end is the end of every channel, and a task that waits in it is          *)
(* registered everywhere and has a waker for all but the messages that      *)
(* came between its two passes.                                             *)
SelectSafe ==
    /\ SelectTypeOK
    /\ IndexNamesSource
    /\ SelectEndIsFinal
    /\ SelectorIsRegistered
    /\ SelectorHasWaker

=============================================================================
