---------------------------- MODULE EventTimers ----------------------------
(***************************************************************************)
(* The event loops and the asynchronous timers of the VM's runtime,        *)
(* ffi.inc.rs C21 and C22.  All loops are in one map behind one lock, and  *)
(* a poll keeps the lock until it has an event or its time is over: every  *)
(* other call on any loop waits for it.  The events of a poll are copied   *)
(* to storage of the calling thread.  A timer of a loop fires once and is  *)
(* then removed.  An asynchronous timer stays in its map until removed.    *)
(*                                                                         *)
(* A file descriptor is the read end of a pipe, registered for reading; a  *)
(* pipe holds its values in order.  A loop's closed flag is set nowhere.   *)
(***************************************************************************)
EXTENDS Naturals, Sequences, FiniteSets

CONSTANTS
    LoopThreads,
    Pipes,
    Nobody,         \* no thread
    Lengths,        \* how long timers and polls may last; a poll may also last forever
    MaxLoops,       \* bounds on loops, on the tokens of one, on asynchronous timers,
    MaxTokens,
    MaxTimers,
    MaxNow,         \* on the time, and on the values in a pipe
    MaxInPipe

ASSUME LoopAssumption ==
    /\ Lengths \subseteq Nat
    /\ {MaxLoops, MaxTokens, MaxTimers, MaxNow, MaxInPipe} \subseteq Nat

VARIABLES
    now,            \* Instant::now()
    loops,          \* [handle |-> [regs, next_token]]: the open event loops
    next_loop,      \* NEXT_EVENT_LOOP
    polling,        \* the poll that has the lock of the map
    events,         \* LAST_POLL_EVENTS of each thread
    pipes,          \* what each pipe holds
    timers,         \* [id |-> [due, state]]: the asynchronous timers
    next_timer,     \* NEXT_ASYNC_TIMER
    fate            \* history: what calls have told of a timer

loopVars == <<now, loops, next_loop, polling, events, pipes, timers, next_timer, fate>>

NotPolling == [by |-> Nobody, handle |-> 0, until |-> 0]
Forever == MaxNow + 1
Registered(token, due) == [token |-> token, kind |-> "timer", due |-> due, fd |-> Nobody]
Monitored(token, fd) == [token |-> token, kind |-> "fd", due |-> 0, fd |-> fd]

LoopInit ==
    /\ now = 0
    /\ loops = <<>> /\ next_loop = 1 /\ polling = NotPolling
    /\ events = [t \in LoopThreads |-> {}]
    /\ pipes = [p \in Pipes |-> <<>>]
    /\ timers = <<>> /\ next_timer = 1
    /\ fate = [fired |-> <<>>, ended |-> {}, announced |-> <<>>, expired |-> {}, cancelled |-> {}]

Tick == now < MaxNow /\ now' = now + 1
        /\ UNCHANGED <<loops, next_loop, polling, events, pipes, timers, next_timer, fate>>

-----------------------------------------------------------------------------
(* Event loops.  Each call needs the lock of the map.                       *)

LockFree == polling.by = Nobody

CreateLoop ==
    /\ LockFree /\ next_loop <= MaxLoops
    /\ loops' = [h \in DOMAIN loops \cup {next_loop} |->
                    IF h = next_loop THEN [regs |-> {}, next_token |-> 1] ELSE loops[h]]
    /\ next_loop' = next_loop + 1
    /\ UNCHANGED <<now, polling, events, pipes, timers, next_timer, fate>>

Register(h, reg) ==
    /\ LockFree /\ h \in DOMAIN loops /\ loops[h].next_token <= MaxTokens
    /\ reg.token = loops[h].next_token
    /\ loops' = [loops EXCEPT ![h] = [regs |-> @.regs \cup {reg}, next_token |-> @.next_token + 1]]
    /\ UNCHANGED <<now, next_loop, polling, events, pipes, timers, next_timer, fate>>

RegisterTimer(h, len) == Register(h, Registered(loops[h].next_token, now + len))
RegisterFd(h, p) == Register(h, Monitored(loops[h].next_token, p))

\* Answers 0 if the token was there.
Deregister(h, reg) ==
    /\ LockFree /\ h \in DOMAIN loops /\ reg \in loops[h].regs
    /\ loops' = [loops EXCEPT ![h].regs = @ \ {reg}]
    /\ fate' = [fate EXCEPT !.ended = @ \cup {<<h, reg.token>>}]
    /\ UNCHANGED <<now, next_loop, polling, events, pipes, timers, next_timer>>

\* The loop is removed from the map with what is registered.
CloseLoop(h) ==
    /\ LockFree /\ h \in DOMAIN loops
    /\ loops' = [i \in DOMAIN loops \ {h} |-> loops[i]]
    /\ fate' = [fate EXCEPT !.ended = @ \cup {<<h, reg.token>> : reg \in loops[h].regs}]
    /\ UNCHANGED <<now, next_loop, polling, events, pipes, timers, next_timer>>

StartPoll(t, h, until) ==
    /\ LockFree /\ h \in DOMAIN loops
    /\ polling' = [by |-> t, handle |-> h, until |-> until]
    /\ UNCHANGED <<now, loops, next_loop, events, pipes, timers, next_timer, fate>>

Due(reg) == reg.kind = "timer" /\ now >= reg.due
Readable(reg) == reg.kind = "fd" /\ pipes[reg.fd] # <<>>

\* How often each timer was reported, with those of this poll.
Fired(h, regs) ==
    LET keys == {<<h, reg.token>> : reg \in regs}
    IN  [k \in DOMAIN fate.fired \cup keys |->
            (IF k \in DOMAIN fate.fired THEN fate.fired[k] ELSE 0) + (IF k \in keys THEN 1 ELSE 0)]

\* Mutant: a timer that fires stays registered.
Mut_PollLook ==
    LET h == polling.handle
        due == {reg \in loops[h].regs : Due(reg)}
        ready == {reg \in loops[h].regs : Readable(reg)}
    IN  /\ ~LockFree
        /\ due \cup ready # {} \/ now >= polling.until
        /\ fate' = [fate EXCEPT !.fired = Fired(h, due)]
        /\ events' = [events EXCEPT ![polling.by] = {<<h, reg.token>> : reg \in due \cup ready}]
        /\ polling' = NotPolling
        /\ UNCHANGED <<now, loops, next_loop, pipes, timers, next_timer>>

\* One round of the poll's loop that ends it: something is due or readable, or the time is
\* over.  Any other round changes nothing.
PollLook ==
    LET h == polling.handle
        due == {reg \in loops[h].regs : Due(reg)}
        ready == {reg \in loops[h].regs : Readable(reg)}
    IN  /\ ~LockFree
        /\ due \cup ready # {} \/ now >= polling.until
        /\ loops' = [loops EXCEPT ![h].regs = @ \ due]
        /\ fate' = [fate EXCEPT !.fired = Fired(h, due)]
        /\ events' = [events EXCEPT ![polling.by] = {<<h, reg.token>> : reg \in due \cup ready}]
        /\ polling' = NotPolling
        /\ UNCHANGED <<now, next_loop, pipes, timers, next_timer>>

\* The pipes are the system's; neither end waits.
PipeWrite(p) ==
    /\ Len(pipes[p]) < MaxInPipe
    /\ pipes' = [pipes EXCEPT ![p] = Append(@, Len(@))]
    /\ UNCHANGED <<now, loops, next_loop, polling, events, timers, next_timer, fate>>

PipeRead(p) ==
    /\ pipes[p] # <<>>
    /\ pipes' = [pipes EXCEPT ![p] = Tail(@)]
    /\ UNCHANGED <<now, loops, next_loop, polling, events, timers, next_timer, fate>>

-----------------------------------------------------------------------------
(* Asynchronous timers.                                                     *)

Expires(id) == timers[id].state = "pending" /\ now >= timers[id].due
TimerStep == UNCHANGED <<now, loops, next_loop, polling, events, pipes>>

SleepAsync(len) ==
    /\ next_timer <= MaxTimers
    /\ timers' = [i \in DOMAIN timers \cup {next_timer} |->
                    IF i = next_timer THEN [due |-> now + len, state |-> "pending"] ELSE timers[i]]
    /\ next_timer' = next_timer + 1
    /\ TimerStep /\ UNCHANGED fate

\* Answers 1 to the caller, who need not be the task that waits.
CheckExpired(id) ==
    /\ id \in DOMAIN timers /\ (timers[id].state = "expired" \/ Expires(id))
    /\ timers' = [timers EXCEPT ![id].state = "expired"]
    /\ fate' = [fate EXCEPT !.expired = @ \cup {id}]
    /\ TimerStep /\ UNCHANGED next_timer

CancelTimer(id) ==
    /\ id \in DOMAIN timers /\ timers[id].state = "pending"
    /\ timers' = [timers EXCEPT ![id].state = "cancelled"]
    /\ fate' = [fate EXCEPT !.cancelled = @ \cup {id}]
    /\ TimerStep /\ UNCHANGED next_timer

\* Any one of those that expire; it is announced by this call only.
PollExpired(id) ==
    /\ id \in DOMAIN timers /\ Expires(id)
    /\ timers' = [timers EXCEPT ![id].state = "expired"]
    /\ fate' = [fate EXCEPT !.announced = Append(@, id)]
    /\ TimerStep /\ UNCHANGED next_timer

RemoveTimer(id) ==
    /\ id \in DOMAIN timers
    /\ timers' = [i \in DOMAIN timers \ {id} |-> timers[i]]
    /\ TimerStep /\ UNCHANGED <<next_timer, fate>>

-----------------------------------------------------------------------------

LoopNext ==
    \/ Tick \/ CreateLoop \/ PollLook
    \/ \E h \in DOMAIN loops :
          \/ \E len \in Lengths : RegisterTimer(h, len)
          \/ \E p \in Pipes : RegisterFd(h, p)
          \/ \E reg \in loops[h].regs : Deregister(h, reg)
          \/ CloseLoop(h)
          \/ \E t \in LoopThreads, until \in {now + len : len \in Lengths} \cup {Forever} :
                StartPoll(t, h, until)
    \/ \E p \in Pipes : PipeWrite(p) \/ PipeRead(p)

TimerNext ==
    \/ Tick
    \/ \E len \in Lengths : SleepAsync(len)
    \/ \E id \in DOMAIN timers :
          CheckExpired(id) \/ CancelTimer(id) \/ PollExpired(id) \/ RemoveTimer(id)

\* A program may use both.
EventSpec == LoopInit /\ [][LoopNext \/ TimerNext]_loopVars

-----------------------------------------------------------------------------
(* Properties.                                                              *)

\* The token k[2] is registered with the loop k[1].
Live(k) == k[1] \in DOMAIN loops /\ \E reg \in loops[k[1]].regs : reg.token = k[2]

\* "Register a one-shot timer": whichever threads poll, deregister and close, a token is
\* registered, reported by one poll, or ended by deregister or close, and only one of these;
\* so one whose deregistration answered 0 never fires.
LoopTimerOneFate ==
    /\ \A k \in DOMAIN fate.fired : fate.fired[k] = 1 /\ k \notin fate.ended /\ ~Live(k)
    /\ \A k \in fate.ended : ~Live(k)
    /\ \A h \in DOMAIN loops : \A n \in 1 .. loops[h].next_token - 1 :
          Live(<<h, n>>) \/ <<h, n>> \in DOMAIN fate.fired \cup fate.ended

\* timer_poll_expired and timer_cancel: a timer is announced to one poll, and never if cancel
\* answered 0 for it, nor is that one ever seen expired.
AnnouncedOnceOrCancelled ==
    /\ \A i, j \in DOMAIN fate.announced : fate.announced[i] = fate.announced[j] => i = j
    /\ \A i \in DOMAIN fate.announced : fate.announced[i] \notin fate.cancelled
    /\ fate.expired \cap fate.cancelled = {}

\* Every timer, of an event loop or of timer_sleep_async, fires once or is cancelled, not both.
OneFate == LoopTimerOneFate /\ AnnouncedOnceOrCancelled

-----------------------------------------------------------------------------
(* The inductive invariant.                                                 *)

Registration ==
    [token : Nat \ {0}, kind : {"timer", "fd"}, due : Nat, fd : Pipes \cup {Nobody}]

\* The tokens of a loop were given out by it, each to one registration; a poll holds the lock
\* of the map, so its loop stays open.
LoopsOK ==
    /\ now \in Nat /\ next_loop \in Nat \ {0}
    /\ loops \in [DOMAIN loops -> [regs : SUBSET Registration, next_token : Nat \ {0}]]
    /\ DOMAIN loops \subseteq 1 .. next_loop - 1
    /\ \A h \in DOMAIN loops :
          /\ \A reg \in loops[h].regs : reg.token < loops[h].next_token
          /\ \A reg, other \in loops[h].regs : reg.token = other.token => reg = other
    /\ ~LockFree => polling.handle \in DOMAIN loops

\* What is told of loops is told of tokens that they have given out.
ToldOK ==
    /\ fate = [fired |-> fate.fired, ended |-> fate.ended, announced |-> fate.announced,
               expired |-> fate.expired, cancelled |-> fate.cancelled]
    /\ fate.fired \in [DOMAIN fate.fired -> Nat]
    /\ DOMAIN fate.fired \cup fate.ended \subseteq (1 .. next_loop - 1) \X (Nat \ {0})
    /\ \A k \in DOMAIN fate.fired \cup fate.ended :
          k[1] \in DOMAIN loops => k[2] < loops[k[1]].next_token

\* A timer that is pending was told of to nobody, and ids are not used again.
TimersOK ==
    /\ next_timer \in Nat \ {0}
    /\ timers \in [DOMAIN timers -> [due : Nat, state : {"pending", "expired", "cancelled"}]]
    /\ DOMAIN timers \subseteq 1 .. next_timer - 1
    /\ fate.announced \in Seq(1 .. next_timer - 1)
    /\ fate.expired \cup fate.cancelled \subseteq 1 .. next_timer - 1
    /\ \A id \in DOMAIN timers :
          /\ timers[id].state = "pending" =>
                /\ id \notin fate.expired \cup fate.cancelled
                /\ \A i \in DOMAIN fate.announced : fate.announced[i] # id
          /\ timers[id].state = "expired" => id \notin fate.cancelled

EventInv == LoopsOK /\ ToldOK /\ TimersOK /\ OneFate

=============================================================================
