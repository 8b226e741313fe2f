--------------------------- MODULE EventNetProofs ---------------------------
(***************************************************************************)
(* Proofs about EventTimers, NetRequests and WebServers, for any number of *)
(* threads, loops, timers, requests, items, clients and calls.             *)
(***************************************************************************)
EXTENDS EventTimers, NetRequests, WebServers, FiniteSetTheorems, TLAPS

-----------------------------------------------------------------------------
(* Timers.  OneFate is inductive together with what the tables know.        *)

(* Steps that touch neither loops nor what is told of them.                 *)
LEMMA LoopFrame ==
    ASSUME LoopsOK, ToldOK, LoopTimerOneFate,
           UNCHANGED <<loops, next_loop, polling>>, now' \in Nat,
           fate' = [fired |-> fate.fired, ended |-> fate.ended, announced |-> fate'.announced,
                    expired |-> fate'.expired, cancelled |-> fate'.cancelled]
    PROVE  LoopsOK' /\ ToldOK' /\ LoopTimerOneFate'
<1>1. fate'.fired = fate.fired /\ fate'.ended = fate.ended
  OBVIOUS
<1>2. LoopsOK'
  BY DEF LoopsOK, LockFree
<1>3. ToldOK'
  BY <1>1 DEF ToldOK
<1>4. LoopTimerOneFate'
  BY <1>1 DEF LoopTimerOneFate, Live
<1> QED
  BY <1>2, <1>3, <1>4

(* Steps that touch neither asynchronous timers nor what is told of them.   *)
LEMMA TimerFrame ==
    ASSUME TimersOK, AnnouncedOnceOrCancelled,
           UNCHANGED <<timers, next_timer>>,
           fate'.announced = fate.announced, fate'.expired = fate.expired,
           fate'.cancelled = fate.cancelled
    PROVE  TimersOK' /\ AnnouncedOnceOrCancelled'
<1>1. TimersOK'
  BY DEF TimersOK
<1>2. AnnouncedOnceOrCancelled'
  BY DEF AnnouncedOnceOrCancelled
<1> QED
  BY <1>1, <1>2

(* The parts of what is told that an update leaves.                         *)
LEMMA FateUpdates ==
    ASSUME ToldOK, NEW v
    PROVE  /\ [fate EXCEPT !.fired = v] =
                 [fired |-> v, ended |-> fate.ended, announced |-> fate.announced,
                  expired |-> fate.expired, cancelled |-> fate.cancelled]
           /\ [fate EXCEPT !.ended = v] =
                 [fired |-> fate.fired, ended |-> v, announced |-> fate.announced,
                  expired |-> fate.expired, cancelled |-> fate.cancelled]
           /\ [fate EXCEPT !.announced = v] =
                 [fired |-> fate.fired, ended |-> fate.ended, announced |-> v,
                  expired |-> fate.expired, cancelled |-> fate.cancelled]
           /\ [fate EXCEPT !.expired = v] =
                 [fired |-> fate.fired, ended |-> fate.ended, announced |-> fate.announced,
                  expired |-> v, cancelled |-> fate.cancelled]
           /\ [fate EXCEPT !.cancelled = v] =
                 [fired |-> fate.fired, ended |-> fate.ended, announced |-> fate.announced,
                  expired |-> fate.expired, cancelled |-> v]
BY DEF ToldOK

(* A new loop has given out no token, and nothing was told of its number.   *)
LEMMA CreateLoopInv == ASSUME EventInv, CreateLoop PROVE EventInv'
<1> DEFINE n == next_loop
<1>1. LoopsOK /\ ToldOK /\ TimersOK /\ LoopTimerOneFate /\ AnnouncedOnceOrCancelled
  BY DEF EventInv, OneFate
<1>2. /\ next_loop' = n + 1 /\ n \in Nat \ {0} /\ LockFree
      /\ UNCHANGED <<now, polling, timers, next_timer, fate>>
  BY <1>1 DEF CreateLoop, LoopsOK
<1>3. /\ DOMAIN loops' = DOMAIN loops \cup {n} /\ n \notin DOMAIN loops
      /\ loops'[n] = [regs |-> {}, next_token |-> 1]
      /\ \A h \in DOMAIN loops : loops'[h] = loops[h]
      /\ loops' \in [DOMAIN loops' -> [regs : SUBSET Registration, next_token : Nat \ {0}]]
  BY <1>1, <1>2 DEF CreateLoop, LoopsOK
<1>4. LoopsOK'
  BY <1>1, <1>2, <1>3 DEF LoopsOK, LockFree
<1>5. ToldOK'
  BY <1>1, <1>2, <1>3 DEF ToldOK
<1>6. \A k \in (1 .. n - 1) \X (Nat \ {0}) : Live(k)' = Live(k)
  BY <1>3 DEF Live
<1>7. LoopTimerOneFate'
  <2>1. \A k \in DOMAIN fate.fired \cup fate.ended : ~Live(k)'
    BY <1>1, <1>6 DEF ToldOK, LoopTimerOneFate
  <2>2. \A h \in DOMAIN loops : \A m \in 1 .. loops[h].next_token - 1 :
            <<h, m>> \in (1 .. n - 1) \X (Nat \ {0})
    BY <1>1 DEF LoopsOK
  <2> QED
    BY <1>1, <1>2, <1>3, <1>6, <2>1, <2>2 DEF LoopTimerOneFate
<1> QED
  BY <1>1, <1>2, <1>4, <1>5, <1>7, TimerFrame DEF EventInv, OneFate

(* A registration gets the loop's next token.                               *)
LEMMA RegisterInv ==
    ASSUME EventInv, NEW h, NEW reg \in Registration, Register(h, reg)
    PROVE  EventInv'
<1> DEFINE n == loops[h].next_token
<1>1. LoopsOK /\ ToldOK /\ TimersOK /\ LoopTimerOneFate /\ AnnouncedOnceOrCancelled
  BY DEF EventInv, OneFate
<1>2. /\ h \in DOMAIN loops /\ reg.token = n /\ LockFree
      /\ loops' = [loops EXCEPT ![h] = [regs |-> loops[h].regs \cup {reg}, next_token |-> n + 1]]
      /\ UNCHANGED <<now, next_loop, polling, timers, next_timer, fate>>
  BY DEF Register
<1>3. loops[h] \in [regs : SUBSET Registration, next_token : Nat \ {0}]
  BY <1>1, <1>2 DEF LoopsOK
<1>4. /\ DOMAIN loops' = DOMAIN loops
      /\ loops'[h].regs = loops[h].regs \cup {reg} /\ loops'[h].next_token = n + 1
      /\ \A i \in DOMAIN loops \ {h} : loops'[i] = loops[i]
      /\ loops' \in [DOMAIN loops -> [regs : SUBSET Registration, next_token : Nat \ {0}]]
  BY <1>1, <1>2, <1>3 DEF LoopsOK
<1>5. LoopsOK'
  BY <1>1, <1>2, <1>3, <1>4 DEF LoopsOK, LockFree, Registration
<1>6. ToldOK'
  BY <1>1, <1>2, <1>3, <1>4 DEF ToldOK
<1>7. \A k \in (1 .. next_loop - 1) \X (Nat \ {0}) : Live(k)' <=> Live(k) \/ k = <<h, n>>
  BY <1>2, <1>3, <1>4 DEF Live
<1>8. LoopTimerOneFate'
  <2>1. \A k \in DOMAIN fate.fired \cup fate.ended : k # <<h, n>> /\ ~Live(k)'
    BY <1>1, <1>2, <1>3, <1>7 DEF ToldOK, LoopTimerOneFate
  <2>2. ASSUME NEW i \in DOMAIN loops, NEW m \in 1 .. loops'[i].next_token - 1
        PROVE  Live(<<i, m>>)' \/ <<i, m>> \in DOMAIN fate.fired \cup fate.ended
    <3>1. <<i, m>> \in (1 .. next_loop - 1) \X (Nat \ {0}) /\ loops[i].next_token \in Nat
      BY <1>1, <1>4, <2>2 DEF LoopsOK
    <3>2. <<i, m>> = <<h, n>> \/ m \in 1 .. loops[i].next_token - 1
      BY <1>3, <1>4, <2>2, <3>1
    <3> QED
      BY <1>1, <1>7, <3>1, <3>2 DEF LoopTimerOneFate
  <2> QED
    BY <1>1, <1>2, <1>4, <2>1, <2>2 DEF LoopTimerOneFate
<1> QED
  BY <1>1, <1>2, <1>5, <1>6, <1>8, TimerFrame DEF EventInv, OneFate

(* A registration is taken out by its caller, and so told to be ended.      *)
LEMMA DeregisterInv ==
    ASSUME EventInv, NEW h \in DOMAIN loops, NEW reg \in loops[h].regs, Deregister(h, reg)
    PROVE  EventInv'
<1> DEFINE key == <<h, reg.token>>
<1>1. LoopsOK /\ ToldOK /\ TimersOK /\ LoopTimerOneFate /\ AnnouncedOnceOrCancelled
  BY DEF EventInv, OneFate
<1>2. /\ loops' = [loops EXCEPT ![h].regs = @ \ {reg}] /\ LockFree
      /\ fate' = [fate EXCEPT !.ended = fate.ended \cup {key}]
      /\ UNCHANGED <<now, next_loop, polling, timers, next_timer>>
  BY DEF Deregister
<1>3. loops[h] \in [regs : SUBSET Registration, next_token : Nat \ {0}]
  BY <1>1 DEF LoopsOK
<1>4. /\ DOMAIN loops' = DOMAIN loops
      /\ loops'[h].regs = loops[h].regs \ {reg} /\ loops'[h].next_token = loops[h].next_token
      /\ \A i \in DOMAIN loops \ {h} : loops'[i] = loops[i]
      /\ loops' \in [DOMAIN loops -> [regs : SUBSET Registration, next_token : Nat \ {0}]]
  BY <1>1, <1>2, <1>3 DEF LoopsOK
<1>5. fate' = [fired |-> fate.fired, ended |-> fate.ended \cup {key},
               announced |-> fate.announced, expired |-> fate.expired,
               cancelled |-> fate.cancelled]
  BY <1>1, <1>2, FateUpdates
<1>6. LoopsOK'
  BY <1>1, <1>2, <1>3, <1>4 DEF LoopsOK, LockFree
<1>7. /\ key \in (1 .. next_loop - 1) \X (Nat \ {0}) /\ reg.token < loops[h].next_token
      /\ Live(key)
  BY <1>1, <1>3 DEF LoopsOK, Registration, Live
<1>8. ToldOK'
  <2>1. fate'.fired = fate.fired /\ fate'.ended = fate.ended \cup {key}
    BY <1>5
  <2>2. \A i \in DOMAIN loops : loops'[i].next_token = loops[i].next_token
    BY <1>4
  <2>3. \A k \in DOMAIN fate'.fired \cup fate'.ended :
            /\ k \in (1 .. next_loop - 1) \X (Nat \ {0})
            /\ k[1] \in DOMAIN loops' => k[2] < loops'[k[1]].next_token
    BY <1>1, <1>4, <1>7, <2>1, <2>2 DEF ToldOK
  <2> QED
    BY <1>1, <1>2, <1>5, <2>1, <2>3 DEF ToldOK
<1>9. \A k \in (1 .. next_loop - 1) \X (Nat \ {0}) : Live(k)' <=> Live(k) /\ k # key
  <2> TAKE k \in (1 .. next_loop - 1) \X (Nat \ {0})
  <2>1. CASE k[1] # h
    BY <1>4, <2>1 DEF Live
  <2>2. CASE k[1] = h
    <3>1. k = key <=> reg.token = k[2]
      BY <2>2
    <3>2. \A other \in loops[h].regs : reg.token = other.token => reg = other
      BY <1>1 DEF LoopsOK
    <3> QED
      BY <1>4, <2>2, <3>1, <3>2 DEF Live
  <2> QED
    BY <2>1, <2>2
<1>10. LoopTimerOneFate'
  <2>1. \A k \in DOMAIN fate.fired : k \notin fate'.ended /\ ~Live(k)' /\ fate'.fired[k] = 1
    BY <1>1, <1>5, <1>7, <1>9 DEF ToldOK, LoopTimerOneFate
  <2>2. \A k \in fate'.ended : ~Live(k)'
    BY <1>1, <1>5, <1>7, <1>9 DEF ToldOK, LoopTimerOneFate
  <2>3. ASSUME NEW i \in DOMAIN loops, NEW m \in 1 .. loops'[i].next_token - 1
        PROVE  Live(<<i, m>>)' \/ <<i, m>> \in DOMAIN fate.fired \cup fate'.ended
    <3>1. loops'[i].next_token = loops[i].next_token
      BY <1>4
    <3>2. <<i, m>> \in (1 .. next_loop - 1) \X (Nat \ {0})
      BY <1>1, <2>3, <3>1 DEF LoopsOK
    <3> QED
      BY <1>1, <1>5, <1>9, <2>3, <3>1, <3>2 DEF LoopTimerOneFate
  <2> QED
    BY <1>4, <1>5, <2>1, <2>2, <2>3 DEF LoopTimerOneFate
<1> QED
  BY <1>1, <1>2, <1>5, <1>6, <1>8, <1>10, TimerFrame DEF EventInv, OneFate

(* With a loop everything that is registered ends.                          *)
LEMMA CloseLoopInv ==
    ASSUME EventInv, NEW h \in DOMAIN loops, CloseLoop(h)
    PROVE  EventInv'
<1> DEFINE gone == {<<h, reg.token>> : reg \in loops[h].regs}
<1>1. LoopsOK /\ ToldOK /\ TimersOK /\ LoopTimerOneFate /\ AnnouncedOnceOrCancelled
  BY DEF EventInv, OneFate
<1>2. /\ loops' = [i \in DOMAIN loops \ {h} |-> loops[i]] /\ LockFree
      /\ fate' = [fate EXCEPT !.ended = fate.ended \cup gone]
      /\ UNCHANGED <<now, next_loop, polling, timers, next_timer>>
  BY DEF CloseLoop
<1>3. loops[h] \in [regs : SUBSET Registration, next_token : Nat \ {0}]
  BY <1>1 DEF LoopsOK
<1>4. fate' = [fired |-> fate.fired, ended |-> fate.ended \cup gone,
               announced |-> fate.announced, expired |-> fate.expired,
               cancelled |-> fate.cancelled]
  BY <1>1, <1>2, FateUpdates
<1>5. LoopsOK'
  BY <1>1, <1>2 DEF LoopsOK, LockFree
<1>6. \A k \in gone : k \in (1 .. next_loop - 1) \X (Nat \ {0}) /\ k[1] = h /\ Live(k)
  BY <1>1, <1>3 DEF LoopsOK, Registration, Live
<1>7. ToldOK'
  BY <1>1, <1>2, <1>4, <1>6 DEF ToldOK
<1>8. \A k : Live(k)' <=> Live(k) /\ k[1] # h
  BY <1>2 DEF Live
<1>9. LoopTimerOneFate'
  <2>1. \A k \in DOMAIN fate.fired : k \notin fate'.ended /\ ~Live(k)' /\ fate'.fired[k] = 1
    BY <1>1, <1>4, <1>6, <1>8 DEF LoopTimerOneFate
  <2>2. \A k \in fate'.ended : ~Live(k)'
    BY <1>1, <1>4, <1>6, <1>8 DEF LoopTimerOneFate
  <2>3. ASSUME NEW i \in DOMAIN loops \ {h}, NEW m \in 1 .. loops'[i].next_token - 1
        PROVE  Live(<<i, m>>)' \/ <<i, m>> \in DOMAIN fate.fired \cup fate'.ended
    <3>1. loops'[i] = loops[i] /\ <<i, m>>[1] = i
      BY <1>2
    <3> QED
      BY <1>1, <1>4, <1>8, <2>3, <3>1 DEF LoopTimerOneFate
  <2> QED
    BY <1>2, <1>4, <2>1, <2>2, <2>3 DEF LoopTimerOneFate
<1> QED
  BY <1>1, <1>2, <1>4, <1>5, <1>7, <1>9, TimerFrame DEF EventInv, OneFate

(* The timers that a poll reports are no longer registered when it returns, *)
(* and none of them was reported before.                                    *)
LEMMA PollLookInv == ASSUME EventInv, PollLook PROVE EventInv'
<1> DEFINE h == polling.handle
           due == {reg \in loops[h].regs : Due(reg)}
           keys == {<<h, reg.token>> : reg \in due}
<1>1. LoopsOK /\ ToldOK /\ TimersOK /\ LoopTimerOneFate /\ AnnouncedOnceOrCancelled
  BY DEF EventInv, OneFate
<1>2. /\ ~LockFree /\ polling' = NotPolling
      /\ loops' = [loops EXCEPT ![h].regs = @ \ due]
      /\ fate' = [fate EXCEPT !.fired = Fired(h, due)]
      /\ UNCHANGED <<now, next_loop, timers, next_timer>>
  BY DEF PollLook
<1>3. /\ h \in DOMAIN loops
      /\ loops[h] \in [regs : SUBSET Registration, next_token : Nat \ {0}]
  BY <1>1, <1>2 DEF LoopsOK
<1>4. /\ DOMAIN loops' = DOMAIN loops
      /\ loops'[h].regs = loops[h].regs \ due /\ loops'[h].next_token = loops[h].next_token
      /\ \A i \in DOMAIN loops \ {h} : loops'[i] = loops[i]
      /\ loops' \in [DOMAIN loops -> [regs : SUBSET Registration, next_token : Nat \ {0}]]
  BY <1>1, <1>2, <1>3 DEF LoopsOK
<1>5. fate' = [fired |-> Fired(h, due), ended |-> fate.ended,
               announced |-> fate.announced, expired |-> fate.expired,
               cancelled |-> fate.cancelled]
  BY <1>1, <1>2, FateUpdates
<1>6. \A k \in keys : /\ k \in (1 .. next_loop - 1) \X (Nat \ {0}) /\ k[1] = h
                      /\ k[2] < loops[h].next_token /\ Live(k)
  BY <1>1, <1>3 DEF LoopsOK, Registration, Live
<1>7. /\ DOMAIN fate'.fired = DOMAIN fate.fired \cup keys
      /\ \A k \in DOMAIN fate'.fired : fate'.fired[k] = 1
  <2>1. /\ DOMAIN Fired(h, due) = DOMAIN fate.fired \cup keys
        /\ \A k \in DOMAIN Fired(h, due) :
              Fired(h, due)[k] = (IF k \in DOMAIN fate.fired THEN fate.fired[k] ELSE 0)
                                 + (IF k \in keys THEN 1 ELSE 0)
    BY DEF Fired
  <2>2. /\ \A k \in DOMAIN fate.fired : k \notin keys
        /\ \A k \in DOMAIN fate.fired : fate.fired[k] = 1
    BY <1>1, <1>6 DEF LoopTimerOneFate
  <2>3. fate'.fired = Fired(h, due)
    BY <1>5
  <2> QED
    BY <2>1, <2>2, <2>3
<1>8. LoopsOK'
  <2>1. LockFree'
    BY <1>2 DEF LockFree, NotPolling
  <2> QED
    BY <1>1, <1>2, <1>3, <1>4, <2>1 DEF LoopsOK
<1>9. ToldOK'
  <2>1. fate'.fired \in [DOMAIN fate'.fired -> Nat]
    BY <1>5, <1>7 DEF Fired
  <2>2. \A k \in DOMAIN fate'.fired \cup fate'.ended :
            /\ k \in (1 .. next_loop - 1) \X (Nat \ {0})
            /\ k[1] \in DOMAIN loops' => k[2] < loops'[k[1]].next_token
    BY <1>1, <1>4, <1>5, <1>6, <1>7 DEF ToldOK
  <2> QED
    BY <1>2, <1>5, <2>1, <2>2 DEF ToldOK
<1>10. \A k \in (1 .. next_loop - 1) \X (Nat \ {0}) : Live(k)' <=> Live(k) /\ k \notin keys
  <2> TAKE k \in (1 .. next_loop - 1) \X (Nat \ {0})
  <2>1. CASE k[1] # h
    BY <1>4, <1>6, <2>1 DEF Live
  <2>2. CASE k[1] = h
    <3>1. k \in keys <=> \E reg \in due : reg.token = k[2]
      BY <2>2
    <3>2. \A r1, r2 \in loops[h].regs : r1.token = r2.token => r1 = r2
      BY <1>1, <1>3 DEF LoopsOK
    <3>3. Live(k) <=> \E reg \in loops[h].regs : reg.token = k[2]
      BY <1>3, <2>2 DEF Live
    <3>4. Live(k)' <=> \E reg \in loops[h].regs \ due : reg.token = k[2]
      BY <1>3, <1>4, <2>2 DEF Live
    <3> QED
      BY <3>1, <3>2, <3>3, <3>4
  <2> QED
    BY <2>1, <2>2
<1>11. LoopTimerOneFate'
  <2>1. \A k \in DOMAIN fate'.fired : k \notin fate'.ended /\ ~Live(k)'
    BY <1>1, <1>5, <1>6, <1>7, <1>10 DEF ToldOK, LoopTimerOneFate
  <2>2. \A k \in fate'.ended : ~Live(k)'
    BY <1>1, <1>5, <1>10 DEF ToldOK, LoopTimerOneFate
  <2>3. ASSUME NEW i \in DOMAIN loops, NEW m \in 1 .. loops'[i].next_token - 1
        PROVE  Live(<<i, m>>)' \/ <<i, m>> \in DOMAIN fate'.fired \cup fate'.ended
    <3>1. loops'[i].next_token = loops[i].next_token
      BY <1>4
    <3>2. <<i, m>> \in (1 .. next_loop - 1) \X (Nat \ {0})
      BY <1>1, <2>3, <3>1 DEF LoopsOK
    <3> QED
      BY <1>1, <1>5, <1>7, <1>10, <2>3, <3>1, <3>2 DEF LoopTimerOneFate
  <2> QED
    BY <1>4, <1>7, <2>1, <2>2, <2>3 DEF LoopTimerOneFate
<1> QED
  BY <1>1, <1>2, <1>5, <1>8, <1>9, <1>11, TimerFrame DEF EventInv, OneFate

(* The asynchronous timers: an id is told of at most once.                  *)
LEMMA SleepAsyncInv ==
    ASSUME EventInv, NEW len \in Lengths, SleepAsync(len)
    PROVE  EventInv'
<1> DEFINE n == next_timer
<1>1. LoopsOK /\ ToldOK /\ TimersOK /\ LoopTimerOneFate /\ AnnouncedOnceOrCancelled
  BY DEF EventInv, OneFate
<1>2. /\ next_timer' = n + 1 /\ n \in Nat \ {0} /\ now + len \in Nat
      /\ UNCHANGED <<now, loops, next_loop, polling, fate>>
  BY <1>1, LoopAssumption DEF SleepAsync, TimerStep, TimersOK, LoopsOK
<1>3. /\ DOMAIN timers' = DOMAIN timers \cup {n} /\ n \notin DOMAIN timers
      /\ timers'[n] = [due |-> now + len, state |-> "pending"]
      /\ \A i \in DOMAIN timers : timers'[i] = timers[i]
      /\ timers' \in [DOMAIN timers' -> [due : Nat, state : {"pending", "expired", "cancelled"}]]
  BY <1>1, <1>2 DEF SleepAsync, TimersOK
<1>4. fate.announced \in Seq(1 .. n)
  BY <1>1, <1>2 DEF TimersOK
<1>5. TimersOK'
  BY <1>1, <1>2, <1>3, <1>4 DEF TimersOK
<1>6. LoopsOK' /\ ToldOK' /\ LoopTimerOneFate'
  BY <1>1, <1>2 DEF LoopsOK, LockFree, ToldOK, LoopTimerOneFate, Live
<1> QED
  BY <1>1, <1>2, <1>5, <1>6 DEF EventInv, OneFate, AnnouncedOnceOrCancelled

(* A timer that a call finds pending or expired is not cancelled, and one   *)
(* that is cancelled was pending.                                           *)
LEMMA TimerCallsInv ==
    ASSUME EventInv, NEW id \in DOMAIN timers,
           CheckExpired(id) \/ CancelTimer(id) \/ PollExpired(id)
    PROVE  EventInv'
<1>1. LoopsOK /\ ToldOK /\ TimersOK /\ LoopTimerOneFate /\ AnnouncedOnceOrCancelled
  BY DEF EventInv, OneFate
<1>2. UNCHANGED <<now, loops, next_loop, polling, next_timer>>
  BY DEF CheckExpired, CancelTimer, PollExpired, TimerStep
<1>3. ASSUME NEW s \in {"pending", "expired", "cancelled"},
             timers' = [timers EXCEPT ![id].state = s]
      PROVE  /\ DOMAIN timers' = DOMAIN timers /\ timers'[id].state = s
             /\ \A i \in DOMAIN timers \ {id} : timers'[i] = timers[i]
             /\ timers' \in [DOMAIN timers -> [due : Nat, state : {"pending", "expired", "cancelled"}]]
  BY <1>1, <1>3 DEF TimersOK
<1>4. CASE CheckExpired(id)
  <2>1. /\ timers' = [timers EXCEPT ![id].state = "expired"]
        /\ timers[id].state \in {"pending", "expired"}
    BY <1>4 DEF CheckExpired, Expires
  <2>2. fate' = [fired |-> fate.fired, ended |-> fate.ended, announced |-> fate.announced,
                 expired |-> fate.expired \cup {id}, cancelled |-> fate.cancelled]
    BY <1>1, <1>4, FateUpdates DEF CheckExpired
  <2>3. TimersOK'
    BY <1>1, <1>2, <1>3, <2>1, <2>2 DEF TimersOK
  <2>4. AnnouncedOnceOrCancelled'
    BY <1>1, <2>1, <2>2 DEF AnnouncedOnceOrCancelled, TimersOK
  <2>5. LoopsOK' /\ ToldOK' /\ LoopTimerOneFate'
    BY <1>1, <1>2, <2>2, LoopFrame DEF LoopsOK
  <2> QED
    BY <2>3, <2>4, <2>5 DEF EventInv, OneFate
<1>5. CASE CancelTimer(id)
  <2>1. timers' = [timers EXCEPT ![id].state = "cancelled"] /\ timers[id].state = "pending"
    BY <1>5 DEF CancelTimer
  <2>2. fate' = [fired |-> fate.fired, ended |-> fate.ended, announced |-> fate.announced,
                 expired |-> fate.expired, cancelled |-> fate.cancelled \cup {id}]
    BY <1>1, <1>5, FateUpdates DEF CancelTimer
  <2>3. TimersOK'
    BY <1>1, <1>2, <1>3, <2>1, <2>2 DEF TimersOK
  <2>4. AnnouncedOnceOrCancelled'
    BY <1>1, <2>1, <2>2 DEF AnnouncedOnceOrCancelled, TimersOK
  <2>5. LoopsOK' /\ ToldOK' /\ LoopTimerOneFate'
    BY <1>1, <1>2, <2>2, LoopFrame DEF LoopsOK
  <2> QED
    BY <2>3, <2>4, <2>5 DEF EventInv, OneFate
<1>6. CASE PollExpired(id)
  <2> DEFINE told == Append(fate.announced, id)
  <2>1. timers' = [timers EXCEPT ![id].state = "expired"] /\ timers[id].state = "pending"
    BY <1>6 DEF PollExpired, Expires
  <2>2. fate' = [fired |-> fate.fired, ended |-> fate.ended, announced |-> told,
                 expired |-> fate.expired, cancelled |-> fate.cancelled]
    BY <1>1, <1>6, FateUpdates DEF PollExpired
  <2>3. /\ fate.announced \in Seq(1 .. next_timer - 1) /\ id \in 1 .. next_timer - 1
        /\ told \in Seq(1 .. next_timer - 1) /\ Len(told) = Len(fate.announced) + 1
        /\ \A i \in DOMAIN told : told[i] = IF i \in DOMAIN fate.announced
                                            THEN fate.announced[i] ELSE id
        /\ \A i, j \in DOMAIN told \ DOMAIN fate.announced : i = j
    BY <1>1 DEF TimersOK
  <2>4. \A i \in DOMAIN fate.announced : fate.announced[i] # id
    BY <1>1, <2>1 DEF TimersOK
  <2>5. TimersOK'
    <3> HIDE DEF told
    <3>1. \A i \in DOMAIN timers : \A m \in DOMAIN told :
              told[m] = i => i = id \/ \E j \in DOMAIN fate.announced : fate.announced[j] = i
      BY <2>3
    <3>2. \A i \in DOMAIN timers : timers'[i].state = "pending" =>
              i # id /\ timers[i].state = "pending"
      BY <1>3, <2>1
    <3>3. \A i \in DOMAIN timers : timers'[i].state = "expired" =>
              i = id \/ timers[i].state = "expired"
      BY <1>3, <2>1
    <3>4. \A i \in DOMAIN timers :
              /\ timers'[i].state = "pending" =>
                    /\ i \notin fate.expired \cup fate.cancelled
                    /\ \A m \in DOMAIN told : told[m] # i
              /\ timers'[i].state = "expired" => i \notin fate.cancelled
      BY <1>1, <2>1, <3>1, <3>2, <3>3 DEF TimersOK
    <3>5. fate'.announced = told /\ fate'.expired = fate.expired /\ fate'.cancelled = fate.cancelled
      BY <2>2
    <3> QED
      BY <1>1, <1>2, <1>3, <2>1, <2>3, <3>4, <3>5 DEF TimersOK
  <2>6. AnnouncedOnceOrCancelled'
    <3> HIDE DEF told
    <3>1. \A i, j \in DOMAIN told : told[i] = told[j] => i = j
      BY <1>1, <2>3, <2>4 DEF AnnouncedOnceOrCancelled
    <3>2. \A i \in DOMAIN told : told[i] \notin fate.cancelled
      BY <1>1, <2>1, <2>3 DEF AnnouncedOnceOrCancelled, TimersOK
    <3>3. fate'.announced = told /\ fate'.expired = fate.expired /\ fate'.cancelled = fate.cancelled
      BY <2>2
    <3> QED
      BY <1>1, <3>1, <3>2, <3>3 DEF AnnouncedOnceOrCancelled
  <2>7. LoopsOK' /\ ToldOK' /\ LoopTimerOneFate'
    BY <1>1, <1>2, <2>2, LoopFrame DEF LoopsOK
  <2> QED
    BY <2>5, <2>6, <2>7 DEF EventInv, OneFate
<1> QED
  BY <1>4, <1>5, <1>6

(* Removing a timer forgets it; its fate is kept.                          *)
LEMMA RemoveTimerInv ==
    ASSUME EventInv, NEW id \in DOMAIN timers, RemoveTimer(id)
    PROVE  EventInv'
<1>1. /\ timers' = [i \in DOMAIN timers \ {id} |-> timers[i]]
      /\ UNCHANGED <<now, loops, next_loop, polling, next_timer, fate>>
  BY DEF RemoveTimer, TimerStep
<1>2. TimersOK'
  BY <1>1 DEF EventInv, TimersOK
<1>3. LoopsOK' /\ ToldOK' /\ LoopTimerOneFate'
  BY <1>1 DEF EventInv, OneFate, LoopsOK, LockFree, ToldOK, LoopTimerOneFate, Live
<1> QED
  BY <1>1, <1>2, <1>3 DEF EventInv, OneFate, AnnouncedOnceOrCancelled

(* Every timer fires once or is cancelled, for all programs that use loops  *)
(* and asynchronous timers from any threads.                                *)
THEOREM TimersOneFate == EventSpec => []OneFate
<1>1. LoopInit => EventInv
  <2> SUFFICES ASSUME LoopInit
               PROVE  EventInv
    OBVIOUS
  <2>1. DOMAIN loops = {} /\ DOMAIN timers = {} /\ DOMAIN fate.fired = {} /\ fate.ended = {}
    BY DEF LoopInit
  <2>2. LoopsOK
    BY <2>1 DEF LoopInit, LoopsOK, LockFree, NotPolling
  <2>3. ToldOK
    BY <2>1 DEF LoopInit, ToldOK
  <2>4. TimersOK
    BY <2>1 DEF LoopInit, TimersOK
  <2>5. OneFate
    BY <2>1 DEF LoopInit, OneFate, LoopTimerOneFate, AnnouncedOnceOrCancelled
  <2> QED
    BY <2>2, <2>3, <2>4, <2>5 DEF EventInv
<1>2. EventInv /\ [LoopNext \/ TimerNext]_loopVars => EventInv'
  <2> SUFFICES ASSUME EventInv, [LoopNext \/ TimerNext]_loopVars
               PROVE  EventInv'
    OBVIOUS
  <2>1. LoopsOK /\ ToldOK /\ TimersOK /\ LoopTimerOneFate /\ AnnouncedOnceOrCancelled
    BY DEF EventInv, OneFate
  <2>2. ASSUME UNCHANGED <<loops, next_loop, timers, next_timer, fate>>,
               now' \in Nat,
               polling' = polling \/ (~LockFree' => polling'.handle \in DOMAIN loops)
        PROVE  EventInv'
    <3>1. LoopsOK'
      BY <2>1, <2>2 DEF LoopsOK, LockFree
    <3>2. ToldOK' /\ LoopTimerOneFate' /\ TimersOK' /\ AnnouncedOnceOrCancelled'
      BY <2>1, <2>2
         DEF ToldOK, LoopTimerOneFate, Live, TimersOK, AnnouncedOnceOrCancelled
    <3> QED
      BY <3>1, <3>2 DEF EventInv, OneFate
  <2>3. CASE Tick
    BY <2>1, <2>2, <2>3 DEF Tick, LoopsOK
  <2>4. ASSUME NEW p \in Pipes, PipeWrite(p) \/ PipeRead(p)
        PROVE  EventInv'
    BY <2>1, <2>2, <2>4 DEF PipeWrite, PipeRead, LoopsOK
  <2>5. ASSUME NEW h \in DOMAIN loops, NEW t, NEW until, StartPoll(t, h, until)
        PROVE  EventInv'
    BY <2>1, <2>2, <2>5 DEF StartPoll, LoopsOK
  <2>6. ASSUME NEW h \in DOMAIN loops, NEW len \in Lengths, RegisterTimer(h, len)
        PROVE  EventInv'
    <3>1. loops[h].next_token \in Nat \ {0} /\ now + len \in Nat
      BY <2>1, LoopAssumption DEF LoopsOK
    <3>2. Registered(loops[h].next_token, now + len) \in Registration
      BY <3>1 DEF Registered, Registration
    <3> QED
      BY <2>6, <3>2, RegisterInv DEF RegisterTimer
  <2>7. ASSUME NEW h \in DOMAIN loops, NEW p \in Pipes, RegisterFd(h, p)
        PROVE  EventInv'
    <3>1. loops[h].next_token \in Nat \ {0}
      BY <2>1 DEF LoopsOK
    <3>2. Monitored(loops[h].next_token, p) \in Registration
      BY <3>1 DEF Monitored, Registration
    <3> QED
      BY <2>7, <3>2, RegisterInv DEF RegisterFd
  <2>8. CASE UNCHANGED loopVars
    BY <2>1, <2>2, <2>8 DEF loopVars, LoopsOK
  <2>9. CASE LoopNext
    BY <2>3, <2>4, <2>5, <2>6, <2>7, <2>9, CreateLoopInv, PollLookInv, DeregisterInv, CloseLoopInv
       DEF LoopNext
  <2>10. CASE TimerNext
    BY <2>3, <2>10, SleepAsyncInv, TimerCallsInv, RemoveTimerInv DEF TimerNext
  <2> QED
    BY <2>8, <2>9, <2>10
<1>3. EventInv => OneFate
  BY DEF EventInv
<1> QED
  BY <1>1, <1>2, <1>3, PTL DEF EventSpec

-----------------------------------------------------------------------------
(* Requests to the network.                                                 *)

\* What was taken and is not lost.
Kept(i) ==
    \/ i \in seen.known \cup seen.refused
    \/ \E t \in NetThreads : thread[t].item = i /\ thread[t].id = seen.takenFor[i]
    \/ \E id \in DOMAIN requests : requests[id].result = i /\ id = seen.takenFor[i]
    \/ seen.takenFor[i] \in seen.raced

(* What a call leaves of the other threads.                                 *)
LEMMA ThreadsMove ==
    ASSUME NetTypeOK, NEW t \in NetThreads, NEW r, Becomes(t, r),
           netCalls' \in Nat, netCalls <= netCalls', r \in ThreadState(netCalls')
    PROVE  /\ thread' \in [NetThreads -> ThreadState(netCalls')]
           /\ thread'[t] = r
           /\ \A u \in NetThreads \ {t} : thread'[u] = thread[u]
<1>1. ThreadState(netCalls) \subseteq ThreadState(netCalls')
  BY DEF NetTypeOK, ThreadState
<1>2. thread \in [NetThreads -> ThreadState(netCalls')]
  BY <1>1 DEF NetTypeOK
<1> QED
  BY <1>2 DEF Becomes

(* The states of a thread, each built from the one before.                  *)
LEMMA RestState ==
    ASSUME NEW n \in Nat
    PROVE  AtRest \in ThreadState(n) /\ AtRest.at = "idle" /\ AtRest.item = NoItem
BY DEF ThreadState, AtRest, NoItem

(* The state of a thread at each stage of an attempt: it is well formed,    *)
(* and keeps the item it works on.                                         *)
LEMMA TryState ==
    ASSUME NEW n \in Nat, NEW d \in ThreadState(n), NEW id \in 0 .. n
    PROVE  LET r == [d EXCEPT !.at = "try", !.id = id]
           IN  r \in ThreadState(n) /\ r.at = "try" /\ r.id = id /\ r.item = d.item
BY DEF ThreadState

(* A poll that is about to look at the next of its requests.               *)
LEMMA NextState ==
    ASSUME NEW n \in Nat, NEW d \in ThreadState(n), NEW S \in SUBSET (1 .. n)
    PROVE  LET r == [d EXCEPT !.at = "next", !.poll = TRUE, !.todo = S]
           IN  r \in ThreadState(n) /\ r.at = "next" /\ r.item = d.item
BY DEF ThreadState

(* A poll that tries one of its requests.                                  *)
LEMMA PollTryState ==
    ASSUME NEW n \in Nat, NEW d \in ThreadState(n), NEW id \in 0 .. n
    PROVE  LET r == [d EXCEPT !.at = "try", !.id = id, !.todo = @ \ {id}]
           IN  r \in ThreadState(n) /\ r.at = "try" /\ r.item = d.item
<1> DEFINE T == d.todo \ {id}
<1>1. T \in SUBSET (1 .. n)
  BY DEF ThreadState
<1> HIDE DEF T
<1>2. [d EXCEPT !.at = "try", !.id = id, !.todo = T] \in ThreadState(n)
  BY <1>1 DEF ThreadState
<1>3. /\ [d EXCEPT !.at = "try", !.id = id, !.todo = T].at = "try"
      /\ [d EXCEPT !.at = "try", !.id = id, !.todo = T].item = d.item
  BY <1>1 DEF ThreadState
<1>4. [d EXCEPT !.at = "try", !.id = id, !.todo = @ \ {id}]
      = [d EXCEPT !.at = "try", !.id = id, !.todo = T]
  BY DEF T
<1> QED
  BY <1>2, <1>3, <1>4

(* A call that performs its operation on a connection.                     *)
LEMMA ActState ==
    ASSUME NEW n \in Nat, NEW d \in ThreadState(n), NEW k \in Operations, NEW c \in Nat
    PROVE  LET r == [d EXCEPT !.at = "act", !.kind = k, !.conn = c]
           IN  /\ r \in ThreadState(n) /\ r.at = "act" /\ r.id = d.id /\ r.item = d.item
               /\ r.kind = k /\ r.conn = c
BY DEF ThreadState

(* A stage that changes nothing but where the thread is.                   *)
LEMMA GoesTo ==
    ASSUME NEW n \in Nat, NEW d \in ThreadState(n), NEW a \in {"write", "finish", "tell"}
    PROVE  LET r == [d EXCEPT !.at = a]
           IN  /\ r \in ThreadState(n) /\ r.at = a /\ r.id = d.id /\ r.item = d.item
               /\ r.conn = d.conn
BY DEF ThreadState

(* Items and streams are as they were if no attempt begins to write.        *)
LEMMA ItemsFrame ==
    ASSUME ItemsOK, StreamsOK,
           sock'.inbound = sock.inbound, sock'.items = sock.items,
           held'.handles \subseteq held.handles, held'.streams = held.streams,
           held'.answers = held.answers,
           \A u \in NetThreads :
               /\ thread'[u].at = "write" =>
                      thread[u].at = "write" /\ thread'[u].conn = thread[u].conn
               /\ Reading(u)' => Reading(u) /\ thread'[u].item = thread[u].item
    PROVE  ItemsOK' /\ StreamsOK'
<1>1. Items' = Items /\ \A s : Inbound(s)' = Inbound(s)
  BY DEF Items, Inbound
<1>2. ItemsOK'
  BY <1>1 DEF ItemsOK, AnsweredOnce
<1>3. StreamsOK'
  BY <1>1 DEF StreamsOK
<1> QED
  BY <1>2, <1>3

(* A thread that holds nothing and goes to do something other than to       *)
(* attempt disturbs no attempt.                                             *)
LEMMA AttemptsFrame ==
    ASSUME AttemptsOK, NEW t \in NetThreads,
           requests' = requests, seen'.known = seen.known, seen'.raced = seen.raced,
           \A u \in NetThreads \ {t} : thread'[u] = thread[u],
           thread'[t].at \in {"idle", "try", "next", "block", "tell"},
           thread'[t].item = NoItem
    PROVE  AttemptsOK'
BY DEF AttemptsOK, Attempting, IsPending, NoItem

(* What is kept is not lost.                                                *)
LEMMA LostFrame ==
    ASSUME NothingIsLost,
           seen'.known = seen.known, seen'.refused = seen.refused, seen'.raced = seen.raced,
           seen'.takenFor = seen.takenFor,
           sock'.inbound = sock.inbound, sock'.items = sock.items,
           \A u \in NetThreads : \A i \in 1 .. sock.items :
               thread[u].item = i /\ thread[u].id = seen.takenFor[i] => Kept(i)',
           \A id \in DOMAIN requests : \A i \in 1 .. sock.items :
               requests[id].result = i /\ id = seen.takenFor[i] => Kept(i)'
    PROVE  NothingIsLost'
<1>1. \A s : Inbound(s)' = Inbound(s)
  BY DEF Inbound
<1> SUFFICES ASSUME NEW i \in 1 .. sock.items
             PROVE  \/ i \in seen.known \cup seen.refused
                    \/ \E s \in Waiting : i \in Inbound(s)
                    \/ Kept(i)'
  BY <1>1 DEF NothingIsLost, Kept
<1> QED
  BY DEF NothingIsLost, Kept

(* An attempt of serve sets the mode of its socket and nothing else.        *)
LEMMA LookedFacts ==
    ASSUME NetTypeOK, NEW s \in Waiting
    PROVE  /\ Looked(s) \in SockState
           /\ Looked(s).inbound = sock.inbound /\ Looked(s).items = sock.items
           /\ Looked(s).opened = sock.opened
           /\ sock.nonblocking \subseteq Looked(s).nonblocking
<1>1. sock \in SockState
  BY DEF NetTypeOK
<1>2. CASE s = "serve"
  BY <1>1, <1>2 DEF Looked, SockState, Waiting, Listening
<1>3. CASE s # "serve"
  BY <1>1, <1>3 DEF Looked
<1> QED
  BY <1>2, <1>3

(* An item is noted to be taken for a request.                              *)
LEMMA TakenForFacts ==
    ASSUME NEW e \in SeenState, NEW i \in 1 .. MaxItems, NEW id \in Nat
    PROVE  LET f == [e EXCEPT !.takenFor[i] = id]
           IN  /\ f \in SeenState /\ f.known = e.known /\ f.refused = e.refused
               /\ f.raced = e.raced /\ f.blocked = e.blocked
               /\ f.takenFor[i] = id
               /\ \A j \in 1 .. MaxItems : j # i => f.takenFor[j] = e.takenFor[j]
<1> DEFINE T == [e.takenFor EXCEPT ![i] = id]
<1>1. /\ T \in [1 .. MaxItems -> Nat] /\ T[i] = id
      /\ \A j \in 1 .. MaxItems : j # i => T[j] = e.takenFor[j]
  BY DEF SeenState
<1>2. [e EXCEPT !.takenFor[i] = id] = [e EXCEPT !.takenFor = T]
  BY DEF SeenState
<1> HIDE DEF T
<1> QED
  BY <1>1, <1>2 DEF SeenState

(* The parts of the inductive invariant, by name.                          *)
LEMMA NetParts ==
    ASSUME NetInv
    PROVE  /\ NetTypeOK /\ ItemsOK /\ StreamsOK /\ AttemptsOK /\ NothingIsLost
           /\ \A s \in Waiting : s \in sock.nonblocking \cup seen.blocked
BY DEF NetInv

(* Calls that only set a thread to work, and steps that end it.             *)
LEMMA ThreadOnlyInv ==
    ASSUME NetInv, NEW t \in NetThreads, NEW r, Becomes(t, r),
           netCalls' \in Nat, netCalls <= netCalls', r \in ThreadState(netCalls'),
           UNCHANGED <<requests, held, seen>>,
           sock' = sock \/ sock' = Looked(thread[t].kind),
           sock' = sock \/ thread[t].kind \in Waiting,
           r.at \in {"idle", "try", "next", "tell"}, r.item = NoItem,
           thread[t].item = NoItem \/ thread[t].at = "tell"
    PROVE  NetInv'
<1>1. /\ thread' \in [NetThreads -> ThreadState(netCalls')]
      /\ thread'[t] = r
      /\ \A u \in NetThreads \ {t} : thread'[u] = thread[u]
  BY NetParts, ThreadsMove
<1>2. /\ sock' \in SockState
      /\ sock'.inbound = sock.inbound /\ sock'.items = sock.items
      /\ sock.nonblocking \subseteq sock'.nonblocking
  BY NetParts, LookedFacts DEF NetTypeOK
<1>3. NetTypeOK'
  <2>1. Items' = Items
    BY <1>2 DEF Items
  <2>2. DOMAIN requests \subseteq 1 .. netCalls'
    BY NetParts DEF NetTypeOK
  <2>3. \A u \in NetThreads : PlaceOK(thread'[u])
    BY NetParts, <1>1 DEF NetTypeOK, PlaceOK
  <2> QED
    BY NetParts, <1>1, <1>2, <2>1, <2>2, <2>3 DEF NetTypeOK
<1>4. ItemsOK' /\ StreamsOK'
  BY NetParts, <1>1, <1>2, ItemsFrame DEF Reading
<1>5. AttemptsOK'
  BY NetParts, <1>1, AttemptsFrame
<1>6. NothingIsLost'
  <2>1. \A u \in NetThreads : \A i \in 1 .. sock.items :
            thread[u].item = i /\ thread[u].id = seen.takenFor[i] => Kept(i)'
    BY NetParts, <1>1 DEF AttemptsOK, NoItem, Kept
  <2>2. \A id \in DOMAIN requests : \A i \in 1 .. sock.items :
            requests[id].result = i /\ id = seen.takenFor[i] => Kept(i)'
    BY DEF Kept
  <2> QED
    BY NetParts, <1>2, <2>1, <2>2, LostFrame
<1> QED
  BY NetParts, <1>2, <1>3, <1>4, <1>5, <1>6 DEF NetInv

(* Asking for a request, going on with a poll, the end of an attempt, and   *)
(* an attempt or a blocking call that finds nothing.                        *)
LEMMA AskingInv ==
    ASSUME NetInv, NEW t \in NetThreads,
           \/ \E id \in DOMAIN requests : CheckReady(t, id)
           \/ PollReady(t) \/ PollNext(t) \/ Attempted(t) \/ WouldBlock(t) \/ BlockingFails(t)
    PROVE  NetInv'
<1> DEFINE d == thread[t]
           n == netCalls + 1
<1>1. /\ d \in ThreadState(netCalls) /\ netCalls \in Nat /\ n \in Nat
      /\ d.todo \in SUBSET (1 .. netCalls)
  BY NetParts DEF NetTypeOK, ThreadState
<1>2. /\ DOMAIN requests \subseteq 1 .. n /\ DOMAIN requests \subseteq 0 .. n
      /\ d.todo \subseteq 0 .. netCalls /\ netCalls <= n
  BY NetParts, <1>1 DEF NetTypeOK
<1>3. d.at \in {"idle", "next", "act", "block"} => d.item = NoItem
  BY NetParts DEF AttemptsOK
<1>4. ASSUME NEW id \in DOMAIN requests, CheckReady(t, id)
      PROVE  NetInv'
  <2>1. PICK r : r = [AtRest EXCEPT !.at = "try", !.id = id] /\ Becomes(t, r)
    BY <1>4 DEF CheckReady
  <2>2. netCalls' = n /\ d.at = "idle" /\ UNCHANGED <<requests, sock, held, seen>>
    BY <1>4 DEF CheckReady, NetCall
  <2>3. r \in ThreadState(n) /\ r.at = "try" /\ r.item = NoItem
    <3>1. id \in 0 .. n
      BY <1>2
    <3>2. n \in Nat /\ AtRest \in ThreadState(n) /\ AtRest.item = NoItem
      BY <1>1, RestState
    <3> HIDE DEF n
    <3> QED
      BY <2>1, <3>1, <3>2 DEF ThreadState
  <2>4. Becomes(t, r)
    BY <2>1
  <2> HIDE DEF n
  <2> QED
    BY <1>1, <1>2, <1>3, <2>2, <2>3, <2>4, ThreadOnlyInv
<1>5. CASE PollReady(t)
  <2>0. PICK S \in SUBSET (1 .. n) :
            Becomes(t, [AtRest EXCEPT !.at = "next", !.poll = TRUE, !.todo = S])
    BY <1>2, <1>5 DEF PollReady
  <2>1. PICK r :
            r = [AtRest EXCEPT !.at = "next", !.poll = TRUE, !.todo = S] /\ Becomes(t, r)
    BY <2>0
  <2>2. netCalls' = n /\ d.at = "idle" /\ UNCHANGED <<requests, sock, held, seen>>
    BY <1>5 DEF PollReady, NetCall
  <2>3. r \in ThreadState(n) /\ r.at = "next" /\ r.item = NoItem
    <3> HIDE DEF n
    <3> QED
      BY <1>1, <2>1, RestState, NextState
  <2>4. Becomes(t, r)
    BY <2>1
  <2> HIDE DEF n
  <2> QED
    BY <1>1, <1>2, <1>3, <2>2, <2>3, <2>4, ThreadOnlyInv
<1>6. CASE PollNext(t)
  <2>1. netCalls' = netCalls /\ d.at = "next" /\ UNCHANGED <<requests, sock, held, seen>>
    BY <1>6 DEF PollNext
  <2>2. ASSUME NEW id \in d.todo, NEW r, Becomes(t, r),
               r = [d EXCEPT !.at = "try", !.id = id, !.todo = @ \ {id}]
        PROVE  NetInv'
    <3>1. id \in 0 .. netCalls
      BY <1>2
    <3>2. r \in ThreadState(netCalls) /\ r.at = "try" /\ r.item = NoItem
      <4>1. d.item = NoItem
        BY <1>3, <2>1
      <4>2. /\ [d EXCEPT !.at = "try", !.id = id, !.todo = @ \ {id}] \in ThreadState(netCalls)
            /\ [d EXCEPT !.at = "try", !.id = id, !.todo = @ \ {id}].at = "try"
            /\ [d EXCEPT !.at = "try", !.id = id, !.todo = @ \ {id}].item = d.item
        <5> HIDE DEF d
        <5>1. d \in ThreadState(netCalls) /\ netCalls \in Nat
          BY <1>1
        <5> QED
          BY <3>1, <5>1, PollTryState, Zenon
      <4> QED
        BY <2>2, <4>1, <4>2
    <3>3. Becomes(t, r)
      BY <2>2
    <3> QED
      BY <1>1, <1>3, <2>1, <3>2, <3>3, ThreadOnlyInv
  <2>3. CASE Becomes(t, AtRest)
    BY <1>1, <1>3, <2>1, <2>3, RestState, ThreadOnlyInv
  <2> QED
    BY <1>6, <2>2, <2>3 DEF PollNext
<1>7. CASE Attempted(t)
  <2>1. netCalls' = netCalls /\ d.at = "tell" /\ UNCHANGED <<requests, sock, held, seen>>
    BY <1>7 DEF Attempted
  <2>2. PICK r : /\ Becomes(t, r)
                 /\ r = AtRest \/ r = [AtRest EXCEPT !.at = "next", !.poll = TRUE, !.todo = d.todo]
    BY <1>7 DEF Attempted
  <2>3. r \in ThreadState(netCalls) /\ r.at \in {"idle", "next"} /\ r.item = NoItem
    <3> DEFINE S == d.todo
    <3>1. S \in SUBSET (1 .. netCalls)
      BY <1>1
    <3>2. r = AtRest \/ r = [AtRest EXCEPT !.at = "next", !.poll = TRUE, !.todo = S]
      BY <2>2
    <3>3. AtRest \in ThreadState(netCalls) /\ AtRest.at = "idle" /\ AtRest.item = NoItem
      BY <1>1, RestState
    <3> HIDE DEF S
    <3>4. CASE r = [AtRest EXCEPT !.at = "next", !.poll = TRUE, !.todo = S]
      BY <1>1, <3>1, <3>3, <3>4 DEF ThreadState
    <3> QED
      BY <3>2, <3>3, <3>4
  <2>4. Becomes(t, r)
    BY <2>2
  <2> QED
    BY <1>1, <2>1, <2>3, <2>4, ThreadOnlyInv
<1>8. CASE WouldBlock(t)
  <2>1. PICK r : r = [d EXCEPT !.at = "tell"] /\ Becomes(t, r)
    BY <1>8 DEF WouldBlock
  <2>2. /\ netCalls' = netCalls /\ d.at = "act" /\ d.kind \in Waiting
        /\ sock' = Looked(d.kind)
        /\ UNCHANGED <<requests, held, seen>>
    BY <1>8 DEF WouldBlock
  <2>3. r \in ThreadState(netCalls) /\ r.at = "tell" /\ r.item = NoItem
    <3>1. d.item = NoItem
      BY <1>3, <2>2
    <3> HIDE DEF d
    <3> QED
      BY <1>1, <2>1, <3>1, GoesTo
  <2>4. Becomes(t, r)
    BY <2>1
  <2> QED
    BY <1>1, <1>3, <2>2, <2>3, <2>4, ThreadOnlyInv
<1>9. CASE BlockingFails(t)
  <2>1. /\ netCalls' = netCalls /\ d.at = "block" /\ Becomes(t, AtRest)
        /\ UNCHANGED <<requests, sock, held, seen>>
    BY <1>9 DEF BlockingFails
  <2> QED
    BY <1>1, <1>3, <2>1, RestState, ThreadOnlyInv
<1> QED
  BY <1>4, <1>5, <1>6, <1>7, <1>8, <1>9

(* An attempt that goes on is still the only one.                           *)
LEMMA AttemptGoesOn ==
    ASSUME AttemptsOK, NEW t \in NetThreads,
           requests' = requests, seen'.raced = seen.raced, seen'.known = seen.known,
           \A u \in NetThreads \ {t} : thread'[u] = thread[u],
           Attempting(t), thread'[t].at \in {"parse", "write", "finish"},
           thread'[t].id = thread[t].id,
           thread'[t].at = "write" => thread'[t].item = NoItem
    PROVE  AttemptsOK'
BY DEF AttemptsOK, Attempting, IsPending

(* Something arrives with a number of its own.                              *)
LEMMA ArriveInv ==
    ASSUME NetInv, NEW s \in Waiting, Arrive(s)
    PROVE  NetInv'
<1> DEFINE n == sock.items + 1
<1>1. NetTypeOK /\ ItemsOK /\ StreamsOK /\ sock \in SockState /\ sock.items \in Nat
  BY NetParts, NetAssumption DEF NetTypeOK, SockState
<1>2. /\ sock.items < MaxItems
      /\ sock' = [sock EXCEPT !.items = @ + 1, !.inbound[s] = Append(@, n)]
      /\ UNCHANGED <<requests, held, thread, seen, netCalls>>
  BY DEF Arrive
<1>3. /\ sock' \in SockState /\ sock'.items = n /\ sock'.nonblocking = sock.nonblocking
      /\ sock'.inbound = [sock.inbound EXCEPT ![s] = Append(sock.inbound[s], n)]
  <2> DEFINE F == [sock.inbound EXCEPT ![s] = Append(sock.inbound[s], n)]
  <2>1. F \in [Waiting -> Seq(Nat)]
    BY <1>1 DEF SockState
  <2>2. sock' = [sock EXCEPT !.items = n, !.inbound = F]
    BY <1>1, <1>2 DEF SockState
  <2>3. n \in 0 .. MaxItems
    BY <1>1, <1>2, NetAssumption
  <2> HIDE DEF F, n
  <2>4. sock' \in SockState
    BY <1>1, <2>1, <2>2, <2>3, Zenon DEF SockState
  <2>5. sock'.items = n /\ sock'.nonblocking = sock.nonblocking /\ sock'.inbound = F
    BY <1>1, <2>2 DEF SockState
  <2> QED
    BY <2>4, <2>5 DEF F
<1>4. Items \subseteq Items' /\ Items' = Items \cup {n} /\ n \notin Items
  BY <1>1, <1>3 DEF Items
<1>5. NetTypeOK'
  BY <1>1, <1>2, <1>3, <1>4 DEF NetTypeOK
<1>6. /\ sock'.inbound[s] = Append(sock.inbound[s], n)
      /\ \A r \in Waiting \ {s} : sock'.inbound[r] = sock.inbound[r]
      /\ sock.inbound[s] \in Seq(Nat)
  BY <1>1, <1>3 DEF SockState
<1>7. /\ \A r \in Waiting : \A m \in DOMAIN sock'.inbound[r] :
            \/ m \in DOMAIN sock.inbound[r] /\ sock'.inbound[r][m] = sock.inbound[r][m]
            \/ r = s /\ m = Len(sock.inbound[s]) + 1 /\ sock'.inbound[r][m] = n
      /\ \A r \in Waiting : \A m \in DOMAIN sock.inbound[r] :
            m \in DOMAIN sock'.inbound[r] /\ sock'.inbound[r][m] = sock.inbound[r][m]
      /\ Len(sock.inbound[s]) + 1 \in DOMAIN sock'.inbound[s]
      /\ sock'.inbound[s][Len(sock.inbound[s]) + 1] = n
  <2> DEFINE q == sock.inbound[s]
  <2>1. /\ q \in Seq(Nat) /\ DOMAIN q = 1 .. Len(q) /\ Len(q) \in Nat
        /\ DOMAIN Append(q, n) = 1 .. Len(q) + 1
        /\ Append(q, n)[Len(q) + 1] = n
        /\ \A m \in 1 .. Len(q) : Append(q, n)[m] = q[m]
    BY <1>1, <1>6
  <2>2. \A m \in 1 .. Len(q) + 1 : m \in 1 .. Len(q) \/ m = Len(q) + 1
    BY <2>1
  <2>3. sock'.inbound[s] = Append(q, n) /\ \A r \in Waiting \ {s} : sock'.inbound[r] = sock.inbound[r]
    BY <1>6
  <2>4. Len(q) + 1 \in DOMAIN Append(q, n) /\ \A m \in DOMAIN q : m \in DOMAIN Append(q, n)
    BY <2>1
  <2>5. \A m \in DOMAIN sock'.inbound[s] :
            \/ m \in DOMAIN q /\ sock'.inbound[s][m] = q[m]
            \/ m = Len(q) + 1 /\ sock'.inbound[s][m] = n
    <3> DEFINE w == Append(q, n)
               l == Len(q) + 1
    <3>1. /\ DOMAIN w = 1 .. l /\ w[l] = n /\ \A m \in DOMAIN q : w[m] = q[m]
          /\ \A m \in 1 .. l : m \in DOMAIN q \/ m = l
      BY <2>1, <2>2
    <3>2. sock'.inbound[s] = w
      BY <2>3
    <3> HIDE DEF w, l, q
    <3>3. \A m \in DOMAIN sock'.inbound[s] :
              \/ m \in DOMAIN q /\ sock'.inbound[s][m] = q[m]
              \/ m = l /\ sock'.inbound[s][m] = n
      BY <3>1, <3>2
    <3>4. l = Len(q) + 1
      BY DEF l
    <3> QED
      BY <3>3, <3>4
  <2>6. \A m \in DOMAIN q : m \in DOMAIN sock'.inbound[s] /\ sock'.inbound[s][m] = q[m]
    BY <2>1, <2>3, <2>4
  <2> QED
    BY <2>1, <2>3, <2>4, <2>5, <2>6
<1>8. ItemsOK'
  <2>1. ASSUME NEW r \in Waiting, NEW m \in DOMAIN sock'.inbound[r]
        PROVE  /\ sock'.inbound[r][m] \in Items' \ (held.handles \cup held.streams)
               /\ \A q \in Waiting : \A k \in DOMAIN sock'.inbound[q] :
                     sock'.inbound[r][m] = sock'.inbound[q][k] => r = q /\ m = k
               /\ \A t \in NetThreads :
                     /\ thread[t].at = "write" => thread[t].conn # sock'.inbound[r][m]
                     /\ Reading(t) => thread[t].item # sock'.inbound[r][m]
    <3>1. held.handles \cup held.streams \subseteq Items
      BY <1>1 DEF NetTypeOK
    <3>2. \A q \in Waiting : \A k \in DOMAIN sock.inbound[q] : sock.inbound[q][k] \in Items
      BY <1>1 DEF ItemsOK
    <3>3. \A t \in NetThreads : /\ thread[t].at = "write" => thread[t].conn \in Items
                                /\ Reading(t) => thread[t].item \in Items
      BY <1>1 DEF StreamsOK
    <3>4. CASE m \in DOMAIN sock.inbound[r] /\ sock'.inbound[r][m] = sock.inbound[r][m]
      BY <1>1, <1>4, <1>7, <3>2, <3>4 DEF ItemsOK
    <3>5. CASE r = s /\ m = Len(sock.inbound[s]) + 1 /\ sock'.inbound[r][m] = n
      BY <1>4, <1>7, <3>1, <3>2, <3>3, <3>5
    <3> QED
      BY <1>7, <2>1, <3>4, <3>5
  <2>2. ASSUME NEW i \in 1 .. MaxItems,
               \/ i \in held.streams \/ i \notin Items'
               \/ \E r \in Waiting : i \in Inbound(r)'
        PROVE  held.answers[i] = 0
    <3>1. \A r \in Waiting : i \in Inbound(r)' => i = n \/ i \in Inbound(r)
      BY <1>7 DEF Inbound
    <3> QED
      BY <1>1, <1>4, <2>2, <3>1 DEF ItemsOK
  <2> QED
    BY <1>1, <1>2, <2>1, <2>2 DEF ItemsOK, AnsweredOnce, Reading
<1>9. StreamsOK'
  BY <1>1, <1>2, <1>4 DEF StreamsOK, Reading
<1>10. AttemptsOK'
  BY NetParts, <1>2 DEF AttemptsOK, Attempting, IsPending
<1>11. NothingIsLost'
  <2> SUFFICES ASSUME NEW i \in 1 .. n
               PROVE  Kept(i) \/ \E r \in Waiting : i \in Inbound(r)'
    BY <1>2, <1>3 DEF NothingIsLost, Kept
  <2>1. CASE i = n
    BY <1>7, <2>1 DEF Inbound
  <2>2. CASE i \in 1 .. sock.items
    <3>1. \A r \in Waiting : i \in Inbound(r) => i \in Inbound(r)'
      BY <1>7 DEF Inbound
    <3> QED
      BY NetParts, <2>2, <3>1 DEF NothingIsLost, Kept
  <2> QED
    BY <1>1, <2>1, <2>2
<1> QED
  BY NetParts, <1>2, <1>3, <1>5, <1>8, <1>9, <1>10, <1>11 DEF NetInv

(* A new request has an id no thread works at.                              *)
LEMMA StartRequestInv ==
    ASSUME NetInv, NEW t \in NetThreads, NEW k \in Operations,
           NEW c \in held.handles \cup {NoItem}, StartRequest(t, k, c)
    PROVE  NetInv'
<1> DEFINE n == netCalls + 1
           request == [kind |-> k, conn |-> c, state |-> "pending", result |-> NoItem]
<1>1. /\ netCalls \in Nat /\ n \in Nat /\ netCalls <= n /\ c \in Nat
      /\ DOMAIN requests \subseteq 1 .. netCalls
      /\ \A u \in NetThreads : thread[u].id # n
  <2>1. NetTypeOK
    BY NetParts
  <2>2. held.handles \subseteq Nat
    BY <2>1 DEF NetTypeOK, Items
  <2>3. \A u \in NetThreads : thread[u].id \in 0 .. netCalls
    BY <2>1 DEF NetTypeOK, ThreadState
  <2> QED
    BY <2>1, <2>2, <2>3 DEF NetTypeOK, NoItem
<1>2. PICK r : r = [AtRest EXCEPT !.at = "try", !.id = n] /\ Becomes(t, r)
  BY DEF StartRequest
<1>3. /\ netCalls' = n /\ thread[t].at = "idle" /\ UNCHANGED <<sock, held, seen>>
      /\ requests' = [i \in DOMAIN requests \cup {n} |-> IF i = n THEN request ELSE requests[i]]
  BY DEF StartRequest, NetCall
<1>4. r \in ThreadState(n) /\ r.at = "try" /\ r.item = NoItem
  <2>1. n \in 0 .. n /\ AtRest \in ThreadState(n) /\ AtRest.item = NoItem
    BY <1>1, RestState
  <2> HIDE DEF n
  <2> QED
    BY <1>1, <1>2, <2>1 DEF ThreadState
<1>5. Becomes(t, r)
  BY <1>2
<1>6. request \in Request /\ request.state = "pending" /\ request.result = NoItem
  BY <1>1 DEF Request, NoItem
<1>7. /\ DOMAIN requests' = DOMAIN requests \cup {n} /\ n \notin DOMAIN requests
      /\ requests'[n] = request /\ \A i \in DOMAIN requests : requests'[i] = requests[i]
  BY <1>1, <1>3
<1> HIDE DEF n, request
<1>8. /\ thread' \in [NetThreads -> ThreadState(netCalls')]
      /\ thread'[t] = r
      /\ \A u \in NetThreads \ {t} : thread'[u] = thread[u]
  BY NetParts, <1>1, <1>3, <1>4, <1>5, ThreadsMove
<1>9. NetTypeOK'
  <2>1. requests' \in [DOMAIN requests' -> Request]
    BY NetParts, <1>3, <1>6, <1>7 DEF NetTypeOK
  <2>2. DOMAIN requests' \subseteq 1 .. netCalls'
    BY <1>1, <1>3, <1>7 DEF n
  <2>3. Items' = Items
    BY <1>3 DEF Items
  <2>4. \A u \in NetThreads : PlaceOK(thread'[u])
    BY NetParts, <1>4, <1>8 DEF NetTypeOK, PlaceOK
  <2> QED
    BY NetParts, <1>1, <1>3, <1>8, <2>1, <2>2, <2>3, <2>4 DEF NetTypeOK
<1>10. ItemsOK' /\ StreamsOK'
  BY NetParts, <1>3, <1>4, <1>8, ItemsFrame DEF Reading
<1>11. AttemptsOK'
  <2>1. AttemptsOK
    BY NetParts
  <2>2. \A id \in DOMAIN requests' : requests'[id].state # "ready" => requests'[id].result = NoItem
    BY <1>6, <1>7, <2>1 DEF AttemptsOK
  <2>3. seen' = seen /\ ~Attempting(t)'
    BY <1>3, <1>4, <1>8 DEF Attempting
  <2>4. \A u \in NetThreads : Attempting(u)' => Attempting(u) /\ thread'[u] = thread[u]
    BY <1>8, <2>3 DEF Attempting
  <2>5. \A i : IsPending(i) => IsPending(i)'
    BY <1>7 DEF IsPending
  <2>6. \A u \in NetThreads : thread'[u].at = "tell" => thread'[u] = thread[u]
    BY <1>4, <1>8
  <2>7. \A u \in NetThreads :
            thread'[u].at \in {"idle", "try", "act", "write", "next", "block"} => thread'[u].item = NoItem
    BY <1>4, <1>8, <2>1 DEF AttemptsOK
  <2> QED
    BY <1>7, <2>1, <2>2, <2>3, <2>4, <2>5, <2>6, <2>7 DEF AttemptsOK
<1>12. NothingIsLost'
  <2>1. thread[t].item = NoItem
    BY NetParts, <1>3 DEF AttemptsOK
  <2>2. \A u \in NetThreads : \A i \in 1 .. sock.items :
            thread[u].item = i /\ thread[u].id = seen.takenFor[i] => Kept(i)'
    BY <1>3, <1>8, <2>1 DEF NoItem, Kept
  <2>3. \A id \in DOMAIN requests : \A i \in 1 .. sock.items :
            requests[id].result = i /\ id = seen.takenFor[i] => Kept(i)'
    BY <1>3, <1>7 DEF Kept
  <2>4. seen' = seen /\ sock' = sock
    BY <1>3
  <2> QED
    BY NetParts, <2>2, <2>3, <2>4, LostFrame
<1> QED
  BY NetParts, <1>3, <1>9, <1>10, <1>11, <1>12 DEF NetInv

(* The program learns of a result.                                          *)
LEMMA GetResultInv ==
    ASSUME NetInv, NEW t \in NetThreads, NEW id \in DOMAIN requests, GetResult(t, id)
    PROVE  NetInv'
<1>1. /\ UNCHANGED <<requests, sock, held, thread, netCalls>>
      /\ seen' = [seen EXCEPT !.known = @ \cup {requests[id].result}]
  BY DEF GetResult
<1>2. requests[id].result \in Nat
  BY NetParts DEF NetTypeOK, Request
<1>3. /\ seen.known \subseteq seen'.known /\ seen'.known \subseteq Nat
      /\ seen'.refused = seen.refused /\ seen'.blocked = seen.blocked /\ seen'.raced = seen.raced
      /\ seen'.takenFor = seen.takenFor
      /\ seen' \in SeenState
  BY NetParts, <1>1, <1>2 DEF NetTypeOK, SeenState
<1>4. NetTypeOK'
  BY NetParts, <1>1, <1>3 DEF NetTypeOK, Items
<1>5. ItemsOK' /\ StreamsOK'
  BY NetParts, <1>1, ItemsFrame DEF Reading
<1>6. AttemptsOK'
  BY NetParts, <1>1, <1>3 DEF AttemptsOK, Attempting, IsPending
<1>7. NothingIsLost'
  BY NetParts, <1>1, <1>3 DEF NothingIsLost, Inbound
<1> QED
  BY NetParts, <1>1, <1>3, <1>4, <1>5, <1>6, <1>7 DEF NetInv

(* A request that is removed has no result the program does not know, and   *)
(* no attempt, unless this is noted.                                        *)
LEMMA RemoveRequestInv ==
    ASSUME NetInv, NEW t \in NetThreads, NEW id \in DOMAIN requests, RemoveRequest(t, id)
    PROVE  NetInv'
<1>1. /\ UNCHANGED <<sock, held, thread, netCalls>>
      /\ requests' = [i \in DOMAIN requests \ {id} |-> requests[i]]
      /\ requests[id].state = "ready" => requests[id].result \in seen.known
      /\ seen' = [seen EXCEPT !.raced = IF AttemptsAt(id) = {} THEN @ ELSE @ \cup {id}]
  BY DEF RemoveRequest
<1>2. /\ seen'.known = seen.known /\ seen'.refused = seen.refused
      /\ seen'.blocked = seen.blocked /\ seen'.takenFor = seen.takenFor
      /\ seen.raced \subseteq seen'.raced /\ seen'.raced \subseteq seen.raced \cup {id}
      /\ AttemptsAt(id) # {} => id \in seen'.raced
      /\ seen' \in SeenState
  <2>1. id \in Nat /\ seen \in SeenState
    BY NetParts DEF NetTypeOK
  <2> QED
    BY <1>1, <2>1 DEF SeenState
<1>3. /\ DOMAIN requests' = DOMAIN requests \ {id}
      /\ \A i \in DOMAIN requests' : requests'[i] = requests[i]
  BY <1>1
<1>4. requests[id].result = NoItem \/ requests[id].result \in seen.known
  BY NetParts, <1>1 DEF AttemptsOK
<1>5. NetTypeOK'
  <2>1. requests' \in [DOMAIN requests' -> Request] /\ DOMAIN requests' \subseteq 1 .. netCalls
    BY NetParts, <1>1, <1>3 DEF NetTypeOK
  <2> QED
    BY NetParts, <1>1, <1>2, <2>1 DEF NetTypeOK, Items
<1>6. ItemsOK' /\ StreamsOK'
  BY NetParts, <1>1, ItemsFrame DEF Reading
<1>7. AttemptsOK'
  <2>1. \A u \in NetThreads : Attempting(u) => thread[u].id # id \/ id \in seen'.raced
    BY <1>2 DEF AttemptsAt
  <2>2. AttemptsOK
    BY NetParts
  <2>3. \A u \in NetThreads :
            thread[u].at = "tell" /\ thread[u].item # NoItem /\ thread[u].id = id
            => thread[u].item \in seen.known \/ thread[u].id \in seen.raced
    BY <1>4, <2>2 DEF AttemptsOK
  <2> QED
    BY <1>1, <1>2, <1>3, <2>1, <2>2, <2>3 DEF AttemptsOK, Attempting, IsPending
<1>8. NothingIsLost'
  <2> SUFFICES ASSUME NEW i \in 1 .. sock.items
               PROVE  Kept(i)' \/ \E s \in Waiting : i \in Inbound(s)
    BY <1>1, <1>2 DEF NothingIsLost, Kept, Inbound
  <2>1. Kept(i) \/ \E s \in Waiting : i \in Inbound(s)
    BY NetParts DEF NothingIsLost, Kept
  <2>2. requests[id].result = i => i \in seen.known
    BY <1>4 DEF NoItem
  <2> QED
    BY <1>1, <1>2, <1>3, <2>1, <2>2 DEF Kept
<1> QED
  BY NetParts, <1>1, <1>2, <1>5, <1>6, <1>7, <1>8 DEF NetInv

(* Closing takes nothing away but the socket or the handle.                 *)
LEMMA CloseInv ==
    ASSUME NetInv, NEW t \in NetThreads,
           \/ \E s \in Waiting : CloseSocket(t, s)
           \/ \E h \in held.handles : CloseHandle(t, h)
    PROVE  NetInv'
<1>1. /\ UNCHANGED <<requests, thread, seen>> /\ netCalls' = netCalls + 1
      /\ \/ held' = held /\ \E s \in Waiting : sock' = [sock EXCEPT !.opened = @ \ {s}]
         \/ sock' = sock /\ \E h \in held.handles : held' = [held EXCEPT !.handles = @ \ {h}]
  BY DEF CloseSocket, CloseHandle, NetCall
<1>2. /\ sock' \in SockState /\ sock'.inbound = sock.inbound /\ sock'.items = sock.items
      /\ sock'.nonblocking = sock.nonblocking
  BY NetParts, <1>1 DEF NetTypeOK, SockState
<1>3. /\ held'.streams = held.streams /\ held'.answers = held.answers
      /\ held'.handles \subseteq held.handles
      /\ held' \in [handles : SUBSET Items, streams : SUBSET Items,
                    answers : [1 .. MaxItems -> Nat]]
  BY NetParts, <1>1 DEF NetTypeOK
<1>4. NetTypeOK'
  <2>1. /\ netCalls + 1 \in Nat /\ 1 .. netCalls \subseteq 1 .. netCalls + 1
        /\ ThreadState(netCalls) \subseteq ThreadState(netCalls + 1)
    BY NetParts DEF NetTypeOK, ThreadState
  <2>2. Items' = Items
    BY <1>2 DEF Items
  <2> QED
    BY NetParts, <1>1, <1>2, <1>3, <2>1, <2>2 DEF NetTypeOK
<1>5. ItemsOK' /\ StreamsOK'
  BY NetParts, <1>1, <1>2, <1>3, ItemsFrame DEF Reading
<1>6. AttemptsOK'
  BY NetParts, <1>1 DEF AttemptsOK, Attempting, IsPending
<1>7. NothingIsLost'
  BY NetParts, <1>1, <1>2 DEF NothingIsLost, Inbound
<1> QED
  BY NetParts, <1>1, <1>2, <1>4, <1>5, <1>6, <1>7 DEF NetInv

(* A request is tried once at a time, unless this is noted.                 *)
LEMMA TryCompleteInv ==
    ASSUME NetInv, NEW t \in NetThreads, TryComplete(t)
    PROVE  NetInv'
<1> DEFINE d == thread[t]
<1>1. /\ d.at = "try" /\ d.item = NoItem
      /\ UNCHANGED <<requests, sock, held, netCalls>>
      /\ d \in ThreadState(netCalls) /\ netCalls \in Nat
  BY NetParts DEF TryComplete, AttemptsOK, NetTypeOK
<1>2. /\ seen'.known = seen.known /\ seen'.refused = seen.refused
      /\ seen'.blocked = seen.blocked /\ seen'.takenFor = seen.takenFor
      /\ seen.raced \subseteq seen'.raced
      /\ IsPending(d.id) /\ AttemptsAt(d.id) # {} => d.id \in seen'.raced
      /\ seen' \in SeenState
  <2> DEFINE R == IF IsPending(d.id) /\ AttemptsAt(d.id) # {}
                  THEN seen.raced \cup {d.id} ELSE seen.raced
  <2>1. d.id \in Nat /\ seen \in SeenState
    BY NetParts, <1>1 DEF NetTypeOK, ThreadState
  <2>2. seen' = [seen EXCEPT !.raced = R]
    BY <2>1 DEF TryComplete, SeenState
  <2>3. /\ R \in SUBSET Nat /\ seen.raced \subseteq R
        /\ IsPending(d.id) /\ AttemptsAt(d.id) # {} => d.id \in R
    BY <2>1 DEF SeenState
  <2> HIDE DEF R
  <2> QED
    BY <2>1, <2>2, <2>3 DEF SeenState
<1>3. PICK r : /\ Becomes(t, r) /\ r \in ThreadState(netCalls) /\ r.id = d.id /\ r.item = NoItem
               /\ r.at = "tell" \/ (r.at = "act" /\ IsPending(d.id))
  <2>1. CASE IsPending(d.id) /\ Becomes(t, [d EXCEPT !.at = "act", !.kind = requests[d.id].kind,
                                                     !.conn = requests[d.id].conn])
    <3>1. PICK k, c : k = requests[d.id].kind /\ c = requests[d.id].conn
      OBVIOUS
    <3>2. k \in Operations /\ c \in Nat
      BY NetParts, <2>1, <3>1 DEF IsPending, NetTypeOK, Request
    <3>3. Becomes(t, [d EXCEPT !.at = "act", !.kind = k, !.conn = c])
      BY <2>1, <3>1
    <3>4. IsPending(d.id)
      BY <2>1
    <3> HIDE DEF d
    <3>5. d \in ThreadState(netCalls) /\ netCalls \in Nat /\ d.item = NoItem
      BY <1>1
    <3>6. PICK r : r = [d EXCEPT !.at = "act", !.kind = k, !.conn = c] /\ Becomes(t, r)
      BY <3>3
    <3>7. r \in ThreadState(netCalls) /\ r.at = "act" /\ r.id = d.id /\ r.item = NoItem
      BY <3>2, <3>5, <3>6 DEF ThreadState
    <3> QED
      BY <3>4, <3>6, <3>7
  <2>2. CASE Becomes(t, [d EXCEPT !.at = "tell"])
    <3> HIDE DEF d
    <3> QED
      BY <1>1, <2>2, GoesTo
  <2> QED
    BY <2>1, <2>2 DEF TryComplete
<1>4. /\ thread' \in [NetThreads -> ThreadState(netCalls')]
      /\ thread'[t] = r
      /\ \A u \in NetThreads \ {t} : thread'[u] = thread[u]
  BY NetParts, <1>1, <1>3, ThreadsMove
<1>5. NetTypeOK'
  BY NetParts, <1>1, <1>2, <1>3, <1>4 DEF NetTypeOK, Items, PlaceOK
<1>6. ItemsOK' /\ StreamsOK'
  BY NetParts, <1>1, <1>3, <1>4, ItemsFrame DEF Reading
<1>7. AttemptsOK'
  <2>1. AttemptsOK
    BY NetParts
  <2>2. r.at = "act" =>
            \A u \in NetThreads : Attempting(u) => thread[u].id # d.id \/ d.id \in seen'.raced
    BY <1>2, <1>3 DEF AttemptsAt
  <2> QED
    BY <1>1, <1>2, <1>3, <1>4, <2>1, <2>2 DEF AttemptsOK, Attempting, IsPending
<1>8. NothingIsLost'
  <2>1. \A u \in NetThreads : thread'[u].item = thread[u].item /\ thread'[u].id = thread[u].id
    BY <1>1, <1>3, <1>4
  <2> QED
    BY NetParts, <1>1, <1>2, <2>1 DEF NothingIsLost, Inbound
<1> QED
  BY NetParts, <1>1, <1>2, <1>5, <1>6, <1>7, <1>8 DEF NetInv

(* An attempt that ends with an error holds nothing.                        *)
LEMMA SocketFailsInv ==
    ASSUME NetInv, NEW t \in NetThreads, SocketFails(t)
    PROVE  NetInv'
<1> DEFINE d == thread[t]
<1>1. /\ d.at = "act" /\ d.item = NoItem /\ d.kind \in Waiting /\ Attempting(t)
      /\ UNCHANGED <<requests, held, seen, netCalls>>
      /\ d \in ThreadState(netCalls) /\ netCalls \in Nat /\ sock' = Looked(d.kind)
  BY NetParts DEF SocketFails, AttemptsOK, NetTypeOK, Attempting
<1>2. PICK r : /\ Becomes(t, r) /\ r \in ThreadState(netCalls) /\ r.id = d.id /\ r.item = NoItem
               /\ r.at = "finish"
  <2>1. Becomes(t, [d EXCEPT !.at = "finish"])
    BY DEF SocketFails
  <2> HIDE DEF d
  <2> QED
    BY <1>1, <2>1, GoesTo
<1>3. /\ thread' \in [NetThreads -> ThreadState(netCalls')]
      /\ thread'[t] = r
      /\ \A u \in NetThreads \ {t} : thread'[u] = thread[u]
  BY NetParts, <1>1, <1>2, ThreadsMove
<1>4. /\ sock' \in SockState
      /\ sock'.inbound = sock.inbound /\ sock'.items = sock.items
      /\ sock.nonblocking \subseteq sock'.nonblocking
  BY NetParts, <1>1, LookedFacts
<1>5. NetTypeOK'
  BY NetParts, <1>1, <1>2, <1>3, <1>4 DEF NetTypeOK, Items, PlaceOK
<1>6. ItemsOK' /\ StreamsOK'
  BY NetParts, <1>1, <1>2, <1>3, <1>4, ItemsFrame DEF Reading
<1>7. AttemptsOK'
  BY NetParts, <1>1, <1>2, <1>3, AttemptGoesOn
<1>8. NothingIsLost'
  <2>1. \A u \in NetThreads : thread'[u].item = thread[u].item /\ thread'[u].id = thread[u].id
    BY <1>1, <1>2, <1>3
  <2> QED
    BY NetParts, <1>1, <1>4, <2>1 DEF NothingIsLost, Inbound
<1> QED
  BY NetParts, <1>1, <1>4, <1>5, <1>6, <1>7, <1>8 DEF NetInv

(* What the system answers has a number of its own and is held.             *)
LEMMA DialInv ==
    ASSUME NetInv, NEW t \in NetThreads, Dial(t)
    PROVE  NetInv'
<1> DEFINE d == thread[t]
           n == sock.items + 1
<1>1. /\ d.at = "act" /\ d.item = NoItem /\ Attempting(t)
      /\ UNCHANGED <<requests, netCalls>>
      /\ d \in ThreadState(netCalls) /\ netCalls \in Nat /\ sock.items \in Nat /\ n \in Nat
  BY NetParts DEF Dial, AttemptsOK, NetTypeOK, SockState, Attempting
<1>2. CASE /\ sock.items < MaxItems
           /\ sock' = [sock EXCEPT !.items = @ + 1]
           /\ held' = [held EXCEPT !.handles = @ \cup {n}]
           /\ seen' = [seen EXCEPT !.takenFor[n] = d.id]
           /\ Becomes(t, [d EXCEPT !.at = "finish", !.item = n])
  <2>1. PICK r : /\ Becomes(t, r) /\ r \in ThreadState(netCalls) /\ r.id = d.id /\ r.item = n
                 /\ r.at = "finish"
    <3>1. Becomes(t, [d EXCEPT !.at = "finish", !.item = n])
      BY <1>2
    <3> HIDE DEF d, n
    <3>2. d \in ThreadState(netCalls) /\ netCalls \in Nat /\ n \in Nat
      BY <1>1
    <3>3. PICK r : r = [d EXCEPT !.at = "finish", !.item = n] /\ Becomes(t, r)
      BY <3>1
    <3>4. r \in ThreadState(netCalls) /\ r.at = "finish" /\ r.id = d.id /\ r.item = n
      BY <3>2, <3>3 DEF ThreadState
    <3> QED
      BY <3>3, <3>4
  <2>2. /\ thread' \in [NetThreads -> ThreadState(netCalls')]
        /\ thread'[t] = r
        /\ \A u \in NetThreads \ {t} : thread'[u] = thread[u]
    BY NetParts, <1>1, <2>1, ThreadsMove
  <2>3. /\ sock'.items = n /\ sock'.inbound = sock.inbound /\ sock'.nonblocking = sock.nonblocking
        /\ sock' \in SockState
    <3>1. n \in 0 .. MaxItems
      BY <1>1, <1>2, NetAssumption
    <3>2. sock \in SockState
      BY NetParts DEF NetTypeOK
    <3> QED
      BY <1>2, <3>1, <3>2 DEF SockState
  <2>4. Items' = Items \cup {n} /\ n \notin Items
    BY <1>1, <2>3 DEF Items
  <2>5. /\ held'.streams = held.streams /\ held'.answers = held.answers
        /\ held' \in [handles : SUBSET Items', streams : SUBSET Items',
                      answers : [1 .. MaxItems -> Nat]]
    BY NetParts, <1>2, <2>4 DEF NetTypeOK
  <2>0. /\ seen' \in SeenState /\ seen'.known = seen.known /\ seen'.refused = seen.refused
        /\ seen'.raced = seen.raced /\ seen'.blocked = seen.blocked
        /\ seen'.takenFor[n] = d.id /\ \A i \in 1 .. sock.items : seen'.takenFor[i] = seen.takenFor[i]
    <3>1. n \in 1 .. MaxItems /\ \A i \in 1 .. sock.items : i # n /\ i \in 1 .. MaxItems
      BY <1>1, <1>2, NetAssumption
    <3>2. seen \in SeenState
      BY NetParts DEF NetTypeOK
    <3>3. d.id \in Nat
      BY <1>1 DEF ThreadState
    <3> QED
      BY <1>2, <3>1, <3>2, <3>3, TakenForFacts
  <2>6. NetTypeOK'
    BY NetParts, <1>1, <2>0, <2>1, <2>2, <2>3, <2>5 DEF NetTypeOK, PlaceOK
  <2>7. ItemsOK'
    <3>1. ItemsOK /\ held'.handles \subseteq held.handles \cup {n}
      BY NetParts, <1>2 DEF NetTypeOK
    <3>2. \A s \in Waiting : \A m \in DOMAIN sock.inbound[s] :
              sock.inbound[s][m] \in Items' \ (held'.handles \cup held'.streams)
      BY <2>4, <2>5, <3>1 DEF ItemsOK
    <3>3. \A s \in Waiting : \A m \in DOMAIN sock.inbound[s] : \A u \in NetThreads :
              /\ thread'[u].at = "write" => thread'[u].conn # sock.inbound[s][m]
              /\ Reading(u)' => thread'[u].item # sock.inbound[s][m]
      BY <2>1, <2>2, <3>1 DEF ItemsOK, Reading
    <3>4. \A i \in 1 .. MaxItems :
              i \in held'.streams \/ i \notin Items' \/ (\E s \in Waiting : i \in Inbound(s)')
              => held'.answers[i] = 0
      BY <2>3, <2>4, <2>5, <3>1 DEF ItemsOK, Inbound
    <3> QED
      BY <2>3, <2>5, <3>1, <3>2, <3>3, <3>4 DEF ItemsOK, AnsweredOnce
  <2>8. StreamsOK'
    <3>1. held'.handles = held.handles \cup {n}
      BY NetParts, <1>2 DEF NetTypeOK
    <3> QED
      BY NetParts, <2>1, <2>2, <2>4, <2>5, <3>1 DEF StreamsOK, Reading
  <2>9. AttemptsOK'
    BY NetParts, <1>1, <2>0, <2>1, <2>2, AttemptGoesOn
  <2>10. NothingIsLost'
    <3>1. \A i \in 1 .. n : i = n \/ i \in 1 .. sock.items
      BY <1>1
    <3>2. \A u \in NetThreads : \A i \in 1 .. sock.items :
              thread[u].item = i => thread'[u].item = i /\ thread'[u].id = thread[u].id
      BY <1>1, <2>2 DEF NoItem
    <3>3. thread'[t].item = n /\ thread'[t].id = seen'.takenFor[n]
      BY <2>0, <2>1, <2>2
    <3> QED
      BY NetParts, <1>1, <2>0, <2>3, <3>1, <3>2, <3>3 DEF NothingIsLost, Inbound
  <2> QED
    BY NetParts, <1>1, <2>0, <2>3, <2>6, <2>7, <2>8, <2>9, <2>10 DEF NetInv
<1>3. CASE Becomes(t, [d EXCEPT !.at = "finish"]) /\ UNCHANGED <<sock, held, seen>>
  <2>1. PICK r : /\ Becomes(t, r) /\ r \in ThreadState(netCalls) /\ r.id = d.id /\ r.item = NoItem
                 /\ r.at = "finish"
    <3>1. Becomes(t, [d EXCEPT !.at = "finish"])
      BY <1>3
    <3> HIDE DEF d
    <3>2. d \in ThreadState(netCalls) /\ netCalls \in Nat /\ d.item = NoItem
      BY <1>1
    <3> QED
      BY <3>1, <3>2, GoesTo
  <2>2. /\ thread' \in [NetThreads -> ThreadState(netCalls')]
        /\ thread'[t] = r
        /\ \A u \in NetThreads \ {t} : thread'[u] = thread[u]
    BY NetParts, <1>1, <2>1, ThreadsMove
  <2>3. NetTypeOK'
    BY NetParts, <1>1, <1>3, <2>1, <2>2 DEF NetTypeOK, Items, PlaceOK
  <2>4. ItemsOK' /\ StreamsOK'
    BY NetParts, <1>3, <2>1, <2>2, ItemsFrame DEF Reading
  <2>5. AttemptsOK'
    BY NetParts, <1>1, <1>3, <2>1, <2>2, AttemptGoesOn
  <2>6. NothingIsLost'
    <3>1. \A u \in NetThreads : thread'[u].item = thread[u].item /\ thread'[u].id = thread[u].id
      BY <1>1, <2>1, <2>2
    <3> QED
      BY NetParts, <1>1, <1>3, <3>1 DEF NothingIsLost, Inbound
  <2> QED
    BY NetParts, <1>1, <1>3, <2>3, <2>4, <2>5, <2>6 DEF NetInv
<1> QED
  BY <1>2, <1>3 DEF Dial

(* The stream of a connection leaves the table for one attempt.             *)
LEMMA TakeStreamInv ==
    ASSUME NetInv, NEW t \in NetThreads, TakeStream(t)
    PROVE  NetInv'
<1> DEFINE d == thread[t]
           a == IF d.conn \in held.handles \cap held.streams THEN "write" ELSE "finish"
<1>1. /\ d.at = "act" /\ d.item = NoItem /\ Attempting(t)
      /\ UNCHANGED <<requests, sock, seen, netCalls>>
      /\ held' = [held EXCEPT !.streams = @ \ {d.conn}]
      /\ d \in ThreadState(netCalls) /\ netCalls \in Nat
  BY NetParts DEF TakeStream, AttemptsOK, NetTypeOK, Attempting
<1>2. a \in {"write", "finish"} /\ (a = "write" => d.conn \in held.streams)
  OBVIOUS
<1>3. PICK r : /\ Becomes(t, r) /\ r \in ThreadState(netCalls) /\ r.id = d.id /\ r.item = NoItem
               /\ r.at = a /\ r.conn = d.conn
  <2>1. Becomes(t, [d EXCEPT !.at = a])
    BY DEF TakeStream
  <2> HIDE DEF d, a
  <2>2. d \in ThreadState(netCalls) /\ netCalls \in Nat /\ d.item = NoItem
    BY <1>1
  <2>3. PICK r : r = [d EXCEPT !.at = a] /\ Becomes(t, r)
    BY <2>1
  <2>4. a \in {"write", "finish", "tell"}
    BY <1>2
  <2>5. r \in ThreadState(netCalls) /\ r.id = d.id /\ r.item = NoItem /\ r.at = a /\ r.conn = d.conn
    BY <2>2, <2>3, <2>4 DEF ThreadState
  <2> QED
    BY <2>3, <2>5
<1>4. /\ thread' \in [NetThreads -> ThreadState(netCalls')]
      /\ thread'[t] = r
      /\ \A u \in NetThreads \ {t} : thread'[u] = thread[u]
  BY NetParts, <1>1, <1>3, ThreadsMove
<1> HIDE DEF a
<1>5. /\ held'.streams = held.streams \ {d.conn} /\ held'.answers = held.answers
      /\ held'.handles = held.handles
      /\ held' \in [handles : SUBSET Items, streams : SUBSET Items,
                    answers : [1 .. MaxItems -> Nat]]
  BY NetParts, <1>1 DEF NetTypeOK
<1>6. /\ held.streams \subseteq Items /\ Items' = Items /\ Items \subseteq 1 .. MaxItems
      /\ \A s : Inbound(s)' = Inbound(s)
  <2>1. sock.items \in 0 .. MaxItems
    BY NetParts DEF NetTypeOK, SockState
  <2> QED
    BY NetParts, <1>1, <2>1, NetAssumption DEF NetTypeOK, Items, Inbound
<1>7. NetTypeOK'
  BY NetParts, <1>1, <1>2, <1>3, <1>4, <1>5, <1>6 DEF NetTypeOK, PlaceOK
<1>8. ItemsOK'
  <2>1. ASSUME NEW s \in Waiting, NEW m \in DOMAIN sock.inbound[s]
        PROVE  /\ sock.inbound[s][m] \in Items \ (held'.handles \cup held'.streams)
               /\ \A u \in NetThreads :
                     /\ thread'[u].at = "write" => thread'[u].conn # sock.inbound[s][m]
                     /\ Reading(u)' => thread'[u].item # sock.inbound[s][m]
    <3>1. sock.inbound[s][m] \in Items \ (held.handles \cup held.streams)
      BY NetParts DEF ItemsOK
    <3>2. \A u \in NetThreads :
              /\ thread[u].at = "write" => thread[u].conn # sock.inbound[s][m]
              /\ Reading(u) => thread[u].item # sock.inbound[s][m]
      BY NetParts DEF ItemsOK
    <3>3. \A u \in NetThreads : Reading(u)' => Reading(u) /\ thread'[u] = thread[u]
      BY <1>2, <1>3, <1>4 DEF Reading
    <3> QED
      BY <1>2, <1>3, <1>4, <1>5, <3>1, <3>2, <3>3
  <2>2. ItemsOK
    BY NetParts
  <2> QED
    BY <1>1, <1>5, <1>6, <2>1, <2>2 DEF ItemsOK, AnsweredOnce
<1>9. StreamsOK'
  <2>1. \A u \in NetThreads : thread[u].at = "write" =>
            thread[u].conn \in Items \ held.streams /\ held.answers[thread[u].conn] = 0
    BY NetParts DEF StreamsOK
  <2>2. \A i \in held.streams : held.answers[i] = 0
    BY NetParts, <1>6 DEF ItemsOK
  <2>3. \A u \in NetThreads : thread'[u].at = "write" =>
            \/ u # t /\ thread'[u] = thread[u]
            \/ u = t /\ thread'[u].conn = d.conn /\ d.conn \in held.streams
    BY <1>2, <1>3, <1>4
  <2>4. \A u, v \in NetThreads :
            thread[u].at = "write" /\ thread[v].at = "write" /\ thread[u].conn = thread[v].conn
            => u = v
    BY NetParts DEF StreamsOK
  <2>7. \A u \in NetThreads : Reading(u)' =>
            /\ u # t /\ Reading(u) /\ thread'[u] = thread[u]
            /\ thread[u].item \in Items \ (held.handles \cup held.streams)
            /\ held.answers[thread[u].item] = 0
    BY NetParts, <1>2, <1>3, <1>4 DEF Reading, StreamsOK
  <2>8. \A u, v \in NetThreads : Reading(u) =>
            /\ Reading(v) /\ thread[u].item = thread[v].item => u = v
            /\ thread[v].at = "write" => thread[v].conn # thread[u].item
    BY NetParts DEF StreamsOK
  <2> HIDE DEF d
  <2>9. \A u, v \in NetThreads : Reading(u)' =>
            /\ Reading(v)' /\ thread'[u].item = thread'[v].item => u = v
            /\ thread'[v].at = "write" => thread'[v].conn # thread'[u].item
    BY <2>3, <2>7, <2>8
  <2>10. \A u \in NetThreads : Reading(u)' =>
             /\ thread'[u].item \in Items' \ (held'.handles \cup held'.streams)
             /\ held'.answers[thread'[u].item] = 0
    BY <1>5, <1>6, <2>7
  <2>5. \A u, v \in NetThreads :
            thread'[u].at = "write" /\ thread'[v].at = "write" /\ thread'[u].conn = thread'[v].conn
            => u = v
    BY <2>1, <2>3, <2>4
  <2>6. \A u \in NetThreads : thread'[u].at = "write" =>
            thread'[u].conn \in Items \ held'.streams /\ held.answers[thread'[u].conn] = 0
    BY <1>5, <1>6, <2>1, <2>2, <2>3
  <2> QED
    BY <1>5, <1>6, <2>5, <2>6, <2>9, <2>10 DEF StreamsOK
<1>10. AttemptsOK'
  BY NetParts, <1>1, <1>2, <1>3, <1>4, AttemptGoesOn
<1>11. NothingIsLost'
  <2>1. \A u \in NetThreads : thread'[u].item = thread[u].item /\ thread'[u].id = thread[u].id
    BY <1>1, <1>3, <1>4
  <2> QED
    BY NetParts, <1>1, <2>1 DEF NothingIsLost, Inbound
<1> QED
  BY NetParts, <1>1, <1>7, <1>8, <1>9, <1>10, <1>11 DEF NetInv

(* The owner of a stream answers its connection, which has no answer yet.   *)
LEMMA WriteResponseInv ==
    ASSUME NetInv, NEW t \in NetThreads, WriteResponse(t)
    PROVE  NetInv'
<1> DEFINE d == thread[t]
           c == thread[t].conn
<1>1. /\ d.at = "write" /\ d.item = NoItem /\ Attempting(t)
      /\ UNCHANGED <<requests, sock, seen, netCalls>>
      /\ d \in ThreadState(netCalls) /\ netCalls \in Nat
      /\ c \in Items \ held.streams /\ held.answers[c] = 0
  BY NetParts DEF WriteResponse, AttemptsOK, StreamsOK, NetTypeOK, Attempting
<1>2. /\ Items' = Items /\ \A s : Inbound(s)' = Inbound(s)
      /\ Items \subseteq 1 .. MaxItems /\ Items \subseteq Nat /\ c \in Nat
  <2>1. sock.items \in 0 .. MaxItems
    BY NetParts DEF NetTypeOK, SockState
  <2> QED
    BY <1>1, <2>1, NetAssumption DEF Items, Inbound
<1>3. PICK r, i : /\ Becomes(t, r) /\ r \in ThreadState(netCalls) /\ r.id = d.id /\ r.item = i
                  /\ r.at = "finish" /\ i \in {NoItem, c}
                  /\ \/ held' = held
                     \/ held' = [held EXCEPT !.answers[c] = @ + 1, !.handles = @ \ {c}]
  <2>1. CASE /\ held' = [held EXCEPT !.answers[c] = @ + 1, !.handles = @ \ {c}]
             /\ Becomes(t, [d EXCEPT !.at = "finish", !.item = c])
    <3>1. held' = [held EXCEPT !.answers[c] = @ + 1, !.handles = @ \ {c}]
      BY <2>1
    <3>2. PICK r : r = [d EXCEPT !.at = "finish", !.item = c] /\ Becomes(t, r)
      BY <2>1
    <3>3. d \in ThreadState(netCalls) /\ netCalls \in Nat /\ c \in Nat
      BY <1>1, <1>2
    <3> HIDE DEF d, c
    <3>4. r \in ThreadState(netCalls) /\ r.at = "finish" /\ r.id = d.id /\ r.item = c
      BY <3>2, <3>3 DEF ThreadState
    <3> QED
      BY <3>1, <3>2, <3>4
  <2>2. CASE Becomes(t, [d EXCEPT !.at = "finish"]) /\ held' = held
    <3>1. d \in ThreadState(netCalls) /\ netCalls \in Nat /\ d.item = NoItem
      BY <1>1
    <3> HIDE DEF d, c
    <3> QED
      BY <2>2, <3>1, GoesTo
  <2> QED
    BY <2>1, <2>2 DEF WriteResponse
<1>4. /\ thread' \in [NetThreads -> ThreadState(netCalls')]
      /\ thread'[t] = r
      /\ \A u \in NetThreads \ {t} : thread'[u] = thread[u]
  BY NetParts, <1>1, <1>3, ThreadsMove
<1>5. /\ held'.streams = held.streams /\ held'.handles \subseteq held.handles
      /\ held'.answers \in [1 .. MaxItems -> Nat]
      /\ \A j \in 1 .. MaxItems : j # c => held'.answers[j] = held.answers[j]
      /\ held'.answers[c] <= 1
      /\ held' \in [handles : SUBSET Items, streams : SUBSET Items,
                    answers : [1 .. MaxItems -> Nat]]
  <2>1. /\ held \in [handles : SUBSET Items, streams : SUBSET Items,
                     answers : [1 .. MaxItems -> Nat]]
        /\ c \in 1 .. MaxItems /\ held.answers[c] = 0
    BY NetParts, <1>1, <1>2 DEF NetTypeOK
  <2>2. CASE held' = [held EXCEPT !.answers[c] = @ + 1, !.handles = @ \ {c}]
    <3> DEFINE F == [held.answers EXCEPT ![c] = 1]
               H == held.handles \ {c}
    <3>1. F \in [1 .. MaxItems -> Nat] /\ H \in SUBSET Items
      BY <2>1
    <3>2. held' = [held EXCEPT !.answers = F, !.handles = H]
      BY <2>1, <2>2
    <3>4. H \subseteq held.handles
      OBVIOUS
    <3>3. F[c] <= 1 /\ \A j \in 1 .. MaxItems : j # c => F[j] = held.answers[j]
      BY <2>1
    <3> HIDE DEF F, H, c
    <3> QED
      BY <2>1, <3>1, <3>2, <3>3, <3>4
  <2> QED
    BY <1>3, <2>1, <2>2
<1>6. NetTypeOK'
  BY NetParts, <1>1, <1>2, <1>3, <1>4, <1>5 DEF NetTypeOK, PlaceOK
<1>11. \A u \in NetThreads : Reading(u)' => Reading(u) /\ thread'[u] = thread[u]
  BY <1>3, <1>4 DEF Reading
<1>7. ItemsOK'
  <2>1. \A s \in Waiting : \A m \in DOMAIN sock.inbound[s] : sock.inbound[s][m] # c
    BY NetParts, <1>1 DEF ItemsOK
  <2>2. \A s \in Waiting : c \notin Inbound(s)
    BY <2>1 DEF Inbound
  <2>3. ASSUME NEW j \in 1 .. MaxItems,
               j \in held.streams \/ j \notin Items \/ (\E s \in Waiting : j \in Inbound(s))
        PROVE  held'.answers[j] = 0
    BY NetParts, <1>1, <1>5, <2>2, <2>3 DEF ItemsOK
  <2>4. AnsweredOnce'
    BY NetParts, <1>5 DEF ItemsOK, AnsweredOnce
  <2>5. \A u \in NetThreads : thread'[u].at = "write" => thread[u].at = "write" /\ thread'[u] = thread[u]
    BY <1>3, <1>4
  <2>6. ItemsOK
    BY NetParts
  <2> QED
    BY <1>1, <1>2, <1>5, <1>11, <2>3, <2>4, <2>5, <2>6 DEF ItemsOK
<1>8. StreamsOK'
  <2>1. \A u \in NetThreads : thread'[u].at = "write" =>
            thread'[u] = thread[u] /\ thread[u].at = "write" /\ thread[u].conn # c
    BY NetParts, <1>1, <1>3, <1>4 DEF StreamsOK
  <2>2. \A u \in NetThreads : thread[u].at = "write" =>
            thread[u].conn \in Items \ held.streams /\ held.answers[thread[u].conn] = 0
    BY NetParts DEF StreamsOK
  <2>3. ASSUME NEW u \in NetThreads, thread'[u].at = "write"
        PROVE  thread'[u].conn \in Items \ held'.streams /\ held'.answers[thread'[u].conn] = 0
    <3> DEFINE x == thread[u].conn
    <3>1. thread'[u] = thread[u] /\ thread[u].at = "write" /\ x # c
      BY <2>1, <2>3
    <3>2. x \in Items \ held.streams /\ held.answers[x] = 0
      BY <2>2, <3>1
    <3> HIDE DEF x, c
    <3>3. x \in 1 .. MaxItems
      BY <1>2, <3>2
    <3>4. held'.answers[x] = 0 /\ held'.streams = held.streams
      BY <1>5, <3>1, <3>2, <3>3
    <3> QED
      BY <3>1, <3>2, <3>4 DEF x
  <2> QED
    <3>1. ASSUME NEW u \in NetThreads, Reading(u)'
          PROVE  /\ thread'[u].item \in Items' \ (held'.handles \cup held'.streams)
                 /\ held'.answers[thread'[u].item] = 0
      <4>1. thread[u].item \in Items \ (held.handles \cup held.streams) /\ thread[u].item # c
            /\ held.answers[thread[u].item] = 0 /\ thread'[u] = thread[u]
        BY NetParts, <1>1, <1>11, <3>1 DEF StreamsOK
      <4>2. thread[u].item \in 1 .. MaxItems
        BY <1>2, <4>1
      <4> QED
        BY <1>2, <1>5, <4>1, <4>2
    <3>2. ASSUME NEW u \in NetThreads, NEW v \in NetThreads, Reading(u)'
          PROVE  /\ Reading(v)' /\ thread'[u].item = thread'[v].item => u = v
                 /\ thread'[v].at = "write" => thread'[v].conn # thread'[u].item
      BY NetParts, <1>11, <2>1, <3>2 DEF StreamsOK
    <3>3. \A u, v \in NetThreads :
              thread'[u].at = "write" /\ thread'[v].at = "write" /\ thread'[u].conn = thread'[v].conn
              => u = v
      BY NetParts, <2>1 DEF StreamsOK
    <3> QED
      BY <1>2, <2>3, <3>1, <3>2, <3>3 DEF StreamsOK
<1>9. AttemptsOK'
  BY NetParts, <1>1, <1>3, <1>4, AttemptGoesOn
<1>10. NothingIsLost'
  <2>1. \A u \in NetThreads : \A j \in 1 .. sock.items :
            thread[u].item = j => thread'[u].item = j /\ thread'[u].id = thread[u].id
    BY <1>1, <1>4 DEF NoItem
  <2> QED
    BY NetParts, <1>1, <2>1 DEF NothingIsLost, Inbound
<1> QED
  BY NetParts, <1>1, <1>6, <1>7, <1>8, <1>9, <1>10 DEF NetInv

(* The outcome of an attempt is in the table before the attempt ends; what  *)
(* it replaces is a pending request, unless this is noted.                  *)
LEMMA FinishRequestInv ==
    ASSUME NetInv, NEW t \in NetThreads, FinishRequest(t)
    PROVE  NetInv'
<1> DEFINE d == thread[t]
           st == IF d.item = NoItem THEN "error" ELSE "ready"
<1>1. /\ d.at = "finish" /\ Attempting(t)
      /\ UNCHANGED <<sock, held, seen, netCalls>>
      /\ d \in ThreadState(netCalls) /\ netCalls \in Nat /\ d.item \in Nat
      /\ requests \in [DOMAIN requests -> Request]
      /\ requests' = IF d.id \in DOMAIN requests
                     THEN [requests EXCEPT ![d.id].state = st, ![d.id].result = d.item]
                     ELSE requests
  BY NetParts DEF FinishRequest, NetTypeOK, ThreadState, Attempting
<1>2. PICK r : /\ Becomes(t, r) /\ r \in ThreadState(netCalls) /\ r.id = d.id /\ r.item = d.item
               /\ r.at = "tell"
  <2>1. Becomes(t, [d EXCEPT !.at = "tell"])
    BY DEF FinishRequest
  <2> HIDE DEF d
  <2>2. d \in ThreadState(netCalls) /\ netCalls \in Nat
    BY <1>1
  <2> QED
    BY <2>1, <2>2, GoesTo
<1>3. /\ thread' \in [NetThreads -> ThreadState(netCalls')]
      /\ thread'[t] = r
      /\ \A u \in NetThreads \ {t} : thread'[u] = thread[u]
  BY NetParts, <1>1, <1>2, ThreadsMove
<1>4. /\ requests' \in [DOMAIN requests -> Request] /\ DOMAIN requests' = DOMAIN requests
      /\ \A i \in DOMAIN requests \ {d.id} : requests'[i] = requests[i]
      /\ d.id \in DOMAIN requests => requests'[d.id].state = st /\ requests'[d.id].result = d.item
  <2>1. CASE d.id \in DOMAIN requests
    <3>1. PICK e, x, y : e = d.id /\ x = st /\ y = d.item
      OBVIOUS
    <3>2. e \in DOMAIN requests /\ y \in Nat /\ x \in {"pending", "ready", "error"}
      BY <1>1, <2>1, <3>1
    <3>3. requests' = [requests EXCEPT ![e].state = x, ![e].result = y]
      BY <1>1, <2>1, <3>1
    <3>4. requests[e] \in Request /\ requests \in [DOMAIN requests -> Request]
      BY <1>1, <3>2
    <3> DEFINE q == [requests[e] EXCEPT !.state = x, !.result = y]
    <3>5. q \in Request /\ q.state = x /\ q.result = y
      BY <3>2, <3>4 DEF Request
    <3>6. requests' = [requests EXCEPT ![e] = q]
      BY <3>3, <3>4
    <3> HIDE DEF q
    <3>7. /\ requests' \in [DOMAIN requests -> Request] /\ DOMAIN requests' = DOMAIN requests
          /\ requests'[e] = q /\ \A i \in DOMAIN requests \ {e} : requests'[i] = requests[i]
      BY <3>2, <3>4, <3>5, <3>6
    <3> QED
      BY <3>1, <3>5, <3>7
  <2> QED
    BY <1>1, <2>1
<1>5. NetTypeOK'
  BY NetParts, <1>1, <1>2, <1>3, <1>4 DEF NetTypeOK, Items, PlaceOK
<1>6. ItemsOK' /\ StreamsOK'
  BY NetParts, <1>1, <1>2, <1>3, ItemsFrame DEF Reading
<1>7. AttemptsOK
  BY NetParts
<1>8. d.id \notin seen.raced =>
          /\ IsPending(d.id) /\ requests[d.id].result = NoItem
          /\ \A u \in NetThreads \ {t} : Attempting(u) => thread[u].id # d.id
  BY <1>1, <1>7 DEF AttemptsOK, IsPending
<1>9. AttemptsOK'
  <2>1. \A u \in NetThreads :
            thread'[u].at \in {"idle", "try", "act", "write", "next", "block"} => thread'[u].item = NoItem
    BY <1>2, <1>3, <1>7 DEF AttemptsOK
  <2>2. \A id \in DOMAIN requests' : requests'[id].state # "ready" => requests'[id].result = NoItem
    BY <1>4, <1>7 DEF AttemptsOK
  <2>3. \A u \in NetThreads : Attempting(u)' => u # t /\ Attempting(u) /\ thread'[u] = thread[u]
    BY <1>2, <1>3 DEF Attempting
  <2>4. ASSUME NEW u \in NetThreads, Attempting(u)', thread[u].id \notin seen.raced
        PROVE  IsPending(thread[u].id)'
    <3>1. IsPending(thread[u].id) /\ thread[u].id # d.id /\ thread'[u] = thread[u]
      BY <1>1, <1>7, <2>3, <2>4 DEF AttemptsOK
    <3> QED
      BY <1>4, <3>1 DEF IsPending
  <2>5. ASSUME NEW u \in NetThreads, thread'[u].at = "tell", thread'[u].item # NoItem,
               thread'[u].id \notin seen.raced
        PROVE  \/ thread'[u].item \in seen.known
               \/ /\ thread'[u].id \in DOMAIN requests'
                  /\ requests'[thread'[u].id].result = thread'[u].item
    <3>1. CASE u = t
      BY <1>2, <1>3, <1>4, <1>8, <2>5, <3>1 DEF IsPending
    <3>2. CASE u # t
      <4>1. thread'[u] = thread[u]
        BY <1>3, <3>2
      <4>2. \/ thread[u].item \in seen.known
            \/ /\ thread[u].id \in DOMAIN requests
               /\ requests[thread[u].id].result = thread[u].item
        BY <1>7, <2>5, <4>1 DEF AttemptsOK
      <4>3. CASE thread[u].id = d.id
        <5>1. requests[d.id].result = NoItem
          BY <1>8, <2>5, <4>1, <4>3
        <5> QED
          BY <2>5, <4>1, <4>2, <4>3, <5>1
      <4> QED
        BY <1>4, <2>5, <4>1, <4>2, <4>3
    <3> QED
      BY <3>1, <3>2
  <2>6. \A u \in NetThreads : Attempting(u)' =>
            IsPending(thread[u].id)' \/ thread[u].id \in seen.raced
    BY <2>3, <2>4
  <2>7. \A u, v \in NetThreads :
            Attempting(u)' /\ Attempting(v)' /\ thread'[u].id = thread'[v].id
            => u = v \/ thread'[u].id \in seen.raced
    BY <1>7, <2>3 DEF AttemptsOK
  <2> QED
    BY <1>1, <2>1, <2>2, <2>3, <2>5, <2>6, <2>7 DEF AttemptsOK
<1>10. NothingIsLost'
  <2>1. \A u \in NetThreads : thread'[u].item = thread[u].item /\ thread'[u].id = thread[u].id
    BY <1>2, <1>3
  <2>2. ASSUME NEW id \in DOMAIN requests, NEW i \in 1 .. sock.items,
               requests[id].result = i, id = seen.takenFor[i]
        PROVE  Kept(i)'
    <3>1. id = d.id => id \in seen.raced
      BY <1>8, <2>2 DEF NoItem
    <3> QED
      BY <1>1, <1>4, <2>2, <3>1 DEF Kept
  <2>3. \A u \in NetThreads : \A i \in 1 .. sock.items :
            thread[u].item = i /\ thread[u].id = seen.takenFor[i] => Kept(i)'
    BY <1>1, <2>1 DEF Kept
  <2>4. sock' = sock /\ seen' = seen
    BY <1>1
  <2> QED
    BY NetParts, <2>2, <2>3, <2>4, LostFrame
<1> QED
  BY NetParts, <1>1, <1>5, <1>6, <1>9, <1>10 DEF NetInv

(* A blocking call is noted at its socket.                                  *)
LEMMA BlockingCallInv ==
    ASSUME NetInv, NEW t \in NetThreads, NEW s \in Waiting, BlockingCall(t, s)
    PROVE  NetInv'
<1> DEFINE n == netCalls + 1
<1>1. /\ netCalls' = n /\ thread[t].at = "idle" /\ UNCHANGED <<requests, held>>
      /\ sock' = [sock EXCEPT !.nonblocking = @ \ {s}]
      /\ seen' = [seen EXCEPT !.blocked = @ \cup {s}]
      /\ netCalls \in Nat /\ n \in Nat /\ netCalls <= n /\ s \in Operations
      /\ 1 .. netCalls \subseteq 1 .. n
  BY NetParts DEF BlockingCall, NetCall, NetTypeOK, Operations
<1>2. thread[t].item = NoItem
  BY NetParts, <1>1 DEF AttemptsOK
<1>3. PICK r : Becomes(t, r) /\ r \in ThreadState(n) /\ r.at = "block" /\ r.kind = s /\ r.item = NoItem
                /\ r.id = 0
  <2>1. Becomes(t, [AtRest EXCEPT !.at = "block", !.kind = s])
    BY DEF BlockingCall
  <2>2. n \in Nat /\ s \in Operations /\ AtRest \in ThreadState(n) /\ AtRest.item = NoItem
        /\ AtRest.id = 0
    BY <1>1, RestState DEF AtRest
  <2> HIDE DEF n
  <2>3. PICK r : r = [AtRest EXCEPT !.at = "block", !.kind = s] /\ Becomes(t, r)
    BY <2>1
  <2>4. r \in ThreadState(n) /\ r.at = "block" /\ r.kind = s /\ r.item = NoItem /\ r.id = 0
    BY <2>2, <2>3 DEF ThreadState
  <2> QED
    BY <2>3, <2>4
<1> HIDE DEF n
<1>4. /\ thread' \in [NetThreads -> ThreadState(netCalls')]
      /\ thread'[t] = r
      /\ \A u \in NetThreads \ {t} : thread'[u] = thread[u]
  BY NetParts, <1>1, <1>3, ThreadsMove
<1>5. /\ sock' \in SockState /\ sock'.items = sock.items /\ sock'.inbound = sock.inbound
      /\ sock'.nonblocking = sock.nonblocking \ {s}
  BY NetParts, <1>1 DEF NetTypeOK, SockState
<1>6. /\ seen'.known = seen.known /\ seen'.refused = seen.refused
      /\ seen'.blocked = seen.blocked \cup {s} /\ seen'.raced = seen.raced
      /\ seen'.takenFor = seen.takenFor
      /\ seen' \in SeenState
  BY NetParts, <1>1 DEF NetTypeOK, SeenState
<1>7. NetTypeOK'
  <2>1. Items' = Items
    BY <1>5 DEF Items
  <2>2. \A u \in NetThreads : PlaceOK(thread'[u])
    BY NetParts, <1>3, <1>4 DEF NetTypeOK, PlaceOK
  <2> QED
    BY NetParts, <1>1, <1>4, <1>5, <1>6, <2>1, <2>2 DEF NetTypeOK
<1>8. ItemsOK' /\ StreamsOK'
  BY NetParts, <1>1, <1>3, <1>4, <1>5, ItemsFrame DEF Reading
<1>9. AttemptsOK'
  BY NetParts, <1>1, <1>3, <1>4, <1>6, AttemptsFrame
<1>10. NothingIsLost'
  <2>1. \A u \in NetThreads : \A i \in 1 .. sock.items :
            thread[u].item = i /\ thread[u].id = seen.takenFor[i] => Kept(i)'
    BY <1>2, <1>4, <1>6 DEF NoItem, Kept
  <2>2. \A id \in DOMAIN requests : \A i \in 1 .. sock.items :
            requests[id].result = i /\ id = seen.takenFor[i] => Kept(i)'
    BY <1>1, <1>6 DEF Kept
  <2> QED
    BY NetParts, <1>5, <1>6, <2>1, <2>2, LostFrame
<1> QED
  BY NetParts, <1>5, <1>6, <1>7, <1>8, <1>9, <1>10 DEF NetInv

\* What came first on socket s is taken from it, and the rest moves up.
Taken(s, nonblocking) ==
    /\ sock' \in SockState /\ sock'.items = sock.items
    /\ sock'.nonblocking = nonblocking
    /\ 1 \in DOMAIN sock.inbound[s] /\ Head(sock.inbound[s]) = sock.inbound[s][1]
    /\ \A m \in DOMAIN sock'.inbound[s] :
          /\ m + 1 \in DOMAIN sock.inbound[s] /\ m + 1 # 1
          /\ sock'.inbound[s][m] = sock.inbound[s][m + 1]
          /\ \A k \in DOMAIN sock'.inbound[s] : m + 1 = k + 1 => m = k
    /\ \A m \in DOMAIN sock.inbound[s] :
          m = 1 \/ \E k \in DOMAIN sock'.inbound[s] : sock'.inbound[s][k] = sock.inbound[s][m]
    /\ \A r \in Waiting \ {s} : sock'.inbound[r] = sock.inbound[r]

(* A socket after what came first was taken.                                *)
LEMMA TakenFacts ==
    ASSUME NetInv, NEW s \in Waiting, sock.inbound[s] # <<>>,
           NEW L \in SockState, L.inbound = sock.inbound, L.items = sock.items,
           sock' = [L EXCEPT !.inbound[s] = Tail(@)]
    PROVE  Taken(s, L.nonblocking)
<1> DEFINE q == sock.inbound[s]
           w == Tail(q)
           F == [sock.inbound EXCEPT ![s] = w]
<1>1. sock.inbound \in [Waiting -> Seq(Nat)] /\ q \in Seq(Nat) /\ q # <<>>
  BY NetParts DEF NetTypeOK, SockState
<1>2. /\ w \in Seq(Nat) /\ Len(q) \in Nat /\ Len(q) > 0 /\ DOMAIN q = 1 .. Len(q)
      /\ DOMAIN w = 1 .. Len(q) - 1 /\ \A m \in 1 .. Len(q) - 1 : w[m] = q[m + 1]
      /\ Head(q) = q[1]
  BY <1>1
<1>3. F \in [Waiting -> Seq(Nat)] /\ F[s] = w /\ \A r \in Waiting \ {s} : F[r] = sock.inbound[r]
  BY <1>1, <1>2
<1>4. sock' = [L EXCEPT !.inbound = F]
  BY <1>1 DEF SockState
<1>5. /\ \A m \in DOMAIN w : /\ m + 1 \in DOMAIN q /\ m + 1 # 1 /\ w[m] = q[m + 1]
                             /\ \A k \in DOMAIN w : m + 1 = k + 1 => m = k
      /\ 1 \in DOMAIN q
  BY <1>2
<1>6. \A m \in DOMAIN q : m = 1 \/ \E k \in DOMAIN w : w[k] = q[m]
  <2> SUFFICES ASSUME NEW m \in DOMAIN q, m # 1
               PROVE  \E k \in DOMAIN w : w[k] = q[m]
    OBVIOUS
  <2>1. m - 1 \in 1 .. Len(q) - 1 /\ (m - 1) + 1 = m
    BY <1>2
  <2> QED
    BY <1>2, <2>1
<1> HIDE DEF F
<1>7. sock' \in SockState /\ sock'.items = sock.items /\ sock'.nonblocking = L.nonblocking
  BY <1>3, <1>4 DEF SockState
<1>8. sock'.inbound = F
  BY <1>4 DEF SockState
<1>9. sock'.inbound[s] = w /\ \A r \in Waiting \ {s} : sock'.inbound[r] = sock.inbound[r]
  BY <1>3, <1>8
<1> HIDE DEF w
<1>10. /\ \A m \in DOMAIN sock'.inbound[s] :
            /\ m + 1 \in DOMAIN q /\ m + 1 # 1 /\ sock'.inbound[s][m] = q[m + 1]
            /\ \A k \in DOMAIN sock'.inbound[s] : m + 1 = k + 1 => m = k
       /\ \A m \in DOMAIN q : m = 1 \/ \E k \in DOMAIN sock'.inbound[s] : sock'.inbound[s][k] = q[m]
  BY <1>5, <1>6, <1>9
<1>11. Head(q) = q[1] /\ 1 \in DOMAIN q
  BY <1>2, <1>5
<1> QED
  BY <1>7, <1>9, <1>10, <1>11 DEF Taken

(* What is taken from a socket was waiting there alone: its request may be  *)
(* awaited, and no attempt writes to it.                                    *)
LEMMA TakenItems ==
    ASSUME NetInv, NEW t \in NetThreads, NEW s \in Waiting, sock.inbound[s] # <<>>,
           NEW L \in SockState, L.inbound = sock.inbound, L.items = sock.items,
           sock' = [L EXCEPT !.inbound[s] = Tail(@)],
           held'.handles \subseteq held.handles \cup {Head(sock.inbound[s])},
           held'.streams = held.streams, held'.answers = held.answers,
           \A u \in NetThreads :
               /\ thread'[u].at = "write" => thread'[u] = thread[u]
               /\ Reading(u)' => \/ Reading(u) /\ thread'[u] = thread[u]
                                 \/ /\ u = t /\ thread'[u].item = Head(sock.inbound[s])
                                    /\ held'.handles = held.handles
    PROVE  ItemsOK' /\ StreamsOK' /\ Head(sock.inbound[s]) \in Items
<1> DEFINE item == sock.inbound[s][1]
<1>1. /\ sock'.items = sock.items
      /\ 1 \in DOMAIN sock.inbound[s] /\ Head(sock.inbound[s]) = item
      /\ \A m \in DOMAIN sock'.inbound[s] :
            /\ m + 1 \in DOMAIN sock.inbound[s] /\ m + 1 # 1
            /\ sock'.inbound[s][m] = sock.inbound[s][m + 1]
            /\ \A k \in DOMAIN sock'.inbound[s] : m + 1 = k + 1 => m = k
      /\ \A r \in Waiting \ {s} : sock'.inbound[r] = sock.inbound[r]
  BY TakenFacts DEF Taken
<1>2. ItemsOK /\ StreamsOK /\ Items' = Items
  BY NetParts, <1>1 DEF Items
<1>3. /\ item \in Items \ (held.handles \cup held.streams) /\ item \in Inbound(s)
      /\ item \in 1 .. MaxItems /\ held.answers[item] = 0
  <2>1. item \in Items \ (held.handles \cup held.streams) /\ item \in Inbound(s)
    BY <1>1, <1>2 DEF ItemsOK, Inbound
  <2>2. item \in 1 .. MaxItems
    BY NetParts, <2>1, NetAssumption DEF NetTypeOK, SockState, Items
  <2> QED
    BY <1>2, <2>1, <2>2 DEF ItemsOK
<1>4. ASSUME NEW r \in Waiting, NEW m \in DOMAIN sock'.inbound[r]
      PROVE  \E k \in DOMAIN sock.inbound[r] :
                /\ sock'.inbound[r][m] = sock.inbound[r][k] /\ sock.inbound[r][k] # item
                /\ k = IF r = s THEN m + 1 ELSE m
  <2>1. CASE r = s
    BY <1>1, <1>2, <2>1 DEF ItemsOK
  <2>2. CASE r # s
    BY <1>1, <1>2, <2>2 DEF ItemsOK
  <2> QED
    BY <2>1, <2>2
<1>5. ItemsOK'
  <2>1. ASSUME NEW r \in Waiting, NEW m \in DOMAIN sock'.inbound[r]
        PROVE  /\ sock'.inbound[r][m] \in Items \ (held'.handles \cup held'.streams)
               /\ \A v \in Waiting : \A n \in DOMAIN sock'.inbound[v] :
                     sock'.inbound[r][m] = sock'.inbound[v][n] => r = v /\ m = n
               /\ \A u \in NetThreads :
                     /\ thread'[u].at = "write" => thread'[u].conn # sock'.inbound[r][m]
                     /\ Reading(u)' => thread'[u].item # sock'.inbound[r][m]
    <3>1. PICK k \in DOMAIN sock.inbound[r] :
              /\ sock'.inbound[r][m] = sock.inbound[r][k] /\ sock.inbound[r][k] # item
              /\ k = IF r = s THEN m + 1 ELSE m
      BY <1>4
    <3>2. sock.inbound[r][k] \in Items \ (held'.handles \cup held'.streams)
      BY <1>1, <1>2, <3>1 DEF ItemsOK
    <3>3. ASSUME NEW v \in Waiting, NEW n \in DOMAIN sock'.inbound[v],
                 sock'.inbound[r][m] = sock'.inbound[v][n]
          PROVE  r = v /\ m = n
      <4>1. PICK l \in DOMAIN sock.inbound[v] :
                /\ sock'.inbound[v][n] = sock.inbound[v][l]
                /\ l = IF v = s THEN n + 1 ELSE n
        BY <1>4
      <4>2. r = v /\ k = l
        BY <1>2, <3>1, <3>3, <4>1 DEF ItemsOK
      <4> QED
        BY <1>1, <3>1, <4>1, <4>2
    <3>4. \A u \in NetThreads : thread'[u].at = "write" => thread'[u].conn # sock.inbound[r][k]
      BY <1>2 DEF ItemsOK
    <3>5. \A u \in NetThreads : Reading(u)' => thread'[u].item # sock.inbound[r][k]
      BY <1>1, <1>2, <3>1 DEF ItemsOK
    <3> QED
      BY <3>1, <3>2, <3>3, <3>4, <3>5
  <2>2. ASSUME NEW i \in 1 .. MaxItems,
               i \in held'.streams \/ i \notin Items \/ (\E r \in Waiting : i \in Inbound(r)')
        PROVE  held.answers[i] = 0
    <3>1. \A r \in Waiting : i \in Inbound(r)' => i \in Inbound(r)
      BY <1>4 DEF Inbound
    <3> QED
      BY <1>1, <1>2, <1>3, <2>2, <3>1 DEF ItemsOK
  <2> QED
    BY <1>2, <2>1, <2>2 DEF ItemsOK, AnsweredOnce
<1>6. StreamsOK'
  <2>1. \A u \in NetThreads : /\ thread[u].at = "write" => thread[u].conn # item
                              /\ Reading(u) => thread[u].item # item
    BY <1>1, <1>2 DEF ItemsOK
  <2>2. \A u \in NetThreads : Reading(u)' =>
            /\ thread'[u].item \in Items' \ (held'.handles \cup held'.streams)
            /\ held'.answers[thread'[u].item] = 0
    BY <1>1, <1>2, <1>3, <2>1 DEF StreamsOK
  <2>3. \A u, v \in NetThreads : Reading(u)' =>
            /\ Reading(v)' /\ thread'[u].item = thread'[v].item => u = v
            /\ thread'[v].at = "write" => thread'[v].conn # thread'[u].item
    BY <1>1, <1>2, <2>1 DEF StreamsOK
  <2> QED
    BY <1>1, <1>2, <2>2, <2>3 DEF StreamsOK
<1> QED
  BY <1>1, <1>3, <1>5, <1>6

(* What is taken is in the hands of its thread.                             *)
LEMMA TakeItemInv ==
    ASSUME NetInv, NEW t \in NetThreads, TakeItem(t)
    PROVE  NetInv'
<1> DEFINE d == thread[t]
           s == thread[t].kind
           item == Head(sock.inbound[thread[t].kind])
           L == Looked(thread[t].kind)
           a == IF thread[t].kind = "serve" THEN "parse" ELSE "finish"
<1>1. /\ d.at = "act" /\ d.item = NoItem /\ Attempting(t) /\ s \in Waiting
      /\ sock.inbound[s] # <<>> /\ sock' = [L EXCEPT !.inbound[s] = Tail(@)]
      /\ held' = [held EXCEPT !.handles = IF s = "accept" THEN @ \cup {item} ELSE @]
      /\ seen' = [seen EXCEPT !.takenFor[item] = d.id]
      /\ UNCHANGED <<requests, netCalls>>
      /\ d \in ThreadState(netCalls) /\ netCalls \in Nat /\ d.id \in Nat
  BY NetParts DEF TakeItem, AttemptsOK, NetTypeOK, Attempting, ThreadState
<1>2. /\ L \in SockState /\ L.inbound = sock.inbound /\ L.items = sock.items
      /\ sock.nonblocking \subseteq L.nonblocking
  BY NetParts, <1>1, LookedFacts
<1>3. /\ sock' \in SockState /\ sock'.items = sock.items
      /\ sock'.nonblocking = L.nonblocking
      /\ item = sock.inbound[s][1] /\ 1 \in DOMAIN sock.inbound[s]
      /\ \A m \in DOMAIN sock.inbound[s] :
            m = 1 \/ \E k \in DOMAIN sock'.inbound[s] : sock'.inbound[s][k] = sock.inbound[s][m]
      /\ \A r \in Waiting \ {s} : sock'.inbound[r] = sock.inbound[r]
  <2> HIDE DEF s, L, d
  <2>1. item = Head(sock.inbound[s])
    BY DEF s
  <2> HIDE DEF item
  <2>2. /\ sock' \in SockState /\ sock'.items = sock.items
        /\ sock'.nonblocking = L.nonblocking
        /\ 1 \in DOMAIN sock.inbound[s] /\ Head(sock.inbound[s]) = sock.inbound[s][1]
        /\ \A m \in DOMAIN sock.inbound[s] :
              m = 1 \/ \E k \in DOMAIN sock'.inbound[s] : sock'.inbound[s][k] = sock.inbound[s][m]
        /\ \A r \in Waiting \ {s} : sock'.inbound[r] = sock.inbound[r]
    <3>1. /\ s \in Waiting /\ sock.inbound[s] # <<>> /\ L \in SockState
          /\ L.inbound = sock.inbound /\ L.items = sock.items
          /\ sock' = [L EXCEPT !.inbound[s] = Tail(@)]
      BY <1>1, <1>2
    <3>2. Taken(s, L.nonblocking)
      BY <3>1, TakenFacts
    <3> QED
      BY <3>2 DEF Taken
  <2> QED
    BY <2>1, <2>2, Zenon
<1>4. item \in Items /\ item \in Nat /\ item \in 1 .. MaxItems
  <2>1. item \in Items
    BY NetParts, <1>1, <1>3 DEF ItemsOK
  <2> QED
    BY NetParts, <2>1, NetAssumption DEF Items, NetTypeOK, SockState
<1>5. PICK r : /\ Becomes(t, r) /\ r \in ThreadState(netCalls) /\ r.id = d.id /\ r.at = a
               /\ r.item = item /\ r.kind = s
  <2>1. PICK r : r = [d EXCEPT !.at = a, !.item = item] /\ Becomes(t, r)
    BY DEF TakeItem
  <2>2. d \in ThreadState(netCalls) /\ netCalls \in Nat /\ item \in Nat
        /\ a \in {"parse", "finish", "receive"} /\ d.kind = s
    BY <1>1, <1>4
  <2> HIDE DEF d, item, a, s
  <2>3. r \in ThreadState(netCalls) /\ r.id = d.id /\ r.at = a /\ r.item = item /\ r.kind = s
    BY <2>1, <2>2 DEF ThreadState
  <2> QED
    BY <2>1, <2>3
<1>6. a \in {"parse", "finish"} /\ (a = "parse" <=> s = "serve")
  OBVIOUS
<1> HIDE DEF item, L, a
<1>7. /\ thread' \in [NetThreads -> ThreadState(netCalls')]
      /\ thread'[t] = r
      /\ \A u \in NetThreads \ {t} : thread'[u] = thread[u]
  <2>1. netCalls' = netCalls /\ netCalls \in Nat
    BY <1>1
  <2>2. Becomes(t, r) /\ r \in ThreadState(netCalls)
    BY <1>5
  <2> QED
    BY NetParts, <2>1, <2>2, ThreadsMove
<1>8. /\ held'.streams = held.streams /\ held'.answers = held.answers
      /\ held'.handles \subseteq held.handles \cup {item}
      /\ s = "serve" => held'.handles = held.handles
      /\ held' \in [handles : SUBSET Items, streams : SUBSET Items,
                    answers : [1 .. MaxItems -> Nat]]
  <2>1. held \in [handles : SUBSET Items, streams : SUBSET Items,
                  answers : [1 .. MaxItems -> Nat]]
    BY NetParts DEF NetTypeOK
  <2> QED
    BY <1>1, <1>4, <2>1
<1>9. /\ seen'.known = seen.known /\ seen'.raced = seen.raced /\ seen'.blocked = seen.blocked
      /\ seen'.refused = seen.refused /\ seen'.takenFor[item] = d.id
      /\ \A i \in 1 .. MaxItems : i # item => seen'.takenFor[i] = seen.takenFor[i]
      /\ seen' \in SeenState
  <2>1. seen \in SeenState
    BY NetParts DEF NetTypeOK
  <2> QED
    BY <1>1, <1>4, <2>1, TakenForFacts
<1>10. NetTypeOK'
  <2>1. Items' = Items
    BY <1>3 DEF Items
  <2>2. \A u \in NetThreads : PlaceOK(thread'[u])
    BY NetParts, <1>5, <1>6, <1>7 DEF NetTypeOK, PlaceOK
  <2>3. requests' = requests /\ netCalls' = netCalls
    BY <1>1
  <2> QED
    BY NetParts, <1>3, <1>7, <1>8, <1>9, <2>1, <2>2, <2>3 DEF NetTypeOK
<1>11. ItemsOK' /\ StreamsOK'
  <2>1. \A u \in NetThreads :
            /\ thread'[u].at = "write" => thread'[u] = thread[u]
            /\ Reading(u)' => \/ Reading(u) /\ thread'[u] = thread[u]
                              \/ /\ u = t /\ thread'[u].item = item
                                 /\ held'.handles = held.handles
    BY <1>5, <1>6, <1>7, <1>8 DEF Reading
  <2>2. item = Head(sock.inbound[s])
    BY DEF item
  <2> HIDE DEF s
  <2> QED
    BY <1>1, <1>2, <1>8, <2>1, <2>2, TakenItems
<1>12. AttemptsOK'
  BY NetParts, <1>1, <1>5, <1>6, <1>7, <1>9, AttemptGoesOn
<1>13. NothingIsLost'
  <2> SUFFICES ASSUME NEW i \in 1 .. sock.items
               PROVE  Kept(i)' \/ \E v \in Waiting : i \in Inbound(v)'
    BY <1>3 DEF NothingIsLost, Kept
  <2>1. CASE i = item
    BY <1>5, <1>7, <1>9, <2>1 DEF Kept
  <2>2. CASE i # item
    <3>1. Kept(i) \/ \E v \in Waiting : i \in Inbound(v)
      BY NetParts DEF NothingIsLost, Kept
    <3>2. \A v \in Waiting : i \in Inbound(v) => i \in Inbound(v)'
      BY <1>3, <2>2 DEF Inbound
    <3>3. \A u \in NetThreads : thread[u].item = i => thread'[u] = thread[u]
      BY <1>1, <1>7 DEF NoItem
    <3>4. i \in 1 .. MaxItems
      BY NetParts, NetAssumption DEF NetTypeOK, SockState
    <3>5. seen'.takenFor[i] = seen.takenFor[i]
      BY <1>9, <2>2, <3>4
    <3> QED
      BY <1>1, <1>9, <3>1, <3>2, <3>3, <3>5 DEF Kept
  <2> QED
    BY <2>1, <2>2
<1> QED
  BY NetParts, <1>2, <1>3, <1>9, <1>10, <1>11, <1>12, <1>13 DEF NetInv

(* The request that was awaited has come: the connection gets its stream.   *)
LEMMA ReadRequestInv ==
    ASSUME NetInv, NEW t \in NetThreads, ReadRequest(t)
    PROVE  NetInv'
<1> DEFINE d == thread[t]
           item == thread[t].item
<1>1. /\ d.at \in {"parse", "receive"} /\ Reading(t)
      /\ held' = [held EXCEPT !.handles = @ \cup {item}, !.streams = @ \cup {item}]
      /\ UNCHANGED <<requests, sock, netCalls>>
      /\ d \in ThreadState(netCalls) /\ netCalls \in Nat
      /\ item \in Items \ (held.handles \cup held.streams) /\ held.answers[item] = 0
  BY NetParts DEF ReadRequest, NetTypeOK, Reading, StreamsOK
<1>2. item \in Nat /\ item \in 1 .. MaxItems /\ Items \subseteq 1 .. MaxItems /\ Items' = Items
      /\ \A s : Inbound(s)' = Inbound(s)
  BY NetParts, <1>1, NetAssumption DEF Items, NetTypeOK, SockState, Inbound
<1>3. PICK r : /\ Becomes(t, r) /\ r \in ThreadState(netCalls)
               /\ \/ /\ d.at = "parse" /\ r.at = "finish" /\ r.id = d.id /\ r.item = item
                     /\ seen' = seen
                  \/ /\ d.at = "receive" /\ r.at = "idle" /\ r.item = NoItem
                     /\ seen' = [seen EXCEPT !.known = @ \cup {item}]
  <2>1. CASE d.at = "parse"
    <3>1. PICK r : r = [d EXCEPT !.at = "finish"] /\ Becomes(t, r) /\ seen' = seen
      BY <2>1 DEF ReadRequest
    <3>2. d.item = item
      OBVIOUS
    <3> HIDE DEF d, item
    <3>3. r \in ThreadState(netCalls) /\ r.at = "finish" /\ r.id = d.id /\ r.item = item
      BY <1>1, <3>1, <3>2, GoesTo
    <3> QED
      BY <2>1, <3>1, <3>3
  <2>2. CASE d.at = "receive"
    <3>1. Becomes(t, AtRest) /\ seen' = [seen EXCEPT !.known = @ \cup {item}]
      BY <2>2 DEF ReadRequest
    <3> QED
      BY <1>1, <2>2, <3>1, RestState
  <2> QED
    BY <1>1, <2>1, <2>2
<1>4. /\ thread' \in [NetThreads -> ThreadState(netCalls')]
      /\ thread'[t] = r
      /\ \A u \in NetThreads \ {t} : thread'[u] = thread[u]
  BY NetParts, <1>1, <1>3, ThreadsMove
<1> HIDE DEF item
<1>5. /\ held'.streams = held.streams \cup {item} /\ held'.handles = held.handles \cup {item}
      /\ held'.answers = held.answers
      /\ held' \in [handles : SUBSET Items, streams : SUBSET Items,
                    answers : [1 .. MaxItems -> Nat]]
  <2>1. held \in [handles : SUBSET Items, streams : SUBSET Items,
                  answers : [1 .. MaxItems -> Nat]]
    BY NetParts DEF NetTypeOK
  <2> QED
    BY <1>1, <2>1
<1>6. /\ seen'.raced = seen.raced /\ seen'.blocked = seen.blocked
      /\ seen'.refused = seen.refused /\ seen'.takenFor = seen.takenFor
      /\ seen.known \subseteq seen'.known
      /\ thread'[t].item = NoItem => item \in seen'.known
      /\ thread'[t].item # NoItem => thread'[t].item = item /\ thread'[t].id = d.id
      /\ seen' \in SeenState
  <2>1. seen \in SeenState /\ item # NoItem
    BY NetParts, <1>2 DEF NetTypeOK, NoItem
  <2>2. CASE seen' = seen /\ r.item = item /\ r.id = d.id
    BY <1>4, <2>1, <2>2
  <2>3. CASE r.item = NoItem /\ seen' = [seen EXCEPT !.known = @ \cup {item}]
    BY <1>2, <1>4, <2>1, <2>3 DEF SeenState
  <2> QED
    BY <1>3, <2>2, <2>3
<1>7. NetTypeOK'
  BY NetParts, <1>1, <1>2, <1>3, <1>4, <1>5, <1>6 DEF NetTypeOK, PlaceOK
<1>8. \A u \in NetThreads :
          /\ thread'[u].at = "write" =>
                 thread'[u] = thread[u] /\ thread[u].at = "write" /\ thread[u].conn # item
          /\ Reading(u)' => Reading(u) /\ thread'[u] = thread[u] /\ thread[u].item # item
  BY NetParts, <1>1, <1>3, <1>4 DEF Reading, StreamsOK, item
<1>9. ItemsOK'
  <2>1. \A s \in Waiting : \A m \in DOMAIN sock.inbound[s] : sock.inbound[s][m] # item
    BY NetParts, <1>1 DEF ItemsOK, item
  <2>2. ItemsOK
    BY NetParts
  <2>3. ASSUME NEW i \in 1 .. MaxItems,
               i \in held'.streams \/ i \notin Items \/ (\E s \in Waiting : i \in Inbound(s))
        PROVE  held'.answers[i] = 0
    BY <1>1, <1>5, <2>2, <2>3 DEF ItemsOK
  <2>4. AnsweredOnce'
    BY <1>5, <2>2 DEF ItemsOK, AnsweredOnce
  <2> QED
    BY <1>1, <1>2, <1>5, <1>8, <2>1, <2>2, <2>3, <2>4 DEF ItemsOK
<1>10. StreamsOK'
  <2>1. StreamsOK
    BY NetParts
  <2>2. \A u \in NetThreads : Reading(u)' =>
            /\ thread'[u].item \in Items' \ (held'.handles \cup held'.streams)
            /\ held'.answers[thread'[u].item] = 0
    BY <1>2, <1>5, <1>8, <2>1 DEF StreamsOK
  <2>3. \A u, v \in NetThreads : Reading(u)' =>
            /\ Reading(v)' /\ thread'[u].item = thread'[v].item => u = v
            /\ thread'[v].at = "write" => thread'[v].conn # thread'[u].item
    BY <1>8, <2>1 DEF StreamsOK
  <2>4. \A u \in NetThreads : thread'[u].at = "write" =>
            /\ thread'[u].conn \in Items' \ held'.streams
            /\ held'.answers[thread'[u].conn] = 0
    BY <1>2, <1>5, <1>8, <2>1 DEF StreamsOK
  <2>5. \A u, v \in NetThreads :
            thread'[u].at = "write" /\ thread'[v].at = "write" /\ thread'[u].conn = thread'[v].conn
            => u = v
    BY <1>8, <2>1 DEF StreamsOK
  <2> QED
    BY <2>2, <2>3, <2>4, <2>5 DEF StreamsOK
<1>11. AttemptsOK'
  <2>1. \/ d.at = "parse" /\ r.at = "finish" /\ r.id = d.id
        \/ r.at = "idle" /\ r.item = NoItem
    BY <1>3
  <2> QED
    BY NetParts, <1>1, <1>4, <1>6, <2>1 DEF AttemptsOK, Attempting, IsPending
<1>12. NothingIsLost'
  <2> SUFFICES ASSUME NEW i \in 1 .. sock.items
               PROVE  Kept(i)' \/ \E s \in Waiting : i \in Inbound(s)
    BY <1>1, <1>2 DEF NothingIsLost, Kept
  <2>1. Kept(i) \/ \E s \in Waiting : i \in Inbound(s)
    BY NetParts DEF NothingIsLost, Kept
  <2>2. \A u \in NetThreads : thread[u].item = i =>
            \/ i \in seen'.known
            \/ thread'[u].item = i /\ thread'[u].id = thread[u].id
    BY <1>4, <1>6 DEF item
  <2> QED
    BY <1>1, <1>6, <2>1, <2>2 DEF Kept
<1> QED
  BY NetParts, <1>1, <1>6, <1>7, <1>9, <1>10, <1>11, <1>12 DEF NetInv

(* A connection without a request is dropped.                               *)
LEMMA NoRequestInv ==
    ASSUME NetInv, NEW t \in NetThreads, NoRequest(t)
    PROVE  NetInv'
<1> DEFINE d == thread[t]
           item == thread[t].item
<1>1. /\ d.at \in {"parse", "receive"} /\ UNCHANGED <<requests, sock, held, netCalls>>
      /\ seen' = [seen EXCEPT !.refused = @ \cup {item}]
      /\ d \in ThreadState(netCalls) /\ netCalls \in Nat /\ item \in Nat
  BY NetParts DEF NoRequest, NetTypeOK, ThreadState
<1>2. PICK r : /\ Becomes(t, r) /\ r \in ThreadState(netCalls) /\ r.item = NoItem
               /\ \/ d.at = "parse" /\ r.at = "finish" /\ r.id = d.id
                  \/ r.at = "idle"
  <2>1. CASE d.at = "parse"
    <3>1. PICK r : r = [d EXCEPT !.at = "finish", !.item = NoItem] /\ Becomes(t, r)
      BY <2>1 DEF NoRequest
    <3>2. NoItem \in Nat
      BY DEF NoItem
    <3> HIDE DEF d
    <3>3. r \in ThreadState(netCalls) /\ r.at = "finish" /\ r.id = d.id /\ r.item = NoItem
      BY <1>1, <3>1, <3>2 DEF ThreadState
    <3> QED
      BY <2>1, <3>1, <3>3
  <2>2. CASE d.at = "receive"
    <3>1. Becomes(t, AtRest)
      BY <2>2 DEF NoRequest
    <3> QED
      BY <1>1, <3>1, RestState
  <2> QED
    BY <1>1, <2>1, <2>2
<1>3. /\ thread' \in [NetThreads -> ThreadState(netCalls')]
      /\ thread'[t] = r
      /\ \A u \in NetThreads \ {t} : thread'[u] = thread[u]
  BY NetParts, <1>1, <1>2, ThreadsMove
<1>4. /\ seen'.raced = seen.raced /\ seen'.blocked = seen.blocked
      /\ seen'.known = seen.known /\ seen'.takenFor = seen.takenFor
      /\ seen'.refused = seen.refused \cup {item}
      /\ seen' \in SeenState
  <2>1. seen \in SeenState
    BY NetParts DEF NetTypeOK
  <2> QED
    BY <1>1, <2>1 DEF SeenState
<1>5. NetTypeOK'
  BY NetParts, <1>1, <1>2, <1>3, <1>4 DEF NetTypeOK, PlaceOK, Items
<1>6. ItemsOK' /\ StreamsOK'
  BY NetParts, <1>1, <1>2, <1>3, ItemsFrame DEF Reading
<1>7. AttemptsOK'
  BY NetParts, <1>1, <1>2, <1>3, <1>4 DEF AttemptsOK, Attempting, IsPending
<1>8. NothingIsLost'
  <2> SUFFICES ASSUME NEW i \in 1 .. sock.items
               PROVE  Kept(i)' \/ \E s \in Waiting : i \in Inbound(s)
    BY <1>1, <1>4 DEF NothingIsLost, Kept, Inbound
  <2>1. Kept(i) \/ \E s \in Waiting : i \in Inbound(s)
    BY NetParts DEF NothingIsLost, Kept
  <2>2. \A u \in NetThreads : thread[u].item = i =>
            i \in seen'.refused \/ thread'[u] = thread[u]
    BY <1>3, <1>4
  <2> QED
    BY <1>1, <1>4, <2>1, <2>2 DEF Kept
<1> QED
  BY NetParts, <1>1, <1>4, <1>5, <1>6, <1>7, <1>8 DEF NetInv

(* A blocking call gives what it takes to the program, or reads a request   *)
(* from it first.                                                           *)
LEMMA BlockingTakeInv ==
    ASSUME NetInv, NEW t \in NetThreads, BlockingTake(t)
    PROVE  NetInv'
<1> DEFINE d == thread[t]
           s == thread[t].kind
           item == Head(sock.inbound[thread[t].kind])
<1>1. /\ d.at = "block" /\ d.item = NoItem /\ s \in Waiting /\ d.id = 0
      /\ sock.inbound[s] # <<>> /\ sock' = [sock EXCEPT !.inbound[s] = Tail(@)]
      /\ UNCHANGED <<requests, netCalls>>
      /\ d \in ThreadState(netCalls) /\ netCalls \in Nat /\ sock \in SockState
  BY NetParts DEF BlockingTake, AttemptsOK, NetTypeOK, PlaceOK
<1>2. /\ sock' \in SockState /\ sock'.items = sock.items
      /\ sock'.nonblocking = sock.nonblocking
      /\ item = sock.inbound[s][1] /\ 1 \in DOMAIN sock.inbound[s]
      /\ \A m \in DOMAIN sock.inbound[s] :
            m = 1 \/ \E k \in DOMAIN sock'.inbound[s] : sock'.inbound[s][k] = sock.inbound[s][m]
      /\ \A r \in Waiting \ {s} : sock'.inbound[r] = sock.inbound[r]
  <2>1. item = Head(sock.inbound[s]) /\ s \in Waiting /\ sock \in SockState
    BY <1>1
  <2>2. sock.inbound[s] # <<>> /\ sock' = [sock EXCEPT !.inbound[s] = Tail(@)]
    BY <1>1
  <2> HIDE DEF s, item
  <2>3. Taken(s, sock.nonblocking)
    BY <2>1, <2>2, TakenFacts
  <2> QED
    BY <2>1, <2>3 DEF Taken
<1>3. item \in Items /\ item \in Nat /\ item \in 1 .. MaxItems
  <2>1. item \in Items
    BY NetParts, <1>1, <1>2 DEF ItemsOK
  <2> QED
    BY NetParts, <2>1, NetAssumption DEF Items, NetTypeOK, SockState
<1>4. PICK r : /\ Becomes(t, r) /\ r \in ThreadState(netCalls)
               /\ \/ /\ s = "serve" /\ r.at = "receive" /\ r.item = item /\ r.kind = s /\ r.id = 0
                     /\ held' = held /\ seen' = [seen EXCEPT !.takenFor[item] = 0]
                  \/ /\ r.at = "idle" /\ r.item = NoItem
                     /\ seen' = [seen EXCEPT !.known = @ \cup {item}]
                     /\ held' = [held EXCEPT !.handles = IF s = "accept" THEN @ \cup {item} ELSE @]
  <2>1. CASE s = "serve"
    <3>1. PICK r : /\ r = [d EXCEPT !.at = "receive", !.item = item] /\ Becomes(t, r)
                   /\ held' = held /\ seen' = [seen EXCEPT !.takenFor[item] = 0]
      BY <1>1, <2>1 DEF BlockingTake
    <3>2. d.kind = s
      OBVIOUS
    <3> HIDE DEF d, item, s
    <3>3. r \in ThreadState(netCalls) /\ r.at = "receive" /\ r.item = item /\ r.kind = s /\ r.id = 0
      BY <1>1, <1>3, <3>1, <3>2 DEF ThreadState
    <3> QED
      BY <2>1, <3>1, <3>3
  <2>2. CASE s # "serve"
    <3>1. /\ Becomes(t, AtRest)
          /\ seen' = [seen EXCEPT !.known = @ \cup {item}]
          /\ held' = [held EXCEPT !.handles = IF s = "accept" THEN @ \cup {item} ELSE @]
      BY <2>2 DEF BlockingTake
    <3>2. AtRest \in ThreadState(netCalls) /\ AtRest.at = "idle" /\ AtRest.item = NoItem
      BY <1>1, RestState
    <3> QED
      BY <3>1, <3>2
  <2> QED
    BY <2>1, <2>2
<1>5. /\ thread' \in [NetThreads -> ThreadState(netCalls')]
      /\ thread'[t] = r
      /\ \A u \in NetThreads \ {t} : thread'[u] = thread[u]
  BY NetParts, <1>1, <1>4, ThreadsMove
<1> HIDE DEF item
<1>6. /\ held'.streams = held.streams /\ held'.answers = held.answers
      /\ held'.handles \subseteq held.handles \cup {item}
      /\ r.at = "receive" => held'.handles = held.handles
      /\ held' \in [handles : SUBSET Items, streams : SUBSET Items,
                    answers : [1 .. MaxItems -> Nat]]
  <2>1. held \in [handles : SUBSET Items, streams : SUBSET Items,
                  answers : [1 .. MaxItems -> Nat]]
    BY NetParts DEF NetTypeOK
  <2>2. CASE held' = held
    BY <2>1, <2>2
  <2>3. CASE /\ r.at = "idle"
             /\ held' = [held EXCEPT !.handles = IF s = "accept" THEN @ \cup {item} ELSE @]
    BY <1>3, <2>1, <2>3
  <2> QED
    BY <1>4, <2>2, <2>3
<1>7. /\ seen'.raced = seen.raced /\ seen'.blocked = seen.blocked
      /\ seen'.refused = seen.refused
      /\ \A i \in 1 .. MaxItems : i # item => seen'.takenFor[i] = seen.takenFor[i]
      /\ seen.known \subseteq seen'.known
      /\ r.at = "idle" => item \in seen'.known
      /\ r.at = "receive" => seen'.takenFor[item] = 0
      /\ seen' \in SeenState
  <2>1. seen \in SeenState
    BY NetParts DEF NetTypeOK
  <2>2. CASE seen' = [seen EXCEPT !.takenFor[item] = 0] /\ r.at = "receive"
    <3>1. 0 \in Nat
      OBVIOUS
    <3> QED
      BY <1>3, <2>1, <2>2, <3>1, TakenForFacts
  <2>3. CASE seen' = [seen EXCEPT !.known = @ \cup {item}] /\ r.at = "idle"
    BY <1>3, <2>1, <2>3 DEF SeenState
  <2> QED
    BY <1>4, <2>2, <2>3
<1>8. NetTypeOK'
  <2>1. Items' = Items
    BY <1>2 DEF Items
  <2>2. \A u \in NetThreads : PlaceOK(thread'[u])
    BY NetParts, <1>4, <1>5 DEF NetTypeOK, PlaceOK
  <2>3. requests' = requests /\ netCalls' = netCalls
    BY <1>1
  <2> QED
    BY NetParts, <1>2, <1>5, <1>6, <1>7, <2>1, <2>2, <2>3 DEF NetTypeOK
<1>9. ItemsOK' /\ StreamsOK'
  <2>1. \A u \in NetThreads :
            /\ thread'[u].at = "write" => thread'[u] = thread[u]
            /\ Reading(u)' => \/ Reading(u) /\ thread'[u] = thread[u]
                              \/ /\ u = t /\ thread'[u].item = item
                                 /\ held'.handles = held.handles
    BY <1>4, <1>5, <1>6 DEF Reading
  <2>2. item = Head(sock.inbound[s]) /\ s \in Waiting /\ sock \in SockState
    BY <1>1 DEF item
  <2>3. sock.inbound[s] # <<>> /\ sock' = [sock EXCEPT !.inbound[s] = Tail(@)]
    BY <1>1
  <2> HIDE DEF s
  <2> QED
    BY <1>6, <2>1, <2>2, <2>3, TakenItems
<1>10. AttemptsOK'
  <2>1. ~Attempting(t) /\ ~Attempting(t)' /\ thread'[t].at # "tell"
    BY <1>1, <1>4, <1>5 DEF Attempting
  <2>2. thread'[t].at = "receive" \/ thread'[t].item = NoItem
    BY <1>4, <1>5
  <2> QED
    BY NetParts, <1>1, <1>5, <1>7, <2>1, <2>2 DEF AttemptsOK, Attempting, IsPending
<1>11. NothingIsLost'
  <2> SUFFICES ASSUME NEW i \in 1 .. sock.items
               PROVE  Kept(i)' \/ \E v \in Waiting : i \in Inbound(v)'
    BY <1>2 DEF NothingIsLost, Kept
  <2>1. Kept(i) \/ \E v \in Waiting : i \in Inbound(v)
    BY NetParts DEF NothingIsLost, Kept
  <2>2. i # item => \A v \in Waiting : i \in Inbound(v) => i \in Inbound(v)'
    BY <1>2 DEF Inbound
  <2>3. \A u \in NetThreads : thread[u].item = i => thread'[u] = thread[u]
    BY <1>1, <1>5 DEF NoItem
  <2>4. CASE i = item
    BY <1>4, <1>5, <1>7, <2>4 DEF Kept
  <2>5. CASE i # item
    <3>1. i \in 1 .. MaxItems
      BY NetParts, NetAssumption DEF NetTypeOK, SockState
    <3>2. seen'.takenFor[i] = seen.takenFor[i]
      BY <1>7, <2>5, <3>1
    <3> QED
      BY <1>1, <1>7, <2>1, <2>2, <2>3, <2>5, <3>2 DEF Kept
  <2> QED
    BY <2>4, <2>5
<1> QED
  BY NetParts, <1>2, <1>7, <1>8, <1>9, <1>10, <1>11 DEF NetInv

(* The inductive invariant of the requests to the network.                  *)
LEMMA NetInvariant == NetSpec => []NetInv
<1>1. NetInit => NetInv
  <2> SUFFICES ASSUME NetInit
               PROVE  NetInv
    OBVIOUS
  <2>1. /\ requests = <<>> /\ DOMAIN requests = {} /\ netCalls = 0
        /\ sock.items = 0 /\ sock.nonblocking = Waiting
        /\ \A s \in Waiting : sock.inbound[s] = <<>> /\ DOMAIN sock.inbound[s] = {}
        /\ held = [handles |-> {}, streams |-> {}, answers |-> [i \in 1 .. MaxItems |-> 0]]
        /\ \A t \in NetThreads : thread[t] = AtRest
        /\ seen = [known |-> {}, refused |-> {}, blocked |-> {}, raced |-> {},
                   takenFor |-> [i \in 1 .. MaxItems |-> 0]]
    BY DEF NetInit, NetStart
  <2>2. /\ AtRest \in ThreadState(0) /\ AtRest.at = "idle" /\ AtRest.item = NoItem
    BY RestState
  <2>3. NetTypeOK
    <3>1. sock \in SockState
      BY NetAssumption DEF NetInit, NetStart, SockState
    <3>2. thread \in [NetThreads -> ThreadState(0)]
      BY <2>2 DEF NetInit, NetStart
    <3>3. seen \in SeenState
      BY <2>1 DEF SeenState
    <3> QED
      BY <2>1, <2>2, <3>1, <3>2, <3>3 DEF NetTypeOK, PlaceOK
  <2>4. ItemsOK /\ StreamsOK
    BY <2>1, <2>2 DEF ItemsOK, StreamsOK, AnsweredOnce, Reading
  <2>5. AttemptsOK
    BY <2>1, <2>2 DEF AttemptsOK, Attempting
  <2>6. NothingIsLost
    BY <2>1 DEF NothingIsLost
  <2> QED
    BY <2>1, <2>3, <2>4, <2>5, <2>6 DEF NetInv
<1>2. NetInv /\ [NetNext]_netVars => NetInv'
  <2> SUFFICES ASSUME NetInv, [NetNext]_netVars
               PROVE  NetInv'
    OBVIOUS
  <2>1. CASE UNCHANGED netVars
    BY NetParts, <2>1
       DEF netVars, NetInv, NetTypeOK, Items, ItemsOK, Inbound, AnsweredOnce, StreamsOK,
           AttemptsOK, Attempting, Reading, IsPending, NothingIsLost
  <2>2. ASSUME NEW t \in NetThreads, Attempt(t)
        PROVE  NetInv'
    BY <2>2, TryCompleteInv, TakeItemInv, ReadRequestInv, NoRequestInv, AskingInv, SocketFailsInv,
       DialInv, TakeStreamInv, WriteResponseInv, FinishRequestInv, BlockingTakeInv DEF Attempt
  <2>3. CASE NetNext
    BY <2>2, <2>3, ArriveInv, StartRequestInv, AskingInv, GetResultInv, RemoveRequestInv, CloseInv,
       BlockingCallInv DEF NetNext
  <2> QED
    BY <2>1, <2>3
<1> QED
  BY <1>1, <1>2, PTL DEF NetSpec

(* Whatever the threads, what comes from outside is lost only with a        *)
(* request that attempts overlapped at; and an attempt waits only where a   *)
(* blocking call has left the mode of the socket, or for the request of an  *)
(* HTTP connection that it has for itself.                                  *)
THEOREM NetAttemptsSafe == NetSpec => []AttemptsSafe
<1>1. NetInv => AttemptsSafe
  <2> SUFFICES ASSUME NetInv
               PROVE  WaitsForItsOwn
    BY NetParts DEF AttemptsSafe
  <2>1. ASSUME NEW t \in NetThreads, thread[t].at \in {"parse", "receive"}
        PROVE  thread[t].kind = "serve" /\ HoldsAlone(t)
    <3>1. Reading(t) /\ thread[t].kind = "serve"
      BY NetParts, <2>1 DEF Reading, NetTypeOK, PlaceOK
    <3>2. \A s \in Waiting : thread[t].item \notin Inbound(s)
      BY NetParts, <3>1 DEF ItemsOK, Inbound
    <3>3. thread[t].item \notin held.handles \cup held.streams
      BY NetParts, <3>1 DEF StreamsOK
    <3>4. \A u \in NetThreads \ {t} :
              /\ ~(thread[u].at \in {"parse", "receive"} /\ thread[u].item = thread[t].item)
              /\ ~(thread[u].at = "write" /\ thread[u].conn = thread[t].item)
      BY NetParts, <3>1 DEF StreamsOK, Reading
    <3> QED
      BY <3>1, <3>2, <3>3, <3>4 DEF HoldsAlone
  <2>2. ASSUME NEW t \in NetThreads, thread[t].kind \in Waiting, ~DoesNotBlock(thread[t].kind)
        PROVE  thread[t].kind \in seen.blocked \ {"serve"}
    <3>1. sock \in SockState
      BY NetParts DEF NetTypeOK
    <3>2. thread[t].kind = "serve" => DoesNotBlock(thread[t].kind)
      BY <3>1 DEF DoesNotBlock, Looked, SockState
    <3> QED
      BY NetParts, <2>2, <3>2, LookedFacts DEF DoesNotBlock
  <2> QED
    BY <2>1, <2>2 DEF WaitsForItsOwn, AttemptWaits
<1> QED
  BY <1>1, NetInvariant, PTL

(* A connection of the HTTP server is answered at most once.                *)
THEOREM NetAnsweredOnce == NetSpec => []AnsweredOnce
<1>1. NetInv => AnsweredOnce
  BY DEF NetInv, ItemsOK
<1> QED
  BY <1>1, NetInvariant, PTL

-----------------------------------------------------------------------------
(* Servers.  The inductive invariant of WebServers: what each call can be    *)
(* about, who holds the locks, and for each client who owns its socket, what *)
(* it was written and what it will be understood to say.                     *)

WebPurposes == {"nothing", "accept", "refuse", "respond", "send", "recv", "close", "pong"}
WebPlaces == {"out", "accept", "read", "receiving", "write", "sending", "insert", "close", "check",
              "mark", "remove"}
WebTags == {"read", "write", "short", "mixed", "over"}

Parts == [by : WebThreads, part : 0 .. 2, late : BOOLEAN]
WebCalls == [for : WebPurposes, conn : WebClients \cup {NoOne}, phase : WebPlaces,
             left : Seq(Parts), head : Pieces]

\* The type of the state, with the history it keeps.
WebTyped ==
    /\ role \in [WebClients -> ServerKinds \cup {"none"}]
    /\ peer \in [WebClients -> {"away", "waiting", "up", "deaf", "gone"}]
    /\ script \in [WebClients -> Seq(Pieces)]
    /\ fromPeer \in [WebClients -> Seq(Pieces)]
    /\ toPeer \in [WebClients -> Seq(Parts)]
    /\ sockets \subseteq WebClients
    /\ socketsLock \in WebThreads \cup {NoOne}
    /\ serversLock \in [ServerKinds -> WebThreads \cup {NoOne}]
    /\ entry \in [WebClients -> {"none", "request", "open", "closed"}]
    /\ entriesLock \in [ServerKinds -> WebThreads \cup {NoOne}]
    /\ web \in [WebThreads -> WebCalls]
    /\ webOdd \subseteq WebTags \X WebClients
    /\ \A c \in WebClients : peer[c] = "away" \/ role[c] \in ServerKinds

InMessage(r) == r.phase \in {"write", "sending"}
InFrame(r)   == r.phase \in {"read", "receiving"}

\* What a call is for decides where it can be.
PhaseFits(r) ==
    /\ r.for = "nothing" => r.phase = "out" /\ r.conn = NoOne
    /\ r.for = "accept" => r.phase \notin {"out", "check", "mark", "remove"}
    /\ r.for \in {"refuse", "respond"} => InMessage(r) \/ r.phase = "close"
    /\ r.for = "send" => InMessage(r) \/ r.phase \in {"check", "mark"}
    /\ r.for = "recv" => InFrame(r) \/ r.phase \in {"check", "mark"}
    /\ r.for = "close" => InMessage(r) \/ r.phase \in {"check", "remove", "close"}
    /\ r.for = "pong" => InMessage(r) \/ r.phase = "check"

\* And which kind of client it is about.
KindFits(r, kind) ==
    /\ kind \in ServerKinds
    /\ r.for = "respond" => kind = "http"
    /\ r.for \in {"send", "close"} => kind \in {"ws", "sse"}
    /\ r.for \in {"recv", "pong"} => kind = "ws"
    /\ r.for \in {"accept", "refuse"} /\ InMessage(r) => kind # "http"

Fits(r) ==
    /\ PhaseFits(r)
    /\ r.phase \in {"out", "accept"} => r.conn = NoOne
    /\ r.phase \notin {"out", "accept"} => r.conn \in WebClients /\ KindFits(r, role[r.conn])
    /\ r.head # NoPiece => r.for = "recv" /\ (InFrame(r) \/ r.phase = "mark")
    /\ r.head # NoPiece => r.head.part = "head"
    /\ InMessage(r) => r.left # <<>>
    /\ InMessage(r) /\ r.for \in {"accept", "refuse"} => Len(r.left) = 1
    /\ \A i \in DOMAIN r.left : ~r.left[i].late

CallsFit == \A t \in WebThreads : Fits(web[t])

\* Who holds which lock.
SocketsLockOK ==
    \A t \in WebThreads : (socketsLock = t) = (web[t].phase \in {"sending", "receiving"})

ServersLockOK ==
    /\ \A t \in WebThreads : (\E k \in ServerKinds : serversLock[k] = t) = (web[t].phase = "accept")
    /\ \A k, m \in ServerKinds : serversLock[k] = serversLock[m] /\ serversLock[k] # NoOne => k = m

EntriesLockOK ==
    \A t \in WebThreads : \A k \in ServerKinds : entriesLock[k] = t =>
        /\ web[t].phase = "close" \/ web[t].for = "respond"
        /\ role[web[t].conn] = k

WebLocks == SocketsLockOK /\ ServersLockOK /\ EntriesLockOK

\* The parts a call plays for a client.
Holds(r, c)    == r.conn = c /\ (r.for \in {"accept", "refuse", "respond"} \/ r.phase = "close")
Welcomes(r, c) == r.conn = c /\ r.for \in {"accept", "refuse"}
Writes(r, c)   == r.conn = c /\ InMessage(r)
Reads(r, c)    == r.conn = c /\ InFrame(r)

Odd(tag, c) == <<tag, c>> \in webOdd

\* A client is known to nobody before it is accepted, and then to its acceptor.
Introduced(c) ==
    /\ peer[c] \in {"away", "waiting"} =>
          /\ entry[c] = "none" /\ c \notin sockets
          /\ \A tag \in WebTags : ~Odd(tag, c)
          /\ \A t \in WebThreads : web[t].conn # c
    /\ \A t \in WebThreads : Welcomes(web[t], c) =>
          /\ \A tag \in WebTags : ~Odd(tag, c)
          /\ \A u \in WebThreads : web[u].conn = c => u = t

\* SocketsOwned, counted without numbers; a call in send or recv has an open socket.
OneOwner(c) ==
    /\ \A t, u \in WebThreads : Holds(web[t], c) /\ Holds(web[u], c) => t = u
    /\ \A t \in WebThreads : Holds(web[t], c) => entry[c] = "none" /\ c \in sockets
    /\ entry[c] # "none" => c \in sockets
    /\ c \in sockets => entry[c] # "none" \/ \E t \in WebThreads : Holds(web[t], c)
    /\ \A t \in WebThreads : web[t].conn = c /\ web[t].phase \in {"sending", "receiving"} => c \in sockets

\* A message as it is begun, and its second part.
Begun(s, t) ==
    \/ Len(s) = 1 /\ s[1].part = 0
    \/ Len(s) = 2 /\ s[1].part = 1 /\ s[2].part = 2 /\ s[1].by = t /\ s[2].by = t
SecondPart(s, t) == Len(s) = 1 /\ s[1].part = 2 /\ s[1].by = t

CutBy(c, t) ==
    /\ toPeer[c] # <<>>
    /\ toPeer[c][Len(toPeer[c])].part = 1 /\ toPeer[c][Len(toPeer[c])].by = t

\* Nothing is written to c any more.
Stopped(c) == peer[c] = "gone" \/ (peer[c] \notin {"away", "waiting"} /\ c \notin sockets)

\* One writer at a time, or whole messages.
Streams(c) ==
    /\ ~Odd("write", c) => \A t, u \in WebThreads : Writes(web[t], c) /\ Writes(web[u], c) => t = u
    /\ \A t \in WebThreads : Writes(web[t], c) =>
          \/ Begun(web[t].left, t)
          \/ Odd("short", c) /\ SecondPart(web[t].left, t)
    /\ ~(Odd("write", c) /\ Odd("short", c)) =>
         /\ Whole(toPeer[c])
         /\ \A t \in WebThreads : CutBy(c, t) =>
               /\ Odd("short", c)
               /\ Stopped(c) \/ (Writes(web[t], c) /\ SecondPart(web[t].left, t))
         /\ \A t \in WebThreads : Writes(web[t], c) /\ SecondPart(web[t].left, t) => CutBy(c, t)

\* Calls that begin a message after the close frame find the entry closed.
InTime(c) ==
    /\ Odd("over", c) => entry[c] # "open" /\ role[c] = "ws"
    /\ \A i \in DOMAIN toPeer[c] : ~toPeer[c][i].late

\* What c has sent and will send, a piece at a time.
Incoming(c) == fromPeer[c] \o script[c]

\* What comes next from c is its request.
Greets(c) ==
    \/ peer[c] \in {"away", "waiting"}
    \/ \E t \in WebThreads : Reads(web[t], c) /\ web[t].for = "accept"

PayloadFirst(s, n) == s # <<>> => s[1].part = "payload" /\ s[1].n = n /\ Frames(Tail(s))

\* Nothing more of c will be read.
Unheard(c) ==
    \/ peer[c] = "gone" /\ fromPeer[c] = <<>>
    \/ peer[c] \notin {"away", "waiting"} /\ c \notin sockets

\* What comes next is what the reader of c takes it for.
Expected(c) ==
    \/ Greets(c) /\ Frames(Tail(Incoming(c)))
    \/ \E t \in WebThreads : /\ Reads(web[t], c) /\ web[t].head # NoPiece
                             /\ PayloadFirst(Incoming(c), web[t].head.n)
    \/ /\ ~Greets(c)
       /\ \A t \in WebThreads : Reads(web[t], c) => web[t].head = NoPiece
       /\ Frames(Incoming(c))
    \/ Unheard(c)

Receives(c) ==
    /\ Len(fromPeer[c]) <= 1
    /\ ~Odd("read", c) =>
         /\ ~Odd("mixed", c)
         /\ \A t, u \in WebThreads : Reads(web[t], c) /\ Reads(web[u], c) => t = u
         /\ role[c] = "ws" /\ Incoming(c) # <<>> => Expected(c)

ClientOK(c) == Introduced(c) /\ OneOwner(c) /\ Streams(c) /\ InTime(c) /\ Receives(c)

WebInv == WebTyped /\ CallsFit /\ WebLocks /\ \A c \in WebClients : ClientOK(c)

-----------------------------------------------------------------------------
(* The steps of a call.                                                      *)

(* Frames that go on after a head.                                           *)
LEMMA FramesRead ==
    ASSUME NEW s \in Seq(Pieces), Frames(s), s # <<>>
    PROVE  s[1].part = "head" /\ PayloadFirst(Tail(s), s[1].n)
<1>1. Len(s) \in Nat /\ Len(s) > 0 /\ DOMAIN s = 1 .. Len(s)
  OBVIOUS
<1>2. 1 % 2 = 1 /\ 2 % 2 = 0
  OBVIOUS
<1>3. s[1].part = "head"
  BY <1>1, <1>2 DEF Frames
<1>4. ASSUME Tail(s) # <<>>
      PROVE  /\ Tail(s)[1].part = "payload" /\ Tail(s)[1].n = s[1].n
             /\ Frames(Tail(Tail(s)))
  <2>1. Len(Tail(s)) = Len(s) - 1 /\ Len(s) > 1 /\ Tail(s) \in Seq(Pieces)
    BY <1>1, <1>4
  <2>2. Tail(s)[1] = s[2]
    BY <2>1
  <2>3. s[2].part = "payload" /\ s[2].n = s[1].n
    BY <1>1, <1>2, <2>1 DEF Frames
  <2>4. Tail(Tail(s)) \in Seq(Pieces) /\ Len(Tail(Tail(s))) = Len(s) - 2
    BY <2>1
  <2>5. ASSUME NEW i \in 1 .. Len(s) - 2
        PROVE  IF i % 2 = 1 THEN Tail(Tail(s))[i].part = "head"
               ELSE Tail(Tail(s))[i].part = "payload" /\ Tail(Tail(s))[i].n = Tail(Tail(s))[i - 1].n
    <3>1. Tail(Tail(s))[i] = s[i + 2]
      BY <2>1, <2>4
    <3>2. (i + 2) % 2 = i % 2 /\ i + 2 \in 1 .. Len(s)
      BY <1>1
    <3>3. CASE i % 2 = 1
      BY <3>1, <3>2, <3>3, <1>1 DEF Frames
    <3>4. CASE i % 2 # 1
      <4>1. i # 1 /\ i - 1 \in 1 .. Len(s) - 2
        BY <3>4
      <4>2. Tail(Tail(s))[i - 1] = s[i + 1]
        BY <2>1, <2>4, <4>1
      <4>3. s[i + 2].part = "payload" /\ s[i + 2].n = s[i + 2 - 1].n
        BY <3>2, <3>4, <1>1 DEF Frames
      <4> QED
        BY <3>1, <3>4, <4>2, <4>3
    <3> QED
      BY <3>3, <3>4
  <2>6. DOMAIN Tail(Tail(s)) = 1 .. Len(s) - 2
    BY <2>4
  <2> QED
    BY <2>2, <2>3, <2>5, <2>6 DEF Frames
<1> QED
  BY <1>3, <1>4 DEF PayloadFirst

\* Thread t goes on with call r; nothing else moves a thread.
Goes(t, r) ==
    /\ r \in WebCalls /\ Fits(r)
    /\ web' = [web EXCEPT ![t] = r]
    /\ role' = role

(* What the other threads see of it.                                         *)
LEMMA WebMoved ==
    ASSUME WebTyped, CallsFit, NEW t \in WebThreads, NEW r, Goes(t, r)
    PROVE  /\ web' \in [WebThreads -> WebCalls] /\ web'[t] = r
           /\ \A u \in WebThreads : u # t => web'[u] = web[u]
           /\ CallsFit'
<1>1. /\ web' \in [WebThreads -> WebCalls] /\ web'[t] = r
      /\ \A u \in WebThreads : u # t => web'[u] = web[u]
  BY DEF WebTyped, Goes
<1>2. CallsFit'
  BY <1>1 DEF CallsFit, Goes, Fits, PhaseFits, KindFits, InMessage, InFrame
<1> QED
  BY <1>1, <1>2

(* Every record of a call has these fields.                                  *)
LEMMA CallFields ==
    ASSUME NEW r \in WebCalls
    PROVE  /\ r.for \in WebPurposes /\ r.conn \in WebClients \cup {NoOne} /\ r.phase \in WebPlaces
           /\ r.left \in Seq(Parts) /\ r.head \in Pieces
           /\ r = [for |-> r.for, conn |-> r.conn, phase |-> r.phase, left |-> r.left, head |-> r.head]
  BY DEF WebCalls

(* No piece is no head.                                                      *)
LEMMA NoPieceIs == NoPiece \in Pieces /\ NoPiece.part = "" /\ NoPiece.part # "head"
  BY DEF NoPiece, Piece, Pieces, Opcodes

(* A call that is over.                                                     *)
LEMMA NoWebFits == NoWeb \in WebCalls /\ Fits(NoWeb)
<1>1. NoWeb \in WebCalls
  <2>1. NoPiece \in Pieces
    BY NoPieceIs
  <2>2. <<>> \in Seq(Parts)
    OBVIOUS
  <2>3. "nothing" \in WebPurposes /\ "out" \in WebPlaces
    BY DEF WebPurposes, WebPlaces
  <2> QED
    BY <2>1, <2>2, <2>3 DEF NoWeb, WebCalls
<1>2. PhaseFits(NoWeb)
  BY DEF NoWeb, PhaseFits
<1>3. NoWeb.left = <<>> /\ DOMAIN NoWeb.left = {}
  BY DEF NoWeb
<1> QED
  BY <1>1, <1>2, <1>3 DEF Fits, NoWeb, InMessage

(* A call that only moves on.                                                *)
LEMMA GoToIs ==
    ASSUME WebTyped, NEW t \in WebThreads, NEW p \in WebPlaces, GoTo(t, p)
    PROVE  \E r \in WebCalls :
             /\ web' = [web EXCEPT ![t] = r]
             /\ r.for = web[t].for /\ r.conn = web[t].conn /\ r.phase = p
             /\ r.left = web[t].left /\ r.head = web[t].head
<1> DEFINE r == [web[t] EXCEPT !.phase = p]
<1>1. web[t] \in WebCalls
  BY DEF WebTyped
<1>2. r \in WebCalls
  BY <1>1 DEF WebCalls
<1>3. web' = [web EXCEPT ![t] = r]
  BY <1>1 DEF GoTo, WebTyped
<1> QED
  BY <1>1, <1>2, <1>3 DEF WebCalls

(* A call that moves on to a place that fits what it is for.                 *)
LEMMA GoToFits ==
    ASSUME WebTyped, CallsFit, NEW t \in WebThreads, NEW p \in WebPlaces, GoTo(t, p),
           web[t].phase \notin {"out", "accept"}, p \notin {"out", "accept"},
           NEW r \in WebCalls, r.for = web[t].for, r.conn = web[t].conn, r.phase = p,
           r.left = web[t].left, r.head = web[t].head,
           PhaseFits(r), InMessage(r) => InMessage(web[t]),
           r.head # NoPiece => InFrame(r) \/ p = "mark"
    PROVE  Fits(r)
<1>1. Fits(web[t])
  BY DEF CallsFit
<1>2. KindFits(r, role[r.conn])
  BY <1>1 DEF Fits, KindFits
<1> QED
  BY <1>1, <1>2 DEF Fits

(* A call of ws_recv that looks at the table again.                          *)
LEMMA ListensStep ==
    ASSUME WebTyped, CallsFit, NEW t \in WebThreads, NEW aim \in {"recv", "pong"},
           Listens(t, aim), role' = role, web[t].for \in {"recv", "pong"}
    PROVE  \E r : /\ Goes(t, r)
                  /\ r.for = aim /\ r.conn = web[t].conn /\ r.phase = "check"
                  /\ r.left = <<>> /\ r.head = NoPiece
<1> DEFINE w == web[t]
           r == [w EXCEPT !.for = aim, !.phase = "check", !.left = <<>>, !.head = NoPiece]
<1>1. w \in WebCalls /\ Fits(w)
  BY DEF WebTyped, CallsFit
<1>2. web' = [web EXCEPT ![t] = r]
  BY DEF Listens
<1>3. r.for = aim /\ r.conn = w.conn /\ r.phase = "check" /\ r.left = <<>> /\ r.head = NoPiece
  BY <1>1 DEF WebCalls
<1>4. aim \in WebPurposes /\ "check" \in WebPlaces
  BY DEF WebPurposes, WebPlaces
<1>5. <<>> \in Seq(Parts)
  OBVIOUS
<1>6. NoPiece \in Pieces
  BY NoPieceIs
<1>7. r \in WebCalls
  BY <1>1, <1>4, <1>5, <1>6 DEF WebCalls
<1>8. DOMAIN r.left = {}
  BY <1>3
<1> HIDE DEF r
<1>9. w.phase \notin {"out", "accept"}
  BY <1>1 DEF Fits, PhaseFits, InMessage, InFrame
<1>10. KindFits(r, role[r.conn]) /\ r.conn \in WebClients
  BY <1>1, <1>3, <1>9 DEF Fits, KindFits
<1>11. PhaseFits(r)
  BY <1>3 DEF PhaseFits, InFrame, InMessage
<1>12. Fits(r)
  BY <1>3, <1>8, <1>10, <1>11 DEF Fits, InMessage
<1> QED
  BY <1>2, <1>3, <1>7, <1>12 DEF Goes

\* The call is over, or goes on at place p.
Passes(w, r, p) ==
    /\ r.for = w.for /\ r.conn = w.conn /\ r.phase = p /\ r.left = w.left /\ r.head = w.head

\* Where a call is after a message, whether it was sent or not.
AfterMessage(w, r) ==
    \/ r = NoWeb /\ w.for \notin {"accept", "refuse", "respond", "close", "pong"}
    \/ w.for = "accept" /\ (Passes(w, r, "insert") \/ Passes(w, r, "close"))
    \/ w.for \in {"refuse", "respond"} /\ Passes(w, r, "close")
    \/ w.for = "close" /\ Passes(w, r, "remove")
    \/ w.for = "send" /\ Passes(w, r, "mark")
    \/ /\ w.for = "pong" /\ r.for = "recv" /\ r.conn = w.conn /\ r.phase = "check"
       /\ r.left = <<>> /\ r.head = NoPiece

(* Where write_all leaves a call.                                            *)
LEMMA WrittenStep ==
    ASSUME WebTyped, CallsFit, NEW t \in WebThreads, NEW ok \in BOOLEAN, InMessage(web[t]),
           Written(t, ok), role' = role
    PROVE  \E r : Goes(t, r) /\ AfterMessage(web[t], r)
<1> DEFINE w == web[t]
<1>1. w \in WebCalls /\ Fits(w)
  BY DEF WebTyped, CallsFit
<1>2. w.phase \notin {"out", "accept", "mark"} /\ w.head = NoPiece /\ w.conn \in WebClients
  BY <1>1 DEF Fits, InMessage, InFrame
<1>a. w.for \in {"accept", "refuse", "respond", "send", "close", "pong"}
  BY <1>1, <1>2 DEF Fits, PhaseFits, InMessage, InFrame, WebCalls, WebPurposes
<1>3. CASE w.for = "accept"
  <2>1. PICK p \in {"insert", "close"} : GoTo(t, p)
    BY <1>3 DEF Written
  <2>2. p \in WebPlaces
    BY <2>1 DEF WebPlaces
  <2>3. PICK r \in WebCalls : web' = [web EXCEPT ![t] = r] /\ Passes(w, r, p)
    BY <2>1, <2>2, GoToIs DEF Passes
  <2>4. Fits(r)
    BY <1>1, <1>2, <1>3, <2>1, <2>2, <2>3, GoToFits DEF Passes, PhaseFits, InMessage, InFrame
  <2> QED
    BY <1>3, <2>1, <2>3, <2>4 DEF Goes, AfterMessage
<1>4. CASE w.for \in {"refuse", "respond"}
  <2>1. GoTo(t, "close") /\ "close" \in WebPlaces
    BY <1>4 DEF Written, WebPlaces
  <2>3. PICK r \in WebCalls : web' = [web EXCEPT ![t] = r] /\ Passes(w, r, "close")
    BY <2>1, GoToIs DEF Passes
  <2>4. Fits(r)
    BY <1>1, <1>2, <1>4, <2>1, <2>3, GoToFits DEF Passes, PhaseFits, InMessage, InFrame
  <2> QED
    BY <1>4, <2>3, <2>4 DEF Goes, AfterMessage
<1>5. CASE w.for = "close"
  <2>1. GoTo(t, "remove") /\ "remove" \in WebPlaces
    BY <1>5 DEF Written, WebPlaces
  <2>3. PICK r \in WebCalls : web' = [web EXCEPT ![t] = r] /\ Passes(w, r, "remove")
    BY <2>1, GoToIs DEF Passes
  <2>4. Fits(r)
    BY <1>1, <1>2, <1>5, <2>1, <2>3, GoToFits DEF Passes, PhaseFits, InMessage, InFrame
  <2> QED
    BY <1>5, <2>3, <2>4 DEF Goes, AfterMessage
<1>6. CASE w.for = "pong"
  <2>1. Listens(t, "recv")
    BY <1>6 DEF Written
  <2> QED
    BY <1>1, <1>2, <1>6, <2>1, ListensStep DEF AfterMessage
<1>7. CASE w.for = "send"
  <2>1. CASE GoTo(t, "mark")
    <3>1. "mark" \in WebPlaces
      BY DEF WebPlaces
    <3>3. PICK r \in WebCalls : web' = [web EXCEPT ![t] = r] /\ Passes(w, r, "mark")
      BY <2>1, <3>1, GoToIs DEF Passes
    <3>4. Fits(r)
      BY <1>1, <1>2, <1>7, <2>1, <3>1, <3>3, GoToFits DEF Passes, PhaseFits, InMessage, InFrame
    <3> QED
      BY <1>7, <3>3, <3>4 DEF Goes, AfterMessage
  <2>2. CASE EndCall(t)
    BY <1>7, <2>2, NoWebFits DEF EndCall, Goes, AfterMessage
  <2> QED
    BY <1>7, <2>1, <2>2 DEF Written
<1> QED
  BY <1>a, <1>3, <1>4, <1>5, <1>6, <1>7

\* Where a call is after a frame, a head or a failure to read.
AfterFrame(w, r) ==
    \/ r = NoWeb /\ w.for = "recv"
    \/ w.for = "recv" /\ Passes(w, r, "mark")
    \/ w.for = "accept" /\ Passes(w, r, "close")
    \/ /\ w.for = "recv" /\ r.for \in {"recv", "pong"} /\ r.conn = w.conn /\ r.phase = "check"
       /\ r.left = <<>> /\ r.head = NoPiece

(* Where a whole frame leaves a call of ws_recv.                             *)
LEMMA FrameReadStep ==
    ASSUME WebTyped, CallsFit, NEW t \in WebThreads, NEW op, InFrame(web[t]), web[t].for = "recv",
           FrameRead(t, op), role' = role
    PROVE  \E r : Goes(t, r) /\ AfterFrame(web[t], r)
<1> DEFINE w == web[t]
<1>1. w \in WebCalls /\ Fits(w)
  BY DEF WebTyped, CallsFit
<1>2. w.phase \notin {"out", "accept", "mark"}
  BY DEF InFrame
<1>3. CASE GoTo(t, "mark")
  <2>1. "mark" \in WebPlaces
    BY DEF WebPlaces
  <2>2. PICK r \in WebCalls : web' = [web EXCEPT ![t] = r] /\ Passes(w, r, "mark")
    BY <1>3, <2>1, GoToIs DEF Passes
  <2>3. PhaseFits(r)
    BY <2>2 DEF Passes, PhaseFits
  <2>4. ~InMessage(r)
    BY <2>2 DEF Passes, InMessage
  <2>5. Fits(r)
    BY <1>2, <1>3, <2>1, <2>2, <2>3, <2>4, GoToFits DEF Passes
  <2> QED
    BY <2>2, <2>5 DEF Goes, AfterFrame
<1>4. CASE EndCall(t)
  BY <1>4, NoWebFits DEF EndCall, Goes, AfterFrame
<1>5. CASE \E p \in {"recv", "pong"} : Listens(t, p)
  BY <1>5, ListensStep DEF AfterFrame
<1> QED
  BY <1>3, <1>4, <1>5 DEF FrameRead

(* Where a read that fails leaves a call.                                    *)
LEMMA ReadFailsStep ==
    ASSUME WebTyped, CallsFit, NEW t \in WebThreads, InFrame(web[t]), ReadFails(t), role' = role
    PROVE  \E r : Goes(t, r) /\ AfterFrame(web[t], r)
<1> DEFINE w == web[t]
<1>1. w \in WebCalls /\ Fits(w)
  BY DEF WebTyped, CallsFit
<1>2. w.phase \notin {"out", "accept", "mark"} /\ w.for \in {"accept", "recv"} /\ ~InMessage(w)
  BY <1>1 DEF InFrame, Fits, PhaseFits, WebCalls, WebPurposes, InMessage
<1>3. CASE w.for = "accept"
  <2>0. w.head = NoPiece
    BY <1>1, <1>3 DEF Fits
  <2>1. "close" \in WebPlaces /\ GoTo(t, "close")
    BY <1>3 DEF WebPlaces, ReadFails
  <2>2. PICK r \in WebCalls : web' = [web EXCEPT ![t] = r] /\ Passes(w, r, "close")
    BY <2>1, GoToIs DEF Passes
  <2>3. PhaseFits(r)
    BY <2>2, <1>3 DEF Passes, PhaseFits
  <2>4. ~InMessage(r)
    BY <2>2 DEF Passes, InMessage
  <2>5. Fits(r)
    BY <1>2, <2>0, <2>1, <2>2, <2>3, <2>4, GoToFits DEF Passes
  <2> QED
    BY <1>3, <2>2, <2>5 DEF Goes, AfterFrame
<1>4. CASE w.for = "recv"
  BY <1>4, NoWebFits DEF ReadFails, EndCall, Goes, AfterFrame
<1> QED
  BY <1>2, <1>3, <1>4

\* The head of a frame was read.
AfterHead(w, r, head) ==
    r.for = "recv" /\ r.conn = w.conn /\ r.phase = "read" /\ r.left = w.left /\ r.head = head

(* Where the head of a frame leaves a call.                                  *)
LEMMA HeadReadStep ==
    ASSUME WebTyped, CallsFit, NEW t \in WebThreads, NEW head \in Pieces, head.part = "head",
           InFrame(web[t]), web[t].for = "recv", HeadRead(t, head), role' = role
    PROVE  \E r : Goes(t, r) /\ AfterHead(web[t], r, head)
<1> DEFINE w == web[t]
           r == [w EXCEPT !.phase = "read", !.head = head]
<1>1. w \in WebCalls /\ Fits(w)
  BY DEF WebTyped, CallsFit
<1>2. web' = [web EXCEPT ![t] = r]
  BY <1>1 DEF HeadRead, WebTyped
<1>3. r.for = "recv" /\ r.conn = w.conn /\ r.phase = "read" /\ r.left = w.left /\ r.head = head
  BY <1>1 DEF WebCalls
<1>4. "read" \in WebPlaces
  BY DEF WebPlaces
<1>5. r \in WebCalls
  BY <1>1, <1>4 DEF WebCalls
<1> HIDE DEF r
<1>6. PhaseFits(r)
  BY <1>3 DEF PhaseFits, InFrame
<1>7. w.phase \notin {"out", "accept"}
  BY DEF InFrame
<1>8. KindFits(r, role[r.conn]) /\ r.conn \in WebClients
  BY <1>1, <1>3, <1>7 DEF Fits, KindFits
<1>9. \A i \in DOMAIN r.left : ~r.left[i].late
  BY <1>1, <1>3 DEF Fits
<1>10. Fits(r)
  BY <1>3, <1>6, <1>8, <1>9 DEF Fits, InMessage, InFrame
<1> QED
  BY <1>2, <1>3, <1>5, <1>10 DEF Goes, AfterHead

\* The request was read.
AfterRequest(w, r, t) ==
    /\ r.for \in {"accept", "refuse"} /\ r.conn = w.conn /\ r.phase \in {"write", "close", "insert"}
    /\ r.head = NoPiece
    /\ r.phase = "write" => Begun(r.left, t)

(* A short answer is a message of one part.                                  *)
LEMMA ShortIs ==
    ASSUME NEW t \in WebThreads
    PROVE  /\ Short(t) \in Seq(Parts) /\ Begun(Short(t), t) /\ Short(t) # <<>>
           /\ Len(Short(t)) = 1
           /\ \A i \in DOMAIN Short(t) : ~Short(t)[i].late
<1> DEFINE p == [by |-> t, part |-> 0, late |-> FALSE]
<1>1. p \in Parts /\ p.part = 0 /\ p.late = FALSE
  BY DEF Parts
<1>2. Short(t) = <<p>>
  BY DEF Short
<1> HIDE DEF p
<1>3. <<p>> \in Seq(Parts) /\ <<p>> # <<>> /\ Len(<<p>>) = 1 /\ <<p>>[1] = p /\ DOMAIN <<p>> = {1}
  BY <1>1
<1> QED
  BY <1>1, <1>2, <1>3 DEF Begun

(* Where the request leaves its acceptor.                                    *)
LEMMA ParsedStep ==
    ASSUME WebTyped, CallsFit, NEW t \in WebThreads, NEW request, InFrame(web[t]),
           web[t].for = "accept", Parsed(t, web[t].conn, request), role' = role
    PROVE  \E r : Goes(t, r) /\ AfterRequest(web[t], r, t)
<1> DEFINE w == web[t]
           k == role[w.conn]
           f == IF request = "bad" THEN "refuse" ELSE "accept"
           p == IF k # "http" THEN "write" ELSE IF request = "bad" THEN "close" ELSE "insert"
           l == IF k = "http" THEN <<>> ELSE Short(t)
           r == [w EXCEPT !.for = f, !.phase = p, !.left = l]
<1>1. w \in WebCalls /\ Fits(w)
  BY DEF WebTyped, CallsFit
<1>2. w.head = NoPiece /\ w.phase \notin {"out", "accept"}
  BY <1>1 DEF Fits, InFrame
<1>3. f \in {"accept", "refuse"} /\ f \in WebPurposes
  BY DEF WebPurposes
<1>4. /\ k # "http" => p = "write"
      /\ k = "http" /\ request = "bad" => p = "close"
      /\ k = "http" /\ request # "bad" => p = "insert"
  OBVIOUS
<1>5. p \in WebPlaces
  BY <1>4 DEF WebPlaces
<1>6. l \in Seq(Parts) /\ \A i \in DOMAIN l : ~l[i].late
  <2>1. <<>> \in Seq(Parts) /\ DOMAIN <<>> = {}
    OBVIOUS
  <2> QED
    BY <2>1, ShortIs
<1>7. web' = [web EXCEPT ![t] = r]
  BY <1>1 DEF Parsed, WebTyped
<1>8. r \in WebCalls
  <2> HIDE DEF f, p, l
  <2> QED
    BY <1>1, <1>3, <1>5, <1>6 DEF WebCalls
<1>9. r.for = f /\ r.conn = w.conn /\ r.phase = p /\ r.left = l /\ r.head = NoPiece
  <2> HIDE DEF f, p, l
  <2> QED
    BY <1>1, <1>2 DEF WebCalls
<1> HIDE DEF r
<1>10. PhaseFits(r)
  BY <1>3, <1>4, <1>9 DEF PhaseFits, InMessage
<1>11. KindFits(r, k) /\ r.conn \in WebClients
  BY <1>1, <1>2, <1>3, <1>4, <1>9 DEF Fits, KindFits, InMessage
<1>12. r.phase = "write" => Begun(r.left, t) /\ r.left # <<>> /\ Len(r.left) = 1
  BY <1>4, <1>9, ShortIs
<1>13. r.phase \in {"write", "close", "insert"}
  BY <1>4, <1>9
<1>14. Fits(r)
  <2> HIDE DEF f, p, l
  <2> QED
    BY <1>6, <1>9, <1>10, <1>11, <1>12, <1>13 DEF Fits, InMessage
<1> QED
  BY <1>3, <1>7, <1>8, <1>9, <1>12, <1>13, <1>14 DEF Goes, AfterRequest

(* A call begins.                                                            *)
LEMMA EnterStep ==
    ASSUME WebTyped, NEW t \in WebThreads, NEW c \in WebClients \cup {NoOne},
           NEW aim \in WebPurposes, NEW phase \in WebPlaces, NEW left \in Seq(Parts),
           EnterCall(t, c, aim, phase, left)
    PROVE  /\ web[t] = NoWeb
           /\ \E r \in WebCalls :
                /\ web' = [web EXCEPT ![t] = r]
                /\ r.for = aim /\ r.conn = c /\ r.phase = phase /\ r.left = left
                /\ r.head = NoPiece
<1> DEFINE r == [NoWeb EXCEPT !.for = aim, !.conn = c, !.phase = phase, !.left = left]
<1>1. web' = [web EXCEPT ![t] = r] /\ web[t] = NoWeb
  BY DEF EnterCall
<1>2. NoWeb \in WebCalls /\ NoWeb.head = NoPiece
  BY NoWebFits DEF NoWeb
<1>3. r \in WebCalls
  BY <1>2 DEF WebCalls
<1>4. r.for = aim /\ r.conn = c /\ r.phase = phase /\ r.left = left /\ r.head = NoPiece
  BY <1>2 DEF WebCalls
<1> QED
  BY <1>1, <1>3, <1>4

(* A call of accept begins without a client.                                 *)
LEMMA AcceptCallStep ==
    ASSUME WebTyped, CallsFit, NEW t \in WebThreads, NEW k \in ServerKinds, AcceptCall(t, k)
    PROVE  \E r : /\ Goes(t, r) /\ web[t] = NoWeb
                  /\ r.for = "accept" /\ r.conn = NoOne /\ r.phase = "accept"
                  /\ r.left = <<>> /\ r.head = NoPiece
<1>1. EnterCall(t, NoOne, "accept", "accept", <<>>) /\ role' = role
  BY DEF AcceptCall, clientSide
<1>2. "accept" \in WebPurposes /\ "accept" \in WebPlaces
  BY DEF WebPurposes, WebPlaces
<1> DEFINE none == <<>>
<1>3. none \in Seq(Parts)
  OBVIOUS
<1>d. DOMAIN none = {}
  OBVIOUS
<1>4. PICK r \in WebCalls : /\ web' = [web EXCEPT ![t] = r]
                            /\ r.for = "accept" /\ r.conn = NoOne /\ r.phase = "accept"
                            /\ r.left = none /\ r.head = NoPiece
  <2>1. EnterCall(t, NoOne, "accept", "accept", none)
    BY <1>1
  <2>2. none \in Seq(Parts) /\ NoOne \in WebClients \cup {NoOne}
    BY <1>3
  <2> HIDE DEF none
  <2> QED
    BY <1>2, <2>1, <2>2, EnterStep
<1>5. Fits(r)
  BY <1>d, <1>4 DEF Fits, PhaseFits, InMessage
<1>6. web[t] = NoWeb
  BY <1>1 DEF EnterCall
<1> QED
  BY <1>1, <1>4, <1>5, <1>6 DEF Goes

(* accept goes on with the client it has taken.                              *)
LEMMA AcceptClientStep ==
    ASSUME WebTyped, CallsFit, NEW t \in WebThreads, NEW c \in WebClients, AcceptClient(t, c),
           role[c] \in ServerKinds
    PROVE  \E r : /\ Goes(t, r)
                  /\ r.for = "accept" /\ r.conn = c /\ r.phase = "read"
                  /\ r.left = web[t].left /\ r.head = NoPiece
<1> DEFINE w == web[t]
           r == [w EXCEPT !.conn = c, !.phase = "read"]
<1>1. w \in WebCalls /\ Fits(w) /\ w.phase = "accept"
  BY DEF WebTyped, CallsFit, AcceptClient
<1>2. w.for = "accept"
  BY <1>1 DEF Fits, PhaseFits, WebCalls, WebPurposes, InMessage, InFrame
<1>3. w.head = NoPiece
  BY <1>1, <1>2 DEF Fits
<1>4. web' = [web EXCEPT ![t] = r]
  BY <1>1 DEF AcceptClient, WebTyped
<1>5. "read" \in WebPlaces
  BY DEF WebPlaces
<1>6. r \in WebCalls
  BY <1>1, <1>5 DEF WebCalls
<1>7. r.for = "accept" /\ r.conn = c /\ r.phase = "read" /\ r.left = w.left /\ r.head = NoPiece
  BY <1>1, <1>2, <1>3 DEF WebCalls
<1> HIDE DEF r
<1>8. \A i \in DOMAIN r.left : ~r.left[i].late
  BY <1>1, <1>7 DEF Fits
<1>9. Fits(r)
  BY <1>7, <1>8 DEF Fits, PhaseFits, KindFits, InMessage
<1>10. role' = role
  BY DEF AcceptClient
<1> QED
  BY <1>4, <1>6, <1>7, <1>9, <1>10 DEF Goes

(* The message of a call, in two parts.                                      *)
LEMMA MessageIs ==
    ASSUME NEW t \in WebThreads, NEW c, ~Odd("over", c)
    PROVE  /\ Message(t, c) \in Seq(Parts) /\ Begun(Message(t, c), t) /\ Message(t, c) # <<>>
           /\ \A i \in DOMAIN Message(t, c) : ~Message(t, c)[i].late
<1> DEFINE m == [p \in 1 .. 2 |-> [by |-> t, part |-> p, late |-> FALSE]]
<1>1. Message(t, c) = m
  <2>1. (<<"over", c>> \in webOdd) = FALSE
    BY DEF Odd
  <2> QED
    BY <2>1 DEF Message
<1>2. \A p \in 1 .. 2 : [by |-> t, part |-> p, late |-> FALSE] \in Parts
  BY DEF Parts
<1>3. m \in [1 .. 2 -> Parts]
  BY <1>2
<1>4. m \in Seq(Parts) /\ Len(m) = 2 /\ DOMAIN m = 1 .. 2
  BY <1>3
<1>5. /\ m[1].part = 1 /\ m[2].part = 2 /\ m[1].by = t /\ m[2].by = t
      /\ \A i \in 1 .. 2 : m[i].late = FALSE
  OBVIOUS
<1>6. m # <<>>
  BY <1>4
<1> HIDE DEF m
<1>7. Begun(m, t)
  BY <1>4, <1>5 DEF Begun
<1> QED
  BY <1>1, <1>4, <1>5, <1>6, <1>7

(* http_respond begins with a message to the client.                         *)
LEMMA HttpRespondStep ==
    ASSUME WebTyped, CallsFit, NEW t \in WebThreads, NEW c \in WebClients, InTime(c),
           HttpRespond(t, c)
    PROVE  \E r : /\ Goes(t, r) /\ web[t] = NoWeb
                  /\ r.for = "respond" /\ r.conn = c /\ r.phase = "write"
                  /\ Begun(r.left, t) /\ r.head = NoPiece
<1>1. EnterCall(t, c, "respond", "write", Message(t, c)) /\ role' = role /\ role[c] = "http"
  BY DEF HttpRespond, clientSide
<1>2. "respond" \in WebPurposes /\ "write" \in WebPlaces
  BY DEF WebPurposes, WebPlaces
<1>3. ~Odd("over", c)
  BY <1>1 DEF InTime
<1>4. PICK r \in WebCalls : /\ web' = [web EXCEPT ![t] = r]
                            /\ r.for = "respond" /\ r.conn = c /\ r.phase = "write"
                            /\ r.left = Message(t, c) /\ r.head = NoPiece
  BY <1>1, <1>2, <1>3, MessageIs, EnterStep
<1>5. PhaseFits(r) /\ KindFits(r, role[c])
  BY <1>1, <1>4 DEF PhaseFits, KindFits, InMessage, ServerKinds
<1>6. Fits(r)
  BY <1>3, <1>4, <1>5, MessageIs DEF Fits
<1>7. web[t] = NoWeb
  BY <1>1 DEF EnterCall
<1> QED
  BY <1>1, <1>3, <1>4, <1>6, <1>7, MessageIs DEF Goes

(* A call on an entry begins with its look at the table.                     *)
LEMMA CallOnStep ==
    ASSUME WebTyped, CallsFit, NEW t \in WebThreads, NEW c \in WebClients, NEW k, NEW aim,
           NEW phase, CallOn(t, c, k, aim, phase),
           \/ aim \in {"send", "close"} /\ k \in {"ws", "sse"} /\ phase = "check"
           \/ aim = "close" /\ k \in {"ws", "sse"} /\ phase = "remove"
           \/ aim = "recv" /\ k = "ws" /\ phase = "check"
    PROVE  \E r : /\ Goes(t, r) /\ web[t] = NoWeb
                  /\ r.for = aim /\ r.conn = c /\ r.phase = phase
                  /\ r.left = <<>> /\ r.head = NoPiece
<1>1. EnterCall(t, c, aim, phase, <<>>) /\ role' = role /\ role[c] = k
  BY DEF CallOn, clientSide
<1>2. aim \in WebPurposes /\ phase \in WebPlaces
  BY DEF WebPurposes, WebPlaces
<1> DEFINE none == <<>>
<1>3. none \in Seq(Parts)
  OBVIOUS
<1>d. DOMAIN none = {}
  OBVIOUS
<1>4. PICK r \in WebCalls : /\ web' = [web EXCEPT ![t] = r]
                            /\ r.for = aim /\ r.conn = c /\ r.phase = phase
                            /\ r.left = none /\ r.head = NoPiece
  <2>1. EnterCall(t, c, aim, phase, none)
    BY <1>1
  <2>2. none \in Seq(Parts) /\ NoOne \in WebClients \cup {NoOne}
    BY <1>3
  <2> HIDE DEF none
  <2> QED
    BY <1>2, <2>1, <2>2, EnterStep
<1>5. PhaseFits(r) /\ KindFits(r, role[c])
  BY <1>1, <1>4 DEF PhaseFits, KindFits, InMessage, ServerKinds
<1>6. Fits(r)
  BY <1>d, <1>4, <1>5 DEF Fits, InMessage
<1>7. web[t] = NoWeb
  BY <1>1 DEF EnterCall
<1> QED
  BY <1>1, <1>4, <1>6, <1>7 DEF Goes

(* Steps that end a call.                                                    *)
LEMMA EndStep ==
    ASSUME NEW t \in WebThreads, EndCall(t), role' = role
    PROVE  Goes(t, NoWeb)
  BY NoWebFits DEF EndCall, Goes

(* Steps that go on to the place of a closing call.                          *)
LEMMA ClosingStep ==
    ASSUME WebTyped, CallsFit, NEW t \in WebThreads, NEW p \in {"remove", "close"}, GoTo(t, p),
           web[t].for = "close", role' = role
    PROVE  \E r : Goes(t, r) /\ Passes(web[t], r, p)
<1>1. p \in WebPlaces
  BY DEF WebPlaces
<1>2. PICK r \in WebCalls : web' = [web EXCEPT ![t] = r] /\ Passes(web[t], r, p)
  BY <1>1, GoToIs DEF Passes
<1>3. Fits(web[t]) /\ web[t].phase \notin {"out", "accept"} /\ web[t].head = NoPiece
  BY DEF CallsFit, Fits, PhaseFits, InMessage
<1>4. PhaseFits(r) /\ ~InMessage(r)
  BY <1>2 DEF Passes, PhaseFits, InMessage
<1>5. Fits(r)
  BY <1>1, <1>2, <1>3, <1>4, GoToFits DEF Passes
<1> QED
  BY <1>2, <1>5 DEF Goes

\* Where a call is after its look at the table.
AfterCheck(w, r, t) ==
    \/ /\ entry[w.conn] = "open" /\ w.for = "recv"
       /\ r.for = "recv" /\ r.conn = w.conn /\ r.phase = "read" /\ r.head = NoPiece
       /\ webOdd' = IF \E u \in WebThreads : Reads(web[u], w.conn)
                    THEN webOdd \cup {<<"read", w.conn>>} ELSE webOdd
    \/ /\ entry[w.conn] = "open" /\ w.for \in {"send", "close", "pong"}
       /\ r.for = w.for /\ r.conn = w.conn /\ r.phase = "write" /\ r.head = NoPiece
       /\ Begun(r.left, t)
       /\ webOdd' = IF \E u \in WebThreads : Writes(web[u], w.conn)
                    THEN webOdd \cup {<<"write", w.conn>>} ELSE webOdd
    \/ /\ entry[w.conn] # "open" /\ webOdd' = webOdd
       /\ \/ w.for = "close" /\ Passes(w, r, "remove")
          \/ /\ w.for = "pong" /\ r.for = "recv" /\ r.conn = w.conn /\ r.phase = "check"
             /\ r.left = <<>> /\ r.head = NoPiece
          \/ w.for \in {"send", "recv"} /\ r = NoWeb

(* Where the look at the table leaves a call.                                *)
LEMMA CheckStep ==
    ASSUME WebTyped, CallsFit, NEW t \in WebThreads, InTime(web[t].conn), Check(t)
    PROVE  \E r : Goes(t, r) /\ AfterCheck(web[t], r, t)
<1> DEFINE w == web[t]
           c == w.conn
<1>1. w \in WebCalls /\ Fits(w) /\ role' = role /\ w.phase = "check"
  BY DEF WebTyped, CallsFit, Check, clientSide
<1>2. w.for \in {"send", "recv", "close", "pong"} /\ w.head = NoPiece
  BY <1>1 DEF Fits, PhaseFits, InMessage, InFrame, WebCalls, WebPurposes
<1>3. c \in WebClients /\ KindFits(w, role[c])
  BY <1>1 DEF Fits
<1>4. CASE entry[c] = "open" /\ w.for = "recv"
  <2> DEFINE r == [w EXCEPT !.phase = "read", !.left = <<>>]
  <2>1. web' = [web EXCEPT ![t] = r]
    BY <1>1, <1>4 DEF Check, WebTyped
  <2>2. r.for = "recv" /\ r.conn = c /\ r.phase = "read" /\ r.left = <<>> /\ r.head = NoPiece
    BY <1>1, <1>2, <1>4 DEF WebCalls
  <2>3. <<>> \in Seq(Parts)
    OBVIOUS
  <2>4. "read" \in WebPlaces
    BY DEF WebPlaces
  <2>5. r \in WebCalls
    BY <1>1, <2>3, <2>4 DEF WebCalls
  <2>6. DOMAIN r.left = {}
    BY <2>2
  <2> HIDE DEF r
  <2>7. Fits(r)
    BY <1>3, <1>4, <2>2, <2>6 DEF Fits, PhaseFits, KindFits, InFrame, InMessage
  <2>8. Readers(c) = {u \in WebThreads : Reads(web[u], c)}
    BY DEF Readers, Using, Reads, InFrame
  <2>9. webOdd' = IF \E u \in WebThreads : Reads(web[u], c)
                  THEN webOdd \cup {<<"read", c>>} ELSE webOdd
    <3>1. webOdd' = IF Readers(c) = {} THEN webOdd ELSE webOdd \cup {<<"read", c>>}
      BY <1>4 DEF Check
    <3> QED
      BY <2>8, <3>1
  <2> QED
    BY <1>1, <1>4, <2>1, <2>2, <2>5, <2>7, <2>9 DEF Goes, AfterCheck
<1>5. CASE entry[c] = "open" /\ w.for # "recv"
  <2> DEFINE m == Message(t, c)
             r == [w EXCEPT !.phase = "write", !.left = m]
  <2>0. ~Odd("over", c)
    BY <1>5 DEF InTime
  <2>m. m \in Seq(Parts) /\ Begun(m, t) /\ m # <<>> /\ \A i \in DOMAIN m : ~m[i].late
    BY <2>0, MessageIs
  <2>1. web' = [web EXCEPT ![t] = r]
    BY <1>1, <1>5 DEF Check, WebTyped
  <2> HIDE DEF m
  <2>2. r.for = w.for /\ r.conn = c /\ r.phase = "write" /\ r.left = m /\ r.head = NoPiece
    BY <1>1, <1>2, <1>5, <2>m DEF WebCalls
  <2>4. "write" \in WebPlaces
    BY DEF WebPlaces
  <2>5. r \in WebCalls
    BY <1>1, <2>m, <2>4 DEF WebCalls
  <2> HIDE DEF r
  <2>6. PhaseFits(r) /\ KindFits(r, role[c])
    BY <1>2, <1>3, <1>5, <2>2 DEF PhaseFits, KindFits, InMessage
  <2>e. r.for \notin {"accept", "refuse"}
    BY <1>2, <2>2
  <2>7. Fits(r)
    BY <1>3, <2>2, <2>m, <2>e, <2>6 DEF Fits
  <2>8. Writers(c) = {u \in WebThreads : Writes(web[u], c)}
    BY DEF Writers, Using, Writes, InMessage
  <2>9. webOdd' = IF \E u \in WebThreads : Writes(web[u], c)
                  THEN webOdd \cup {<<"write", c>>} ELSE webOdd
    <3>1. webOdd' = IF Writers(c) = {} THEN webOdd ELSE webOdd \cup {<<"write", c>>}
      BY <1>5 DEF Check
    <3> QED
      BY <2>8, <3>1
  <2> QED
    BY <1>1, <1>2, <1>5, <2>1, <2>2, <2>5, <2>7, <2>9, <2>m DEF Goes, AfterCheck
<1>6. CASE entry[c] # "open"
  <2>0. webOdd' = webOdd
    BY <1>6 DEF Check
  <2>1. CASE w.for = "close"
    <3>1. GoTo(t, "remove")
      BY <1>6, <2>1 DEF Check
    <3> QED
      BY <1>1, <1>6, <2>0, <2>1, <3>1, ClosingStep DEF AfterCheck
  <2>2. CASE w.for = "pong"
    <3>1. Listens(t, "recv")
      BY <1>6, <2>2 DEF Check
    <3> QED
      BY <1>1, <1>6, <2>0, <2>2, <3>1, ListensStep DEF AfterCheck
  <2>3. CASE w.for \in {"send", "recv"}
    <3>1. EndCall(t)
      BY <1>6, <2>3 DEF Check
    <3> QED
      BY <1>1, <1>6, <2>0, <2>3, <3>1, EndStep DEF AfterCheck
  <2> QED
    BY <1>2, <2>1, <2>2, <2>3
<1> QED
  BY <1>4, <1>5, <1>6

(* A sequence of one element, and a part of a sequence of one.               *)
LEMMA OneElement ==
    ASSUME NEW S, NEW s \in Seq(S), Len(s) = 1
    PROVE  s = <<s[1]>> /\ s[1] \in S
<1>1. s[1] \in S
  OBVIOUS
<1>2. <<s[1]>> \in Seq(S) /\ Len(<<s[1]>>) = 1 /\ <<s[1]>>[1] = s[1]
  BY <1>1
<1>3. \A i \in 1 .. 1 : s[i] = <<s[1]>>[i]
  <2>1. 1 .. 1 = {1}
    OBVIOUS
  <2> QED
    BY <1>2, <2>1
<1> QED
  BY <1>1, <1>2, <1>3

(* A part of length one.                                                     *)
LEMMA PartOfOne ==
    ASSUME NEW S, NEW s \in Seq(S), NEW i \in 1 .. Len(s)
    PROVE  SubSeq(s, i, i) = <<s[i]>> /\ s[i] \in S
<1>1. SubSeq(s, i, i) \in Seq(S) /\ Len(SubSeq(s, i, i)) = 1 /\ SubSeq(s, i, i)[1] = s[i]
  OBVIOUS
<1> QED
  BY <1>1, OneElement

(* Sending and receiving begin with the lock of SOCKETS.                     *)
LEMMA BeginStep ==
    ASSUME WebTyped, CallsFit, NEW t \in WebThreads, NEW p \in {"sending", "receiving"},
           GoTo(t, p), role' = role,
           p = "sending" => InMessage(web[t]), p = "receiving" => InFrame(web[t])
    PROVE  \E r : Goes(t, r) /\ Passes(web[t], r, p)
<1>1. p \in WebPlaces
  BY DEF WebPlaces
<1>2. PICK r \in WebCalls : web' = [web EXCEPT ![t] = r] /\ Passes(web[t], r, p)
  BY <1>1, GoToIs DEF Passes
<1>3. Fits(web[t]) /\ web[t].phase \notin {"out", "accept", "mark"}
  BY DEF CallsFit, InMessage, InFrame
<1>4. PhaseFits(r)
  BY <1>2, <1>3 DEF Passes, PhaseFits, InMessage, InFrame, Fits
<1>5. InMessage(r) => InMessage(web[t])
  BY <1>2 DEF Passes, InMessage
<1>6. r.head # NoPiece => InFrame(r) \/ p = "mark"
  BY <1>2, <1>3 DEF Passes, InFrame, InMessage, Fits
<1>7. Fits(r)
  BY <1>1, <1>2, <1>3, <1>4, <1>5, <1>6, GoToFits DEF Passes
<1> QED
  BY <1>2, <1>7 DEF Goes

\* What a send has done.
AfterSend(w, r, t) ==
    \/ /\ peer[w.conn] = "up" /\ AfterMessage(w, r)
       /\ toPeer' = [toPeer EXCEPT ![w.conn] = Recent(toPeer[w.conn] \o w.left)]
       /\ webOdd' = webOdd
    \/ /\ peer[w.conn] = "up" /\ Len(w.left) = 2
       /\ r.for = w.for /\ r.conn = w.conn /\ r.phase = "write" /\ r.head = NoPiece
       /\ r.left = <<w.left[2]>>
       /\ toPeer' = [toPeer EXCEPT ![w.conn] = Recent(toPeer[w.conn] \o <<w.left[1]>>)]
       /\ webOdd' = webOdd \cup {<<"short", w.conn>>}
    \/ /\ peer[w.conn] = "gone" /\ AfterMessage(w, r)
       /\ toPeer' = toPeer /\ webOdd' = webOdd

(* What remains of a message of which a part was sent.                       *)
LEMMA PartSent ==
    ASSUME NEW l \in Seq(Parts), Len(l) = 1 \/ Len(l) = 2, NEW n \in 1 .. Len(l),
           Unsent(l, n) # <<>>
    PROVE  /\ Len(l) = 2 /\ l[2] \in Parts
           /\ SubSeq(l, 1, n) = <<l[1]>> /\ Unsent(l, n) = <<l[2]>>
<1>1. n # Len(l)
  <2>1. SUFFICES ASSUME n = Len(l) PROVE FALSE
    OBVIOUS
  <2>2. SubSeq(l, n + 1, Len(l)) = <<>>
    BY <2>1
  <2> QED
    BY <2>2 DEF Unsent
<1>2. n = 1 /\ Len(l) = 2
  <2>1. CASE Len(l) = 1
    <3>1. n \in 1 .. 1
      BY <2>1
    <3>2. n = 1
      BY <3>1
    <3> QED
      BY <1>1, <2>1, <3>2
  <2>2. CASE Len(l) = 2
    <3>1. n \in 1 .. 2
      BY <2>2
    <3>2. n # 2
      BY <1>1, <2>2
    <3> QED
      BY <2>2, <3>1, <3>2
  <2> QED
    BY <2>1, <2>2
<1>3. 1 \in 1 .. Len(l) /\ 2 \in 1 .. Len(l)
  BY <1>2
<1>4. SubSeq(l, 1, 1) = <<l[1]>> /\ SubSeq(l, 2, 2) = <<l[2]>> /\ l[2] \in Parts
  BY <1>3, PartOfOne
<1> QED
  BY <1>2, <1>4 DEF Unsent

(* Where send leaves a call.                                                 *)
LEMMA SocketSendStep ==
    ASSUME WebTyped, CallsFit, NEW t \in WebThreads, SocketSend(t),
           Begun(web[t].left, t) \/ SecondPart(web[t].left, t)
    PROVE  \E r : Goes(t, r) /\ AfterSend(web[t], r, t)
<1> DEFINE w == web[t]
           c == w.conn
           l == w.left
<1>1. w \in WebCalls /\ Fits(w) /\ role' = role /\ w.phase = "sending"
  BY DEF WebTyped, CallsFit, SocketSend, clientSide
<1>2. InMessage(w) /\ w.head = NoPiece /\ c \in WebClients
  BY <1>1 DEF Fits, InMessage, InFrame
<1>3. l \in Seq(Parts) /\ Len(l) \in {1, 2}
  BY <1>1, CallFields DEF Begun, SecondPart
<1>4. ASSUME peer[c] = "up", NEW n \in 1 .. Len(l),
             toPeer' = [toPeer EXCEPT ![c] = Recent(@ \o SubSeq(l, 1, n))],
             Unsent(l, n) = <<>>, Written(t, TRUE), webOdd' = webOdd
      PROVE  \E r : Goes(t, r) /\ AfterSend(w, r, t)
  <2>1. n = Len(l)
    <3>1. Len(Unsent(l, n)) = Len(l) - n
      BY <1>3 DEF Unsent
    <3> QED
      BY <1>3, <1>4, <3>1
  <2>2. SubSeq(l, 1, n) = l
    BY <1>3, <2>1
  <2>3. PICK r : Goes(t, r) /\ AfterMessage(w, r)
    BY <1>1, <1>2, <1>4, WrittenStep
  <2> QED
    BY <1>4, <2>2, <2>3 DEF AfterSend
<1>5. ASSUME peer[c] = "up", NEW n \in 1 .. Len(l),
             toPeer' = [toPeer EXCEPT ![c] = Recent(@ \o SubSeq(l, 1, n))],
             Unsent(l, n) # <<>>,
             web' = [web EXCEPT ![t].phase = "write", ![t].left = Unsent(l, n)],
             webOdd' = webOdd \cup {<<"short", c>>}
      PROVE  \E r : Goes(t, r) /\ AfterSend(w, r, t)
  <2> DEFINE r == [w EXCEPT !.phase = "write", !.left = Unsent(l, n)]
  <2>2. Len(l) = 2 /\ l[2] \in Parts /\ SubSeq(l, 1, n) = <<l[1]>> /\ Unsent(l, n) = <<l[2]>>
    BY <1>3, <1>5, PartSent
  <2>3. <<l[2]>> \in Seq(Parts) /\ DOMAIN <<l[2]>> = {1} /\ <<l[2]>>[1] = l[2] /\ <<l[2]>> # <<>>
    BY <2>2
  <2>4. web' = [web EXCEPT ![t] = r]
    BY <1>1, <1>5 DEF WebTyped
  <2>5. r.for = w.for /\ r.conn = c /\ r.phase = "write" /\ r.left = <<l[2]>> /\ r.head = NoPiece
    BY <1>1, <1>2, <2>2 DEF WebCalls
  <2>6. "write" \in WebPlaces
    BY DEF WebPlaces
  <2>7. r \in WebCalls
    BY <1>1, <2>2, <2>3, <2>6 DEF WebCalls
  <2> HIDE DEF r
  <2>a. PhaseFits(w) /\ KindFits(w, role[c])
    BY <1>1, <1>2 DEF Fits
  <2>b. InMessage(r)
    BY <2>5 DEF InMessage
  <2>8. PhaseFits(r) /\ KindFits(r, role[c])
    BY <1>1, <1>2, <2>a, <2>b, <2>5 DEF PhaseFits, KindFits, InFrame
  <2>9. ~l[2].late
    BY <1>1, <1>3, <2>2 DEF Fits
  <2>10. Fits(r)
    BY <1>2, <2>3, <2>5, <2>8, <2>9 DEF Fits, InMessage
  <2> QED
    BY <1>1, <1>5, <2>2, <2>4, <2>5, <2>7, <2>10 DEF Goes, AfterSend
<1>6. ASSUME peer[c] = "gone", Written(t, FALSE), toPeer' = toPeer, webOdd' = webOdd
      PROVE  \E r : Goes(t, r) /\ AfterSend(w, r, t)
  <2>2. PICK r : Goes(t, r) /\ AfterMessage(w, r)
    BY <1>1, <1>2, <1>6, WrittenStep
  <2> QED
    BY <1>6, <2>2 DEF AfterSend
<1>7. CASE peer[c] = "gone" /\ Written(t, FALSE) /\ UNCHANGED <<toPeer, webOdd>>
  BY <1>6, <1>7
<1>8. CASE /\ peer[c] = "up"
           /\ \E n \in 1 .. Len(l) :
                 /\ toPeer' = [toPeer EXCEPT ![c] = Recent(@ \o SubSeq(l, 1, n))]
                 /\ IF Unsent(l, n) = <<>> THEN Written(t, TRUE) /\ UNCHANGED webOdd
                    ELSE /\ web' = [web EXCEPT ![t].phase = "write", ![t].left = Unsent(l, n)]
                         /\ webOdd' = webOdd \cup {<<"short", c>>}
  <2>1. PICK n \in 1 .. Len(l) :
                 /\ toPeer' = [toPeer EXCEPT ![c] = Recent(@ \o SubSeq(l, 1, n))]
                 /\ IF Unsent(l, n) = <<>> THEN Written(t, TRUE) /\ UNCHANGED webOdd
                    ELSE /\ web' = [web EXCEPT ![t].phase = "write", ![t].left = Unsent(l, n)]
                         /\ webOdd' = webOdd \cup {<<"short", c>>}
    BY <1>8
  <2>2. CASE Unsent(l, n) = <<>>
    BY <1>4, <1>8, <2>1, <2>2
  <2>3. CASE Unsent(l, n) # <<>>
    BY <1>5, <1>8, <2>1, <2>3
  <2> QED
    BY <2>2, <2>3
<1> QED
  BY <1>7, <1>8 DEF SocketSend

\* What a receive has done.
AfterRecv(w, r, t) ==
    LET c == w.conn
    IN  \/ /\ fromPeer[c] # <<>> /\ fromPeer' = [fromPeer EXCEPT ![c] = Tail(@)]
           /\ \/ w.for = "accept" /\ AfterRequest(w, r, t) /\ webOdd' = webOdd
              \/ /\ w.for = "recv" /\ w.head = NoPiece /\ Head(fromPeer[c]).part = "head"
                 /\ AfterHead(w, r, Head(fromPeer[c])) /\ webOdd' = webOdd
              \/ /\ w.for = "recv" /\ w.head = NoPiece /\ Head(fromPeer[c]).part # "head"
                 /\ AfterFrame(w, r) \/ \E h \in Pieces : h.part = "head" /\ AfterHead(w, r, h)
                 /\ webOdd' = webOdd \cup {<<"mixed", c>>}
              \/ /\ w.for = "recv" /\ w.head # NoPiece /\ AfterFrame(w, r)
                 /\ webOdd' = IF /\ Head(fromPeer[c]).part = "payload"
                                 /\ Head(fromPeer[c]).n = w.head.n
                              THEN webOdd ELSE webOdd \cup {<<"mixed", c>>}
        \/ /\ fromPeer[c] = <<>> /\ fromPeer' = fromPeer /\ webOdd' = webOdd
           /\ peer[c] = "gone" /\ AfterFrame(w, r)

(* Where recv leaves a call.                                                 *)
LEMMA SocketRecvStep ==
    ASSUME WebTyped, CallsFit, NEW t \in WebThreads, SocketRecv(t)
    PROVE  \E r : Goes(t, r) /\ AfterRecv(web[t], r, t)
<1> DEFINE w == web[t]
           c == w.conn
           piece == Head(fromPeer[c])
<1>1. w \in WebCalls /\ Fits(w) /\ role' = role /\ w.phase = "receiving"
  BY DEF WebTyped, CallsFit, SocketRecv, clientSide
<1>2. InFrame(w) /\ c \in WebClients /\ w.for \in {"accept", "recv"}
  BY <1>1 DEF Fits, PhaseFits, InMessage, InFrame, WebCalls, WebPurposes
<1>3. CASE fromPeer[c] = <<>>
  <2>1. peer[c] = "gone" /\ ReadFails(t) /\ fromPeer' = fromPeer /\ webOdd' = webOdd
    BY <1>3 DEF SocketRecv
  <2>2. PICK r : Goes(t, r) /\ AfterFrame(w, r)
    BY <1>1, <1>2, <2>1, ReadFailsStep
  <2> QED
    BY <1>3, <2>1, <2>2 DEF AfterRecv
<1>4. CASE fromPeer[c] # <<>>
  <2>1. piece \in Pieces
    BY <1>2, <1>4 DEF WebTyped
  <2>2. fromPeer' = [fromPeer EXCEPT ![c] = Tail(@)]
    BY <1>4 DEF SocketRecv
  <2>3. CASE w.for = "accept"
    <3>1. Parsed(t, c, piece.op) /\ webOdd' = webOdd
      BY <1>4, <2>3 DEF SocketRecv
    <3>2. PICK r : Goes(t, r) /\ AfterRequest(w, r, t)
      BY <1>1, <1>2, <2>3, <3>1, ParsedStep
    <3> QED
      BY <1>4, <2>2, <2>3, <3>1, <3>2 DEF AfterRecv
  <2>4. CASE w.for = "recv" /\ w.head = NoPiece /\ piece.part = "head"
    <3>1. HeadRead(t, piece) /\ webOdd' = webOdd
      BY <1>4, <2>4 DEF SocketRecv
    <3>2. PICK r : Goes(t, r) /\ AfterHead(w, r, piece)
      BY <1>1, <1>2, <2>1, <2>4, <3>1, HeadReadStep
    <3> QED
      BY <1>4, <2>2, <2>4, <3>1, <3>2 DEF AfterRecv
  <2>5. CASE w.for = "recv" /\ w.head = NoPiece /\ piece.part # "head"
    <3>1. Misread(t) /\ webOdd' = webOdd \cup {<<"mixed", c>>}
      BY <1>4, <2>5 DEF SocketRecv
    <3>2. PICK op \in Opcodes : FrameRead(t, op) \/ HeadRead(t, Piece(op, "head", 0))
      BY <3>1 DEF Misread
    <3>3. CASE FrameRead(t, op)
      <4>1. PICK r : Goes(t, r) /\ AfterFrame(w, r)
        BY <1>1, <1>2, <2>5, <3>3, FrameReadStep
      <4> QED
        BY <1>4, <2>2, <2>5, <3>1, <4>1 DEF AfterRecv
    <3>4. CASE HeadRead(t, Piece(op, "head", 0))
      <4> DEFINE h == Piece(op, "head", 0)
      <4>1. h \in Pieces /\ h.part = "head"
        BY DEF Piece, Pieces
      <4> HIDE DEF h
      <4>2. PICK r : Goes(t, r) /\ AfterHead(w, r, h)
        BY <1>1, <1>2, <2>5, <3>4, <4>1, HeadReadStep DEF h
      <4> QED
        BY <1>4, <2>2, <2>5, <3>1, <4>1, <4>2 DEF AfterRecv
    <3> QED
      BY <3>2, <3>3, <3>4
  <2>6. CASE w.for = "recv" /\ w.head # NoPiece
    <3>1. /\ FrameRead(t, w.head.op)
          /\ webOdd' = IF piece.part = "payload" /\ piece.n = w.head.n
                       THEN webOdd ELSE webOdd \cup {<<"mixed", c>>}
      BY <1>4, <2>6 DEF SocketRecv
    <3>2. PICK r : Goes(t, r) /\ AfterFrame(w, r)
      BY <1>1, <1>2, <2>6, <3>1, FrameReadStep
    <3> QED
      BY <1>4, <2>2, <2>6, <3>1, <3>2 DEF AfterRecv
  <2> QED
    BY <1>2, <2>3, <2>4, <2>5, <2>6
<1> QED
  BY <1>3, <1>4

Blocking == {"sending", "receiving"}

(* The three kinds of lock, in a step of one thread.                         *)
LEMMA SocketsLockKept ==
    ASSUME WebTyped, CallsFit, SocketsLockOK, NEW t \in WebThreads, NEW r, Goes(t, r),
           \/ socketsLock' = socketsLock /\ (r.phase \in Blocking <=> web[t].phase \in Blocking)
           \/ socketsLock = NoOne /\ socketsLock' = t /\ r.phase \in Blocking
           \/ web[t].phase \in Blocking /\ socketsLock' = NoOne /\ r.phase \notin Blocking
    PROVE  SocketsLockOK'
<1>1. /\ web'[t] = r /\ \A u \in WebThreads : u # t => web'[u] = web[u]
  BY WebMoved
<1>2. NoOne \notin WebThreads
  BY WebAssumption
<1>3. web[t].phase \in Blocking => socketsLock = t
  BY DEF SocketsLockOK, Blocking
<1>4. ASSUME NEW u \in WebThreads
      PROVE  (socketsLock' = u) = (web'[u].phase \in Blocking)
  <2>1. (socketsLock = u) = (web[u].phase \in Blocking)
    BY DEF SocketsLockOK, Blocking
  <2>2. CASE u = t
    BY <1>1, <1>2, <2>1, <2>2
  <2>3. CASE u # t
    BY <1>1, <1>2, <1>3, <2>1, <2>3
  <2> QED
    BY <2>2, <2>3
<1> QED
  BY <1>4 DEF SocketsLockOK, Blocking

(* accept neither begins nor returns.                                        *)
LEMMA ServersLockSame ==
    ASSUME WebTyped, CallsFit, ServersLockOK, NEW t \in WebThreads, NEW r, Goes(t, r),
           serversLock' = serversLock, r.phase = "accept" <=> web[t].phase = "accept"
    PROVE  ServersLockOK'
<1>1. /\ web'[t] = r /\ \A u \in WebThreads : u # t => web'[u] = web[u]
  BY WebMoved
<1>2. ASSUME NEW u \in WebThreads
      PROVE  web'[u].phase = "accept" <=> web[u].phase = "accept"
  BY <1>1
<1> QED
  BY <1>2 DEF ServersLockOK

(* accept begins to wait.                                                    *)
LEMMA ServersLockTaken ==
    ASSUME WebTyped, CallsFit, ServersLockOK, NEW t \in WebThreads, NEW r, Goes(t, r),
           NEW k \in ServerKinds, serversLock[k] = NoOne, web[t].phase # "accept",
           serversLock' = [serversLock EXCEPT ![k] = t], r.phase = "accept"
    PROVE  ServersLockOK'
<1>1. /\ web'[t] = r /\ \A u \in WebThreads : u # t => web'[u] = web[u]
  BY WebMoved
<1>2. NoOne \notin WebThreads
  BY WebAssumption
<1>3. /\ serversLock'[k] = t /\ \A m \in ServerKinds : m # k => serversLock'[m] = serversLock[m]
  BY DEF WebTyped
<1>4. \A m \in ServerKinds : serversLock[m] # t
  BY DEF ServersLockOK
<1>5. ASSUME NEW u \in WebThreads
      PROVE  (\E m \in ServerKinds : serversLock'[m] = u) = (web'[u].phase = "accept")
  <2>1. (\E m \in ServerKinds : serversLock[m] = u) = (web[u].phase = "accept")
    BY DEF ServersLockOK
  <2>2. CASE u = t
    BY <1>1, <1>3, <2>2
  <2>3. CASE u # t
    <3>1. \A m \in ServerKinds : serversLock'[m] = u <=> serversLock[m] = u
      BY <1>2, <1>3, <2>3
    <3> QED
      BY <1>1, <2>1, <2>3, <3>1
  <2> QED
    BY <2>2, <2>3
<1>6. \A m, n \in ServerKinds : serversLock'[m] = serversLock'[n] /\ serversLock'[m] # NoOne => m = n
  BY <1>3, <1>4 DEF ServersLockOK
<1> QED
  BY <1>5, <1>6 DEF ServersLockOK

(* accept returns.                                                           *)
LEMMA ServersLockFreed ==
    ASSUME WebTyped, CallsFit, ServersLockOK, NEW t \in WebThreads, NEW r, Goes(t, r),
           serversLock' \in [ServerKinds -> WebThreads \cup {NoOne}],
           \A m \in ServerKinds :
               serversLock'[m] = IF serversLock[m] = t THEN NoOne ELSE serversLock[m],
           r.phase # "accept"
    PROVE  ServersLockOK'
<1>1. /\ web'[t] = r /\ \A u \in WebThreads : u # t => web'[u] = web[u]
  BY WebMoved
<1>2. NoOne \notin WebThreads
  BY WebAssumption
<1>5. ASSUME NEW u \in WebThreads
      PROVE  (\E m \in ServerKinds : serversLock'[m] = u) = (web'[u].phase = "accept")
  <2>1. (\E m \in ServerKinds : serversLock[m] = u) = (web[u].phase = "accept")
    BY DEF ServersLockOK
  <2>2. CASE u = t
    <3>1. \A m \in ServerKinds : serversLock'[m] # u
      BY <1>2, <2>2
    <3> QED
      BY <1>1, <2>2, <3>1
  <2>3. CASE u # t
    <3>1. \A m \in ServerKinds : serversLock'[m] = u <=> serversLock[m] = u
      BY <1>2, <2>3
    <3> QED
      BY <1>1, <2>1, <2>3, <3>1
  <2> QED
    BY <2>2, <2>3
<1>6. \A m, n \in ServerKinds : serversLock'[m] = serversLock'[n] /\ serversLock'[m] # NoOne => m = n
  BY DEF ServersLockOK
<1> QED
  BY <1>5, <1>6 DEF ServersLockOK

(* The lock of a table of entries is held by a call that closes a socket.    *)
LEMMA EntriesLockKept ==
    ASSUME WebTyped, CallsFit, EntriesLockOK, NEW t \in WebThreads, NEW r, Goes(t, r),
           \A k \in ServerKinds :
               /\ entriesLock'[k] \in {entriesLock[k], NoOne, t}
               /\ entriesLock'[k] = t =>
                     (r.phase = "close" \/ r.for = "respond") /\ role[r.conn] = k
    PROVE  EntriesLockOK'
<1>1. /\ web'[t] = r /\ \A u \in WebThreads : u # t => web'[u] = web[u]
  BY WebMoved
<1>2. NoOne \notin WebThreads /\ role' = role
  BY WebAssumption DEF Goes
<1>3. ASSUME NEW u \in WebThreads, NEW k \in ServerKinds, entriesLock'[k] = u
      PROVE  (web'[u].phase = "close" \/ web'[u].for = "respond") /\ role'[web'[u].conn] = k
  <2>1. CASE u = t
    BY <1>1, <1>2, <1>3, <2>1
  <2>2. CASE u # t
    <3>1. entriesLock[k] = u
      BY <1>2, <1>3, <2>2
    <3> QED
      BY <1>1, <1>2, <2>2, <3>1 DEF EntriesLockOK
  <2> QED
    BY <2>1, <2>2
<1> QED
  BY <1>3 DEF EntriesLockOK

\* Nothing happens to c or to a call about it.
SameFor(c) ==
    /\ role' = role /\ entry'[c] = entry[c] /\ (c \in sockets' <=> c \in sockets)
    /\ peer'[c] = peer[c] /\ script'[c] = script[c]
    /\ fromPeer'[c] = fromPeer[c] /\ toPeer'[c] = toPeer[c]
    /\ \A tag \in WebTags : Odd(tag, c)' <=> Odd(tag, c)
    /\ \A u \in WebThreads : web'[u] = web[u] \/ (web[u].conn # c /\ web'[u].conn # c)

(* Such a client is as it was.                                               *)
LEMMA OthersKept ==
    ASSUME NEW c \in WebClients, ClientOK(c), SameFor(c)
    PROVE  ClientOK(c)'
<1>0. /\ role' = role /\ entry'[c] = entry[c] /\ (c \in sockets' <=> c \in sockets)
      /\ peer'[c] = peer[c] /\ script'[c] = script[c]
      /\ fromPeer'[c] = fromPeer[c] /\ toPeer'[c] = toPeer[c]
  BY DEF SameFor
<1>1. /\ \A tag \in WebTags : Odd(tag, c)' <=> Odd(tag, c)
      /\ (Odd("read", c)' <=> Odd("read", c)) /\ (Odd("write", c)' <=> Odd("write", c))
      /\ (Odd("short", c)' <=> Odd("short", c)) /\ (Odd("mixed", c)' <=> Odd("mixed", c))
      /\ (Odd("over", c)' <=> Odd("over", c))
  BY DEF SameFor, WebTags
<1>2. \A u \in WebThreads :
         /\ web'[u].conn = c <=> web[u].conn = c
         /\ Holds(web'[u], c) <=> Holds(web[u], c)
         /\ Welcomes(web'[u], c) <=> Welcomes(web[u], c)
         /\ Writes(web'[u], c) <=> Writes(web[u], c)
         /\ Reads(web'[u], c) <=> Reads(web[u], c)
         /\ web[u].conn = c => web'[u] = web[u]
  BY DEF SameFor, Holds, Welcomes, Writes, Reads
<1>3. Introduced(c)'
  BY <1>0, <1>1, <1>2 DEF ClientOK, Introduced
<1>4. OneOwner(c)'
  BY <1>0, <1>2 DEF ClientOK, OneOwner
<1>5. Streams(c)'
  <2>1. (\A t : CutBy(c, t)' <=> CutBy(c, t)) /\ (Stopped(c)' <=> Stopped(c))
    BY <1>0 DEF CutBy, Stopped
  <2>2. \A t \in WebThreads : Writes(web[t], c) => web'[t].left = web[t].left
    BY <1>2 DEF Writes
  <2>3. Streams(c)
    BY DEF ClientOK
  <2>4. ~Odd("write", c)' => \A t, u \in WebThreads : Writes(web'[t], c) /\ Writes(web'[u], c) => t = u
    BY <1>1, <1>2, <2>3 DEF Streams
  <2>5. \A t \in WebThreads : Writes(web'[t], c) =>
          \/ Begun(web'[t].left, t)
          \/ Odd("short", c)' /\ SecondPart(web'[t].left, t)
    BY <1>1, <1>2, <2>2, <2>3 DEF Streams
  <2>6. ~(Odd("write", c)' /\ Odd("short", c)') => Whole(toPeer'[c])
    BY <1>0, <1>1, <2>3 DEF Streams
  <2>7. ASSUME ~(Odd("write", c)' /\ Odd("short", c)'), NEW t \in WebThreads
        PROVE  /\ CutBy(c, t)' =>
                    /\ Odd("short", c)'
                    /\ Stopped(c)' \/ (Writes(web'[t], c) /\ SecondPart(web'[t].left, t))
               /\ Writes(web'[t], c) /\ SecondPart(web'[t].left, t) => CutBy(c, t)'
    BY <1>1, <1>2, <2>1, <2>2, <2>3, <2>7 DEF Streams
  <2> QED
    BY <2>4, <2>5, <2>6, <2>7 DEF Streams
<1>6. InTime(c)'
  BY <1>0, <1>1 DEF ClientOK, InTime
<1>7. Receives(c)'
  <2>1. Incoming(c)' = Incoming(c) /\ (Greets(c)' <=> Greets(c))
    BY <1>0, <1>2 DEF Incoming, Greets, Reads
  <2>2. \A t \in WebThreads : Reads(web[t], c) => web'[t] = web[t]
    BY <1>2 DEF Reads
  <2>3. Unheard(c)' <=> Unheard(c)
    BY <1>0 DEF Unheard
  <2>4. Expected(c) => Expected(c)'
    BY <1>0, <1>2, <2>1, <2>2, <2>3 DEF Expected
  <2> QED
    BY <1>0, <1>1, <1>2, <2>1, <2>4 DEF ClientOK, Receives
<1> QED
  BY <1>3, <1>4, <1>5, <1>6, <1>7 DEF ClientOK

\* A call about c goes on as call r, or is over.
Own(t, r, c) ==
    /\ Goes(t, r)
    /\ web[t].conn = c /\ r.conn \in {c, NoOne}

(* A call about c goes on: c stays introduced.                               *)
LEMMA IntroducedOwn ==
    ASSUME WebTyped, CallsFit, NEW c \in WebClients, Introduced(c), NEW t \in WebThreads, NEW r,
           Own(t, r, c), peer' = peer,
           Welcomes(r, c) => Welcomes(web[t], c),
           Welcomes(web[t], c) => \A tag \in WebTags : Odd(tag, c)' => Odd(tag, c)
    PROVE  Introduced(c)'
<1>1. /\ web'[t] = r /\ \A u \in WebThreads : u # t => web'[u] = web[u]
  BY WebMoved DEF Own
<1>2. peer'[c] \notin {"away", "waiting"}
  BY DEF Introduced, Own
<1>3. ASSUME NEW v \in WebThreads, Welcomes(web'[v], c)
      PROVE  /\ \A tag \in WebTags : ~Odd(tag, c)'
             /\ \A u \in WebThreads : web'[u].conn = c => u = v
  <2>1. Welcomes(web[v], c)
    BY <1>1, <1>3
  <2>2. \A u \in WebThreads : web[u].conn = c => u = v
    BY <2>1 DEF Introduced
  <2>3. v = t
    BY <2>2 DEF Own
  <2>4. \A tag \in WebTags : ~Odd(tag, c)'
    BY <2>1, <2>3 DEF Introduced
  <2>5. \A u \in WebThreads : web'[u].conn = c => u = v
    BY <1>1, <2>2, <2>3
  <2> QED
    BY <2>4, <2>5
<1> QED
  BY <1>2, <1>3 DEF Introduced

(* The owner of the socket of c, in a step of a call about it.               *)
LEMMA OwnerSame ==
    ASSUME WebTyped, CallsFit, NEW c \in WebClients, OneOwner(c), NEW t \in WebThreads, NEW r,
           Goes(t, r), entry'[c] = "none" <=> entry[c] = "none", sockets' = sockets,
           Holds(r, c) <=> Holds(web[t], c),
           r.conn = c /\ r.phase \in Blocking => c \in sockets
    PROVE  OneOwner(c)'
<1>1. /\ web'[t] = r /\ \A u \in WebThreads : u # t => web'[u] = web[u]
  BY WebMoved
<1>2. \A u \in WebThreads : Holds(web'[u], c) <=> Holds(web[u], c)
  BY <1>1
<1>3. \A u \in WebThreads : web'[u].conn = c /\ web'[u].phase \in Blocking => c \in sockets'
  BY <1>1 DEF OneOwner, Blocking
<1> QED
  BY <1>2, <1>3 DEF OneOwner, Blocking

(* The owner puts the socket into a table.                                   *)
LEMMA OwnerBecomesEntry ==
    ASSUME WebTyped, CallsFit, NEW c \in WebClients, OneOwner(c), NEW t \in WebThreads, NEW r,
           Own(t, r, c), Holds(web[t], c), ~Holds(r, c), r.phase \notin Blocking,
           entry'[c] # "none", sockets' = sockets
    PROVE  OneOwner(c)'
<1>1. /\ web'[t] = r /\ \A u \in WebThreads : u # t => web'[u] = web[u]
  BY WebMoved DEF Own
<1>2. \A u \in WebThreads : ~Holds(web'[u], c)
  BY <1>1 DEF OneOwner
<1>3. \A u \in WebThreads : web'[u].conn = c /\ web'[u].phase \in Blocking => c \in sockets'
  BY <1>1 DEF OneOwner, Blocking
<1>4. c \in sockets'
  BY DEF OneOwner
<1> QED
  BY <1>2, <1>3, <1>4 DEF OneOwner, Blocking

(* A call takes the socket out of its table.                                 *)
LEMMA EntryBecomesOwner ==
    ASSUME WebTyped, CallsFit, NEW c \in WebClients, OneOwner(c), NEW t \in WebThreads, NEW r,
           Goes(t, r), entry[c] # "none", entry'[c] = "none", sockets' = sockets,
           Holds(r, c)
    PROVE  OneOwner(c)'
<1>1. /\ web'[t] = r /\ \A u \in WebThreads : u # t => web'[u] = web[u]
  BY WebMoved
<1>2. \A u \in WebThreads : Holds(web'[u], c) <=> u = t
  BY <1>1 DEF OneOwner
<1>4. c \in sockets'
  BY DEF OneOwner
<1> QED
  BY <1>2, <1>4 DEF OneOwner

(* The owner closes the socket.                                              *)
LEMMA OwnerCloses ==
    ASSUME WebTyped, CallsFit, NEW c \in WebClients, OneOwner(c), NEW t \in WebThreads,
           Own(t, NoWeb, c), Holds(web[t], c), entry' = entry, sockets' = sockets \ {c},
           \A u \in WebThreads : web[u].phase \notin Blocking
    PROVE  OneOwner(c)'
<1>1. /\ web'[t] = NoWeb /\ \A u \in WebThreads : u # t => web'[u] = web[u]
  BY WebMoved DEF Own
<1>2. NoWeb.phase \notin Blocking /\ NoWeb.conn = NoOne /\ NoOne # c
  BY WebAssumption DEF NoWeb, Blocking
<1>3. \A u \in WebThreads : ~Holds(web'[u], c)
  BY <1>1, <1>2 DEF OneOwner, Holds
<1>4. entry'[c] = "none"
  BY DEF OneOwner
<1>5. \A u \in WebThreads : web'[u].phase \notin Blocking
  BY <1>1, <1>2
<1> QED
  BY <1>3, <1>4, <1>5 DEF OneOwner, Blocking

(* The last parts of a stream.                                               *)
LEMMA RecentIs ==
    ASSUME NEW s \in Seq(Parts), s # <<>>
    PROVE  /\ Recent(s) \in Seq(Parts) /\ Recent(s) # <<>>
           /\ Recent(s)[Len(Recent(s))] = s[Len(s)]
           /\ Whole(s) => Whole(Recent(s))
           /\ (\A i \in DOMAIN s : ~s[i].late) => \A i \in DOMAIN Recent(s) : ~Recent(s)[i].late
<1> DEFINE b == IF Len(s) > 3 THEN Len(s) - 2 ELSE 1
           q == SubSeq(s, b, Len(s))
<1>1. Len(s) \in Nat /\ Len(s) > 0
  OBVIOUS
<1>2. b \in 1 .. Len(s)
  BY <1>1
<1> HIDE DEF b
<1>3. q \in Seq(Parts) /\ Len(q) = Len(s) - b + 1 /\ \A i \in 1 .. Len(q) : q[i] = s[b + i - 1]
  BY <1>1, <1>2
<1>4. Recent(s) = q
  BY DEF Recent, b
<1>5. DOMAIN q = 1 .. Len(q) /\ DOMAIN s = 1 .. Len(s) /\ Len(q) >= 1 /\ Len(q) \in Nat
  BY <1>1, <1>2, <1>3
<1> HIDE DEF q
<1>6. q[Len(q)] = s[Len(s)]
  <2>1. b + Len(q) - 1 = Len(s) /\ Len(q) \in 1 .. Len(q)
    BY <1>1, <1>2, <1>3, <1>5
  <2> QED
    BY <1>3, <2>1
<1>7. ASSUME Whole(s)
      PROVE  Whole(q)
  <2>1. ASSUME NEW i \in 1 .. Len(q)
        PROVE  /\ q[i].part = 1 /\ i < Len(q) => q[i + 1].by = q[i].by /\ q[i + 1].part = 2
               /\ q[i].part = 2 /\ i > 1 => q[i - 1].by = q[i].by /\ q[i - 1].part = 1
    <3> DEFINE j == b + i - 1
    <3>1. j \in 1 .. Len(s) /\ q[i] = s[j]
      BY <1>1, <1>2, <1>3
    <3>2. i < Len(q) => j < Len(s) /\ q[i + 1] = s[j + 1]
      <4>1. SUFFICES ASSUME i < Len(q) PROVE j < Len(s) /\ q[i + 1] = s[j + 1]
        OBVIOUS
      <4>2. i + 1 \in 1 .. Len(q) /\ b + (i + 1) - 1 = j + 1
        BY <1>1, <1>2, <1>3, <4>1
      <4> QED
        BY <1>1, <1>2, <1>3, <4>1, <4>2
    <3>3. i > 1 => j > 1 /\ q[i - 1] = s[j - 1]
      <4>1. SUFFICES ASSUME i > 1 PROVE j > 1 /\ q[i - 1] = s[j - 1]
        OBVIOUS
      <4>2. i - 1 \in 1 .. Len(q) /\ b + (i - 1) - 1 = j - 1
        BY <1>1, <1>2, <1>3, <4>1
      <4> QED
        BY <1>1, <1>2, <1>3, <4>1, <4>2
    <3> HIDE DEF j
    <3>4. /\ s[j].part = 1 /\ j < Len(s) => s[j + 1].by = s[j].by /\ s[j + 1].part = 2
          /\ s[j].part = 2 /\ j > 1 => s[j - 1].by = s[j].by /\ s[j - 1].part = 1
      BY <1>5, <1>7, <3>1 DEF Whole
    <3> QED
      BY <3>1, <3>2, <3>3, <3>4
  <2> QED
    BY <1>5, <2>1 DEF Whole
<1>8. ASSUME \A i \in DOMAIN s : ~s[i].late
      PROVE  \A i \in DOMAIN q : ~q[i].late
  <2>1. ASSUME NEW i \in 1 .. Len(q)
        PROVE  ~q[i].late
    <3>1. b + i - 1 \in 1 .. Len(s) /\ q[i] = s[b + i - 1]
      BY <1>1, <1>2, <1>3
    <3> QED
      BY <1>5, <1>8, <3>1
  <2> QED
    BY <1>5, <2>1
<1>9. q # <<>>
  BY <1>5
<1> QED
  BY <1>3, <1>4, <1>6, <1>7, <1>8, <1>9

\* A stream ends in the first part of a message.
EndsCut(s) == s # <<>> /\ s[Len(s)].part = 1

(* What a stream is after some parts more.                                   *)
LEMMA StreamGrows ==
    ASSUME NEW s \in Seq(Parts), NEW l \in Seq(Parts), Len(l) = 1 \/ Len(l) = 2, Whole(s),
           \/ ~EndsCut(s) /\ Len(l) = 1 /\ l[1].part \in {0, 1}
           \/ ~EndsCut(s) /\ Len(l) = 2 /\ l[1].part = 1 /\ l[2].part = 2 /\ l[1].by = l[2].by
           \/ EndsCut(s) /\ Len(l) = 1 /\ l[1].part = 2 /\ l[1].by = s[Len(s)].by
    PROVE  /\ s \o l \in Seq(Parts) /\ s \o l # <<>> /\ (s \o l)[Len(s \o l)] = l[Len(l)]
           /\ Whole(s \o l)
<1> DEFINE q == s \o l
<1>1. /\ q \in Seq(Parts) /\ Len(q) = Len(s) + Len(l) /\ Len(s) \in Nat
      /\ DOMAIN q = 1 .. Len(q) /\ DOMAIN s = 1 .. Len(s)
  OBVIOUS
<1>2. \A i \in 1 .. Len(s) : q[i] = s[i]
  OBVIOUS
<1>3. q[Len(s) + 1] = l[1]
  <2>1. Len(s) + 1 \in 1 .. Len(s) + Len(l) /\ Len(s) + 1 > Len(s)
    BY <1>1
  <2>2. q[Len(s) + 1] = l[Len(s) + 1 - Len(s)]
    BY <2>1
  <2>3. Len(s) + 1 - Len(s) = 1
    BY <1>1
  <2> QED
    BY <2>2, <2>3
<1>4. Len(l) = 2 => q[Len(s) + 2] = l[2]
  <2>1. SUFFICES ASSUME Len(l) = 2 PROVE q[Len(s) + 2] = l[2]
    OBVIOUS
  <2>2. Len(s) + 2 \in 1 .. Len(s) + Len(l) /\ Len(s) + 2 > Len(s)
    BY <1>1, <2>1
  <2>3. q[Len(s) + 2] = l[Len(s) + 2 - Len(s)]
    BY <2>2
  <2>4. Len(s) + 2 - Len(s) = 2
    BY <1>1
  <2> QED
    BY <2>3, <2>4
<1> HIDE DEF q
<1>a. (Len(l) = 1 /\ Len(q) = Len(s) + 1) \/ (Len(l) = 2 /\ Len(q) = Len(s) + 2)
  BY <1>1
<1>5. ASSUME NEW i \in 1 .. Len(q)
      PROVE  /\ q[i].part = 1 /\ i < Len(q) => q[i + 1].by = q[i].by /\ q[i + 1].part = 2
             /\ q[i].part = 2 /\ i > 1 => q[i - 1].by = q[i].by /\ q[i - 1].part = 1
  <2>1. CASE i < Len(s)
    <3>1. i \in 1 .. Len(s) /\ i + 1 \in 1 .. Len(s) /\ (i > 1 => i - 1 \in 1 .. Len(s))
      BY <1>1, <2>1
    <3> QED
      BY <1>1, <1>2, <2>1, <3>1 DEF Whole
  <2>2. CASE i = Len(s)
    <3>1. i \in 1 .. Len(s) /\ (i > 1 => i - 1 \in 1 .. Len(s)) /\ i + 1 = Len(s) + 1
      BY <1>1, <2>2
    <3>2. s # <<>>
      BY <3>1
    <3>3. q[i].part = 1 => q[i + 1].by = q[i].by /\ q[i + 1].part = 2
      BY <1>2, <1>3, <2>2, <3>1, <3>2 DEF EndsCut
    <3>4. q[i].part = 2 /\ i > 1 => q[i - 1].by = q[i].by /\ q[i - 1].part = 1
      BY <1>1, <1>2, <3>1 DEF Whole
    <3> QED
      BY <3>3, <3>4
  <2>3. CASE i = Len(s) + 1
    <3>1. q[i] = l[1]
      BY <1>3, <2>3
    <3>2. ASSUME q[i].part = 1, i < Len(q)
          PROVE  q[i + 1].by = q[i].by /\ q[i + 1].part = 2
      <4>1. Len(l) = 2 /\ i + 1 = Len(s) + 2
        BY <1>1, <1>a, <2>3, <3>2
      <4> QED
        BY <1>4, <3>1, <3>2, <4>1
    <3>3. ASSUME q[i].part = 2, i > 1
          PROVE  q[i - 1].by = q[i].by /\ q[i - 1].part = 1
      <4>1. EndsCut(s) /\ l[1].by = s[Len(s)].by
        BY <3>1, <3>3
      <4>2. i - 1 = Len(s) /\ Len(s) \in 1 .. Len(s)
        BY <1>1, <2>3, <3>3
      <4> QED
        BY <1>2, <3>1, <4>1, <4>2 DEF EndsCut
    <3> QED
      BY <3>2, <3>3
  <2>4. CASE i = Len(s) + 2
    <3>1. Len(l) = 2 /\ ~(i < Len(q)) /\ i - 1 = Len(s) + 1
      BY <1>1, <1>a, <2>4
    <3>2. q[i] = l[2] /\ q[i - 1] = l[1]
      BY <1>3, <1>4, <2>4, <3>1
    <3>3. l[1].part = 1 /\ l[2].part = 2 /\ l[1].by = l[2].by
      BY <3>1
    <3> QED
      BY <3>1, <3>2, <3>3
  <2>5. i < Len(s) \/ i = Len(s) \/ i = Len(s) + 1 \/ i = Len(s) + 2
    <3>1. Len(q) = Len(s) + 1 \/ Len(q) = Len(s) + 2
      BY <1>a
    <3>2. i \in Nat /\ i <= Len(q)
      BY <1>1
    <3>3. \A n, m \in Nat : m \in {n + 1, n + 2} /\ i <= m =>
             i < n \/ i = n \/ i = n + 1 \/ i = n + 2
      BY <3>2
    <3>4. Len(s) \in Nat /\ Len(q) \in Nat
      BY <1>1, <3>1
    <3> QED
      BY <3>1, <3>2, <3>3, <3>4
  <2> QED
    BY <2>1, <2>2, <2>3, <2>4, <2>5
<1>6. Whole(q)
  BY <1>1, <1>5 DEF Whole
<1>7. q # <<>> /\ q[Len(q)] = l[Len(l)]
  <2>1. Len(q) = Len(s) + 1 \/ (Len(q) = Len(s) + 2 /\ Len(l) = 2)
    BY <1>a
  <2>2. Len(q) # 0
    BY <1>1
  <2>3. q # <<>>
    BY <1>1, <2>2
  <2> QED
    BY <1>1, <1>3, <1>4, <1>a, <2>1, <2>3
<1> QED
  BY <1>1, <1>6, <1>7 DEF q

\* Somebody has been cut off in the middle of a message to c.
CutAt(c) == EndsCut(toPeer[c])

(* A cut is by one thread.                                                   *)
LEMMA CutIs ==
    ASSUME WebTyped, NEW c \in WebClients
    PROVE  /\ CutAt(c) <=> \E t \in WebThreads : CutBy(c, t)
           /\ \A t : CutBy(c, t) => CutAt(c) /\ toPeer[c][Len(toPeer[c])].by = t
           /\ CutAt(c) => toPeer[c][Len(toPeer[c])].by \in WebThreads
<1>1. toPeer[c] \in Seq(Parts)
  BY DEF WebTyped
<1>2. ASSUME CutAt(c)
      PROVE  toPeer[c][Len(toPeer[c])].by \in WebThreads
  <2>1. toPeer[c] # <<>>
    BY <1>2 DEF CutAt, EndsCut
  <2>2. Len(toPeer[c]) \in 1 .. Len(toPeer[c])
    BY <1>1, <2>1
  <2>3. toPeer[c][Len(toPeer[c])] \in Parts
    BY <1>1, <2>2
  <2> QED
    BY <2>3 DEF Parts
<1> QED
  BY <1>2 DEF CutAt, EndsCut, CutBy

(* A step that writes nothing to c and begins no message.                    *)
LEMMA StreamsSame ==
    ASSUME WebTyped, CallsFit, NEW c \in WebClients, Streams(c), NEW t \in WebThreads, NEW r,
           Goes(t, r), toPeer' = toPeer, Stopped(c) => Stopped(c)',
           Odd("write", c)' <=> Odd("write", c), Odd("short", c)' <=> Odd("short", c),
           Writes(r, c) => Writes(web[t], c) /\ r.left = web[t].left,
           Writes(web[t], c) /\ ~Writes(r, c) => Stopped(c)'
    PROVE  Streams(c)'
<1>1. /\ web'[t] = r /\ \A u \in WebThreads : u # t => web'[u] = web[u]
  BY WebMoved
<1>2. \A u \in WebThreads : Writes(web'[u], c) => Writes(web[u], c) /\ web'[u].left = web[u].left
  BY <1>1
<1>3. \A u \in WebThreads : Writes(web[u], c) /\ ~Writes(web'[u], c) => Stopped(c)'
  BY <1>1
<1>4. \A u \in WebThreads : CutBy(c, u)' <=> CutBy(c, u)
  BY DEF CutBy
<1>5. ~Odd("write", c)' => \A u, v \in WebThreads : Writes(web'[u], c) /\ Writes(web'[v], c) => u = v
  BY <1>2 DEF Streams
<1>6. \A u \in WebThreads : Writes(web'[u], c) =>
         Begun(web'[u].left, u) \/ (Odd("short", c)' /\ SecondPart(web'[u].left, u))
  BY <1>2 DEF Streams
<1>7. ASSUME ~(Odd("write", c)' /\ Odd("short", c)')
      PROVE  /\ Whole(toPeer'[c])
             /\ \A u \in WebThreads : CutBy(c, u)' =>
                  /\ Odd("short", c)'
                  /\ Stopped(c)' \/ (Writes(web'[u], c) /\ SecondPart(web'[u].left, u))
             /\ \A u \in WebThreads : Writes(web'[u], c) /\ SecondPart(web'[u].left, u) => CutBy(c, u)'
  <2>1. /\ Whole(toPeer[c])
        /\ \A u \in WebThreads : CutBy(c, u) =>
             /\ Odd("short", c)
             /\ Stopped(c) \/ (Writes(web[u], c) /\ SecondPart(web[u].left, u))
        /\ \A u \in WebThreads : Writes(web[u], c) /\ SecondPart(web[u].left, u) => CutBy(c, u)
    BY <1>7 DEF Streams
  <2> QED
    BY <1>2, <1>3, <1>4, <2>1
<1> QED
  BY <1>5, <1>6, <1>7 DEF Streams

(* A message to c is begun.                                                  *)
LEMMA StreamsBegins ==
    ASSUME WebTyped, CallsFit, NEW c \in WebClients, Streams(c), NEW t \in WebThreads, NEW r,
           Goes(t, r), toPeer' = toPeer, Stopped(c) => Stopped(c)',
           ~Writes(web[t], c), Writes(r, c), Begun(r.left, t),
           Odd("write", c) => Odd("write", c)', Odd("short", c)' <=> Odd("short", c),
           (\E u \in WebThreads : Writes(web[u], c)) => Odd("write", c)'
    PROVE  Streams(c)'
<1>1. /\ web'[t] = r /\ \A u \in WebThreads : u # t => web'[u] = web[u]
  BY WebMoved
<1>2. ~SecondPart(r.left, t)
  BY DEF Begun, SecondPart
<1>3. \A u \in WebThreads : Writes(web'[u], c) =>
         u = t \/ (Writes(web[u], c) /\ web'[u].left = web[u].left)
  BY <1>1
<1>4. \A u \in WebThreads : CutBy(c, u)' <=> CutBy(c, u)
  BY DEF CutBy
<1>5. ~Odd("write", c)' => \A u, v \in WebThreads : Writes(web'[u], c) /\ Writes(web'[v], c) => u = v
  BY <1>3
<1>6. \A u \in WebThreads : Writes(web'[u], c) =>
         Begun(web'[u].left, u) \/ (Odd("short", c)' /\ SecondPart(web'[u].left, u))
  BY <1>1, <1>3 DEF Streams
<1>7. ASSUME ~(Odd("write", c)' /\ Odd("short", c)')
      PROVE  /\ Whole(toPeer'[c])
             /\ \A u \in WebThreads : CutBy(c, u)' =>
                  /\ Odd("short", c)'
                  /\ Stopped(c)' \/ (Writes(web'[u], c) /\ SecondPart(web'[u].left, u))
             /\ \A u \in WebThreads : Writes(web'[u], c) /\ SecondPart(web'[u].left, u) => CutBy(c, u)'
  <2>1. /\ Whole(toPeer[c])
        /\ \A u \in WebThreads : CutBy(c, u) =>
             /\ Odd("short", c)
             /\ Stopped(c) \/ (Writes(web[u], c) /\ SecondPart(web[u].left, u))
        /\ \A u \in WebThreads : Writes(web[u], c) /\ SecondPart(web[u].left, u) => CutBy(c, u)
    BY <1>7 DEF Streams
  <2>2. ASSUME NEW u \in WebThreads, CutBy(c, u)
        PROVE  /\ Odd("short", c)'
               /\ Stopped(c)' \/ (Writes(web'[u], c) /\ SecondPart(web'[u].left, u))
    <3>1. Stopped(c) \/ (Writes(web[u], c) /\ SecondPart(web[u].left, u) /\ u # t)
      BY <2>1, <2>2
    <3>2. Writes(web[u], c) /\ u # t => Writes(web'[u], c) /\ web'[u] = web[u]
      BY <1>1
    <3> QED
      BY <2>1, <2>2, <3>1, <3>2
  <2>3. ASSUME NEW u \in WebThreads, Writes(web'[u], c), SecondPart(web'[u].left, u)
        PROVE  CutBy(c, u)
    BY <1>1, <1>2, <1>3, <2>1, <2>3
  <2> QED
    BY <1>4, <2>1, <2>2, <2>3
<1> QED
  BY <1>5, <1>6, <1>7 DEF Streams

(* All that is left of a message to c is written.                            *)
LEMMA StreamsEnds ==
    ASSUME WebTyped, CallsFit, NEW c \in WebClients, Streams(c), NEW t \in WebThreads, NEW r,
           Own(t, r, c), toPeer' = [toPeer EXCEPT ![c] = Recent(@ \o web[t].left)],
           ~Stopped(c), webOdd' = webOdd, Writes(web[t], c), ~Writes(r, c)
    PROVE  Streams(c)'
<1> DEFINE s == toPeer[c]
           l == web[t].left
<1>1. /\ web'[t] = r /\ \A u \in WebThreads : u # t => web'[u] = web[u]
  BY WebMoved DEF Own
<1>2. s \in Seq(Parts) /\ l \in Seq(Parts) /\ toPeer'[c] = Recent(s \o l)
  BY CallFields DEF WebTyped
<1>3. \A tag \in WebTags : Odd(tag, c)' <=> Odd(tag, c)
  BY DEF Odd
<1>4. "write" \in WebTags /\ "short" \in WebTags
  BY DEF WebTags
<1>5. \A u \in WebThreads : Writes(web'[u], c) => u # t /\ Writes(web[u], c) /\ web'[u].left = web[u].left
  BY <1>1
<1>6. ~Odd("write", c)' => \A u, v \in WebThreads : Writes(web'[u], c) /\ Writes(web'[v], c) => u = v
  BY <1>3, <1>4, <1>5 DEF Streams
<1>7. \A u \in WebThreads : Writes(web'[u], c) =>
         Begun(web'[u].left, u) \/ (Odd("short", c)' /\ SecondPart(web'[u].left, u))
  BY <1>3, <1>4, <1>5 DEF Streams
<1>8. ASSUME ~(Odd("write", c)' /\ Odd("short", c)')
      PROVE  /\ Whole(toPeer'[c])
             /\ \A u \in WebThreads : CutBy(c, u)' =>
                  /\ Odd("short", c)'
                  /\ Stopped(c)' \/ (Writes(web'[u], c) /\ SecondPart(web'[u].left, u))
             /\ \A u \in WebThreads : Writes(web'[u], c) /\ SecondPart(web'[u].left, u) => CutBy(c, u)'
  <2>1. /\ Whole(s)
        /\ \A u \in WebThreads : CutBy(c, u) =>
             /\ Odd("short", c)
             /\ Writes(web[u], c) /\ SecondPart(web[u].left, u)
        /\ \A u \in WebThreads : Writes(web[u], c) /\ SecondPart(web[u].left, u) => CutBy(c, u)
    BY <1>3, <1>4, <1>8 DEF Streams
  <2>2. Begun(l, t) \/ (Odd("short", c) /\ SecondPart(l, t))
    BY DEF Streams
  <2>3. ASSUME CutAt(c)
        PROVE  SecondPart(l, t) /\ l[1].by = s[Len(s)].by
    <3>1. PICK u \in WebThreads : CutBy(c, u)
      BY <2>3, CutIs
    <3>2. Odd("short", c) /\ Writes(web[u], c) /\ SecondPart(web[u].left, u)
      BY <2>1, <3>1
    <3>3. ~Odd("write", c)
      BY <1>3, <1>4, <1>8, <3>2
    <3>4. u = t
      BY <3>2, <3>3 DEF Streams
    <3> QED
      BY <3>1, <3>2, <3>4, CutIs DEF SecondPart
  <2>4. SecondPart(l, t) => CutAt(c)
    BY <2>1, CutIs
  <2>5. Len(l) = 1 \/ Len(l) = 2
    BY <2>2 DEF Begun, SecondPart
  <2>6. \/ ~EndsCut(s) /\ Len(l) = 1 /\ l[1].part \in {0, 1}
        \/ ~EndsCut(s) /\ Len(l) = 2 /\ l[1].part = 1 /\ l[2].part = 2 /\ l[1].by = l[2].by
        \/ EndsCut(s) /\ Len(l) = 1 /\ l[1].part = 2 /\ l[1].by = s[Len(s)].by
    <3>1. CASE CutAt(c)
      BY <2>3, <3>1 DEF SecondPart, CutAt
    <3>2. CASE ~CutAt(c)
      BY <2>2, <2>4, <3>2 DEF Begun, CutAt
    <3> QED
      BY <3>1, <3>2
  <2>7. /\ s \o l \in Seq(Parts) /\ s \o l # <<>> /\ (s \o l)[Len(s \o l)] = l[Len(l)]
        /\ Whole(s \o l)
    BY <1>2, <2>1, <2>5, <2>6, StreamGrows
  <2>8. Whole(toPeer'[c]) /\ toPeer'[c][Len(toPeer'[c])] = l[Len(l)]
    BY <1>2, <2>7, RecentIs
  <2>9. l[Len(l)].part # 1
    BY <2>2 DEF Begun, SecondPart
  <2>10. \A u \in WebThreads : ~CutBy(c, u)'
    BY <2>8, <2>9 DEF CutBy
  <2>11. ASSUME NEW u \in WebThreads, Writes(web'[u], c), SecondPart(web'[u].left, u)
         PROVE  FALSE
    <3>1. u # t /\ Writes(web[u], c) /\ SecondPart(web[u].left, u)
      BY <1>5, <2>11
    <3>2. CutBy(c, u)
      BY <2>1, <3>1
    <3>3. Odd("short", c) /\ ~Odd("write", c)
      BY <1>3, <1>4, <1>8, <2>1, <3>2
    <3> QED
      BY <3>1, <3>3 DEF Streams
  <2> QED
    BY <2>8, <2>10, <2>11
<1> QED
  BY <1>6, <1>7, <1>8 DEF Streams

(* Only the first part of a message to c is written.                         *)
LEMMA StreamsCut ==
    ASSUME WebTyped, CallsFit, NEW c \in WebClients, Streams(c), NEW t \in WebThreads, NEW r,
           Own(t, r, c), toPeer' = [toPeer EXCEPT ![c] = Recent(@ \o <<web[t].left[1]>>)],
           ~Stopped(c), webOdd' = webOdd \cup {<<"short", c>>},
           Writes(web[t], c), Len(web[t].left) = 2, Writes(r, c), r.left = <<web[t].left[2]>>
    PROVE  Streams(c)'
<1> DEFINE s == toPeer[c]
           l == web[t].left
           p == l[1]
<1>1. /\ web'[t] = r /\ \A u \in WebThreads : u # t => web'[u] = web[u]
  BY WebMoved DEF Own
<1>2. s \in Seq(Parts) /\ l \in Seq(Parts) /\ toPeer'[c] = Recent(s \o <<p>>)
  BY CallFields DEF WebTyped
<1>3. (Odd("write", c)' <=> Odd("write", c)) /\ Odd("short", c)'
  BY DEF Odd
<1>4. Begun(l, t)
  BY DEF Streams, SecondPart
<1>5. p.part = 1 /\ p.by = t /\ l[2].part = 2 /\ l[2].by = t /\ l[1] \in Parts /\ l[2] \in Parts
  <2>1. 1 \in 1 .. Len(l) /\ 2 \in 1 .. Len(l)
    OBVIOUS
  <2> QED
    BY <1>2, <1>4, <2>1 DEF Begun
<1>6. SecondPart(r.left, t)
  <2>1. Len(<<l[2]>>) = 1 /\ <<l[2]>>[1] = l[2]
    OBVIOUS
  <2> QED
    BY <1>5, <2>1 DEF SecondPart
<1>7. \A u \in WebThreads : Writes(web'[u], c) =>
         Writes(web[u], c) /\ (u = t \/ web'[u].left = web[u].left)
  BY <1>1
<1>8. ~Odd("write", c)' => \A u, v \in WebThreads : Writes(web'[u], c) /\ Writes(web'[v], c) => u = v
  BY <1>3, <1>7 DEF Streams
<1>9. \A u \in WebThreads : Writes(web'[u], c) =>
         Begun(web'[u].left, u) \/ (Odd("short", c)' /\ SecondPart(web'[u].left, u))
  BY <1>1, <1>3, <1>6, <1>7 DEF Streams
<1>10. ASSUME ~(Odd("write", c)' /\ Odd("short", c)')
       PROVE  /\ Whole(toPeer'[c])
              /\ \A u \in WebThreads : CutBy(c, u)' =>
                   /\ Odd("short", c)'
                   /\ Stopped(c)' \/ (Writes(web'[u], c) /\ SecondPart(web'[u].left, u))
              /\ \A u \in WebThreads : Writes(web'[u], c) /\ SecondPart(web'[u].left, u) => CutBy(c, u)'
  <2>0. ~Odd("write", c)
    BY <1>3, <1>10
  <2>1. /\ Whole(s)
        /\ \A u \in WebThreads : CutBy(c, u) => Writes(web[u], c) /\ SecondPart(web[u].left, u)
        /\ \A u \in WebThreads : Writes(web[u], c) => u = t
    BY <2>0 DEF Streams
  <2>2. ~CutAt(c)
    <3>1. ~SecondPart(l, t)
      BY DEF SecondPart
    <3> QED
      BY <2>1, <3>1, CutIs
  <2>3. <<p>> \in Seq(Parts) /\ Len(<<p>>) = 1 /\ <<p>>[1] = p
    BY <1>5
  <2> HIDE DEF p
  <2>4. /\ s \o <<p>> \in Seq(Parts) /\ s \o <<p>> # <<>>
        /\ (s \o <<p>>)[Len(s \o <<p>>)] = <<p>>[Len(<<p>>)]
        /\ Whole(s \o <<p>>)
    <3> DEFINE q == <<p>>
    <3> HIDE DEF q
    <3>1. q \in Seq(Parts) /\ Len(q) = 1 /\ q[1].part = 1
      BY <1>5, <2>3 DEF q
    <3>2. ~EndsCut(s)
      BY <2>2 DEF CutAt
    <3>3. /\ s \o q \in Seq(Parts) /\ s \o q # <<>> /\ (s \o q)[Len(s \o q)] = q[Len(q)]
          /\ Whole(s \o q)
      BY <1>2, <2>1, <3>1, <3>2, StreamGrows
    <3> QED
      BY <3>3 DEF q
  <2>5. /\ Whole(toPeer'[c]) /\ toPeer'[c] # <<>>
        /\ toPeer'[c][Len(toPeer'[c])] = p
    BY <1>2, <2>3, <2>4, RecentIs
  <2>6. \A u : CutBy(c, u)' <=> u = t
    BY <1>5, <2>5 DEF CutBy
  <2>7. \A u \in WebThreads : Writes(web'[u], c) => u = t
    BY <1>7, <2>1
  <2> QED
    BY <1>1, <1>3, <1>6, <2>5, <2>6, <2>7
<1> QED
  BY <1>8, <1>9, <1>10 DEF Streams

\* What c sends stays as it is.
Silent(c) == fromPeer'[c] = fromPeer[c] /\ script'[c] = script[c] /\ peer'[c] = peer[c]

(* Steps that do not concern the reader of c.                                *)
LEMMA ReceivesSame ==
    ASSUME WebTyped, CallsFit, NEW c \in WebClients, Receives(c), NEW t \in WebThreads, NEW r,
           Goes(t, r), Silent(c), c \in sockets' => c \in sockets,
           Odd("mixed", c)' <=> Odd("mixed", c), Odd("read", c)' <=> Odd("read", c),
           Reads(r, c) <=> Reads(web[t], c),
           Reads(r, c) => r.for = web[t].for /\ r.head = web[t].head
    PROVE  Receives(c)'
<1>0. /\ fromPeer'[c] = fromPeer[c] /\ peer'[c] = peer[c] /\ role' = role
      /\ Incoming(c)' = Incoming(c)
  BY DEF Silent, Goes, Incoming
<1>1. \A u \in WebThreads :
         /\ Reads(web'[u], c) <=> Reads(web[u], c)
         /\ Reads(web'[u], c) => web'[u].for = web[u].for /\ web'[u].head = web[u].head
  BY WebMoved
<1>2. (Greets(c)' <=> Greets(c)) /\ (Unheard(c) => Unheard(c)')
  BY <1>0, <1>1 DEF Greets, Unheard
<1>3. Expected(c) => Expected(c)'
  BY <1>0, <1>1, <1>2 DEF Expected
<1> QED
  BY <1>0, <1>1, <1>3 DEF Receives

(* The reader of c ends, and nobody will read the rest.                      *)
LEMMA ReceivesStops ==
    ASSUME WebTyped, CallsFit, NEW c \in WebClients, Receives(c), NEW t \in WebThreads, NEW r,
           Goes(t, r), Silent(c), Unheard(c)',
           Odd("mixed", c)' <=> Odd("mixed", c), Odd("read", c)' <=> Odd("read", c), ~Reads(r, c)
    PROVE  Receives(c)'
<1>0. fromPeer'[c] = fromPeer[c] /\ role' = role
  BY DEF Silent, Goes
<1>1. \A u \in WebThreads : Reads(web'[u], c) => Reads(web[u], c)
  BY WebMoved
<1>2. Expected(c)'
  BY DEF Expected
<1> QED
  BY <1>0, <1>1, <1>2 DEF Receives

(* Another reader of c begins with a head.                                   *)
LEMMA ReceivesBegins ==
    ASSUME WebTyped, CallsFit, NEW c \in WebClients, Receives(c), NEW t \in WebThreads, NEW r,
           Goes(t, r), Silent(c), c \in sockets' => c \in sockets,
           peer[c] \notin {"away", "waiting"},
           Odd("mixed", c)' <=> Odd("mixed", c), Odd("read", c) => Odd("read", c)',
           (\E u \in WebThreads : Reads(web[u], c)) => Odd("read", c)',
           Reads(r, c), r.for = "recv", r.head = NoPiece
    PROVE  Receives(c)'
<1>0. /\ fromPeer'[c] = fromPeer[c] /\ peer'[c] = peer[c] /\ role' = role
      /\ Incoming(c)' = Incoming(c)
  BY DEF Silent, Goes, Incoming
<1>1. ASSUME ~Odd("read", c)'
      PROVE  /\ \A u \in WebThreads : ~Reads(web[u], c) /\ (Reads(web'[u], c) => u = t)
             /\ web'[t] = r
  BY <1>1, WebMoved
<1>2. ASSUME ~Odd("read", c)', Expected(c)
      PROVE  Expected(c)'
  <2>1. ~Greets(c) /\ ~Greets(c)'
    BY <1>0, <1>1, <1>2 DEF Greets
  <2>2. Unheard(c) => Unheard(c)'
    BY <1>0 DEF Unheard
  <2>3. Unheard(c) \/ Frames(Incoming(c))
    BY <1>1, <1>2, <2>1 DEF Expected
  <2>4. Frames(Incoming(c))' <=> Frames(Incoming(c))
    BY <1>0 DEF Frames
  <2> QED
    BY <1>1, <1>2, <2>1, <2>2, <2>3, <2>4 DEF Expected
<1> QED
  BY <1>0, <1>1, <1>2 DEF Receives

(* The acceptor of c begins with the request.                                *)
LEMMA ReceivesGreets ==
    ASSUME WebTyped, CallsFit, NEW c \in WebClients, Receives(c), Introduced(c),
           NEW t \in WebThreads, NEW r,
           Goes(t, r), fromPeer' = fromPeer, script' = script, webOdd' = webOdd,
           peer[c] = "waiting", Reads(r, c), r.for = "accept", r.head = NoPiece
    PROVE  Receives(c)'
<1>0. /\ fromPeer'[c] = fromPeer[c] /\ role' = role /\ Incoming(c)' = Incoming(c)
      /\ (Odd("read", c)' <=> Odd("read", c)) /\ (Odd("mixed", c)' <=> Odd("mixed", c))
  BY DEF Goes, Incoming, Odd
<1>1. /\ \A u \in WebThreads : ~Reads(web[u], c) /\ (Reads(web'[u], c) => u = t)
      /\ web'[t] = r
  BY WebMoved DEF Introduced, Reads
<1>2. Greets(c) /\ Greets(c)'
  BY <1>1 DEF Greets
<1>3. Expected(c) => Frames(Tail(Incoming(c)))
  BY <1>1, <1>2 DEF Expected, Unheard
<1>4. Expected(c) => Expected(c)'
  BY <1>0, <1>2, <1>3 DEF Expected
<1> QED
  BY <1>0, <1>1, <1>4 DEF Receives

(* A sequence that is not empty has a length.                                *)
LEMMA NotEmpty ==
    ASSUME NEW S, NEW s \in Seq(S), s # <<>>
    PROVE  Len(s) \in Nat /\ Len(s) # 0 /\ DOMAIN s = 1 .. Len(s)
OBVIOUS

(* A sequence of one element before another.                                 *)
LEMMA OneBefore ==
    ASSUME NEW S, NEW s \in Seq(S), s # <<>>, Len(s) <= 1, NEW u \in Seq(S)
    PROVE  /\ s \o u \in Seq(S) /\ s \o u # <<>> /\ (s \o u)[1] = Head(s)
           /\ Tail(s \o u) = u /\ Tail(s) = <<>> /\ <<>> \o u = u /\ Head(s) \in S
<1>1. Len(s) \in Nat /\ Len(s) # 0
  BY NotEmpty
<1>2. Len(s) = 1
  <2>1. \A l \in Nat : l # 0 /\ l <= 1 => l = 1
    OBVIOUS
  <2> QED
    BY <1>1, <2>1
<1>3. s = <<s[1]>> /\ s[1] \in S
  BY <1>2, OneElement
<1>4. PICK x \in S : s = <<x>>
  BY <1>3
<1>5. <<x>> \o u \in Seq(S) /\ Len(<<x>> \o u) = 1 + Len(u) /\ Len(u) \in Nat
  OBVIOUS
<1>6. (<<x>> \o u)[1] = x /\ \A i \in 1 .. Len(u) : (<<x>> \o u)[i + 1] = u[i]
  OBVIOUS
<1>7. <<x>> \o u # <<>>
  BY <1>5
<1>8. Tail(<<x>> \o u) = u
  BY <1>5, <1>6, <1>7
<1>9. Tail(<<x>>) = <<>> /\ Head(<<x>>) = x
  OBVIOUS
<1>10. <<>> \o u = u
  OBVIOUS
<1> QED
  BY <1>4, <1>5, <1>6, <1>7, <1>8, <1>9, <1>10

\* A piece of c is read.
PieceRead(c) ==
    /\ fromPeer[c] # <<>> /\ fromPeer' = [fromPeer EXCEPT ![c] = Tail(@)]
    /\ script' = script /\ peer' = peer

(* What is read from c is the first of what comes.                           *)
LEMMA PieceReadIs ==
    ASSUME WebTyped, NEW c \in WebClients, PieceRead(c), Len(fromPeer[c]) <= 1
    PROVE  /\ Incoming(c) \in Seq(Pieces) /\ Incoming(c) # <<>>
           /\ Incoming(c)[1] = Head(fromPeer[c]) /\ Incoming(c)' = Tail(Incoming(c))
           /\ fromPeer'[c] = <<>> /\ fromPeer' \in [WebClients -> Seq(Pieces)]
<1>1. fromPeer[c] \in Seq(Pieces) /\ script[c] \in Seq(Pieces)
  BY DEF WebTyped
<1>2. script'[c] = script[c] /\ fromPeer[c] # <<>>
  BY DEF PieceRead
<1>3. fromPeer'[c] = Tail(fromPeer[c])
  BY DEF WebTyped, PieceRead
<1>4. /\ fromPeer[c] \o script[c] \in Seq(Pieces) /\ fromPeer[c] \o script[c] # <<>>
      /\ (fromPeer[c] \o script[c])[1] = Head(fromPeer[c])
      /\ Tail(fromPeer[c] \o script[c]) = script[c]
      /\ Tail(fromPeer[c]) = <<>> /\ <<>> \o script[c] = script[c]
  <2> DEFINE s == fromPeer[c]
             u == script[c]
  <2>1. s \in Seq(Pieces) /\ u \in Seq(Pieces) /\ s # <<>> /\ Len(s) <= 1
    BY <1>1, <1>2
  <2> HIDE DEF s, u
  <2>2. /\ s \o u \in Seq(Pieces) /\ s \o u # <<>> /\ (s \o u)[1] = Head(s)
        /\ Tail(s \o u) = u /\ Tail(s) = <<>> /\ <<>> \o u = u
    BY <2>1, OneBefore
  <2> QED
    BY <2>2 DEF s, u
<1>5. Incoming(c)' = script[c]
  BY <1>2, <1>3, <1>4 DEF Incoming
<1>6. Tail(fromPeer[c]) \in Seq(Pieces)
  BY <1>1, <1>2
<1>7. fromPeer' \in [WebClients -> Seq(Pieces)]
  BY <1>6 DEF WebTyped, PieceRead
<1> QED
  BY <1>3, <1>4, <1>5, <1>7 DEF Incoming

\* Only thread t reads from c.
Alone(t, c) ==
    /\ Reads(web[t], c)
    /\ \A u \in WebThreads : Reads(web[u], c) => u = t

(* The one reader of an open connection expects what comes.                  *)
LEMMA ReaderExpects ==
    ASSUME WebTyped, CallsFit, NEW c \in WebClients, Receives(c), Introduced(c), OneOwner(c),
           NEW t \in WebThreads, Reads(web[t], c), web[t].phase = "receiving",
           fromPeer[c] # <<>>, ~Odd("read", c), role[c] = "ws"
    PROVE  /\ Alone(t, c) /\ ~Odd("mixed", c)
           /\ peer[c] \notin {"away", "waiting"}
           /\ web[t].for = "accept" => Frames(Tail(Incoming(c)))
           /\ web[t].for = "recv" /\ web[t].head # NoPiece => PayloadFirst(Incoming(c), web[t].head.n)
           /\ web[t].for = "recv" /\ web[t].head = NoPiece => Frames(Incoming(c))
<1>1. Alone(t, c) /\ ~Odd("mixed", c)
  BY DEF Receives, Alone
<1>2. peer[c] \notin {"away", "waiting"}
  BY DEF Introduced, Reads
<1>3. c \in sockets
  BY DEF OneOwner, Reads
<1>4. ~Unheard(c)
  BY <1>2, <1>3 DEF Unheard
<1>5. Incoming(c) # <<>>
  BY DEF WebTyped, Incoming
<1>6. Expected(c)
  BY <1>5 DEF Receives
<1>7. web[t].head # NoPiece => web[t].for = "recv"
  BY DEF CallsFit, Fits
<1>8. Greets(c) <=> web[t].for = "accept"
  BY <1>1, <1>2 DEF Greets, Alone
<1> QED
  BY <1>1, <1>2, <1>4, <1>6, <1>7, <1>8 DEF Expected, Alone

(* The reader of c has taken a request or a whole frame.                     *)
LEMMA ReceivesWhole ==
    ASSUME WebTyped, CallsFit, NEW c \in WebClients, Receives(c),
           NEW t \in WebThreads, NEW r, Goes(t, r), PieceRead(c), ~Reads(r, c),
           Odd("read", c)' <=> Odd("read", c),
           ~Odd("read", c) /\ role[c] = "ws" =>
               /\ Alone(t, c) /\ peer[c] \notin {"away", "waiting"}
               /\ Frames(Tail(Incoming(c))),
           ~Odd("read", c) => ~Odd("mixed", c)'
    PROVE  Receives(c)'
<1>1. Incoming(c)' = Tail(Incoming(c)) /\ fromPeer'[c] = <<>>
  BY PieceReadIs DEF Receives
<1>2. \A u \in WebThreads : Reads(web'[u], c) => Reads(web[u], c) /\ u # t
  BY WebMoved
<1>3. role' = role /\ peer' = peer
  BY DEF Goes, PieceRead
<1>4. ASSUME ~Odd("read", c), role[c] = "ws" PROVE Expected(c)'
  <2>1. Alone(t, c) /\ peer[c] \notin {"away", "waiting"} /\ Frames(Tail(Incoming(c)))
    BY <1>4
  <2>2. \A u \in WebThreads : ~Reads(web'[u], c)
    BY <1>2, <2>1 DEF Alone
  <2>3. ~Greets(c)'
    BY <1>3, <2>1, <2>2 DEF Greets
  <2>4. Frames(Incoming(c))'
    BY <1>1, <2>1 DEF Frames
  <2> QED
    BY <2>2, <2>3, <2>4 DEF Expected
<1>5. Len(fromPeer'[c]) <= 1
  BY <1>1
<1>6. \A u, v \in WebThreads : ~Odd("read", c) /\ Reads(web'[u], c) /\ Reads(web'[v], c) => u = v
  BY <1>2 DEF Receives
<1> QED
  BY <1>3, <1>4, <1>5, <1>6 DEF Receives

(* The reader of c has taken the head of a frame.                            *)
LEMMA ReceivesHead ==
    ASSUME WebTyped, CallsFit, NEW c \in WebClients, Receives(c),
           NEW t \in WebThreads, NEW r, Goes(t, r), PieceRead(c), Reads(web[t], c), Reads(r, c),
           r.head # NoPiece,
           Odd("read", c)' <=> Odd("read", c),
           ~Odd("read", c) /\ role[c] = "ws" =>
               /\ Alone(t, c) /\ PayloadFirst(Tail(Incoming(c)), r.head.n),
           ~Odd("read", c) => ~Odd("mixed", c)'
    PROVE  Receives(c)'
<1>1. Incoming(c)' = Tail(Incoming(c)) /\ fromPeer'[c] = <<>>
  BY PieceReadIs DEF Receives
<1>2. web'[t] = r /\ \A u \in WebThreads : Reads(web'[u], c) => Reads(web[u], c)
  BY WebMoved
<1>3. role' = role
  BY DEF Goes
<1>4. ASSUME ~Odd("read", c), role[c] = "ws" PROVE Expected(c)'
  BY <1>1, <1>2, <1>4 DEF Expected
<1>5. Len(fromPeer'[c]) <= 1
  BY <1>1
<1> QED
  BY <1>2, <1>3, <1>4, <1>5 DEF Receives

(* A call on an entry of c begins.                                           *)
LEMMA IntroducedOpen ==
    ASSUME WebTyped, CallsFit, NEW c \in WebClients, Introduced(c), OneOwner(c),
           NEW t \in WebThreads, NEW r,
           Goes(t, r), entry[c] # "none", peer' = peer, ~Welcomes(r, c)
    PROVE  Introduced(c)'
<1>1. \A u \in WebThreads : ~Welcomes(web[u], c)
  BY DEF OneOwner, Welcomes, Holds
<1>2. \A u \in WebThreads : ~Welcomes(web'[u], c)
  BY <1>1, WebMoved
<1>3. peer'[c] \notin {"away", "waiting"}
  BY DEF Introduced
<1> QED
  BY <1>2, <1>3 DEF Introduced

(* c is accepted.                                                            *)
LEMMA IntroducedFirst ==
    ASSUME WebTyped, CallsFit, NEW c \in WebClients, Introduced(c), NEW t \in WebThreads, NEW r,
           Goes(t, r), peer[c] = "waiting", peer'[c] = "up", webOdd' = webOdd
    PROVE  Introduced(c)'
<1>1. \A u \in WebThreads : web'[u].conn = c => u = t
  BY WebMoved DEF Introduced
<1>2. \A tag \in WebTags : ~Odd(tag, c)'
  BY DEF Introduced, Odd
<1> QED
  BY <1>1, <1>2 DEF Introduced, Welcomes

(* The acceptor of c owns its socket.                                        *)
LEMMA OwnerIsFirst ==
    ASSUME WebTyped, CallsFit, NEW c \in WebClients, Introduced(c), NEW t \in WebThreads, NEW r,
           Goes(t, r), peer[c] = "waiting", entry' = entry, sockets' = sockets \cup {c},
           Holds(r, c)
    PROVE  OneOwner(c)'
<1>1. /\ \A u \in WebThreads : web'[u].conn = c => u = t
      /\ web'[t] = r
  BY WebMoved DEF Introduced
<1>2. entry'[c] = "none" /\ c \in sockets'
  BY DEF Introduced
<1>3. \A u \in WebThreads : Holds(web'[u], c) => u = t
  BY <1>1 DEF Holds
<1>4. Holds(web'[t], c)
  BY <1>1
<1> QED
  BY <1>2, <1>3, <1>4 DEF OneOwner

(* No call ends a message late, and the table is not opened again.           *)
LEMMA InTimeKept ==
    ASSUME WebTyped, NEW c \in WebClients, InTime(c), role' = role,
           entry'[c] = "open" => entry[c] = "open" /\ (Odd("over", c)' => Odd("over", c)),
           Odd("over", c)' => Odd("over", c) \/ role[c] = "ws",
           \A i \in DOMAIN toPeer'[c] : ~toPeer'[c][i].late
    PROVE  InTime(c)'
BY DEF InTime

\* Nothing happens to a client but perhaps to calls about it.
Untouched(c) ==
    /\ entry'[c] = entry[c] /\ (c \in sockets' <=> c \in sockets)
    /\ peer'[c] = peer[c] /\ script'[c] = script[c]
    /\ fromPeer'[c] = fromPeer[c] /\ toPeer'[c] = toPeer[c]
    /\ \A tag \in WebTags : Odd(tag, c)' <=> Odd(tag, c)

(* A step of one thread that is about client c.                              *)
LEMMA ThreadStep ==
    ASSUME WebInv, NEW t \in WebThreads, NEW r, NEW c \in WebClients, Goes(t, r),
           web[t].conn \in {c, NoOne}, r.conn \in {c, NoOne},
           \A d \in WebClients : d # c => Untouched(d),
           WebTyped', WebLocks',
           Introduced(c)', OneOwner(c)', Streams(c)', InTime(c)', Receives(c)'
    PROVE  WebInv'
<1>1. CallsFit' /\ web'[t] = r /\ role' = role /\ \A u \in WebThreads : u # t => web'[u] = web[u]
  BY WebMoved DEF WebInv, Goes
<1>2. ASSUME NEW d \in WebClients, d # c PROVE ClientOK(d)'
  <2>1. \A u \in WebThreads : web'[u] = web[u] \/ (web[u].conn # d /\ web'[u].conn # d)
    BY <1>1, <1>2, WebAssumption
  <2>2. Untouched(d)
    BY <1>2
  <2>3. SameFor(d)
    BY <1>1, <2>1, <2>2 DEF SameFor, Untouched
  <2> QED
    BY <2>3, OthersKept DEF WebInv
<1>3. ClientOK(c)'
  BY DEF ClientOK
<1> QED
  BY <1>1, <1>2, <1>3 DEF WebInv

(* A call on a WebSocket or an SSE emitter begins.                           *)
LEMMA CallOnKept ==
    ASSUME WebInv, NEW t \in WebThreads, NEW c \in WebClients, NEW k, NEW aim,
           NEW phase, CallOn(t, c, k, aim, phase),
           \/ aim \in {"send", "close"} /\ k \in {"ws", "sse"} /\ phase = "check"
           \/ aim = "close" /\ k \in {"ws", "sse"} /\ phase = "remove"
           \/ aim = "recv" /\ k = "ws" /\ phase = "check"
    PROVE  WebInv'
<1>1. WebTyped /\ CallsFit /\ SocketsLockOK /\ ServersLockOK /\ EntriesLockOK /\ ClientOK(c)
  BY DEF WebInv, WebLocks
<1>2. PICK r : /\ Goes(t, r) /\ web[t] = NoWeb
               /\ r.for = aim /\ r.conn = c /\ r.phase = phase
               /\ r.left = <<>> /\ r.head = NoPiece
  BY <1>1, CallOnStep
<1>3. /\ role' = role /\ peer' = peer /\ script' = script /\ fromPeer' = fromPeer
      /\ toPeer' = toPeer /\ sockets' = sockets /\ socketsLock' = socketsLock
      /\ serversLock' = serversLock /\ entry' = entry /\ entriesLock' = entriesLock
      /\ webOdd' = webOdd /\ entry[c] # "none"
  BY DEF CallOn, clientSide, wires, tables
<1>4. phase \in {"check", "remove"} /\ aim \notin {"accept", "refuse", "respond"}
  OBVIOUS
<1>5. WebTyped'
  <2>1. web' \in [WebThreads -> WebCalls]
    BY <1>1, <1>2, WebMoved
  <2> QED
    BY <1>1, <1>3, <2>1 DEF WebTyped
<1>6. WebLocks'
  <2>1. SocketsLockOK'
    BY <1>1, <1>2, <1>3, <1>4, SocketsLockKept DEF NoWeb, Blocking
  <2>2. ServersLockOK'
    BY <1>1, <1>2, <1>3, <1>4, ServersLockSame DEF NoWeb
  <2>3. EntriesLockOK'
    <3>1. \A m \in ServerKinds : entriesLock[m] # t
      BY <1>1, <1>2 DEF EntriesLockOK, NoWeb
    <3> QED
      BY <1>1, <1>2, <1>3, <3>1, EntriesLockKept
  <2> QED
    BY <2>1, <2>2, <2>3 DEF WebLocks
<1>7. /\ Introduced(c) /\ OneOwner(c) /\ Streams(c) /\ InTime(c) /\ Receives(c)
  BY <1>1 DEF ClientOK
<1>8. \A d \in WebClients : Untouched(d)
  BY <1>3 DEF Untouched, Odd
<1>9. /\ ~Holds(r, c) /\ ~Welcomes(r, c) /\ ~Writes(r, c) /\ ~Reads(r, c)
      /\ ~Holds(web[t], c) /\ ~Welcomes(web[t], c) /\ ~Writes(web[t], c) /\ ~Reads(web[t], c)
  BY <1>2, <1>4 DEF Holds, Welcomes, Writes, Reads, InMessage, InFrame, NoWeb
<1>10. Introduced(c)'
  BY <1>1, <1>2, <1>3, <1>7, <1>9, IntroducedOpen
<1>11. OneOwner(c)'
  BY <1>1, <1>2, <1>3, <1>4, <1>7, <1>9, OwnerSame DEF Blocking
<1>12. \A tag : Odd(tag, c)' <=> Odd(tag, c)
  BY <1>3 DEF Odd
<1>13. Streams(c)'
  <2>1. Stopped(c) => Stopped(c)'
    BY <1>3 DEF Stopped
  <2> QED
    BY <1>1, <1>2, <1>3, <1>7, <1>9, <1>12, <2>1, StreamsSame
<1>14. InTime(c)'
  BY <1>1, <1>3, <1>7, <1>12 DEF InTime
<1>15. Receives(c)'
  <2>1. Silent(c)
    BY <1>3 DEF Silent
  <2> QED
    BY <1>1, <1>2, <1>3, <1>7, <1>9, <1>12, <2>1, ReceivesSame
<1> QED
  BY <1>2, <1>5, <1>6, <1>8, <1>10, <1>11, <1>13, <1>14, <1>15, ThreadStep DEF NoWeb

\* SOCKETS stays as it is, or is locked or unlocked with what thread t does.
SocketsTurn(t, r) ==
    \/ socketsLock' = socketsLock /\ (r.phase \in Blocking <=> web[t].phase \in Blocking)
    \/ socketsLock = NoOne /\ socketsLock' = t /\ r.phase \in Blocking
    \/ web[t].phase \in Blocking /\ socketsLock' = NoOne /\ r.phase \notin Blocking

\* A call about c goes on with its part in the tables and in the socket's life.
Follows(t, r, c) ==
    /\ Own(t, r, c)
    /\ Holds(r, c) <=> Holds(web[t], c)
    /\ Welcomes(r, c) => Welcomes(web[t], c)
    /\ web[t].phase # "close" /\ r.phase # "accept" /\ web[t].phase # "accept"
    /\ web[t].for = "respond" => r.for = "respond" /\ r.conn = c
    /\ r.phase \in Blocking => c \in sockets

\* Only the history and the streams of c change.
OnlyStreams(c) ==
    /\ role' = role /\ peer' = peer /\ script' = script
    /\ sockets' = sockets /\ serversLock' = serversLock
    /\ entry' = entry /\ entriesLock' = entriesLock
    /\ fromPeer' \in [WebClients -> Seq(Pieces)] /\ toPeer' \in [WebClients -> Seq(Parts)]
    /\ webOdd' \subseteq WebTags \X WebClients
    /\ \A d \in WebClients : d # c =>
          /\ fromPeer'[d] = fromPeer[d] /\ toPeer'[d] = toPeer[d]
          /\ \A tag \in WebTags : Odd(tag, d)' <=> Odd(tag, d)

(* What such a step keeps.                                                   *)
LEMMA FollowsKept ==
    ASSUME WebInv, NEW t \in WebThreads, NEW c \in WebClients, NEW r, Follows(t, r, c),
           OnlyStreams(c), SocketsTurn(t, r),
           Welcomes(web[t], c) => \A tag \in WebTags : Odd(tag, c)' => Odd(tag, c),
           Streams(c)', InTime(c)', Receives(c)'
    PROVE  WebInv'
<1>1. WebTyped /\ CallsFit /\ SocketsLockOK /\ ServersLockOK /\ EntriesLockOK /\ ClientOK(c)
  BY DEF WebInv, WebLocks
<1>2. Goes(t, r) /\ web[t].conn = c /\ r.conn \in {c, NoOne} /\ r \in WebCalls
  BY DEF Follows, Own, Goes
<1>3. /\ role' = role /\ peer' = peer /\ script' = script
      /\ sockets' = sockets /\ serversLock' = serversLock
      /\ entry' = entry /\ entriesLock' = entriesLock
  BY DEF OnlyStreams
<1>4. WebTyped'
  <2>1. web' \in [WebThreads -> WebCalls]
    BY <1>1, <1>2, WebMoved
  <2>2. socketsLock' \in WebThreads \cup {NoOne}
    BY <1>1 DEF SocketsTurn, WebTyped
  <2>3. /\ fromPeer' \in [WebClients -> Seq(Pieces)] /\ toPeer' \in [WebClients -> Seq(Parts)]
        /\ webOdd' \subseteq WebTags \X WebClients
    BY DEF OnlyStreams
  <2> QED
    BY <1>1, <1>3, <2>1, <2>2, <2>3 DEF WebTyped
<1>5. WebLocks'
  <2>1. SocketsLockOK'
    BY <1>1, <1>2, SocketsLockKept DEF SocketsTurn
  <2>2. ServersLockOK'
    BY <1>1, <1>2, <1>3, ServersLockSame DEF Follows
  <2>3. EntriesLockOK'
    <3>1. \A k \in ServerKinds : entriesLock[k] = t => r.for = "respond" /\ r.conn = c /\ role[c] = k
      BY <1>1, <1>2 DEF EntriesLockOK, Follows
    <3> QED
      BY <1>1, <1>2, <1>3, <3>1, EntriesLockKept
  <2> QED
    BY <2>1, <2>2, <2>3 DEF WebLocks
<1>6. Introduced(c)'
  BY <1>1, <1>3, IntroducedOwn DEF Follows, ClientOK
<1>7. OneOwner(c)'
  <2>1. OneOwner(c) /\ (Holds(r, c) <=> Holds(web[t], c)) /\ (r.phase \in Blocking => c \in sockets)
    BY <1>1 DEF Follows, ClientOK
  <2> QED
    BY <1>1, <1>2, <1>3, <2>1, OwnerSame
<1>8. \A d \in WebClients : d # c => Untouched(d)
  BY DEF Untouched, OnlyStreams
<1> QED
  BY <1>2, <1>4, <1>5, <1>6, <1>7, <1>8, ThreadStep

(* What the places of a call leave it.                                       *)
LEMMA AfterMessageFollows ==
    ASSUME WebInv, NEW t \in WebThreads, NEW c \in WebClients, NEW r, Goes(t, r),
           InMessage(web[t]), web[t].conn = c, AfterMessage(web[t], r)
    PROVE  /\ Follows(t, r, c) /\ r.phase \notin Blocking /\ ~Writes(r, c) /\ ~Reads(r, c)
           /\ Writes(web[t], c) /\ ~Reads(web[t], c)
<1>1. web[t].phase \in {"write", "sending"}
  BY DEF InMessage
<1>2. PhaseFits(web[t]) /\ c # NoOne /\ web[t].phase \in {"write", "sending"}
  BY <1>1, WebAssumption DEF WebInv, CallsFit, Fits
<1> USE DEF Own, Holds, Welcomes, Writes, Reads, InMessage, InFrame, Blocking, NoWeb
<1>3. CASE r = NoWeb /\ web[t].for \notin {"accept", "refuse", "respond", "close", "pong"}
  BY <1>2, <1>3 DEF Follows
<1>4. CASE web[t].for = "accept" /\ (Passes(web[t], r, "insert") \/ Passes(web[t], r, "close"))
  BY <1>2, <1>4 DEF Follows, Passes
<1>5. CASE web[t].for \in {"refuse", "respond"} /\ Passes(web[t], r, "close")
  BY <1>2, <1>5 DEF Follows, Passes
<1>6. CASE web[t].for = "close" /\ Passes(web[t], r, "remove")
  BY <1>2, <1>6 DEF Follows, Passes
<1>7. CASE web[t].for = "send" /\ Passes(web[t], r, "mark")
  BY <1>2, <1>7 DEF Follows, Passes
<1>8. CASE /\ web[t].for = "pong" /\ r.for = "recv" /\ r.conn = web[t].conn /\ r.phase = "check"
           /\ r.left = <<>> /\ r.head = NoPiece
  BY <1>2, <1>8 DEF Follows
<1> QED
  BY <1>3, <1>4, <1>5, <1>6, <1>7, <1>8 DEF AfterMessage

(* What the places of a reader leave it.                                     *)
LEMMA AfterFrameFollows ==
    ASSUME WebInv, NEW t \in WebThreads, NEW c \in WebClients, NEW r, Goes(t, r),
           InFrame(web[t]), web[t].conn = c, AfterFrame(web[t], r)
    PROVE  /\ Follows(t, r, c) /\ r.phase \notin Blocking /\ ~Writes(r, c) /\ ~Reads(r, c)
           /\ Reads(web[t], c) /\ ~Writes(web[t], c)
<1>1. web[t].phase \in {"read", "receiving"} /\ c # NoOne
  BY WebAssumption DEF InFrame
<1> USE DEF Own, Holds, Welcomes, Writes, Reads, InMessage, InFrame, Blocking, NoWeb
<1>3. CASE r = NoWeb /\ web[t].for = "recv"
  BY <1>1, <1>3 DEF Follows
<1>4. CASE web[t].for = "recv" /\ Passes(web[t], r, "mark")
  BY <1>1, <1>4 DEF Follows, Passes
<1>5. CASE web[t].for = "accept" /\ Passes(web[t], r, "close")
  BY <1>1, <1>5 DEF Follows, Passes
<1>6. CASE /\ web[t].for = "recv" /\ r.for \in {"recv", "pong"} /\ r.conn = web[t].conn
           /\ r.phase = "check" /\ r.left = <<>> /\ r.head = NoPiece
  BY <1>1, <1>6 DEF Follows
<1> QED
  BY <1>3, <1>4, <1>5, <1>6 DEF AfterFrame

(* The socket of c is looked up for a send, and SOCKETS locked.              *)
LEMMA BeginSendKept ==
    ASSUME WebInv, NEW t \in WebThreads, NEW c \in WebClients, web[t].conn = c, BeginSend(t)
    PROVE  WebInv'
<1>1. /\ web[t].phase = "write" /\ socketsLock = NoOne /\ InMessage(web[t])
      /\ \/ c \in sockets /\ socketsLock' = t /\ GoTo(t, "sending")
         \/ c \notin sockets /\ Written(t, FALSE) /\ socketsLock' = socketsLock
  BY DEF BeginSend, InMessage
<1>2. /\ role' = role /\ peer' = peer /\ script' = script /\ fromPeer' = fromPeer
      /\ toPeer' = toPeer /\ sockets' = sockets
      /\ serversLock' = serversLock /\ entry' = entry /\ entriesLock' = entriesLock
      /\ webOdd' = webOdd
  BY DEF BeginSend, clientSide, wires, tables
<1>3. WebTyped /\ CallsFit
  BY DEF WebInv
<1>5. PICK r : /\ Follows(t, r, c) /\ SocketsTurn(t, r) /\ ~Reads(r, c) /\ ~Reads(web[t], c)
               /\ Writes(web[t], c)
               /\ \/ Writes(r, c) /\ r.left = web[t].left
                  \/ ~Writes(r, c) /\ c \notin sockets
  <2>1. CASE c \in sockets /\ socketsLock' = t /\ GoTo(t, "sending")
    <3>1. PICK r : Goes(t, r) /\ Passes(web[t], r, "sending")
      BY <1>1, <1>2, <1>3, <2>1, BeginStep
    <3>2. SocketsTurn(t, r)
      BY <1>1, <2>1, <3>1 DEF SocketsTurn, Passes, Blocking
    <3>3. Follows(t, r, c)
      BY <1>1, <2>1, <3>1 DEF Follows, Passes, Own, Holds, Welcomes, Blocking
    <3>4. Writes(r, c) /\ Writes(web[t], c) /\ r.left = web[t].left /\ ~Reads(r, c) /\ ~Reads(web[t], c)
      BY <1>1, <3>1 DEF Passes, Writes, Reads, InMessage, InFrame
    <3> QED
      BY <3>2, <3>3, <3>4
  <2>2. CASE c \notin sockets /\ Written(t, FALSE) /\ socketsLock' = socketsLock
    <3>1. PICK r : Goes(t, r) /\ AfterMessage(web[t], r)
      BY <1>1, <1>2, <1>3, <2>2, WrittenStep
    <3>2. /\ Follows(t, r, c) /\ r.phase \notin Blocking /\ ~Writes(r, c) /\ ~Reads(r, c)
          /\ Writes(web[t], c) /\ ~Reads(web[t], c)
      BY <1>1, <3>1, AfterMessageFollows
    <3>3. SocketsTurn(t, r)
      BY <1>1, <2>2, <3>2 DEF SocketsTurn, Blocking
    <3> QED
      BY <2>2, <3>2, <3>3
  <2> QED
    BY <1>1, <2>1, <2>2
<1>6. \A tag, d : Odd(tag, d)' <=> Odd(tag, d)
  BY <1>2 DEF Odd
<1>7. OnlyStreams(c)
  BY <1>2, <1>3, <1>6 DEF OnlyStreams, WebTyped
<1>8. ClientOK(c) /\ Goes(t, r)
  BY <1>5 DEF WebInv, Follows, Own
<1>9. Introduced(c) /\ Streams(c) /\ InTime(c) /\ Receives(c)
  BY <1>8 DEF ClientOK
<1>10. (Stopped(c) => Stopped(c)') /\ (c \notin sockets => Stopped(c)')
  <2>1. peer[c] \notin {"away", "waiting"}
    BY <1>5, <1>9 DEF Introduced, Writes
  <2> QED
    BY <1>2, <2>1 DEF Stopped
<1>11. Streams(c)'
  BY <1>2, <1>3, <1>5, <1>6, <1>8, <1>9, <1>10, StreamsSame
<1>12. InTime(c)'
  BY <1>2, <1>6, <1>9 DEF InTime
<1>13. Receives(c)'
  <2>1. Silent(c)
    BY <1>2 DEF Silent
  <2> QED
    BY <1>2, <1>3, <1>5, <1>6, <1>8, <1>9, <2>1, ReceivesSame
<1> QED
  BY <1>5, <1>6, <1>7, <1>11, <1>12, <1>13, FollowsKept

(* The socket of c is looked up for a receive, and SOCKETS locked.           *)
LEMMA BeginRecvKept ==
    ASSUME WebInv, NEW t \in WebThreads, NEW c \in WebClients, web[t].conn = c, BeginRecv(t)
    PROVE  WebInv'
<1>1. /\ web[t].phase = "read" /\ socketsLock = NoOne /\ InFrame(web[t])
      /\ \/ c \in sockets /\ socketsLock' = t /\ GoTo(t, "receiving")
         \/ c \notin sockets /\ ReadFails(t) /\ socketsLock' = socketsLock
  BY DEF BeginRecv, InFrame
<1>2. /\ role' = role /\ peer' = peer /\ script' = script /\ fromPeer' = fromPeer
      /\ toPeer' = toPeer /\ sockets' = sockets
      /\ serversLock' = serversLock /\ entry' = entry /\ entriesLock' = entriesLock
      /\ webOdd' = webOdd
  BY DEF BeginRecv, clientSide, wires, tables
<1>3. WebTyped /\ CallsFit
  BY DEF WebInv
<1>5. PICK r : /\ Follows(t, r, c) /\ SocketsTurn(t, r) /\ ~Writes(r, c) /\ ~Writes(web[t], c)
               /\ Reads(web[t], c)
               /\ \/ Reads(r, c) /\ r.for = web[t].for /\ r.head = web[t].head
                  \/ ~Reads(r, c) /\ c \notin sockets
  <2>1. CASE c \in sockets /\ socketsLock' = t /\ GoTo(t, "receiving")
    <3>1. PICK r : Goes(t, r) /\ Passes(web[t], r, "receiving")
      BY <1>1, <1>2, <1>3, <2>1, BeginStep
    <3>2. SocketsTurn(t, r)
      BY <1>1, <2>1, <3>1 DEF SocketsTurn, Passes, Blocking
    <3>3. Follows(t, r, c)
      BY <1>1, <2>1, <3>1 DEF Follows, Passes, Own, Holds, Welcomes, Blocking
    <3>4. /\ Reads(r, c) /\ Reads(web[t], c) /\ r.for = web[t].for /\ r.head = web[t].head
          /\ ~Writes(r, c) /\ ~Writes(web[t], c)
      BY <1>1, <3>1 DEF Passes, Writes, Reads, InMessage, InFrame
    <3> QED
      BY <3>2, <3>3, <3>4
  <2>2. CASE c \notin sockets /\ ReadFails(t) /\ socketsLock' = socketsLock
    <3>1. PICK r : Goes(t, r) /\ AfterFrame(web[t], r)
      BY <1>1, <1>2, <1>3, <2>2, ReadFailsStep
    <3>2. /\ Follows(t, r, c) /\ r.phase \notin Blocking /\ ~Writes(r, c) /\ ~Reads(r, c)
          /\ Reads(web[t], c) /\ ~Writes(web[t], c)
      BY <1>1, <3>1, AfterFrameFollows
    <3>3. SocketsTurn(t, r)
      BY <1>1, <2>2, <3>2 DEF SocketsTurn, Blocking
    <3> QED
      BY <2>2, <3>2, <3>3
  <2> QED
    BY <1>1, <2>1, <2>2
<1>6. \A tag, d : Odd(tag, d)' <=> Odd(tag, d)
  BY <1>2 DEF Odd
<1>7. OnlyStreams(c)
  BY <1>2, <1>3, <1>6 DEF OnlyStreams, WebTyped
<1>8. ClientOK(c) /\ Goes(t, r)
  BY <1>5 DEF WebInv, Follows, Own
<1>9. Introduced(c) /\ Streams(c) /\ InTime(c) /\ Receives(c)
  BY <1>8 DEF ClientOK
<1>10. Stopped(c) => Stopped(c)'
  BY <1>2 DEF Stopped
<1>11. Streams(c)'
  BY <1>2, <1>3, <1>5, <1>6, <1>8, <1>9, <1>10, StreamsSame
<1>12. InTime(c)'
  BY <1>2, <1>6, <1>9 DEF InTime
<1>13. Receives(c)'
  <2>1. Silent(c)
    BY <1>2 DEF Silent
  <2>2. CASE Reads(r, c) /\ r.for = web[t].for /\ r.head = web[t].head
    BY <1>2, <1>3, <1>5, <1>6, <1>8, <1>9, <2>1, <2>2, ReceivesSame
  <2>3. CASE ~Reads(r, c) /\ c \notin sockets
    <3>1. peer[c] \notin {"away", "waiting"}
      BY <1>5, <1>9 DEF Introduced, Reads
    <3>2. Unheard(c)'
      BY <1>2, <2>3, <3>1 DEF Unheard
    <3> QED
      BY <1>3, <1>6, <1>8, <1>9, <2>1, <2>3, <3>2, ReceivesStops
  <2> QED
    BY <1>5, <2>2, <2>3
<1> QED
  BY <1>5, <1>6, <1>7, <1>11, <1>12, <1>13, FollowsKept

(* Parts that are not late, after others that are not.                       *)
LEMMA LateGrows ==
    ASSUME NEW s \in Seq(Parts), NEW l \in Seq(Parts), l # <<>>,
           \A i \in DOMAIN s : ~s[i].late, \A i \in DOMAIN l : ~l[i].late
    PROVE  /\ Recent(s \o l) \in Seq(Parts)
           /\ \A i \in DOMAIN Recent(s \o l) : ~Recent(s \o l)[i].late
<1> DEFINE z == s \o l
<1>1. z \in Seq(Parts) /\ z # <<>>
  OBVIOUS
<1>2. \A i \in DOMAIN z : ~z[i].late
  <2>1. /\ Len(s) \in Nat /\ Len(l) \in Nat /\ DOMAIN s = 1 .. Len(s) /\ DOMAIN l = 1 .. Len(l)
        /\ DOMAIN z = 1 .. Len(s) + Len(l)
    OBVIOUS
  <2>2. ASSUME NEW i \in 1 .. Len(s) + Len(l) PROVE ~z[i].late
    <3>1. CASE i <= Len(s)
      <4>1. z[i] = s[i] /\ i \in DOMAIN s
        BY <2>1, <2>2, <3>1
      <4> QED
        BY <4>1
    <3>2. CASE i > Len(s)
      <4>1. z[i] = l[i - Len(s)] /\ i - Len(s) \in DOMAIN l
        BY <2>1, <2>2, <3>2
      <4> QED
        BY <4>1
    <3> QED
      BY <2>1, <2>2, <3>1, <3>2
  <2> QED
    BY <2>1, <2>2
<1> HIDE DEF z
<1>3. Recent(z) \in Seq(Parts) /\ \A i \in DOMAIN Recent(z) : ~Recent(z)[i].late
  BY <1>1, <1>2, RecentIs
<1> QED
  BY <1>3 DEF z

(* Some of a message is written to c, or c is gone.                          *)
LEMMA SocketSendKept ==
    ASSUME WebInv, NEW t \in WebThreads, NEW c \in WebClients, web[t].conn = c, SocketSend(t)
    PROVE  WebInv'
<1>1. web[t].phase = "sending" /\ InMessage(web[t]) /\ Writes(web[t], c) /\ ~Reads(web[t], c)
  BY DEF SocketSend, InMessage, InFrame, Writes, Reads
<1>2. /\ role' = role /\ peer' = peer /\ script' = script /\ fromPeer' = fromPeer
      /\ sockets' = sockets /\ socketsLock' = NoOne
      /\ serversLock' = serversLock /\ entry' = entry /\ entriesLock' = entriesLock
  BY DEF SocketSend, clientSide, tables
<1>3. WebTyped /\ CallsFit /\ ClientOK(c)
  BY DEF WebInv
<1>4. Introduced(c) /\ OneOwner(c) /\ Streams(c) /\ InTime(c) /\ Receives(c)
  BY <1>3 DEF ClientOK
<1>5. /\ web[t].left \in Seq(Parts) /\ toPeer[c] \in Seq(Parts) /\ Fits(web[t])
      /\ web[t].left # <<>>
      /\ \A i \in DOMAIN web[t].left : ~web[t].left[i].late
      /\ \A i \in DOMAIN toPeer[c] : ~toPeer[c][i].late
  BY <1>1, <1>3, <1>4 DEF WebTyped, WebCalls, CallsFit, Fits, InTime
<1>6. Begun(web[t].left, t) \/ SecondPart(web[t].left, t)
  BY <1>1, <1>4 DEF Streams
<1>7. PICK r : Goes(t, r) /\ AfterSend(web[t], r, t)
  BY <1>3, <1>6, SocketSendStep
<1>8. c \in sockets /\ peer[c] \notin {"away", "waiting"}
  BY <1>1, <1>4 DEF OneOwner, Introduced, Writes
<1>9. SocketsTurn(t, r) <=> r.phase \notin Blocking
  BY <1>1, <1>2, WebAssumption DEF SocketsTurn, Blocking, WebInv, WebLocks, SocketsLockOK
<1>10. toPeer' \in [WebClients -> Seq(Parts)] => OnlyStreams(c)
  <2>1. fromPeer' \in [WebClients -> Seq(Pieces)] /\ webOdd' \subseteq WebTags \X WebClients
    BY <1>2, <1>3, <1>7 DEF WebTyped, AfterSend, WebTags
  <2>2. \A d \in WebClients : d # c => toPeer'[d] = toPeer[d] /\ \A tag \in WebTags : Odd(tag, d)' <=> Odd(tag, d)
    BY <1>3, <1>7 DEF WebTyped, AfterSend, Odd
  <2> QED
    BY <1>2, <2>1, <2>2 DEF OnlyStreams
<1>11. Silent(c)
  BY <1>2 DEF Silent
<1>12. /\ Odd("over", c)' <=> Odd("over", c)
       /\ Odd("read", c)' <=> Odd("read", c)
       /\ Odd("mixed", c)' <=> Odd("mixed", c)
  BY <1>7 DEF AfterSend, Odd
<1>13. ASSUME ~Reads(r, c) PROVE Receives(c)'
  BY <1>1, <1>2, <1>3, <1>4, <1>7, <1>11, <1>12, <1>13, ReceivesSame
<1>14. ASSUME \A i \in DOMAIN toPeer'[c] : ~toPeer'[c][i].late PROVE InTime(c)'
  BY <1>2, <1>4, <1>12, <1>14 DEF InTime
<1>15. CASE /\ peer[c] = "up" /\ AfterMessage(web[t], r) /\ webOdd' = webOdd
            /\ toPeer' = [toPeer EXCEPT ![c] = Recent(toPeer[c] \o web[t].left)]
  <2>1. /\ Follows(t, r, c) /\ r.phase \notin Blocking /\ ~Writes(r, c) /\ ~Reads(r, c)
    BY <1>1, <1>7, <1>15, AfterMessageFollows
  <2>2. /\ Recent(toPeer[c] \o web[t].left) \in Seq(Parts)
        /\ \A i \in DOMAIN Recent(toPeer[c] \o web[t].left) :
              ~Recent(toPeer[c] \o web[t].left)[i].late
    BY <1>5, LateGrows
  <2>3. /\ toPeer' \in [WebClients -> Seq(Parts)]
        /\ toPeer'[c] = Recent(toPeer[c] \o web[t].left)
    BY <1>3, <1>15, <2>2 DEF WebTyped
  <2>4. ~Stopped(c)
    BY <1>8, <1>15 DEF Stopped
  <2>5. Streams(c)'
    BY <1>1, <1>3, <1>4, <1>15, <2>1, <2>4, StreamsEnds DEF Follows
  <2>6. InTime(c)' /\ Receives(c)' /\ OnlyStreams(c) /\ SocketsTurn(t, r)
    BY <1>9, <1>10, <1>13, <1>14, <2>1, <2>2, <2>3
  <2>7. \A tag \in WebTags : Odd(tag, c)' => Odd(tag, c)
    BY <1>15 DEF Odd
  <2> QED
    BY <2>1, <2>5, <2>6, <2>7, FollowsKept
<1>16. CASE /\ peer[c] = "up" /\ Len(web[t].left) = 2
            /\ r.for = web[t].for /\ r.conn = c /\ r.phase = "write" /\ r.head = NoPiece
            /\ r.left = <<web[t].left[2]>>
            /\ toPeer' = [toPeer EXCEPT ![c] = Recent(toPeer[c] \o <<web[t].left[1]>>)]
            /\ webOdd' = webOdd \cup {<<"short", c>>}
  <2>1. Follows(t, r, c) /\ r.phase \notin Blocking /\ Writes(r, c) /\ ~Reads(r, c)
    BY <1>1, <1>7, <1>16 DEF Follows, Own, Holds, Welcomes, Blocking, Writes, Reads, InMessage, InFrame
  <2>2. /\ <<web[t].left[1]>> \in Seq(Parts) /\ <<web[t].left[1]>> # <<>>
        /\ \A i \in DOMAIN <<web[t].left[1]>> : ~<<web[t].left[1]>>[i].late
    <3>1. 1 \in DOMAIN web[t].left /\ web[t].left[1] \in Parts
      BY <1>5, <1>16
    <3>2. ~web[t].left[1].late
      BY <1>5, <3>1
    <3> QED
      BY <3>1, <3>2
  <2>3. /\ Recent(toPeer[c] \o <<web[t].left[1]>>) \in Seq(Parts)
        /\ \A i \in DOMAIN Recent(toPeer[c] \o <<web[t].left[1]>>) :
              ~Recent(toPeer[c] \o <<web[t].left[1]>>)[i].late
    BY <1>5, <2>2, LateGrows
  <2>4. /\ toPeer' \in [WebClients -> Seq(Parts)]
        /\ toPeer'[c] = Recent(toPeer[c] \o <<web[t].left[1]>>)
    BY <1>3, <1>16, <2>3 DEF WebTyped
  <2>5. ~Stopped(c)
    BY <1>8, <1>16 DEF Stopped
  <2>6. Streams(c)'
    BY <1>1, <1>3, <1>4, <1>16, <2>1, <2>5, StreamsCut DEF Follows
  <2>7. InTime(c)' /\ Receives(c)' /\ OnlyStreams(c) /\ SocketsTurn(t, r)
    BY <1>9, <1>10, <1>13, <1>14, <2>1, <2>3, <2>4
  <2>8. ~Welcomes(web[t], c)
    BY <1>1, <1>5, <1>16 DEF Fits, Welcomes
  <2> QED
    BY <2>1, <2>6, <2>7, <2>8, FollowsKept
<1>17. CASE peer[c] = "gone" /\ AfterMessage(web[t], r) /\ toPeer' = toPeer /\ webOdd' = webOdd
  <2>1. /\ Follows(t, r, c) /\ r.phase \notin Blocking /\ ~Writes(r, c) /\ ~Reads(r, c)
    BY <1>1, <1>7, <1>17, AfterMessageFollows
  <2>2. Stopped(c) /\ Stopped(c)'
    BY <1>2, <1>17 DEF Stopped
  <2>3. \A tag : Odd(tag, c)' <=> Odd(tag, c)
    BY <1>17 DEF Odd
  <2>4. Streams(c)'
    BY <1>3, <1>4, <1>7, <1>17, <2>1, <2>2, <2>3, StreamsSame
  <2>5. InTime(c)' /\ Receives(c)' /\ OnlyStreams(c) /\ SocketsTurn(t, r)
    BY <1>3, <1>5, <1>9, <1>10, <1>13, <1>14, <1>17, <2>1 DEF WebTyped
  <2> QED
    BY <2>1, <2>3, <2>4, <2>5, FollowsKept
<1> QED
  BY <1>7, <1>15, <1>16, <1>17 DEF AfterSend

(* A piece of c is received, or nothing more.                                *)
LEMMA SocketRecvKept ==
    ASSUME WebInv, NEW t \in WebThreads, NEW c \in WebClients, web[t].conn = c, SocketRecv(t)
    PROVE  WebInv'
<1>1. /\ web[t].phase = "receiving" /\ InFrame(web[t]) /\ Reads(web[t], c) /\ ~Writes(web[t], c)
      /\ web[t].phase \in Blocking
  BY DEF SocketRecv, InMessage, InFrame, Writes, Reads, Blocking
<1>2. /\ role' = role /\ peer' = peer /\ script' = script /\ toPeer' = toPeer
      /\ sockets' = sockets /\ socketsLock' = NoOne
      /\ serversLock' = serversLock /\ entry' = entry /\ entriesLock' = entriesLock
  BY DEF SocketRecv, clientSide, tables
<1>3. WebTyped /\ CallsFit /\ ClientOK(c)
  BY DEF WebInv
<1>4. Introduced(c) /\ OneOwner(c) /\ Streams(c) /\ InTime(c) /\ Receives(c)
  BY <1>3 DEF ClientOK
<1>5. /\ Fits(web[t]) /\ PhaseFits(web[t]) /\ KindFits(web[t], role[c])
      /\ Len(fromPeer[c]) <= 1 /\ c # NoOne
  BY <1>1, <1>3, <1>4, WebAssumption DEF CallsFit, Fits, Receives
<1>7. PICK r : Goes(t, r) /\ AfterRecv(web[t], r, t)
  BY <1>3, SocketRecvStep
<1>8. c \in sockets /\ peer[c] \notin {"away", "waiting"}
  BY <1>1, <1>4 DEF OneOwner, Introduced, Reads
<1>9. r.phase \notin Blocking => SocketsTurn(t, r)
  BY <1>1, <1>2 DEF SocketsTurn
<1>10. /\ Odd("over", c)' <=> Odd("over", c)
       /\ Odd("read", c)' <=> Odd("read", c)
       /\ Odd("write", c)' <=> Odd("write", c)
       /\ Odd("short", c)' <=> Odd("short", c)
  BY <1>7 DEF AfterRecv, Odd
<1>11. InTime(c)'
  BY <1>2, <1>4, <1>10 DEF InTime
<1>12. Stopped(c) => Stopped(c)'
  BY <1>2 DEF Stopped
<1>13. ASSUME ~Writes(r, c) PROVE Streams(c)'
  BY <1>1, <1>2, <1>3, <1>4, <1>7, <1>10, <1>12, <1>13, StreamsSame
<1>14. ASSUME fromPeer' \in [WebClients -> Seq(Pieces)],
              \A d \in WebClients : d # c => fromPeer'[d] = fromPeer[d]
       PROVE  OnlyStreams(c)
  <2>1. webOdd' \subseteq WebTags \X WebClients
    BY <1>3, <1>7 DEF WebTyped, AfterRecv, WebTags
  <2>2. \A d \in WebClients : d # c => \A tag \in WebTags : Odd(tag, d)' <=> Odd(tag, d)
    BY <1>7 DEF AfterRecv, Odd
  <2>3. toPeer' \in [WebClients -> Seq(Parts)]
    BY <1>2, <1>3 DEF WebTyped
  <2> QED
    BY <1>2, <1>14, <2>1, <2>2, <2>3 DEF OnlyStreams
<1>15. CASE /\ fromPeer[c] = <<>> /\ fromPeer' = fromPeer /\ webOdd' = webOdd
            /\ peer[c] = "gone" /\ AfterFrame(web[t], r)
  <2>1. /\ Follows(t, r, c) /\ r.phase \notin Blocking /\ ~Writes(r, c) /\ ~Reads(r, c)
    BY <1>1, <1>7, <1>15, AfterFrameFollows
  <2>2. Unheard(c)' /\ Silent(c)
    BY <1>2, <1>15 DEF Unheard, Silent
  <2>3. \A tag : Odd(tag, c)' <=> Odd(tag, c)
    BY <1>15 DEF Odd
  <2>4. Receives(c)'
    BY <1>3, <1>4, <1>7, <2>1, <2>2, <2>3, ReceivesStops
  <2>5. OnlyStreams(c) /\ SocketsTurn(t, r) /\ Streams(c)'
    BY <1>3, <1>9, <1>13, <1>14, <1>15, <2>1 DEF WebTyped
  <2> QED
    BY <1>11, <2>1, <2>3, <2>4, <2>5, FollowsKept
<1>16. ASSUME fromPeer[c] # <<>>, fromPeer' = [fromPeer EXCEPT ![c] = Tail(@)]
       PROVE  /\ PieceRead(c) /\ OnlyStreams(c)
              /\ Incoming(c) \in Seq(Pieces) /\ Incoming(c) # <<>>
              /\ Incoming(c)[1] = Head(fromPeer[c])
  <2>1. PieceRead(c)
    BY <1>2, <1>16 DEF PieceRead
  <2>2. /\ Incoming(c) \in Seq(Pieces) /\ Incoming(c) # <<>>
        /\ Incoming(c)[1] = Head(fromPeer[c]) /\ fromPeer' \in [WebClients -> Seq(Pieces)]
    BY <1>3, <1>5, <2>1, PieceReadIs
  <2>3. \A d \in WebClients : d # c => fromPeer'[d] = fromPeer[d]
    BY <1>3, <1>16 DEF WebTyped
  <2> QED
    BY <1>14, <2>1, <2>2, <2>3
<1>17. ASSUME fromPeer[c] # <<>>, ~Odd("read", c), role[c] = "ws"
       PROVE  /\ Alone(t, c) /\ ~Odd("mixed", c)
              /\ peer[c] \notin {"away", "waiting"}
              /\ web[t].for = "accept" => Frames(Tail(Incoming(c)))
              /\ web[t].for = "recv" /\ web[t].head # NoPiece =>
                    PayloadFirst(Incoming(c), web[t].head.n)
              /\ web[t].for = "recv" /\ web[t].head = NoPiece => Frames(Incoming(c))
  BY <1>1, <1>3, <1>4, <1>17, ReaderExpects
<1>18. CASE /\ fromPeer[c] # <<>> /\ fromPeer' = [fromPeer EXCEPT ![c] = Tail(@)]
            /\ web[t].for = "accept" /\ AfterRequest(web[t], r, t) /\ webOdd' = webOdd
  <2>0. /\ r.for \in {"accept", "refuse"} /\ r.conn = c /\ r.phase \in {"write", "close", "insert"}
        /\ r.phase = "write" => Begun(r.left, t)
    BY <1>18 DEF AfterRequest
  <2>1. Follows(t, r, c) /\ r.phase \notin Blocking /\ ~Reads(r, c)
    BY <1>1, <1>7, <1>18, <2>0 DEF Follows, Own, Holds, Welcomes, Blocking, Reads, InFrame
  <2>2. \A tag : Odd(tag, c)' <=> Odd(tag, c)
    BY <1>18 DEF Odd
  <2>3. Streams(c)'
    <3>1. CASE Writes(r, c)
      <4>1. Begun(r.left, t)
        <5>1. r.phase = "write"
          BY <2>0, <3>1 DEF Writes, InMessage
        <5> QED
          BY <2>0, <5>1
      <4>2. \A u \in WebThreads : ~Writes(web[u], c)
        <5>1. Welcomes(web[t], c)
          BY <1>18 DEF Welcomes
        <5>2. \A u \in WebThreads : web[u].conn = c => u = t
          BY <1>4, <5>1 DEF Introduced
        <5> QED
          BY <1>1, <5>2 DEF Writes
      <4> QED
        BY <1>1, <1>2, <1>3, <1>4, <1>7, <1>12, <2>2, <3>1, <4>1, <4>2, StreamsBegins
    <3> QED
      BY <1>13, <3>1
  <2>4. Receives(c)'
    <3>1. ~Odd("read", c) => ~Odd("mixed", c)'
      BY <1>4, <2>2 DEF Receives
    <3>2. ~Odd("read", c) /\ role[c] = "ws" =>
            /\ Alone(t, c) /\ peer[c] \notin {"away", "waiting"}
            /\ Frames(Tail(Incoming(c)))
      BY <1>17, <1>18
    <3> QED
      BY <1>3, <1>4, <1>7, <1>16, <1>18, <2>1, <2>2, <3>1, <3>2, ReceivesWhole
  <2>5. OnlyStreams(c) /\ SocketsTurn(t, r)
    BY <1>9, <1>16, <1>18, <2>1
  <2> QED
    BY <1>11, <2>1, <2>2, <2>3, <2>4, <2>5, FollowsKept
<1>19. CASE web[t].for = "recv" /\ fromPeer[c] # <<>> /\ fromPeer' = [fromPeer EXCEPT ![c] = Tail(@)]
  <2>1. role[c] = "ws" /\ ~Welcomes(web[t], c)
    BY <1>5, <1>19 DEF KindFits, Welcomes
  <2>2. PieceRead(c) /\ OnlyStreams(c)
    BY <1>16, <1>19
  <2>3. \/ /\ web[t].head = NoPiece /\ Head(fromPeer[c]).part = "head"
           /\ AfterHead(web[t], r, Head(fromPeer[c])) /\ webOdd' = webOdd
        \/ /\ web[t].head = NoPiece /\ Head(fromPeer[c]).part # "head"
           /\ AfterFrame(web[t], r) \/ \E h \in Pieces : h.part = "head" /\ AfterHead(web[t], r, h)
           /\ webOdd' = webOdd \cup {<<"mixed", c>>}
        \/ /\ web[t].head # NoPiece /\ AfterFrame(web[t], r)
           /\ webOdd' = IF /\ Head(fromPeer[c]).part = "payload"
                           /\ Head(fromPeer[c]).n = web[t].head.n
                        THEN webOdd ELSE webOdd \cup {<<"mixed", c>>}
    BY <1>7, <1>19 DEF AfterRecv
  <2>4. \/ Odd("read", c)
        \/ /\ Alone(t, c) /\ ~Odd("mixed", c)' /\ peer[c] \notin {"away", "waiting"}
           /\ \/ /\ web[t].head = NoPiece /\ AfterHead(web[t], r, Head(fromPeer[c]))
                 /\ Head(fromPeer[c]).part = "head"
                 /\ PayloadFirst(Tail(Incoming(c)), Head(fromPeer[c]).n)
              \/ /\ AfterFrame(web[t], r) /\ Frames(Tail(Incoming(c)))
    <3> SUFFICES ASSUME ~Odd("read", c)
                 PROVE  /\ Alone(t, c) /\ ~Odd("mixed", c)' /\ peer[c] \notin {"away", "waiting"}
                        /\ \/ /\ web[t].head = NoPiece /\ AfterHead(web[t], r, Head(fromPeer[c]))
                              /\ Head(fromPeer[c]).part = "head"
                              /\ PayloadFirst(Tail(Incoming(c)), Head(fromPeer[c]).n)
                           \/ /\ AfterFrame(web[t], r) /\ Frames(Tail(Incoming(c)))
      OBVIOUS
    <3>1. Alone(t, c) /\ ~Odd("mixed", c) /\ peer[c] \notin {"away", "waiting"}
      BY <1>17, <1>19, <2>1
    <3>2. CASE web[t].head = NoPiece
      <4>1. Frames(Incoming(c))
        BY <1>17, <1>19, <2>1, <3>2
      <4>2. /\ Incoming(c)[1].part = "head"
            /\ PayloadFirst(Tail(Incoming(c)), Incoming(c)[1].n)
        BY <1>16, <1>19, <4>1, FramesRead
      <4>3. Incoming(c)[1] = Head(fromPeer[c])
        BY <1>16, <1>19
      <4>4. AfterHead(web[t], r, Head(fromPeer[c])) /\ webOdd' = webOdd
        BY <2>3, <3>2, <4>2, <4>3
      <4> QED
        BY <3>1, <3>2, <4>2, <4>3, <4>4 DEF Odd
    <3>3. CASE web[t].head # NoPiece
      <4>1. PayloadFirst(Incoming(c), web[t].head.n)
        BY <1>17, <1>19, <2>1, <3>3
      <4>2. /\ Incoming(c)[1].part = "payload" /\ Incoming(c)[1].n = web[t].head.n
            /\ Frames(Tail(Incoming(c)))
        BY <1>16, <1>19, <4>1 DEF PayloadFirst
      <4>3. Incoming(c)[1] = Head(fromPeer[c])
        BY <1>16, <1>19
      <4>4. AfterFrame(web[t], r) /\ webOdd' = webOdd
        BY <2>3, <3>3, <4>2, <4>3
      <4> QED
        BY <3>1, <4>2, <4>4 DEF Odd
    <3> QED
      BY <3>2, <3>3
  <2>5. CASE AfterFrame(web[t], r)
    <3>1. /\ Follows(t, r, c) /\ r.phase \notin Blocking /\ ~Writes(r, c) /\ ~Reads(r, c)
      BY <1>1, <1>7, <2>5, AfterFrameFollows
    <3>2. \/ Odd("read", c)
          \/ /\ Alone(t, c) /\ ~Odd("mixed", c)' /\ peer[c] \notin {"away", "waiting"}
             /\ Frames(Tail(Incoming(c)))
      <4>1. CASE web[t].head = NoPiece /\ AfterHead(web[t], r, Head(fromPeer[c]))
        <5>1. Reads(r, c)
          BY <1>1, <4>1 DEF AfterHead, Reads, InFrame
        <5> QED
          BY <3>1, <5>1
      <4> QED
        BY <2>4, <4>1
    <3>3. Receives(c)'
      BY <1>3, <1>4, <1>7, <1>10, <2>2, <3>1, <3>2, ReceivesWhole
    <3>4. Streams(c)' /\ SocketsTurn(t, r)
      BY <1>9, <1>13, <3>1
    <3> QED
      BY <1>11, <2>1, <2>2, <3>1, <3>3, <3>4, FollowsKept
  <2>6. CASE \E h \in Pieces : h.part = "head" /\ AfterHead(web[t], r, h)
    <3>1. PICK h \in Pieces : h.part = "head" /\ AfterHead(web[t], r, h)
      BY <2>6
    <3>2. r.for = "recv" /\ r.conn = c /\ r.phase = "read" /\ r.head = h /\ h # NoPiece
      BY <3>1, NoPieceIs DEF AfterHead
    <3>3. Follows(t, r, c) /\ r.phase \notin Blocking /\ ~Writes(r, c) /\ Reads(r, c)
      BY <1>1, <1>7, <1>19, <3>2
      DEF Follows, Own, Holds, Welcomes, Blocking, Reads, Writes, InFrame, InMessage
    <3>4. \/ Odd("read", c)
          \/ /\ Alone(t, c) /\ ~Odd("mixed", c)'
             /\ PayloadFirst(Tail(Incoming(c)), r.head.n)
      <4>1. ~AfterFrame(web[t], r)
        BY <1>1, <1>7, <3>3, AfterFrameFollows
      <4>2. AfterHead(web[t], r, Head(fromPeer[c])) => r.head = Head(fromPeer[c])
        BY DEF AfterHead
      <4> QED
        BY <2>4, <4>1, <4>2
    <3>5. Receives(c)'
      BY <1>1, <1>3, <1>4, <1>7, <1>10, <2>2, <3>2, <3>3, <3>4, ReceivesHead
    <3>6. Streams(c)' /\ SocketsTurn(t, r)
      BY <1>9, <1>13, <3>3
    <3> QED
      BY <1>11, <2>1, <2>2, <3>3, <3>5, <3>6, FollowsKept
  <2>7. AfterFrame(web[t], r) \/ \E h \in Pieces : h.part = "head" /\ AfterHead(web[t], r, h)
    <3>1. Head(fromPeer[c]) \in Pieces
      BY <1>16, <1>19, NotEmpty
    <3> QED
      BY <2>3, <3>1
  <2> QED
    BY <2>5, <2>6, <2>7
<1> QED
  BY <1>7, <1>15, <1>18, <1>19 DEF AfterRecv

(* The socket of c is looked up in the table.                                *)
LEMMA CheckKept ==
    ASSUME WebInv, NEW t \in WebThreads, NEW c \in WebClients, web[t].conn = c, Check(t)
    PROVE  WebInv'
<1>1. /\ web[t].phase = "check" /\ ~Reads(web[t], c) /\ ~Writes(web[t], c)
      /\ web[t].phase \notin Blocking
  BY DEF Check, InMessage, InFrame, Writes, Reads, Blocking
<1>2. /\ role' = role /\ peer' = peer /\ script' = script /\ fromPeer' = fromPeer
      /\ toPeer' = toPeer /\ sockets' = sockets /\ socketsLock' = socketsLock
      /\ serversLock' = serversLock /\ entry' = entry /\ entriesLock' = entriesLock
  BY DEF Check, clientSide, wires, tables
<1>3. WebTyped /\ CallsFit /\ ClientOK(c)
  BY DEF WebInv
<1>4. Introduced(c) /\ OneOwner(c) /\ Streams(c) /\ InTime(c) /\ Receives(c)
  BY <1>3 DEF ClientOK
<1>5. PICK r : Goes(t, r) /\ AfterCheck(web[t], r, t)
  BY <1>3, <1>4, CheckStep
<1>6. /\ web[t].for \notin {"accept", "refuse", "respond"}
      /\ ~Welcomes(web[t], c) /\ ~Holds(web[t], c) /\ c # NoOne
  <2>1. PhaseFits(web[t])
    BY <1>3 DEF CallsFit, Fits
  <2> QED
    BY <1>1, <2>1, WebAssumption DEF PhaseFits, InMessage, Welcomes, Holds
<1>7. r.for \in {"recv", "send", "close", "pong", "nothing"} /\ r.conn \in {c, NoOne}
      /\ r.phase \in {"read", "write", "remove", "check", "out"}
  BY <1>5 DEF AfterCheck, Passes, NoWeb
<1>8. Follows(t, r, c) /\ SocketsTurn(t, r)
  BY <1>1, <1>2, <1>5, <1>6, <1>7
  DEF Follows, Own, Holds, Welcomes, Blocking, SocketsTurn
<1>9. OnlyStreams(c)
  <2>1. /\ webOdd' \subseteq WebTags \X WebClients
        /\ \A d \in WebClients : d # c => \A tag \in WebTags : Odd(tag, d)' <=> Odd(tag, d)
    BY <1>3, <1>5 DEF AfterCheck, WebTyped, WebTags, Odd
  <2> QED
    BY <1>2, <1>3, <2>1 DEF OnlyStreams, WebTyped
<1>10. /\ Odd("over", c)' <=> Odd("over", c)
       /\ Odd("short", c)' <=> Odd("short", c)
       /\ Odd("mixed", c)' <=> Odd("mixed", c)
  BY <1>5 DEF AfterCheck, Odd
<1>11. InTime(c)'
  BY <1>2, <1>4, <1>10 DEF InTime
<1>12. (Stopped(c) => Stopped(c)') /\ Silent(c)
  BY <1>2 DEF Stopped, Silent
<1>13. Streams(c)' /\ Receives(c)'
  <2>1. CASE /\ entry[c] = "open"
             /\ r.for = "recv" /\ r.conn = c /\ r.phase = "read" /\ r.head = NoPiece
             /\ webOdd' = IF \E u \in WebThreads : Reads(web[u], c)
                          THEN webOdd \cup {<<"read", c>>} ELSE webOdd
    <3>1. ~Writes(r, c) /\ Reads(r, c)
      BY <2>1 DEF Writes, Reads, InMessage, InFrame
    <3>2. /\ Odd("write", c)' <=> Odd("write", c)
          /\ Odd("read", c) => Odd("read", c)'
          /\ (\E u \in WebThreads : Reads(web[u], c)) => Odd("read", c)'
      BY <2>1 DEF Odd
    <3>3. Streams(c)'
      BY <1>1, <1>2, <1>3, <1>4, <1>5, <1>10, <1>12, <3>1, <3>2, StreamsSame
    <3>4. peer[c] \notin {"away", "waiting"}
      BY <1>4, <2>1 DEF Introduced
    <3>5. Receives(c)'
      BY <1>2, <1>3, <1>4, <1>5, <1>10, <1>12, <2>1, <3>1, <3>2, <3>4, ReceivesBegins
    <3> QED
      BY <3>3, <3>5
  <2>2. CASE /\ r.conn = c /\ r.phase = "write" /\ Begun(r.left, t)
             /\ webOdd' = IF \E u \in WebThreads : Writes(web[u], c)
                          THEN webOdd \cup {<<"write", c>>} ELSE webOdd
    <3>1. Writes(r, c) /\ ~Reads(r, c)
      BY <2>2 DEF Writes, Reads, InMessage, InFrame
    <3>2. /\ Odd("read", c)' <=> Odd("read", c)
          /\ Odd("write", c) => Odd("write", c)'
          /\ (\E u \in WebThreads : Writes(web[u], c)) => Odd("write", c)'
      BY <2>2 DEF Odd
    <3>3. Streams(c)'
      BY <1>1, <1>2, <1>3, <1>4, <1>5, <1>10, <1>12, <2>2, <3>1, <3>2, StreamsBegins
    <3>4. Receives(c)'
      BY <1>1, <1>2, <1>3, <1>4, <1>5, <1>10, <1>12, <3>1, <3>2, ReceivesSame
    <3> QED
      BY <3>3, <3>4
  <2>3. CASE webOdd' = webOdd /\ r.phase \in {"remove", "check", "out"}
    <3>1. ~Writes(r, c) /\ ~Reads(r, c)
      BY <2>3 DEF Writes, Reads, InMessage, InFrame
    <3>2. \A tag : Odd(tag, c)' <=> Odd(tag, c)
      BY <2>3 DEF Odd
    <3>3. Streams(c)'
      BY <1>1, <1>2, <1>3, <1>4, <1>5, <1>12, <3>1, <3>2, StreamsSame
    <3>4. Receives(c)'
      BY <1>1, <1>2, <1>3, <1>4, <1>5, <1>12, <3>1, <3>2, ReceivesSame
    <3> QED
      BY <3>3, <3>4
  <2> QED
    BY <1>5, <2>1, <2>2, <2>3 DEF AfterCheck, Passes, NoWeb
<1> QED
  BY <1>6, <1>8, <1>9, <1>11, <1>13, FollowsKept

\* A call ends in what it does to the tables: nothing is read, written or closed by it.
Ends(t, c) ==
    /\ Own(t, NoWeb, c)
    /\ web[t].phase \in {"insert", "mark", "remove"}
    /\ role' = role /\ peer' = peer /\ script' = script /\ fromPeer' = fromPeer
    /\ toPeer' = toPeer /\ sockets' = sockets /\ socketsLock' = socketsLock
    /\ serversLock' = serversLock /\ entriesLock' = entriesLock
    /\ entry' \in [WebClients -> {"none", "request", "open", "closed"}]
    /\ \A d \in WebClients : d # c => entry'[d] = entry[d]
    /\ webOdd' \in {webOdd, webOdd \cup {<<"over", c>>}}

(* What such a call keeps.                                                   *)
LEMMA EndsKept ==
    ASSUME WebInv, NEW t \in WebThreads, NEW c \in WebClients, Ends(t, c),
           Welcomes(web[t], c) => webOdd' = webOdd,
           OneOwner(c)', InTime(c)'
    PROVE  WebInv'
<1>1. WebTyped /\ CallsFit /\ SocketsLockOK /\ ServersLockOK /\ EntriesLockOK /\ ClientOK(c)
  BY DEF WebInv, WebLocks
<1>2. /\ Own(t, NoWeb, c) /\ Goes(t, NoWeb) /\ web[t].conn = c
      /\ web[t].phase \in {"insert", "mark", "remove"}
  BY DEF Ends, Own
<1>3. /\ role' = role /\ peer' = peer /\ script' = script /\ fromPeer' = fromPeer
      /\ toPeer' = toPeer /\ sockets' = sockets /\ socketsLock' = socketsLock
      /\ serversLock' = serversLock /\ entriesLock' = entriesLock
  BY DEF Ends
<1>4. Introduced(c) /\ OneOwner(c) /\ Streams(c) /\ InTime(c) /\ Receives(c)
  BY <1>1 DEF ClientOK
<1>5. WebTyped'
  <2>1. web' \in [WebThreads -> WebCalls]
    BY <1>1, <1>2, WebMoved
  <2>2. webOdd' \subseteq WebTags \X WebClients
    BY <1>1 DEF Ends, WebTyped, WebTags
  <2>3. entry' \in [WebClients -> {"none", "request", "open", "closed"}]
    BY DEF Ends
  <2> QED
    BY <1>1, <1>3, <2>1, <2>2, <2>3 DEF WebTyped
<1>6. WebLocks'
  <2>1. SocketsLockOK'
    BY <1>1, <1>2, <1>3, SocketsLockKept DEF NoWeb, Blocking
  <2>2. ServersLockOK'
    BY <1>1, <1>2, <1>3, ServersLockSame DEF NoWeb
  <2>3. EntriesLockOK'
    <3>1. web[t].for # "respond"
      BY <1>1, <1>2 DEF CallsFit, Fits, PhaseFits, InMessage
    <3>2. \A m \in ServerKinds : entriesLock[m] # t
      BY <1>1, <1>2, <3>1 DEF EntriesLockOK
    <3> QED
      BY <1>1, <1>2, <1>3, <3>2, EntriesLockKept
  <2> QED
    BY <2>1, <2>2, <2>3 DEF WebLocks
<1>7. \A d \in WebClients : d # c => Untouched(d)
  <2>1. \A d \in WebClients : d # c => \A tag : Odd(tag, d)' <=> Odd(tag, d)
    BY DEF Ends, Odd
  <2>2. \A d \in WebClients : d # c => entry'[d] = entry[d]
    BY DEF Ends
  <2> QED
    BY <1>3, <2>1, <2>2 DEF Untouched
<1>8. /\ ~Writes(NoWeb, c) /\ ~Reads(NoWeb, c) /\ ~Welcomes(NoWeb, c)
      /\ ~Writes(web[t], c) /\ ~Reads(web[t], c)
  BY <1>2 DEF Welcomes, Writes, Reads, InMessage, InFrame, NoWeb
<1>9. Introduced(c)'
  <2>1. Welcomes(web[t], c) => \A tag \in WebTags : Odd(tag, c)' => Odd(tag, c)
    BY DEF Odd
  <2> QED
    BY <1>1, <1>2, <1>3, <1>4, <1>8, <2>1, IntroducedOwn
<1>10. /\ Odd("read", c)' <=> Odd("read", c)
       /\ Odd("write", c)' <=> Odd("write", c)
       /\ Odd("short", c)' <=> Odd("short", c)
       /\ Odd("mixed", c)' <=> Odd("mixed", c)
  BY DEF Ends, Odd
<1>11. Streams(c)'
  <2>1. Stopped(c) => Stopped(c)'
    BY <1>3 DEF Stopped
  <2> QED
    BY <1>1, <1>2, <1>3, <1>4, <1>8, <1>10, <2>1, StreamsSame
<1>12. Receives(c)'
  <2>1. Silent(c)
    BY <1>3 DEF Silent
  <2> QED
    BY <1>1, <1>2, <1>3, <1>4, <1>8, <1>10, <2>1, ReceivesSame
<1> QED
  BY <1>2, <1>5, <1>6, <1>7, <1>9, <1>11, <1>12, ThreadStep DEF NoWeb

(* What was accepted is put into its table.                                  *)
LEMMA InsertEntryKept ==
    ASSUME WebInv, NEW t \in WebThreads, NEW c \in WebClients, web[t].conn = c, InsertEntry(t)
    PROVE  WebInv'
<1>1. /\ web[t].phase = "insert" /\ EndCall(t)
      /\ entry' = [entry EXCEPT ![c] = IF role[c] = "http" THEN "request" ELSE "open"]
      /\ role' = role /\ peer' = peer /\ script' = script /\ fromPeer' = fromPeer
      /\ toPeer' = toPeer /\ sockets' = sockets /\ socketsLock' = socketsLock
      /\ serversLock' = serversLock /\ entriesLock' = entriesLock /\ webOdd' = webOdd
  BY DEF InsertEntry, clientSide, wires
<1>2. WebTyped /\ CallsFit /\ ClientOK(c)
  BY DEF WebInv
<1>3. Introduced(c) /\ OneOwner(c) /\ InTime(c)
  BY <1>2 DEF ClientOK
<1>4. Own(t, NoWeb, c) /\ Goes(t, NoWeb)
  BY <1>1, EndStep DEF Own, NoWeb
<1>5. web[t].for = "accept" /\ Welcomes(web[t], c) /\ Holds(web[t], c)
  BY <1>1, <1>2 DEF CallsFit, Fits, PhaseFits, InMessage, InFrame, Welcomes, Holds, WebTyped,
                    WebCalls, WebPurposes
<1>6. /\ entry'[c] # "none"
      /\ entry' \in [WebClients -> {"none", "request", "open", "closed"}]
      /\ \A d \in WebClients : d # c => entry'[d] = entry[d]
  BY <1>1, <1>2 DEF WebTyped
<1>7. Ends(t, c)
  BY <1>1, <1>4, <1>6 DEF Ends
<1>8. OneOwner(c)'
  <2>1. ~Holds(NoWeb, c) /\ NoWeb.phase \notin Blocking
    BY WebAssumption DEF Holds, NoWeb, Blocking
  <2> QED
    BY <1>1, <1>2, <1>3, <1>4, <1>5, <1>6, <2>1, OwnerBecomesEntry
<1>9. InTime(c)'
  <2>1. ~Odd("over", c) /\ ~Odd("over", c)'
    BY <1>1, <1>3, <1>5 DEF Introduced, WebTags, Odd
  <2> QED
    BY <1>1, <1>3, <2>1 DEF InTime
<1> QED
  BY <1>1, <1>7, <1>8, <1>9, EndsKept

(* An entry is marked closed.                                                *)
LEMMA MarkClosedKept ==
    ASSUME WebInv, NEW t \in WebThreads, NEW c \in WebClients, web[t].conn = c, MarkClosed(t)
    PROVE  WebInv'
<1>1. /\ web[t].phase = "mark" /\ EndCall(t)
      /\ entry' = [entry EXCEPT ![c] = IF entry[c] = "open" THEN "closed" ELSE entry[c]]
      /\ role' = role /\ peer' = peer /\ script' = script /\ fromPeer' = fromPeer
      /\ toPeer' = toPeer /\ sockets' = sockets /\ socketsLock' = socketsLock
      /\ serversLock' = serversLock /\ entriesLock' = entriesLock
      /\ webOdd' = IF web[t].for = "recv" THEN webOdd \cup {<<"over", c>>} ELSE webOdd
  BY DEF MarkClosed, clientSide, wires
<1>2. WebTyped /\ CallsFit /\ ClientOK(c)
  BY DEF WebInv
<1>3. Introduced(c) /\ OneOwner(c) /\ InTime(c)
  BY <1>2 DEF ClientOK
<1>4. Own(t, NoWeb, c) /\ Goes(t, NoWeb)
  BY <1>1, EndStep DEF Own, NoWeb
<1>5. /\ web[t].for \in {"send", "recv"}
      /\ web[t].for = "recv" => role[c] = "ws"
  BY <1>1, <1>2 DEF CallsFit, Fits, PhaseFits, KindFits, InMessage, InFrame, WebTyped,
                    WebCalls, WebPurposes
<1>6. /\ entry'[c] = "none" <=> entry[c] = "none"
      /\ entry'[c] # "open"
      /\ entry' \in [WebClients -> {"none", "request", "open", "closed"}]
      /\ \A d \in WebClients : d # c => entry'[d] = entry[d]
  BY <1>1, <1>2 DEF WebTyped
<1>7. Ends(t, c)
  BY <1>1, <1>4, <1>6 DEF Ends
<1>8. OneOwner(c)'
  <2>1. ~Holds(NoWeb, c) /\ ~Holds(web[t], c) /\ NoWeb.phase \notin Blocking
    BY <1>1, <1>5 DEF Holds, NoWeb, Blocking
  <2> QED
    BY <1>1, <1>2, <1>3, <1>4, <1>6, <2>1, OwnerSame
<1>9. InTime(c)'
  BY <1>1, <1>3, <1>5, <1>6 DEF InTime, Odd
<1>10. ~Welcomes(web[t], c)
  BY <1>5 DEF Welcomes
<1> QED
  BY <1>7, <1>8, <1>9, <1>10, EndsKept

(* An entry that was removed already.                                        *)
LEMMA RemoveGoneKept ==
    ASSUME WebInv, NEW t \in WebThreads, NEW c \in WebClients, web[t].conn = c, Remove(t),
           entry[c] = "none"
    PROVE  WebInv'
<1>1. /\ web[t].phase = "remove" /\ EndCall(t)
      /\ entry' = entry
      /\ role' = role /\ peer' = peer /\ script' = script /\ fromPeer' = fromPeer
      /\ toPeer' = toPeer /\ sockets' = sockets /\ socketsLock' = socketsLock
      /\ serversLock' = serversLock /\ entriesLock' = entriesLock /\ webOdd' = webOdd
  BY DEF Remove, clientSide, wires
<1>2. WebTyped /\ CallsFit /\ ClientOK(c)
  BY DEF WebInv
<1>3. Introduced(c) /\ OneOwner(c) /\ InTime(c)
  BY <1>2 DEF ClientOK
<1>4. Own(t, NoWeb, c) /\ Goes(t, NoWeb)
  BY <1>1, EndStep DEF Own, NoWeb
<1>5. web[t].for = "close"
  BY <1>1, <1>2 DEF CallsFit, Fits, PhaseFits, InMessage, InFrame, WebTyped, WebCalls, WebPurposes
<1>6. Ends(t, c)
  BY <1>1, <1>2, <1>4 DEF Ends, WebTyped
<1>7. OneOwner(c)'
  <2>1. ~Holds(NoWeb, c) /\ ~Holds(web[t], c) /\ NoWeb.phase \notin Blocking
    BY <1>1, <1>5 DEF Holds, NoWeb, Blocking
  <2> QED
    BY <1>1, <1>2, <1>3, <1>4, <2>1, OwnerSame
<1>8. InTime(c)'
  BY <1>1, <1>3 DEF InTime, Odd
<1> QED
  BY <1>1, <1>6, <1>7, <1>8, EndsKept

(* An entry is removed, and its socket is to be closed.                      *)
LEMMA RemoveKept ==
    ASSUME WebInv, NEW t \in WebThreads, NEW c \in WebClients, web[t].conn = c, Remove(t),
           entry[c] # "none"
    PROVE  WebInv'
<1>1. /\ web[t].phase = "remove" /\ GoTo(t, "close")
      /\ entry' = [entry EXCEPT ![c] = "none"]
      /\ entriesLock' = [entriesLock EXCEPT ![role[c]] = t]
      /\ role' = role /\ peer' = peer /\ script' = script /\ fromPeer' = fromPeer
      /\ toPeer' = toPeer /\ sockets' = sockets /\ socketsLock' = socketsLock
      /\ serversLock' = serversLock /\ webOdd' = webOdd
  BY DEF Remove, clientSide, wires
<1>2. WebTyped /\ CallsFit /\ ClientOK(c) /\ SocketsLockOK /\ ServersLockOK /\ EntriesLockOK
  BY DEF WebInv, WebLocks
<1>3. Introduced(c) /\ OneOwner(c) /\ Streams(c) /\ InTime(c) /\ Receives(c)
  BY <1>2 DEF ClientOK
<1>4. web[t].for = "close" /\ role[c] \in ServerKinds /\ c # NoOne
  BY <1>1, <1>2, WebAssumption DEF CallsFit, Fits, PhaseFits, KindFits, InMessage, InFrame, WebTyped, WebCalls,
                    WebPurposes
<1>5. PICK r : Goes(t, r) /\ Passes(web[t], r, "close")
  BY <1>1, <1>2, <1>4, ClosingStep
<1>6. /\ r.for = "close" /\ r.phase = "close" /\ r.conn = c /\ Own(t, r, c) /\ Holds(r, c)
      /\ ~Writes(r, c) /\ ~Reads(r, c) /\ ~Welcomes(r, c)
      /\ ~Writes(web[t], c) /\ ~Reads(web[t], c) /\ ~Welcomes(web[t], c)
  BY <1>1, <1>4, <1>5 DEF Passes, Own, Holds, Writes, Reads, InMessage, InFrame, Welcomes
<1>7. \A tag, d : Odd(tag, d)' <=> Odd(tag, d)
  BY <1>1 DEF Odd
<1>8. WebTyped'
  <2>1. web' \in [WebThreads -> WebCalls]
    BY <1>2, <1>5, WebMoved
  <2>2. /\ entry' \in [WebClients -> {"none", "request", "open", "closed"}]
        /\ entriesLock' \in [ServerKinds -> WebThreads \cup {NoOne}]
    BY <1>1, <1>2 DEF WebTyped
  <2> QED
    BY <1>1, <1>2, <2>1, <2>2 DEF WebTyped
<1>9. WebLocks'
  <2>1. SocketsLockOK'
    BY <1>1, <1>2, <1>5, <1>6, SocketsLockKept DEF Blocking
  <2>2. ServersLockOK'
    BY <1>1, <1>2, <1>5, <1>6, ServersLockSame
  <2>3. EntriesLockOK'
    <3>1. \A m \in ServerKinds : entriesLock[m] # t
      BY <1>1, <1>2, <1>4 DEF EntriesLockOK
    <3>2. \A m \in ServerKinds : entriesLock'[m] = IF m = role[c] THEN t ELSE entriesLock[m]
      BY <1>1, <1>2 DEF WebTyped
    <3> QED
      BY <1>2, <1>5, <1>6, <3>1, <3>2, EntriesLockKept
  <2> QED
    BY <2>1, <2>2, <2>3 DEF WebLocks
<1>10. \A d \in WebClients : d # c => Untouched(d)
  BY <1>1, <1>2, <1>7 DEF Untouched, WebTyped
<1>11. entry'[c] = "none"
  BY <1>1, <1>2 DEF WebTyped
<1>12. Introduced(c)'
  BY <1>1, <1>2, <1>3, <1>6, <1>7, IntroducedOwn
<1>13. OneOwner(c)'
  BY <1>1, <1>2, <1>3, <1>5, <1>6, <1>11, EntryBecomesOwner
<1>14. (Stopped(c) => Stopped(c)') /\ Silent(c)
  BY <1>1 DEF Stopped, Silent
<1>15. Streams(c)'
  BY <1>1, <1>2, <1>3, <1>5, <1>6, <1>7, <1>14, StreamsSame
<1>16. Receives(c)'
  BY <1>1, <1>2, <1>3, <1>5, <1>6, <1>7, <1>14, ReceivesSame
<1>17. InTime(c)'
  BY <1>1, <1>3, <1>7, <1>11 DEF InTime
<1> QED
  BY <1>5, <1>6, <1>8, <1>9, <1>10, <1>12, <1>13, <1>15, <1>16, <1>17, ThreadStep

(* The socket of c is closed.                                                *)
LEMMA CloseClientKept ==
    ASSUME WebInv, NEW t \in WebThreads, NEW c \in WebClients, web[t].conn = c, CloseClient(t)
    PROVE  WebInv'
<1>1. /\ web[t].phase = "close" /\ socketsLock = NoOne /\ EndCall(t)
      /\ entry' = entry /\ sockets' = sockets \ {c}
      /\ entriesLock' = [k \in ServerKinds |-> IF entriesLock[k] = t THEN NoOne ELSE entriesLock[k]]
      /\ role' = role /\ peer' = peer /\ script' = script /\ fromPeer' = fromPeer
      /\ toPeer' = toPeer /\ socketsLock' = socketsLock
      /\ serversLock' = serversLock /\ webOdd' = webOdd
  BY DEF CloseClient, clientSide, wires
<1>2. WebTyped /\ CallsFit /\ ClientOK(c) /\ SocketsLockOK /\ ServersLockOK /\ EntriesLockOK
  BY DEF WebInv, WebLocks
<1>3. Introduced(c) /\ OneOwner(c) /\ Streams(c) /\ InTime(c) /\ Receives(c)
  BY <1>2 DEF ClientOK
<1>4. Own(t, NoWeb, c) /\ Goes(t, NoWeb) /\ t # NoOne /\ c # NoOne
  BY <1>1, EndStep, WebAssumption DEF Own, NoWeb
<1>5. /\ Holds(web[t], c) /\ ~Writes(NoWeb, c) /\ ~Reads(NoWeb, c) /\ ~Welcomes(NoWeb, c)
      /\ ~Writes(web[t], c) /\ ~Reads(web[t], c)
  BY <1>1 DEF Holds, Welcomes, Writes, Reads, InMessage, InFrame, NoWeb
<1>6. \A tag, d : Odd(tag, d)' <=> Odd(tag, d)
  BY <1>1 DEF Odd
<1>7. WebTyped'
  <2>1. web' \in [WebThreads -> WebCalls]
    BY <1>2, <1>4, WebMoved
  <2>2. entriesLock' \in [ServerKinds -> WebThreads \cup {NoOne}] /\ sockets' \subseteq WebClients
    BY <1>1, <1>2 DEF WebTyped
  <2> QED
    BY <1>1, <1>2, <2>1, <2>2 DEF WebTyped
<1>8. WebLocks'
  <2>1. SocketsLockOK'
    BY <1>1, <1>2, <1>4, SocketsLockKept DEF Blocking, NoWeb
  <2>2. ServersLockOK'
    BY <1>1, <1>2, <1>4, ServersLockSame DEF NoWeb
  <2>3. EntriesLockOK'
    <3>1. \A m \in ServerKinds : entriesLock'[m] \in {entriesLock[m], NoOne} /\ entriesLock'[m] # t
      BY <1>1, <1>4
    <3> QED
      BY <1>2, <1>4, <3>1, EntriesLockKept
  <2> QED
    BY <2>1, <2>2, <2>3 DEF WebLocks
<1>9. \A d \in WebClients : d # c => Untouched(d)
  BY <1>1, <1>6 DEF Untouched
<1>10. Introduced(c)'
  BY <1>1, <1>2, <1>3, <1>4, <1>5, <1>6, IntroducedOwn
<1>11. OneOwner(c)'
  <2>1. \A u \in WebThreads : web[u].phase \notin Blocking
    BY <1>1, <1>2, WebAssumption DEF SocketsLockOK, Blocking
  <2> QED
    BY <1>1, <1>2, <1>3, <1>4, <1>5, <2>1, OwnerCloses
<1>12. (Stopped(c) => Stopped(c)') /\ Silent(c)
  BY <1>1 DEF Stopped, Silent
<1>13. Streams(c)'
  BY <1>1, <1>2, <1>3, <1>4, <1>5, <1>6, <1>12, StreamsSame
<1>14. Receives(c)'
  <2>1. c \in sockets' => c \in sockets
    BY <1>1
  <2> QED
    BY <1>2, <1>3, <1>4, <1>5, <1>6, <1>12, <2>1, ReceivesSame
<1>15. InTime(c)'
  BY <1>1, <1>3, <1>6 DEF InTime
<1> QED
  BY <1>1, <1>4, <1>7, <1>8, <1>9, <1>10, <1>11, <1>13, <1>14, <1>15, ThreadStep DEF NoWeb

(* An answer to a request begins.                                            *)
LEMMA HttpRespondKept ==
    ASSUME WebInv, NEW t \in WebThreads, NEW c \in WebClients, HttpRespond(t, c)
    PROVE  WebInv'
<1>1. /\ role[c] = "http" /\ entry[c] = "request"
      /\ entry' = [entry EXCEPT ![c] = "none"]
      /\ entriesLock' = [entriesLock EXCEPT !["http"] = t]
      /\ role' = role /\ peer' = peer /\ script' = script /\ fromPeer' = fromPeer
      /\ toPeer' = toPeer /\ sockets' = sockets /\ socketsLock' = socketsLock
      /\ serversLock' = serversLock /\ webOdd' = webOdd
  BY DEF HttpRespond, clientSide, wires
<1>2. WebTyped /\ CallsFit /\ ClientOK(c) /\ SocketsLockOK /\ ServersLockOK /\ EntriesLockOK
  BY DEF WebInv, WebLocks
<1>3. Introduced(c) /\ OneOwner(c) /\ Streams(c) /\ InTime(c) /\ Receives(c)
  BY <1>2 DEF ClientOK
<1>4. PICK r : /\ Goes(t, r) /\ web[t] = NoWeb
               /\ r.for = "respond" /\ r.conn = c /\ r.phase = "write"
               /\ Begun(r.left, t) /\ r.head = NoPiece
  BY <1>2, <1>3, HttpRespondStep
<1>5. /\ Holds(r, c) /\ Writes(r, c) /\ ~Reads(r, c) /\ ~Welcomes(r, c) /\ c # NoOne
      /\ ~Writes(web[t], c) /\ ~Reads(web[t], c)
  BY <1>4, WebAssumption DEF Holds, Writes, Reads, InMessage, InFrame, Welcomes, NoWeb
<1>6. \A tag, d : Odd(tag, d)' <=> Odd(tag, d)
  BY <1>1 DEF Odd
<1>7. WebTyped'
  <2>1. web' \in [WebThreads -> WebCalls]
    BY <1>2, <1>4, WebMoved
  <2>2. /\ entry' \in [WebClients -> {"none", "request", "open", "closed"}]
        /\ entriesLock' \in [ServerKinds -> WebThreads \cup {NoOne}]
    BY <1>1, <1>2 DEF WebTyped
  <2> QED
    BY <1>1, <1>2, <2>1, <2>2 DEF WebTyped
<1>8. WebLocks'
  <2>1. SocketsLockOK'
    BY <1>1, <1>2, <1>4, SocketsLockKept DEF Blocking, NoWeb
  <2>2. ServersLockOK'
    BY <1>1, <1>2, <1>4, ServersLockSame DEF NoWeb
  <2>3. EntriesLockOK'
    <3>1. \A m \in ServerKinds : entriesLock[m] # t
      BY <1>2, <1>4 DEF EntriesLockOK, NoWeb
    <3>2. \A m \in ServerKinds : entriesLock'[m] = IF m = "http" THEN t ELSE entriesLock[m]
      BY <1>1, <1>2 DEF WebTyped
    <3> QED
      BY <1>1, <1>2, <1>4, <3>1, <3>2, EntriesLockKept
  <2> QED
    BY <2>1, <2>2, <2>3 DEF WebLocks
<1>9. \A d \in WebClients : d # c => Untouched(d)
  BY <1>1, <1>2, <1>6 DEF Untouched, WebTyped
<1>10. entry'[c] = "none" /\ entry[c] # "none"
  BY <1>1, <1>2 DEF WebTyped
<1>11. Introduced(c)'
  BY <1>1, <1>2, <1>3, <1>4, <1>5, <1>10, IntroducedOpen
<1>12. OneOwner(c)'
  BY <1>1, <1>2, <1>3, <1>4, <1>5, <1>10, EntryBecomesOwner
<1>13. (Stopped(c) => Stopped(c)') /\ Silent(c)
  BY <1>1 DEF Stopped, Silent
<1>14. \A u \in WebThreads : ~Writes(web[u], c)
  <2> SUFFICES ASSUME NEW u \in WebThreads, Writes(web[u], c) PROVE FALSE
    OBVIOUS
  <2>1. web[u] \in WebCalls /\ PhaseFits(web[u]) /\ KindFits(web[u], "http") /\ InMessage(web[u])
    BY <1>1, <1>2 DEF CallsFit, Fits, Writes, InMessage, WebTyped
  <2>2. web[u].for = "respond"
    BY <2>1 DEF WebCalls, WebPurposes, PhaseFits, KindFits, InMessage
  <2>3. Holds(web[u], c)
    BY <2>2 DEF Holds, Writes
  <2> QED
    BY <1>3, <1>10, <2>3 DEF OneOwner
<1>15. Streams(c)'
  BY <1>1, <1>2, <1>3, <1>4, <1>5, <1>6, <1>13, <1>14, StreamsBegins
<1>16. Receives(c)'
  BY <1>1, <1>2, <1>3, <1>4, <1>5, <1>6, <1>13, ReceivesSame
<1>17. InTime(c)'
  BY <1>1, <1>3, <1>6, <1>10 DEF InTime
<1> QED
  BY <1>4, <1>7, <1>8, <1>9, <1>11, <1>12, <1>15, <1>16, <1>17, ThreadStep DEF NoWeb

(* A client is accepted.                                                     *)
LEMMA AcceptClientKept ==
    ASSUME WebInv, NEW t \in WebThreads, NEW c \in WebClients, AcceptClient(t, c)
    PROVE  WebInv'
<1>1. /\ peer[c] = "waiting" /\ socketsLock = NoOne
      /\ web[t].phase = "accept" /\ serversLock[role[c]] = t
      /\ peer' = [peer EXCEPT ![c] = "up"]
      /\ sockets' = sockets \cup {c}
      /\ serversLock' = [serversLock EXCEPT ![role[c]] = NoOne]
      /\ role' = role /\ script' = script /\ fromPeer' = fromPeer
      /\ toPeer' = toPeer /\ socketsLock' = socketsLock
      /\ entry' = entry /\ entriesLock' = entriesLock /\ webOdd' = webOdd
  BY DEF AcceptClient, wires
<1>2. WebTyped /\ CallsFit /\ ClientOK(c) /\ SocketsLockOK /\ ServersLockOK /\ EntriesLockOK
  BY DEF WebInv, WebLocks
<1>3. Introduced(c) /\ OneOwner(c) /\ Streams(c) /\ InTime(c) /\ Receives(c)
  BY <1>2 DEF ClientOK
<1>4. PICK r : /\ Goes(t, r)
               /\ r.for = "accept" /\ r.conn = c /\ r.phase = "read"
               /\ r.left = web[t].left /\ r.head = NoPiece
  <2>1. role[c] \in ServerKinds
    BY <1>1, <1>2 DEF WebTyped
  <2> QED
    BY <1>2, <2>1, AcceptClientStep
<1>5. Fits(web[t]) /\ web[t].conn = NoOne /\ c # NoOne /\ t # NoOne
  BY <1>1, <1>2, WebAssumption DEF CallsFit, Fits
<1>6. /\ Holds(r, c) /\ ~Writes(r, c) /\ Reads(r, c)
      /\ ~Writes(web[t], c) /\ ~Reads(web[t], c)
  BY <1>1, <1>4 DEF Holds, Writes, Reads, InMessage, InFrame
<1>7. \A tag, d : Odd(tag, d)' <=> Odd(tag, d)
  BY <1>1 DEF Odd
<1>8. \A m \in ServerKinds : serversLock'[m] = IF serversLock[m] = t THEN NoOne ELSE serversLock[m]
  <2>1. \A m \in ServerKinds : serversLock'[m] = IF m = role[c] THEN NoOne ELSE serversLock[m]
    <3>1. DOMAIN serversLock = ServerKinds
      BY <1>2 DEF WebTyped
    <3>2. serversLock' = [serversLock EXCEPT ![role[c]] = NoOne]
      BY <1>1
    <3> QED
      BY <3>1, <3>2
  <2>2. \A m \in ServerKinds : serversLock[m] = t => m = role[c]
    <3>1. role[c] \in ServerKinds
      BY <1>1, <1>2 DEF WebTyped
    <3> QED
      BY <1>1, <1>2, <1>5, <3>1 DEF ServersLockOK
  <2> QED
    BY <1>1, <2>1, <2>2
<1>9. /\ serversLock' \in [ServerKinds -> WebThreads \cup {NoOne}]
      /\ peer' \in [WebClients -> {"away", "waiting", "up", "deaf", "gone"}]
      /\ peer'[c] = "up"
  BY <1>1, <1>2 DEF WebTyped
<1>10. WebTyped'
  <2>1. web' \in [WebThreads -> WebCalls]
    BY <1>2, <1>4, WebMoved
  <2>2. sockets' \subseteq WebClients
    BY <1>1, <1>2 DEF WebTyped
  <2>3. \A d \in WebClients : peer'[d] = "away" \/ role'[d] \in ServerKinds
    BY <1>1, <1>2 DEF WebTyped
  <2> QED
    BY <1>1, <1>2, <1>9, <2>1, <2>2, <2>3 DEF WebTyped
<1>11. WebLocks'
  <2>1. SocketsLockOK'
    BY <1>1, <1>2, <1>4, SocketsLockKept DEF Blocking
  <2>2. ServersLockOK'
    BY <1>2, <1>4, <1>8, <1>9, ServersLockFreed
  <2>3. EntriesLockOK'
    <3>1. web[t].for # "respond"
      BY <1>1, <1>5 DEF Fits, PhaseFits, InMessage
    <3>2. \A m \in ServerKinds : entriesLock[m] # t
      BY <1>1, <1>2, <3>1 DEF EntriesLockOK
    <3> QED
      BY <1>1, <1>2, <1>4, <3>2, EntriesLockKept
  <2> QED
    BY <2>1, <2>2, <2>3 DEF WebLocks
<1>12. \A d \in WebClients : d # c => Untouched(d)
  BY <1>1, <1>2, <1>7 DEF Untouched, WebTyped
<1>13. Introduced(c)'
  BY <1>1, <1>2, <1>3, <1>4, <1>9, IntroducedFirst
<1>14. OneOwner(c)'
  BY <1>1, <1>2, <1>3, <1>4, <1>6, OwnerIsFirst
<1>15. Streams(c)'
  <2>1. ~Stopped(c)
    BY <1>1 DEF Stopped
  <2> QED
    BY <1>1, <1>2, <1>3, <1>4, <1>6, <1>7, <2>1, StreamsSame
<1>16. Receives(c)'
  BY <1>1, <1>2, <1>3, <1>4, <1>6, ReceivesGreets
<1>17. InTime(c)'
  BY <1>1, <1>3, <1>7 DEF InTime
<1> QED
  BY <1>4, <1>5, <1>10, <1>11, <1>12, <1>13, <1>14, <1>15, <1>16, <1>17, ThreadStep

(* A step of a thread that is about no client.                               *)
LEMMA NobodysStep ==
    ASSUME WebInv, NEW t \in WebThreads, NEW r, Goes(t, r),
           web[t].conn = NoOne, r.conn = NoOne,
           peer' = peer, script' = script, fromPeer' = fromPeer, toPeer' = toPeer,
           sockets' = sockets, entry' = entry, webOdd' = webOdd, WebTyped', WebLocks'
    PROVE  WebInv'
<1>1. CallsFit' /\ web'[t] = r /\ role' = role /\ \A u \in WebThreads : u # t => web'[u] = web[u]
  BY WebMoved DEF WebInv, Goes
<1>2. ASSUME NEW d \in WebClients PROVE ClientOK(d)'
  <2>1. \A u \in WebThreads : web'[u] = web[u] \/ (web[u].conn # d /\ web'[u].conn # d)
    BY <1>1, <1>2, WebAssumption
  <2>2. SameFor(d)
    BY <1>1, <2>1 DEF SameFor, Odd
  <2> QED
    BY <2>2, OthersKept DEF WebInv
<1> QED
  BY <1>1, <1>2 DEF WebInv

(* accept begins to wait.                                                    *)
LEMMA AcceptCallKept ==
    ASSUME WebInv, NEW t \in WebThreads, NEW k \in ServerKinds, AcceptCall(t, k)
    PROVE  WebInv'
<1>1. /\ serversLock[k] = NoOne
      /\ serversLock' = [serversLock EXCEPT ![k] = t]
      /\ role' = role /\ peer' = peer /\ script' = script /\ fromPeer' = fromPeer
      /\ toPeer' = toPeer /\ sockets' = sockets /\ socketsLock' = socketsLock
      /\ entry' = entry /\ entriesLock' = entriesLock /\ webOdd' = webOdd
  BY DEF AcceptCall, clientSide, wires
<1>2. WebTyped /\ CallsFit /\ SocketsLockOK /\ ServersLockOK /\ EntriesLockOK
  BY DEF WebInv, WebLocks
<1>3. PICK r : /\ Goes(t, r) /\ web[t] = NoWeb
               /\ r.for = "accept" /\ r.conn = NoOne /\ r.phase = "accept"
               /\ r.left = <<>> /\ r.head = NoPiece
  BY <1>2, AcceptCallStep
<1>4. WebTyped'
  <2>1. web' \in [WebThreads -> WebCalls]
    BY <1>2, <1>3, WebMoved
  <2>2. serversLock' \in [ServerKinds -> WebThreads \cup {NoOne}]
    BY <1>1, <1>2 DEF WebTyped
  <2> QED
    BY <1>1, <1>2, <2>1, <2>2 DEF WebTyped
<1>5. WebLocks'
  <2>1. SocketsLockOK'
    <3>1. r.phase \notin Blocking /\ web[t].phase \notin Blocking
      BY <1>3 DEF Blocking, NoWeb
    <3>2. socketsLock' = socketsLock /\ Goes(t, r)
      BY <1>1, <1>3
    <3> QED
      BY <1>2, <3>1, <3>2, SocketsLockKept
  <2>2. ServersLockOK'
    <3>1. web[t].phase # "accept" /\ Goes(t, r) /\ r.phase = "accept"
      BY <1>3 DEF NoWeb
    <3>2. serversLock[k] = NoOne /\ serversLock' = [serversLock EXCEPT ![k] = t]
      BY <1>1
    <3> QED
      BY <1>2, <3>1, <3>2, ServersLockTaken
  <2>3. EntriesLockOK'
    <3>1. \A m \in ServerKinds : entriesLock[m] # t
      BY <1>2, <1>3 DEF EntriesLockOK, NoWeb
    <3> QED
      BY <1>1, <1>2, <1>3, <3>1, EntriesLockKept
  <2> QED
    BY <2>1, <2>2, <2>3 DEF WebLocks
<1> QED
  BY <1>1, <1>3, <1>4, <1>5, NobodysStep DEF NoWeb

(* accept fails.                                                             *)
LEMMA AcceptFailsKept ==
    ASSUME WebInv, NEW t \in WebThreads, AcceptFails(t)
    PROVE  WebInv'
<1>1. /\ web[t].phase = "accept" /\ EndCall(t)
      /\ serversLock' = [k \in ServerKinds |-> IF serversLock[k] = t THEN NoOne ELSE serversLock[k]]
      /\ role' = role /\ peer' = peer /\ script' = script /\ fromPeer' = fromPeer
      /\ toPeer' = toPeer /\ sockets' = sockets /\ socketsLock' = socketsLock
      /\ entry' = entry /\ entriesLock' = entriesLock /\ webOdd' = webOdd
  BY DEF AcceptFails, clientSide, wires
<1>2. WebTyped /\ CallsFit /\ SocketsLockOK /\ ServersLockOK /\ EntriesLockOK
  BY DEF WebInv, WebLocks
<1>3. Goes(t, NoWeb)
  BY <1>1, EndStep
<1>4. web[t].conn = NoOne /\ web[t].for # "respond"
  BY <1>1, <1>2 DEF CallsFit, Fits, PhaseFits, InMessage
<1>5. serversLock' \in [ServerKinds -> WebThreads \cup {NoOne}]
  BY <1>1, <1>2 DEF WebTyped
<1>6. WebTyped'
  <2>1. web' \in [WebThreads -> WebCalls]
    BY <1>2, <1>3, WebMoved
  <2> QED
    BY <1>1, <1>2, <1>5, <2>1 DEF WebTyped
<1>7. WebLocks'
  <2>1. SocketsLockOK'
    BY <1>1, <1>2, <1>3, SocketsLockKept DEF Blocking, NoWeb
  <2>2. ServersLockOK'
    <3>1. \A m \in ServerKinds :
             serversLock'[m] = IF serversLock[m] = t THEN NoOne ELSE serversLock[m]
      BY <1>1
    <3> QED
      BY <1>2, <1>3, <1>5, <3>1, ServersLockFreed DEF NoWeb
  <2>3. EntriesLockOK'
    <3>1. \A m \in ServerKinds : entriesLock[m] # t
      BY <1>1, <1>2, <1>4 DEF EntriesLockOK
    <3> QED
      BY <1>1, <1>2, <1>3, <3>1, EntriesLockKept
  <2> QED
    BY <2>1, <2>2, <2>3 DEF WebLocks
<1> QED
  BY <1>1, <1>3, <1>4, <1>6, <1>7, NobodysStep DEF NoWeb

\* A step of client c: no call moves.
ClientMoves(c) ==
    /\ web' = web /\ role' = role /\ entry' = entry /\ sockets' = sockets
    /\ socketsLock' = socketsLock /\ serversLock' = serversLock /\ entriesLock' = entriesLock
    /\ toPeer' = toPeer /\ webOdd' = webOdd
    /\ \A d \in WebClients : d # c =>
          peer'[d] = peer[d] /\ script'[d] = script[d] /\ fromPeer'[d] = fromPeer[d]

(* What such a step keeps.                                                   *)
LEMMA ClientMovesKept ==
    ASSUME WebInv, NEW c \in WebClients, ClientMoves(c), WebTyped',
           peer'[c] \in {"away", "waiting"} => peer[c] \in {"away", "waiting"},
           Stopped(c) => Stopped(c)', Receives(c)'
    PROVE  WebInv'
<1>1. WebTyped /\ CallsFit /\ SocketsLockOK /\ ServersLockOK /\ EntriesLockOK /\ ClientOK(c)
  BY DEF WebInv, WebLocks
<1>2. Introduced(c) /\ OneOwner(c) /\ Streams(c) /\ InTime(c) /\ Receives(c)
  BY <1>1 DEF ClientOK
<1>3. /\ web' = web /\ role' = role /\ entry' = entry /\ sockets' = sockets
      /\ socketsLock' = socketsLock /\ serversLock' = serversLock /\ entriesLock' = entriesLock
      /\ toPeer' = toPeer /\ webOdd' = webOdd
  BY DEF ClientMoves
<1>4. CallsFit'
  <2>1. \A t \in WebThreads : Fits(web[t])' <=> Fits(web[t])
    BY <1>3 DEF Fits, PhaseFits, KindFits, InMessage, InFrame
  <2> QED
    BY <1>1, <2>1 DEF CallsFit
<1>5. WebLocks'
  <2>1. SocketsLockOK'
    BY <1>1, <1>3 DEF SocketsLockOK
  <2>2. ServersLockOK'
    BY <1>1, <1>3 DEF ServersLockOK
  <2>3. EntriesLockOK'
    BY <1>1, <1>3 DEF EntriesLockOK
  <2> QED
    BY <2>1, <2>2, <2>3 DEF WebLocks
<1>6. \A tag, d : Odd(tag, d)' <=> Odd(tag, d)
  BY <1>3 DEF Odd
<1>7. ASSUME NEW d \in WebClients, d # c PROVE ClientOK(d)'
  <2>1. SameFor(d)
    BY <1>3, <1>6, <1>7 DEF SameFor, ClientMoves
  <2> QED
    BY <1>7, <2>1, OthersKept DEF WebInv
<1>8. Introduced(c)'
  BY <1>2, <1>3, <1>6 DEF Introduced, Welcomes
<1>9. OneOwner(c)'
  BY <1>2, <1>3 DEF OneOwner, Holds
<1>10. Streams(c)'
  <2>1. \A t : CutBy(c, t)' <=> CutBy(c, t)
    BY <1>3 DEF CutBy
  <2>2. \A t \in WebThreads : /\ Writes(web[t], c)' <=> Writes(web[t], c)
                              /\ web'[t].left = web[t].left
    BY <1>3 DEF Writes, InMessage
  <2> QED
    BY <1>2, <1>3, <1>6, <2>1, <2>2 DEF Streams
<1>11. InTime(c)'
  BY <1>2, <1>3, <1>6 DEF InTime
<1>12. ClientOK(c)'
  BY <1>8, <1>9, <1>10, <1>11 DEF ClientOK
<1> QED
  BY <1>4, <1>5, <1>7, <1>12 DEF WebInv

(* What a client does to what is read from it.                               *)
LEMMA ClientReceives ==
    ASSUME WebInv, NEW c \in WebClients, ClientMoves(c),
           Len(fromPeer'[c]) <= 1, Incoming(c)' = Incoming(c),
           Greets(c)' <=> Greets(c), Unheard(c) => Unheard(c)'
    PROVE  Receives(c)'
<1>1. Receives(c) /\ web' = web /\ role' = role /\ webOdd' = webOdd
  BY DEF WebInv, ClientOK, ClientMoves
<1>2. \A t \in WebThreads : Reads(web[t], c)' <=> Reads(web[t], c)
  BY <1>1 DEF Reads, InFrame
<1>3. Expected(c) => Expected(c)'
  BY <1>1, <1>2 DEF Expected
<1>4. \A tag : Odd(tag, c)' <=> Odd(tag, c)
  BY <1>1 DEF Odd
<1> QED
  BY <1>1, <1>2, <1>3, <1>4 DEF Receives

(* A client comes.                                                           *)
LEMMA ClientConnectKept ==
    ASSUME WebInv, NEW c \in WebClients, ClientConnect(c)
    PROVE  WebInv'
<1>1. WebTyped /\ ClientOK(c)
  BY DEF WebInv
<1>2. /\ peer[c] = "away" /\ role[c] # "none" /\ peer' = [peer EXCEPT ![c] = "waiting"]
      /\ web' = web /\ role' = role /\ entry' = entry /\ sockets' = sockets /\ script' = script
      /\ socketsLock' = socketsLock /\ serversLock' = serversLock /\ entriesLock' = entriesLock
      /\ fromPeer' = fromPeer /\ toPeer' = toPeer /\ webOdd' = webOdd
  BY DEF ClientConnect, wires, tables
<1>3. ClientMoves(c) /\ peer'[c] = "waiting"
  BY <1>1, <1>2 DEF ClientMoves, WebTyped
<1>4. WebTyped'
  <2>1. /\ peer' \in [WebClients -> {"away", "waiting", "up", "deaf", "gone"}]
        /\ \A d \in WebClients : peer'[d] = "away" \/ role'[d] \in ServerKinds
    BY <1>1, <1>2 DEF WebTyped
  <2> QED
    BY <1>1, <1>2, <2>1 DEF WebTyped
<1>5. Greets(c) /\ Greets(c)' /\ ~Unheard(c) /\ ~Stopped(c)
  BY <1>2, <1>3 DEF Greets, Unheard, Stopped
<1>6. Incoming(c)' = Incoming(c) /\ Len(fromPeer'[c]) <= 1
  BY <1>1, <1>2 DEF Incoming, ClientOK, Receives
<1>7. Receives(c)'
  BY <1>3, <1>5, <1>6, ClientReceives
<1> QED
  BY <1>2, <1>3, <1>4, <1>5, <1>7, ClientMovesKept

(* A client sends a piece.                                                   *)
LEMMA ClientSendKept ==
    ASSUME WebInv, NEW c \in WebClients, ClientSend(c)
    PROVE  WebInv'
<1>1. WebTyped /\ ClientOK(c)
  BY DEF WebInv
<1>2. /\ Present(c) /\ script[c] # <<>> /\ fromPeer[c] = <<>> /\ peer' = peer
      /\ fromPeer' = [fromPeer EXCEPT ![c] = Append(@, Head(script[c]))]
      /\ script' = [script EXCEPT ![c] = Tail(@)]
      /\ web' = web /\ role' = role /\ entry' = entry /\ sockets' = sockets
      /\ socketsLock' = socketsLock /\ serversLock' = serversLock /\ entriesLock' = entriesLock
      /\ toPeer' = toPeer /\ webOdd' = webOdd
  BY DEF ClientSend, tables
<1>3. ClientMoves(c)
  BY <1>1, <1>2 DEF ClientMoves, WebTyped
<1>4. \A s \in Seq(Pieces) : s # <<>> =>
        /\ Append(<<>>, Head(s)) \in Seq(Pieces) /\ Tail(s) \in Seq(Pieces)
        /\ Len(Append(<<>>, Head(s))) = 1
        /\ Append(<<>>, Head(s)) \o Tail(s) = s /\ <<>> \o s = s
  <2> SUFFICES ASSUME NEW s \in Seq(Pieces), s # <<>>
               PROVE  /\ Append(<<>>, Head(s)) \in Seq(Pieces) /\ Tail(s) \in Seq(Pieces)
                      /\ Len(Append(<<>>, Head(s))) = 1
                      /\ Append(<<>>, Head(s)) \o Tail(s) = s /\ <<>> \o s = s
    OBVIOUS
  <2>1. Head(s) \in Pieces /\ Head(s) = s[1] /\ Tail(s) \in Seq(Pieces) /\ Len(s) \in Nat /\ Len(s) > 0
    BY NotEmpty
  <2>2. Append(<<>>, Head(s)) = <<Head(s)>>
    OBVIOUS
  <2>3. <<>> \o s = s
    OBVIOUS
  <2>4. <<Head(s)>> \o Tail(s) = s
    <3>1. /\ Len(Tail(s)) = Len(s) - 1
          /\ \A i \in 1 .. Len(Tail(s)) : Tail(s)[i] = s[i + 1]
      BY <2>1
    <3> DEFINE z == <<Head(s)>> \o Tail(s)
    <3>2. z \in Seq(Pieces) /\ Len(z) = Len(s) /\ z[1] = Head(s)
      BY <2>1, <3>1
    <3>3. ASSUME NEW i \in 1 .. Len(s) PROVE z[i] = s[i]
      <4>1. CASE i = 1
        BY <2>1, <3>2, <4>1
      <4>2. CASE i # 1
        <5>1. i - 1 \in 1 .. Len(Tail(s)) /\ z[i] = Tail(s)[i - 1]
          BY <2>1, <3>1, <4>2
        <5> QED
          BY <2>1, <3>1, <5>1
      <4> QED
        BY <4>1, <4>2
    <3> HIDE DEF z
    <3>4. z = s
      BY <3>2, <3>3
    <3> QED
      BY <3>4 DEF z
  <2> QED
    BY <2>1, <2>2, <2>3, <2>4
<1>5. /\ script[c] \in Seq(Pieces)
      /\ fromPeer'[c] = Append(<<>>, Head(script[c])) /\ script'[c] = Tail(script[c])
  BY <1>1, <1>2 DEF WebTyped
<1>6. Incoming(c)' = Incoming(c) /\ Len(fromPeer'[c]) <= 1
  <2>1. Incoming(c)' = fromPeer'[c] \o script'[c]
    BY DEF Incoming
  <2>2. /\ fromPeer'[c] \o script'[c] = script[c] /\ <<>> \o script[c] = script[c]
        /\ Len(fromPeer'[c]) = 1
    BY <1>2, <1>4, <1>5
  <2>3. Incoming(c)' = Incoming(c)
    BY <1>2, <2>1, <2>2 DEF Incoming
  <2>4. \A n \in Nat : n = 1 => n <= 1
    OBVIOUS
  <2>5. Len(fromPeer'[c]) <= 1
    BY <2>2, <2>4
  <2> QED
    BY <2>3, <2>5
<1>7. WebTyped'
  <2>1. fromPeer'[c] \in Seq(Pieces) /\ script'[c] \in Seq(Pieces)
    BY <1>2, <1>4, <1>5
  <2>2. fromPeer' \in [WebClients -> Seq(Pieces)] /\ script' \in [WebClients -> Seq(Pieces)]
    BY <1>1, <1>2, <2>1 DEF WebTyped
  <2> QED
    BY <1>1, <1>2, <2>2 DEF WebTyped
<1>8. Greets(c)' <=> Greets(c)
  BY <1>2 DEF Greets, Reads, InFrame
<1>9. (Unheard(c) => Unheard(c)') /\ (Stopped(c) => Stopped(c)')
  BY <1>2 DEF Unheard, Stopped, Present
<1>10. Receives(c)'
  BY <1>3, <1>6, <1>8, <1>9, ClientReceives
<1> QED
  BY <1>2, <1>3, <1>7, <1>9, <1>10, ClientMovesKept

(* A client leaves.                                                          *)
LEMMA ClientLeaveKept ==
    ASSUME WebInv, NEW c \in WebClients, ClientLeave(c)
    PROVE  WebInv'
<1>1. WebTyped /\ ClientOK(c)
  BY DEF WebInv
<1>2. /\ peer[c] \in {"up", "deaf"} /\ \E p \in {"deaf", "gone"} : peer' = [peer EXCEPT ![c] = p]
      /\ web' = web /\ role' = role /\ entry' = entry /\ sockets' = sockets /\ script' = script
      /\ socketsLock' = socketsLock /\ serversLock' = serversLock /\ entriesLock' = entriesLock
      /\ fromPeer' = fromPeer /\ toPeer' = toPeer /\ webOdd' = webOdd
  BY DEF ClientLeave, wires, tables, Present
<1>3. ClientMoves(c) /\ peer'[c] \in {"deaf", "gone"}
  BY <1>1, <1>2 DEF ClientMoves, WebTyped
<1>4. WebTyped'
  <2>1. /\ peer' \in [WebClients -> {"away", "waiting", "up", "deaf", "gone"}]
        /\ \A d \in WebClients : peer'[d] = "away" \/ role'[d] \in ServerKinds
    BY <1>1, <1>2 DEF WebTyped
  <2> QED
    BY <1>1, <1>2, <2>1 DEF WebTyped
<1>5. /\ Greets(c)' <=> Greets(c)
      /\ Unheard(c) => Unheard(c)'
      /\ Stopped(c) => Stopped(c)'
  BY <1>2, <1>3 DEF Greets, Unheard, Stopped, Reads, InFrame
<1>6. Incoming(c)' = Incoming(c) /\ Len(fromPeer'[c]) <= 1
  BY <1>1, <1>2 DEF Incoming, ClientOK, Receives
<1>7. Receives(c)'
  BY <1>3, <1>5, <1>6, ClientReceives
<1> QED
  BY <1>3, <1>4, <1>5, <1>7, ClientMovesKept

(* Before the first call.                                                    *)
LEMMA WebInitially == WebInit => WebInv
<1> SUFFICES ASSUME WebInit PROVE WebInv
  OBVIOUS
<1>1. /\ peer = [c \in WebClients |-> "away"]
      /\ fromPeer = [c \in WebClients |-> <<>>] /\ toPeer = [c \in WebClients |-> <<>>]
      /\ sockets = {}
      /\ socketsLock = NoOne
      /\ serversLock = [k \in ServerKinds |-> NoOne]
      /\ entry = [c \in WebClients |-> "none"]
      /\ entriesLock = [k \in ServerKinds |-> NoOne]
      /\ web = [t \in WebThreads |-> NoWeb]
      /\ webOdd = {}
  BY DEF WebInit, WebIdle
<1>2. role \in [WebClients -> ServerKinds \cup {"none"}]
  BY WebAssumption DEF WebInit
<1>3. script \in [WebClients -> Seq(Pieces)]
      /\ \A c \in WebClients : script[c] \in Scripts[role[c]]
  <2>1. /\ DOMAIN script = WebClients /\ \A c \in WebClients : script[c] \in Scripts[role[c]]
        /\ script = [c \in WebClients |-> script[c]]
    BY DEF WebInit
  <2>2. \A c \in WebClients : script[c] \in Seq(Pieces)
    BY <1>2, <2>1, WebAssumption
  <2> QED
    BY <2>1, <2>2
<1>4. WebTyped
  <2>1. fromPeer \in [WebClients -> Seq(Pieces)] /\ toPeer \in [WebClients -> Seq(Parts)]
    <3> DEFINE none == <<>>
    <3>1. none \in Seq(Pieces) /\ none \in Seq(Parts)
      OBVIOUS
    <3>2. fromPeer = [c \in WebClients |-> none] /\ toPeer = [c \in WebClients |-> none]
      BY <1>1
    <3> HIDE DEF none
    <3> QED
      BY <3>1, <3>2
  <2>2. web \in [WebThreads -> WebCalls]
    BY <1>1, NoWebFits
  <2> QED
    BY <1>1, <1>2, <1>3, <2>1, <2>2 DEF WebTyped
<1>5. CallsFit
  BY <1>1, NoWebFits DEF CallsFit
<1>6. \A t \in WebThreads : web[t] = NoWeb /\ t # NoOne
  BY <1>1, WebAssumption
<1>7. WebLocks
  <2>1. SocketsLockOK
    BY <1>1, <1>6 DEF SocketsLockOK, NoWeb
  <2>2. ServersLockOK
    BY <1>1, <1>6 DEF ServersLockOK, NoWeb
  <2>3. EntriesLockOK
    BY <1>1, <1>6 DEF EntriesLockOK
  <2> QED
    BY <2>1, <2>2, <2>3 DEF WebLocks
<1>8. ASSUME NEW c \in WebClients PROVE ClientOK(c)
  <2>1. /\ peer[c] = "away" /\ fromPeer[c] = <<>> /\ toPeer[c] = <<>> /\ entry[c] = "none"
        /\ c \notin sockets /\ \A tag : ~Odd(tag, c)
    BY <1>1, <1>8 DEF Odd
  <2>2. \A t \in WebThreads : /\ web[t].conn # c
                              /\ ~Holds(web[t], c) /\ ~Welcomes(web[t], c)
                              /\ ~Writes(web[t], c) /\ ~Reads(web[t], c)
    BY <1>6, <1>8, WebAssumption DEF NoWeb, Holds, Welcomes, Writes, Reads
  <2>3. Introduced(c) /\ OneOwner(c)
    BY <2>1, <2>2 DEF Introduced, OneOwner
  <2>4. Streams(c)
    <3>1. Whole(toPeer[c]) /\ \A t : ~CutBy(c, t)
      BY <2>1 DEF Whole, CutBy
    <3> QED
      BY <2>1, <2>2, <3>1 DEF Streams
  <2>5. InTime(c)
    BY <2>1 DEF InTime
  <2>6. Receives(c)
    <3>1. Len(fromPeer[c]) <= 1
      BY <2>1
    <3>2. Greets(c)
      BY <2>1 DEF Greets
    <3>3. Incoming(c) = script[c]
      <4>1. \A s \in Seq(Pieces) : <<>> \o s = s
        OBVIOUS
      <4> QED
        BY <1>3, <1>8, <2>1, <4>1 DEF Incoming
    <3>4. role[c] = "ws" /\ Incoming(c) # <<>> => Frames(Tail(Incoming(c)))
      BY <1>3, <1>8, <3>3, WebAssumption
    <3> QED
      BY <2>1, <2>2, <3>1, <3>2, <3>4 DEF Receives, Expected
  <2> QED
    BY <2>3, <2>4, <2>5, <2>6 DEF ClientOK
<1> QED
  BY <1>4, <1>5, <1>7, <1>8 DEF WebInv

(* A call that is under way has a client.                                    *)
LEMMA WebClientOf ==
    ASSUME WebInv, NEW t \in WebThreads, web[t].phase \notin {"out", "accept"}
    PROVE  web[t].conn \in WebClients
BY DEF WebInv, CallsFit, Fits

(* Every step keeps the invariant.                                           *)
LEMMA WebKept == WebInv /\ [WebNext]_webVars => WebInv'
<1> SUFFICES ASSUME WebInv, [WebNext]_webVars PROVE WebInv'
  OBVIOUS
<1>1. CASE UNCHANGED webVars
  <2>1. /\ role' = role /\ peer' = peer /\ script' = script /\ fromPeer' = fromPeer
        /\ toPeer' = toPeer /\ sockets' = sockets /\ socketsLock' = socketsLock
        /\ serversLock' = serversLock /\ entry' = entry /\ entriesLock' = entriesLock
        /\ web' = web /\ webOdd' = webOdd
    BY <1>1 DEF webVars, clientSide, wires, tables
  <2>2. WebTyped'
    BY <2>1 DEF WebInv, WebTyped
  <2>3. ASSUME NEW c \in WebClients PROVE WebInv'
    <3>1. ClientMoves(c)
      BY <2>1 DEF ClientMoves
    <3>2. /\ peer'[c] \in {"away", "waiting"} => peer[c] \in {"away", "waiting"}
          /\ Stopped(c) => Stopped(c)'
          /\ Incoming(c)' = Incoming(c)
          /\ Greets(c)' <=> Greets(c)
          /\ Unheard(c) => Unheard(c)'
      BY <2>1 DEF Stopped, Incoming, Greets, Unheard, Reads, InFrame
    <3>3. Len(fromPeer'[c]) <= 1
      BY <2>1, <2>3 DEF WebInv, ClientOK, Receives
    <3>4. Receives(c)'
      BY <2>3, <3>1, <3>2, <3>3, ClientReceives
    <3> QED
      BY <2>2, <2>3, <3>1, <3>2, <3>4, ClientMovesKept
  <2>4. CASE WebClients = {}
    <3>1. CallsFit'
      <4>1. \A t \in WebThreads : Fits(web[t])' <=> Fits(web[t])
        BY <2>1 DEF Fits, PhaseFits, KindFits, InMessage, InFrame
      <4> QED
        BY <4>1 DEF CallsFit, WebInv
    <3>2. WebLocks'
      <4>1. SocketsLockOK'
        BY <2>1 DEF WebInv, WebLocks, SocketsLockOK
      <4>2. ServersLockOK'
        BY <2>1 DEF WebInv, WebLocks, ServersLockOK
      <4>3. EntriesLockOK'
        BY <2>1 DEF WebInv, WebLocks, EntriesLockOK
      <4> QED
        BY <4>1, <4>2, <4>3 DEF WebLocks
    <3> QED
      BY <2>2, <2>4, <3>1, <3>2 DEF WebInv
  <2> QED
    BY <2>3, <2>4
<1>2. ASSUME NEW t \in WebThreads, HttpAccept(t) \/ WsAccept(t) \/ SseAccept(t) PROVE WebInv'
  BY <1>2, AcceptCallKept DEF HttpAccept, WsAccept, SseAccept, ServerKinds
<1>3. ASSUME NEW t \in WebThreads, NEW c \in WebClients,
             \/ HttpRespond(t, c) \/ WsSend(t, c) \/ WsRecv(t, c) \/ WsClose(t, c)
             \/ SseSend(t, c) \/ SseClose(t, c)
      PROVE  WebInv'
  <2>1. CASE HttpRespond(t, c)
    BY <1>3, <2>1, HttpRespondKept
  <2>2. CASE WsSend(t, c)
    BY <1>3, <2>2, CallOnKept DEF WsSend
  <2>3. CASE WsRecv(t, c)
    BY <1>3, <2>3, CallOnKept DEF WsRecv
  <2>4. CASE WsClose(t, c)
    BY <1>3, <2>4, CallOnKept DEF WsClose
  <2>5. CASE SseSend(t, c)
    BY <1>3, <2>5, CallOnKept DEF SseSend
  <2>6. CASE SseClose(t, c)
    BY <1>3, <2>6, CallOnKept DEF SseClose
  <2> QED
    BY <1>3, <2>1, <2>2, <2>3, <2>4, <2>5, <2>6
<1>4. ASSUME NEW t \in WebThreads, AcceptFails(t) PROVE WebInv'
  BY <1>4, AcceptFailsKept
<1>5. ASSUME NEW t \in WebThreads, NEW c \in WebClients, AcceptClient(t, c) PROVE WebInv'
  BY <1>5, AcceptClientKept
<1>6. ASSUME NEW t \in WebThreads,
             \/ InsertEntry(t) \/ Check(t) \/ MarkClosed(t) \/ Remove(t) \/ CloseClient(t)
             \/ BeginSend(t) \/ SocketSend(t) \/ BeginRecv(t) \/ SocketRecv(t)
      PROVE  WebInv'
  <2>1. web[t].phase \notin {"out", "accept"}
    BY <1>6 DEF InsertEntry, Check, MarkClosed, Remove, CloseClient, BeginSend, SocketSend,
                BeginRecv, SocketRecv
  <2>2. PICK c \in WebClients : web[t].conn = c
    BY <1>6, <2>1, WebClientOf
  <2>3. CASE InsertEntry(t)
    BY <1>6, <2>2, <2>3, InsertEntryKept
  <2>4. CASE Check(t)
    BY <1>6, <2>2, <2>4, CheckKept
  <2>5. CASE MarkClosed(t)
    BY <1>6, <2>2, <2>5, MarkClosedKept
  <2>6. CASE Remove(t)
    BY <1>6, <2>2, <2>6, RemoveKept, RemoveGoneKept
  <2>7. CASE CloseClient(t)
    BY <1>6, <2>2, <2>7, CloseClientKept
  <2>8. CASE BeginSend(t)
    BY <1>6, <2>2, <2>8, BeginSendKept
  <2>9. CASE SocketSend(t)
    BY <1>6, <2>2, <2>9, SocketSendKept
  <2>10. CASE BeginRecv(t)
    BY <1>6, <2>2, <2>10, BeginRecvKept
  <2>11. CASE SocketRecv(t)
    BY <1>6, <2>2, <2>11, SocketRecvKept
  <2> QED
    BY <1>6, <2>3, <2>4, <2>5, <2>6, <2>7, <2>8, <2>9, <2>10, <2>11
<1>7. ASSUME NEW c \in WebClients, ClientConnect(c) \/ ClientSend(c) \/ ClientLeave(c) PROVE WebInv'
  BY <1>7, ClientConnectKept, ClientSendKept, ClientLeaveKept
<1> QED
  BY <1>1, <1>2, <1>3, <1>4, <1>5, <1>6, <1>7 DEF WebNext, WebStep

(* What the invariant says of a socket, counted.                             *)
LEMMA OwnersCounted ==
    ASSUME NEW c \in WebClients, OneOwner(c)
    PROVE  Cardinality(Holders(c)) + (IF entry[c] = "none" THEN 0 ELSE 1) =
               (IF c \in sockets THEN 1 ELSE 0)
<1>1. Holders(c) = {t \in WebThreads : Holds(web[t], c)}
  BY DEF Holders, Holds
<1>2. CASE \E t \in WebThreads : Holds(web[t], c)
  <2>1. PICK t \in WebThreads : Holds(web[t], c)
    BY <1>2
  <2>2. Holders(c) = {t}
    BY <1>1, <2>1 DEF OneOwner
  <2>3. Cardinality(Holders(c)) = 1
    BY <2>2, FS_Singleton
  <2>4. entry[c] = "none" /\ c \in sockets
    BY <2>1 DEF OneOwner
  <2> QED
    BY <2>3, <2>4
<1>3. CASE ~\E t \in WebThreads : Holds(web[t], c)
  <2>1. Holders(c) = {}
    BY <1>1, <1>3
  <2>2. Cardinality(Holders(c)) = 0
    BY <2>1, FS_EmptySet
  <2>3. c \in sockets <=> entry[c] # "none"
    BY <1>3 DEF OneOwner
  <2> QED
    BY <2>2, <2>3
<1> QED
  BY <1>2, <1>3

(* The invariant implies the property.                                       *)
LEMMA WebInvIsSafe == WebInv => WebSafe
<1> SUFFICES ASSUME WebInv PROVE WebSafe
  OBVIOUS
<1>1. WebTypeOK
  <2>1. WebTyped /\ CallsFit /\ SocketsLockOK /\ ServersLockOK /\ EntriesLockOK
    BY DEF WebInv, WebLocks
  <2>2. /\ peer \in [WebClients -> {"away", "waiting", "up", "deaf", "gone"}]
        /\ entry \in [WebClients -> {"none", "request", "open", "closed"}]
        /\ sockets \subseteq WebClients
    BY <2>1 DEF WebTyped
  <2>3. ASSUME NEW t \in WebThreads
        PROVE  /\ web[t].conn \in WebClients \cup {NoOne}
               /\ (socketsLock = t) = (web[t].phase \in {"sending", "receiving"})
               /\ (\E k \in ServerKinds : serversLock[k] = t) = (web[t].phase = "accept")
    BY <2>1 DEF WebTyped, WebCalls, SocketsLockOK, ServersLockOK
  <2>4. ASSUME NEW t \in WebThreads, NEW k \in ServerKinds, entriesLock[k] = t
        PROVE  web[t].phase \in {"write", "sending", "close"} /\ role[web[t].conn] = k
    <3>1. (web[t].phase = "close" \/ web[t].for = "respond") /\ role[web[t].conn] = k
      BY <2>1, <2>4 DEF EntriesLockOK
    <3>2. web[t].for = "respond" => InMessage(web[t]) \/ web[t].phase = "close"
      BY <2>1 DEF CallsFit, Fits, PhaseFits
    <3> QED
      BY <3>1, <3>2 DEF InMessage
  <2> QED
    BY <2>2, <2>3, <2>4 DEF WebTypeOK
<1>2. SocketsOwned
  BY OwnersCounted DEF SocketsOwned, WebInv, ClientOK
<1>3. MessagesWhole
  BY DEF MessagesWhole, WebInv, ClientOK, Streams, Odd
<1>4. FramesMatch
  BY DEF FramesMatch, WebInv, ClientOK, Receives, Odd
<1>5. NoLateMessage
  BY DEF NoLateMessage, WebInv, ClientOK, InTime
<1> QED
  BY <1>1, <1>2, <1>3, <1>4, <1>5 DEF WebSafe

(* However the calls of any number of threads and what any number of clients *)
(* do are interleaved, every socket has one owner, messages are whole unless *)
(* two calls write at once and one of them is cut short, frames match unless *)
(* two calls read at once, and no message is begun after the client's close  *)
(* frame (http_accept, ws_send_frame, ws_recv, sse_send and the closes).     *)
THEOREM WebIsSafe == WebSpec => []WebSafe
<1>1. WebSpec => []WebInv
  BY WebInitially, WebKept, PTL DEF WebSpec
<1> QED
  BY <1>1, WebInvIsSafe, PTL

=============================================================================
