------------------------------- MODULE DbPool -------------------------------
(***************************************************************************)
(* The connection pools of the host, host.rs (the sqlite_pool_ and         *)
(* pg_pool_ calls), and the transaction scopes on their connections.  A    *)
(* pool is an entry of a map under one lock: a stack of available          *)
(* connections and the set of those in use.  acquire lets the lock go to   *)
(* open a connection and takes it again to record it; between attempts it  *)
(* sleeps.  unwrap on a missing pool panics with the lock held, which      *)
(* poisons the lock: every later call panics.                              *)
(*                                                                         *)
(* One pool.  The connections of a thread are the ones it has acquired and *)
(* not released.  Lifetimes and idle times are left out: release stamps a  *)
(* connection as new, and a connection that expires in the pool is handled *)
(* like one that the database has dropped.                                 *)
(***************************************************************************)
EXTENDS TxScope

CONSTANTS
    Threads,
    MinConnections,   \* config.min_connections
    MaxConnections,   \* config.max_connections
    Programs,         \* sets of optional settings, calls and faults
    NoConn

ASSUME PoolAssumption ==
    /\ MinConnections \in Nat /\ MaxConnections \in Nat
    /\ MinConnections <= MaxConnections
    /\ NoConn \notin Conns \cup Threads

ASSUME ThreadsAssumption == IsFiniteSet(Threads) /\ Threads # {}

VARIABLES
    ops,          \* the settings, calls and faults of this behaviour
    pool,         \* "none", "open" or "closed"
    poisoned,     \* the lock of the map is poisoned
    available,    \* the stack of idle connections
    in_use,       \* the borrowed ones
    next_conn,    \* the next connection handle
    live,         \* the connections that are open
    pc,           \* where each thread is in acquire
    got,          \* the connection a thread has opened and not recorded
    holder,       \* history: the thread that acquired a connection
    orphans,      \* history: connections that nobody will close
    raced         \* history: two threads were opening at the same time

poolVars == <<pool, poisoned, available, in_use, next_conn, live, pc, got,
              holder, orphans, raced>>
vars == <<ops, poolVars, txVars>>

Init ==
    /\ TxInit
    /\ ops \in Programs
    /\ pool = "none"
    /\ poisoned = FALSE
    /\ available = <<>>
    /\ in_use = {}
    /\ next_conn = 1
    /\ live = {}
    /\ pc = [t \in Threads |-> "idle"]
    /\ got = [t \in Threads |-> NoConn]
    /\ holder = [c \in Conns |-> NoConn]
    /\ orphans = {}
    /\ raced = FALSE

PoolGoto(t, p) == pc' = [pc EXCEPT ![t] = p]

IsIdle(t) == pc[t] = "idle"

\* A thread that takes the lock finds it poisoned and panics.
PanicOnPoison(t) ==
    /\ poisoned
    /\ PoolGoto(t, "panicked")
    /\ orphans' = orphans \cup ({got[t]} \cap Conns)
    /\ UNCHANGED <<pool, poisoned, available, in_use, next_conn, live, got, holder,
                   raced, txVars>>

\* unwrap finds no pool while the thread holds the lock.
PanicWithLock(t) ==
    /\ ~poisoned
    /\ pool # "open"
    /\ poisoned' = TRUE
    /\ PoolGoto(t, "panicked")
    /\ orphans' = orphans \cup ({got[t]} \cap Conns)
    /\ UNCHANGED <<pool, available, in_use, next_conn, live, got, holder, raced,
                   txVars>>

\* The call returns and changes nothing.
Fails(t) ==
    /\ PoolGoto(t, "idle")
    /\ UNCHANGED <<pool, poisoned, available, in_use, next_conn, live, got, holder,
                   orphans, raced, txVars>>

(* The first connections are opened before the pool is recorded.  When one  *)
(* cannot be opened, the ones before it are forgotten.                      *)
PoolCreate(t) ==
    /\ IsIdle(t)
    /\ pool = "none"
    /\ ~poisoned
    /\ \E n \in 0 .. MinConnections :
          LET opened == next_conn .. next_conn + n - 1
          IN /\ opened \subseteq Conns
             /\ n < MinConnections => "fail" \in ops
             /\ next_conn' = next_conn + n
             /\ live' = live \cup opened
             /\ IF n = MinConnections
                THEN /\ pool' = "open"
                     /\ available' = [i \in 1 .. n |-> next_conn + i - 1]
                     /\ UNCHANGED orphans
                ELSE orphans' = orphans \cup opened /\ UNCHANGED <<pool, available>>
    /\ UNCHANGED <<poisoned, in_use, pc, got, holder, raced, txVars>>

\* Closing takes the connections in use as well.
PoolClose(t) ==
    /\ "close" \in ops
    /\ IsIdle(t)
    /\ \/ PanicOnPoison(t)
       \/ ~poisoned /\ pool # "open" /\ Fails(t)
       \/ /\ ~poisoned /\ pool = "open"
          /\ pool' = "closed"
          /\ live' = live \ ({available[i] : i \in 1 .. Len(available)} \cup in_use)
          /\ available' = <<>>
          /\ in_use' = {}
          /\ UNCHANGED <<poisoned, next_conn, pc, got, holder, orphans, raced, txVars>>

-----------------------------------------------------------------------------
(* acquire.                                                                *)

Total(av, used) == Len(av) + Cardinality(used)

Opening == {t \in Threads : pc[t] \in {"fetch", "open", "insert"}}

\* Whether there is room for one more connection beside those in av.
MayOpen(av) == Total(av, in_use) < MaxConnections

(* Nothing usable is available: open a new connection, or wait.  SQLite     *)
(* takes the lock again for the connection string, PostgreSQL has it.       *)
OpenOrWait(t, av) ==
    IF MayOpen(av)
    THEN /\ PoolGoto(t, IF kind = "sqlite" THEN "fetch" ELSE "open")
         /\ raced' = (raced \/ Opening # {})
    ELSE PoolGoto(t, "exhausted") /\ UNCHANGED raced

\* Mutant: the connection is handed out and stays available.
Mut_TakeAvailable(t, c) ==
    /\ in_use' = in_use \cup {c}
    /\ holder' = [holder EXCEPT ![c] = t]
    /\ PoolGoto(t, "idle")
    /\ UNCHANGED <<available, live, raced>>

TakeAvailable(t, c) ==
    /\ available' = Front(available)
    /\ in_use' = in_use \cup {c}
    /\ holder' = [holder EXCEPT ![c] = t]
    /\ PoolGoto(t, "idle")
    /\ UNCHANGED <<live, raced>>

(* One attempt, under the lock.  A connection that fails the health check   *)
(* is closed; without the check it is handed out as it is.                  *)
Attempt(t) ==
    /\ ~poisoned
    /\ pool = "open"
    /\ \/ /\ available = <<>>
          /\ OpenOrWait(t, available)
          /\ UNCHANGED <<available, in_use, live, holder>>
       \/ /\ available # <<>>
          /\ LET c == Last(available)
             IN IF broken[c] /\ "untested" \notin ops
                THEN /\ available' = Front(available)
                     /\ live' = live \ {c}
                     /\ OpenOrWait(t, Front(available))
                     /\ UNCHANGED <<in_use, holder>>
                ELSE TakeAvailable(t, c)
    /\ UNCHANGED <<pool, poisoned, next_conn, got, orphans, txVars>>

PoolAcquire(t) ==
    /\ IsIdle(t)
    /\ PanicOnPoison(t) \/ (~poisoned /\ pool # "open" /\ Fails(t)) \/ Attempt(t)

\* The next attempt of a thread that has slept.
Retry(t) ==
    /\ pc[t] = "asleep"
    /\ PanicOnPoison(t) \/ (~poisoned /\ pool # "open" /\ Fails(t)) \/ Attempt(t)

FetchString(t) ==
    /\ pc[t] = "fetch"
    /\ \/ PanicOnPoison(t)
       \/ PanicWithLock(t)
       \/ /\ ~poisoned /\ pool = "open"
          /\ PoolGoto(t, "open")
          /\ UNCHANGED <<pool, poisoned, available, in_use, next_conn, live, got,
                         holder, orphans, raced, txVars>>

OpenConnection(t) ==
    /\ pc[t] = "open"
    /\ \/ "fail" \in ops /\ Fails(t)
       \/ /\ next_conn \in Conns
          /\ got' = [got EXCEPT ![t] = next_conn]
          /\ next_conn' = next_conn + 1
          /\ live' = live \cup {next_conn}
          /\ PoolGoto(t, "insert")
          /\ UNCHANGED <<pool, poisoned, available, in_use, holder, orphans, raced,
                         txVars>>

\* The new connection is recorded without another look at the limit.
Insert(t) ==
    /\ pc[t] = "insert"
    /\ \/ PanicOnPoison(t)
       \/ PanicWithLock(t)
       \/ /\ ~poisoned /\ pool = "open"
          /\ in_use' = in_use \cup {got[t]}
          /\ holder' = [holder EXCEPT ![got[t]] = t]
          /\ got' = [got EXCEPT ![t] = NoConn]
          /\ PoolGoto(t, "idle")
          /\ UNCHANGED <<pool, poisoned, available, next_conn, live, orphans, raced,
                         txVars>>

(* The timeout is looked up under the lock; a pool that is gone has none,   *)
(* and the next attempt finds out.                                          *)
Exhausted(t) ==
    /\ pc[t] = "exhausted"
    /\ \/ PanicOnPoison(t)
       \/ ~poisoned /\ pool = "open" /\ "timeout" \in ops /\ Fails(t)
       \/ /\ ~poisoned
          /\ PoolGoto(t, "asleep")
          /\ UNCHANGED <<pool, poisoned, available, in_use, next_conn, live, got,
                         holder, orphans, raced, txVars>>

-----------------------------------------------------------------------------
(* release.                                                                *)

(* The transaction of the database is rolled back and the result ignored;   *)
(* the depth and the stacks that the host keeps are left as they are.       *)
RollbackOnRelease(c) ==
    /\ db' = [db EXCEPT ![c] = IF EndOk(c) THEN <<>> ELSE @]
    /\ left_open' = [left_open EXCEPT ![c] = @ \/ depth[c] > 0]
    /\ UNCHANGED <<kind, hostVars, broken, committed, next_write, verdict, failed>>

(* The connection goes back on the stack, or is closed when it does not     *)
(* answer or the pool is over its limit.                                    *)
PoolRelease(t, c) ==
    /\ IsIdle(t)
    /\ \/ PanicOnPoison(t)
       \/ ~poisoned /\ (pool # "open" \/ c \notin in_use) /\ Fails(t)
       \/ /\ ~poisoned /\ pool = "open" /\ c \in in_use
          /\ in_use' = in_use \ {c}
          /\ holder' = [holder EXCEPT ![c] = NoConn]
          /\ RollbackOnRelease(c)
          /\ IF ~broken[c] /\ Total(available, in_use \ {c}) < MaxConnections
             THEN available' = Append(available, c) /\ UNCHANGED live
             ELSE live' = live \ {c} /\ UNCHANGED available
          /\ UNCHANGED <<pool, poisoned, next_conn, pc, got, orphans, raced>>

-----------------------------------------------------------------------------
\* The connections of a thread, usable until the pool is closed.
Mine(t) == {c \in Conns : holder[c] = t}

ReleaseOwn(t) == \E c \in Mine(t) : PoolRelease(t, c)

\* A connection that the thread does not hold: one released before, perhaps.
ReleaseStray(t) == "stray" \in ops /\ \E c \in Conns \ Mine(t) :
                      c < next_conn /\ PoolRelease(t, c)

UseConnection(t) ==
    /\ "tx" \in ops
    /\ IsIdle(t)
    /\ \E c \in Mine(t) \cap live : TxCall(c) \/ Write(c)
    /\ UNCHANGED poolVars

DropConnection ==
    /\ "fail" \in ops
    /\ \E c \in live : Break(c)
    /\ UNCHANGED poolVars

AcquireStep(t) ==
    Retry(t) \/ FetchString(t) \/ OpenConnection(t) \/ Insert(t) \/ Exhausted(t)

Next ==
    /\ \/ \E t \in Threads :
             \/ PoolCreate(t) \/ PoolClose(t) \/ PoolAcquire(t) \/ AcquireStep(t)
             \/ ReleaseOwn(t) \/ ReleaseStray(t) \/ UseConnection(t)
       \/ DropConnection
    /\ UNCHANGED ops

Spec == Init /\ [][Next]_vars

-----------------------------------------------------------------------------
(* Properties.                                                             *)

Idles == {available[i] : i \in 1 .. Len(available)}

PoolTypeOK ==
    /\ TxTypeOK
    /\ pool \in {"none", "open", "closed"}
    /\ poisoned \in BOOLEAN
    /\ available \in Seq(Conns)
    /\ in_use \subseteq Conns
    /\ next_conn \in 1 .. MaxConns + 1
    /\ live \subseteq Conns
    /\ pc \in [Threads -> {"idle", "asleep", "fetch", "open", "insert", "exhausted",
                           "panicked"}]
    /\ got \in [Threads -> Conns \cup {NoConn}]
    /\ holder \in [Conns -> Threads \cup {NoConn}]
    /\ orphans \subseteq Conns
    /\ raced \in BOOLEAN

(* max_connections is kept unless two threads open connections at the same  *)
(* time, and then each of the others adds at most one.                      *)
LimitKept ==
    /\ ~raced => Total(available, in_use) <= MaxConnections
    /\ Total(available, in_use) < MaxConnections + Cardinality(Threads)

(* Nobody shares a connection: one that a thread holds is neither available *)
(* nor handed out again, in programs that release only what they hold.      *)
Exclusive ==
    "stray" \notin ops =>
        /\ \A i, k \in 1 .. Len(available) : available[i] = available[k] => i = k
        /\ Idles \cap in_use = {}
        /\ pool = "open" => in_use = {c \in Conns : holder[c] # NoConn}

(* No connection is leaked: every open one is in the pool or on its way     *)
(* there, except the first ones of a pool that could not be created and     *)
(* the one of a thread that panicked because the pool was closed.           *)
NoneLeaked ==
    /\ live \subseteq Idles \cup in_use \cup orphans \cup {got[t] : t \in Threads}
    /\ Idles \cup in_use \subseteq live

(* A connection in the pool has no open transaction, whatever failed while  *)
(* it was in use.                                                           *)
IdleIsClean == \A c \in Idles : ~InTx(c)

(* A thread only panics when a pool was closed under a thread that was      *)
(* opening a connection.                                                    *)
PanicNeedsClose == (\E t \in Threads : pc[t] = "panicked") => pool = "closed"

(* What sqlite_pool_ and pg_pool_ calls keep of the connections, whichever  *)
(* threads acquire, release, fail and close: nobody shares one, none is     *)
(* leaked, the limit and the clean state of idle ones hold, and the stacks  *)
(* of the transaction scopes agree.                                         *)
ConnectionsSafe ==
    /\ PoolTypeOK
    /\ Exclusive
    /\ NoneLeaked
    /\ LimitKept
    /\ IdleIsClean
    /\ PanicNeedsClose
    /\ StacksAgree
    /\ DepthAgrees

=============================================================================
