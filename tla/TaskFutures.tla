----------------------------- MODULE TaskFutures -----------------------------
(***************************************************************************)
(* What spawn and join promise to a program: a spawned task is a write-    *)
(* once future.  Its job never changes, it is resolved at most once, with  *)
(* the value the job has when it is evaluated sequentially, and a join     *)
(* that returns a value returns that one.                                  *)
(***************************************************************************)
CONSTANTS
    Task,       \* task ids
    Thread,     \* threads that join
    Value(_),   \* the value of a job
    Open        \* no value (yet)

VARIABLES
    work,       \* the jobs of the tasks created so far
    outcome,    \* the value of a task, or Open
    joined      \* what each thread's last join returned, or Open

futures == <<work, outcome, joined>>

Init ==
    /\ work = [t \in {} |-> Open]
    /\ outcome = [t \in Task |-> Open]
    /\ joined = [c \in Thread |-> Open]

\* Any job may be given to a new task; the others keep theirs.
Create(t) ==
    /\ t \notin DOMAIN work
    /\ DOMAIN work' = DOMAIN work \cup {t}
    /\ \A u \in DOMAIN work : work'[u] = work[u]
    /\ UNCHANGED <<outcome, joined>>

Resolve(t) ==
    /\ t \in DOMAIN work
    /\ outcome[t] = Open
    /\ outcome' = [outcome EXCEPT ![t] = Value(work[t])]
    /\ UNCHANGED <<work, joined>>

\* A join that finds no task returns no value; any other waits for the value.
Join(c, t) ==
    /\ t \in DOMAIN work => outcome[t] # Open
    /\ joined' = [joined EXCEPT ![c] = outcome[t]]
    /\ UNCHANGED <<work, outcome>>

Next ==
    \/ \E t \in Task : Create(t) \/ Resolve(t)
    \/ \E c \in Thread, t \in Task : Join(c, t)

Spec == Init /\ [][Next]_futures
=============================================================================
