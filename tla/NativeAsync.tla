---------------------------- MODULE NativeAsync ----------------------------
(***************************************************************************)
(* Tasks of native programs: the registry of async_rt.rs and the poll      *)
(* functions that async_lower.rs makes of async bodies.  The registry is   *)
(* under one lock, which arth_rt_await holds to read a task and to record  *)
(* the outcome of a poll, and not while the poll function runs.            *)
(*                                                                         *)
(* A lowered body with n await points is a machine with the states 0..n in *)
(* its frame.  State 0 runs the code before the first await and stores the *)
(* awaited handle; each later state but the last only moves on; the last   *)
(* one takes the error or the result of the stored handle.  Poll functions *)
(* that are not lowered bodies answer as they like (ExtFns).               *)
(***************************************************************************)
EXTENDS Naturals, FiniteSets

CONSTANTS
    Callers,     \* threads that call the runtime
    Awaits,      \* [lowered function |-> number of its await points]
    ExtFns,      \* poll functions of another origin
    Plain,       \* functions whose poll function is never registered
    FnSets,      \* the sets of functions a program may consist of
    MaxTasks,    \* bound on spawned tasks
    MaxCalls,    \* bound on the cancels and awaits of a thread
    MaxPend      \* bound on the polls of an ExtFn that answer PENDING

LoweredFns == DOMAIN Awaits

ASSUME AsyncAssumption ==
    /\ \A f \in LoweredFns : Awaits[f] \in Nat
    /\ LoweredFns \cap ExtFns = {}
    /\ Plain \subseteq LoweredFns
    /\ \A fs \in FnSets : fs \subseteq LoweredFns \cup ExtFns
    /\ {MaxTasks, MaxCalls, MaxPend} \subseteq Nat

VARIABLES
    fns,         \* the functions of this program
    tasks,       \* [handle |-> [fn, state, result, exception, cancelled]]
    frames,      \* [handle |-> [state, result, exception, awaited]]
    call,        \* [thread |-> its await: pc, task, poll code, values read]
    calls,       \* calls a thread may still make
    awaiters     \* history: the threads that awaited a task

asyncVars == <<fns, tasks, frames, call, calls, awaiters>>

Fns == LoweredFns \cup ExtFns
Handles == 1 .. MaxTasks
Spawned == DOMAIN tasks

\* A result, an exception and "nothing yet" (0) are all there is to tell apart.
Result == 1
Exception == 2
Value == {0, Result, Exception}

TaskStates == {"Ready", "Waiting", "Completed", "Cancelled", "Panicked", "Error"}
Settled == {"Completed", "Cancelled", "Panicked", "Error"}
Failed == {"Error", "Panicked"}
PollCodes == {"READY", "PENDING", "CANCELLED", "PANICKED", "ERROR", "unknown"}

NoCall == [pc |-> "idle", task |-> 0, code |-> "PENDING", at |-> 0, aw |-> 0,
           failed |-> FALSE, err |-> 0, res |-> 0, join |-> FALSE, ret |-> 0]

AsyncInit ==
    /\ fns \in FnSets
    /\ tasks = <<>>
    /\ frames = <<>>
    /\ call = [t \in Callers |-> NoCall]
    /\ calls = [t \in Callers |-> MaxCalls]
    /\ awaiters = <<>>

Goto(t, p) == call' = [call EXCEPT ![t].pc = p]

\* The call of t at p, with nothing kept of the poll.
At(t, p) == [NoCall EXCEPT !.pc = p, !.task = call[t].task, !.join = call[t].join]

\* The poll function answers.
Answer(t, code) == call' = [call EXCEPT ![t] = [At(t, "record") EXCEPT !.code = code]]

Extend(f, h, v) == [g \in DOMAIN f \cup {h} |-> IF g = h THEN v ELSE f[g]]

-----------------------------------------------------------------------------
(* Spawning and cancelling.                                                *)

NextHandle == Cardinality(Spawned) + 1

\* The task and the zeroed frame that the wrapper of f makes.
NewTask(f) == [fn |-> f, state |-> "Ready", result |-> 0, exception |-> 0,
               cancelled |-> FALSE]
NewFrame == [state |-> 0, result |-> 0, exception |-> 0, awaited |-> 0]

AddTask(f) ==
    /\ NextHandle <= MaxTasks
    /\ tasks' = Extend(tasks, NextHandle, NewTask(f))
    /\ frames' = Extend(frames, NextHandle, NewFrame)
    /\ awaiters' = Extend(awaiters, NextHandle, {})

Spawn(t, f) ==
    /\ call[t].pc = "idle"
    /\ AddTask(f)
    /\ UNCHANGED <<call, calls>>

Cancelled(h) == [tasks EXCEPT ![h].cancelled = TRUE, ![h].state = "Cancelled"]

\* arth_rt_task_cancel: whatever the task's state was, it is Cancelled.
Cancel(t, h) ==
    /\ call[t].pc = "idle" /\ calls[t] > 0
    /\ h \in Spawned
    /\ tasks' = Cancelled(h)
    /\ calls' = [calls EXCEPT ![t] = @ - 1]
    /\ UNCHANGED <<frames, call, awaiters>>

-----------------------------------------------------------------------------
(* arth_rt_await and arth_rt_task_join.                                    *)

Await(t, h, join) ==
    /\ call[t].pc = "idle" /\ calls[t] > 0
    /\ h \in Spawned
    /\ call' = [call EXCEPT ![t] = [NoCall EXCEPT !.pc = "read", !.task = h, !.join = join]]
    /\ calls' = [calls EXCEPT ![t] = @ - 1]
    /\ awaiters' = [awaiters EXCEPT ![h] = @ \cup {t}]
    /\ UNCHANGED <<tasks, frames>>

\* What follows a read of the task's state at the head of the loop.
AfterRead(task) ==
    CASE task.state = "Completed" -> "return"
      [] task.state \in {"Error", "Panicked", "Cancelled"} -> "exception"
      [] task.state \in {"Ready", "Waiting"} /\ task.fn \in Plain -> "unregistered"
      [] OTHER -> "poll"

ReadTask(t) ==
    /\ call[t].pc = "read"
    /\ LET task == tasks[call[t].task]
       IN call' = [call EXCEPT ![t] = [At(t, AfterRead(task)) EXCEPT !.ret =
                     IF AfterRead(task) \in {"return", "unregistered"} THEN task.result ELSE 0]]
    /\ UNCHANGED <<tasks, frames, calls, awaiters>>

\* The error value is read under the lock again.
ReadException(t) ==
    /\ call[t].pc = "exception"
    /\ call' = [call EXCEPT ![t].pc = "return", ![t].ret = tasks[call[t].task].exception]
    /\ UNCHANGED <<tasks, frames, calls, awaiters>>

\* No poll function: the task counts as completed, whatever happened to it since.
Unregistered(t) ==
    /\ call[t].pc = "unregistered"
    /\ tasks' = [tasks EXCEPT ![call[t].task].state = "Completed"]
    /\ Goto(t, "return")
    /\ UNCHANGED <<frames, calls, awaiters>>

Mut_Recorded(task, frame, code) ==
    CASE code = "READY" -> [task EXCEPT !.state = "Completed", !.result = frame.result]
      [] code = "PENDING" -> [task EXCEPT !.state = "Waiting"]
      [] code = "CANCELLED" -> [task EXCEPT !.state = "Cancelled"]
      [] code = "PANICKED" ->
           [task EXCEPT !.state = "Panicked", !.exception = frame.exception]
      [] OTHER -> [task EXCEPT !.state = "Error"]

\* What the registry keeps of a poll that answered code, with the frame as it is.
Recorded(task, frame, code) ==
    CASE code = "READY" -> [task EXCEPT !.state = "Completed", !.result = frame.result]
      [] code = "PENDING" -> [task EXCEPT !.state = "Waiting"]
      [] code = "CANCELLED" -> [task EXCEPT !.state = "Cancelled"]
      [] code = "PANICKED" ->
           [task EXCEPT !.state = "Panicked", !.exception = frame.exception]
      [] code = "ERROR" -> [task EXCEPT !.state = "Error", !.exception = frame.exception]
      [] OTHER -> [task EXCEPT !.state = "Error"]

RecordPoll(t) ==
    /\ call[t].pc = "record"
    /\ LET h == call[t].task
       IN tasks' = [tasks EXCEPT ![h] = Recorded(@, frames[h], call[t].code)]
    /\ call' = [call EXCEPT ![t] = At(t, "read")]
    /\ UNCHANGED <<frames, calls, awaiters>>

\* join looks at the task once more, and prefers its error to the result.
ReturnValue(t) ==
    LET task == tasks[call[t].task]
    IN IF call[t].join /\ task.state \in Failed THEN task.exception ELSE call[t].ret

\* The thread has ReturnValue(t).
Return(t) ==
    /\ call[t].pc = "return"
    /\ call' = [call EXCEPT ![t] = NoCall]
    /\ UNCHANGED <<tasks, frames, calls, awaiters>>

-----------------------------------------------------------------------------
(* A poll function that is not a lowered body.                             *)

\* It advances, or ends in any way and leaves its value in the frame.
ExtPoll(t) ==
    LET h == call[t].task
    IN /\ call[t].pc = "poll"
       /\ tasks[h].fn \in ExtFns
       /\ \/ /\ frames[h].state < MaxPend
             /\ frames' = [frames EXCEPT ![h].state = @ + 1]
             /\ Answer(t, "PENDING")
          \/ /\ frames' = [frames EXCEPT ![h].result = Result]
             /\ Answer(t, "READY")
          \/ /\ frames' = [frames EXCEPT ![h].exception = Exception]
             /\ \E code \in {"PANICKED", "ERROR", "unknown"} : Answer(t, code)
          \/ /\ frames' = frames
             /\ Answer(t, "CANCELLED")
    /\ UNCHANGED <<tasks, calls, awaiters>>

-----------------------------------------------------------------------------
(* The poll function of a lowered body.                                    *)

\* A body without awaits answers READY and leaves the frame alone.
TrivialPoll(t) ==
    /\ call[t].pc = "poll"
    /\ tasks[call[t].task].fn \in LoweredFns
    /\ Awaits[tasks[call[t].task].fn] = 0
    /\ Answer(t, "READY")
    /\ UNCHANGED <<tasks, frames, calls, awaiters>>

Mut_Proceeds(task) == TRUE

\* entry: a cancelled task answers ERROR; its CancelledError is not stored.
Proceeds(task) == ~task.cancelled

PollEntry(t) ==
    LET task == tasks[call[t].task]
    IN /\ call[t].pc = "poll"
       /\ task.fn \in LoweredFns
       /\ Awaits[task.fn] > 0
       /\ IF Proceeds(task) THEN Goto(t, "dispatch") ELSE Answer(t, "ERROR")
       /\ UNCHANGED <<tasks, frames, calls, awaiters>>

Dispatch(t) ==
    /\ call[t].pc = "dispatch"
    /\ LET frame == frames[call[t].task]
       IN call' = [call EXCEPT ![t].at = frame.state,
                               ![t].pc = IF frame.state = 0 THEN "state_0" ELSE "resume"]
    /\ UNCHANGED <<tasks, frames, calls, awaiters>>

\* The code before the first await awaits a new task or one it was given, and
\* may have cancelled a task.
FirstState(t) ==
    LET h == call[t].task
        Suspend(fs, aw) == [fs EXCEPT ![h].awaited = aw, ![h].state = 1]
    IN /\ call[t].pc = "state_0"
       /\ \/ \E f \in fns :
               /\ NextHandle <= MaxTasks
               /\ tasks' = Extend(tasks, NextHandle, NewTask(f))
               /\ awaiters' = Extend(awaiters, NextHandle, {})
               /\ frames' = Suspend(Extend(frames, NextHandle, NewFrame), NextHandle)
          \/ \E aw \in (Spawned \ {h}) \cup {0}, k \in Spawned \cup {0} :
               /\ tasks' = IF k = 0 THEN tasks ELSE Cancelled(k)
               /\ frames' = Suspend(frames, aw)
               /\ UNCHANGED awaiters
       /\ Answer(t, "PENDING")
       /\ UNCHANGED calls

\* has_error, get_error and get_result of the stored handle, each under the lock;
\* an unknown handle has neither error nor result.
Unknown == [state |-> "Completed", result |-> 0, exception |-> 0]
Lookup(h) == IF h \in Spawned THEN tasks[h] ELSE Unknown

HasError(t) ==
    /\ call[t].pc = "resume"
    /\ LET aw == frames[call[t].task].awaited
       IN call' = [call EXCEPT ![t].pc = "get_error", ![t].aw = aw,
                               ![t].failed = Lookup(aw).state \in Failed]
    /\ UNCHANGED <<tasks, frames, calls, awaiters>>

GetError(t) ==
    /\ call[t].pc = "get_error"
    /\ call' = [call EXCEPT ![t].pc = "get_result", ![t].err = Lookup(call[t].aw).exception]
    /\ UNCHANGED <<tasks, frames, calls, awaiters>>

IsLastAwait(t) == call[t].at >= Awaits[tasks[call[t].task].fn]

GetResult(t) ==
    /\ call[t].pc = "get_result"
    /\ call' = [call EXCEPT ![t].pc = IF IsLastAwait(t) THEN "last" ELSE "inter",
                            ![t].res = Lookup(call[t].aw).result]
    /\ UNCHANGED <<tasks, frames, calls, awaiters>>

Mut_InterState(t) ==
    /\ call[t].pc = "inter"
    /\ Answer(t, "PENDING")
    /\ UNCHANGED <<tasks, frames, calls, awaiters>>

\* generate_inter_await_code: only the state moves; an error is not looked at.
InterState(t) ==
    /\ call[t].pc = "inter"
    /\ frames' = [frames EXCEPT ![call[t].task].state = call[t].at + 1]
    /\ Answer(t, "PENDING")
    /\ UNCHANGED <<tasks, calls, awaiters>>

LastState(t) ==
    /\ call[t].pc = "last"
    /\ frames' = [frames EXCEPT ![call[t].task].result = call[t].res,
                                ![call[t].task].exception = call[t].err]
    /\ Answer(t, IF call[t].failed THEN "ERROR" ELSE "READY")
    /\ UNCHANGED <<tasks, calls, awaiters>>

-----------------------------------------------------------------------------

\* The steps of a call in progress.
Running(t) ==
    \/ ReadTask(t) \/ ReadException(t) \/ Unregistered(t) \/ RecordPoll(t) \/ Return(t)
    \/ ExtPoll(t) \/ TrivialPoll(t) \/ PollEntry(t) \/ Dispatch(t) \/ FirstState(t)
    \/ HasError(t) \/ GetError(t) \/ GetResult(t) \/ InterState(t) \/ LastState(t)

AsyncNext ==
    /\ UNCHANGED fns
    /\ \E t \in Callers :
        \/ \E f \in fns : Spawn(t, f)
        \/ \E h \in Handles : Cancel(t, h)
        \/ \E h \in Handles, join \in BOOLEAN : Await(t, h, join)
        \/ Running(t)

AsyncSpec == AsyncInit /\ [][AsyncNext]_asyncVars

\* A thread in a call is scheduled.
AsyncFairness == \A t \in Callers : WF_asyncVars(Running(t) /\ UNCHANGED fns)

-----------------------------------------------------------------------------
(* Properties.                                                             *)

\* The tasks, frames and calls keep their shapes.
AsyncTypeOK ==
    /\ Spawned \subseteq Handles
    /\ DOMAIN frames = Spawned /\ DOMAIN awaiters = Spawned
    /\ \A h \in Spawned :
         /\ tasks[h] \in [fn : Fns, state : TaskStates, result : Value,
                          exception : Value, cancelled : BOOLEAN]
         /\ frames[h].state \in 0 .. MaxPend \/ frames[h].state <= Awaits[tasks[h].fn]
         /\ frames[h].awaited \in Spawned \cup {0}
    /\ \A t \in Callers : call[t].task \in Spawned \cup {0}

\* No two threads ever awaited h.
Sole(h) == Cardinality(awaiters[h]) <= 1

\* A thread is inside the poll function of h, or has yet to record its answer.
InPoll(h) == \E t \in Callers : call[t].task = h /\ call[t].pc \notin
                 {"idle", "read", "exception", "return"}

\* A lowered body that nobody cancelled and no two threads drive ends in Error
\* only with the failure of the task it awaited last, and with that very
\* exception (arth_rt_await loads it from the frame, LastState put it there).
ErrorIsPropagated ==
    \A h \in Spawned :
        (tasks[h].fn \in LoweredFns /\ tasks[h].state = "Error" /\ ~tasks[h].cancelled
           /\ Sole(h))
        => LET aw == frames[h].awaited
           IN /\ aw \in Spawned
              /\ Sole(aw) => /\ tasks[aw].state \in Failed \/ tasks[aw].cancelled
                             /\ tasks[aw].exception = tasks[h].exception

\* A thread runs the body of h, past the check at its entry.
InBody(h) == \E t \in Callers : call[t].task = h /\ call[t].pc \in
                 {"dispatch", "state_0", "resume", "get_error", "get_result", "inter", "last"}

\* Once a task is cancelled and no thread is inside its body, the body never
\* runs again: the check at the entry of the poll function stops it even when a
\* late answer has put the task back to Waiting.
CancelStopsBody ==
    [][\A h \in Spawned :
          (tasks[h].cancelled /\ tasks[h].fn \in LoweredFns /\ ~InBody(h))
          => frames'[h] = frames[h] /\ ~InBody(h)']_asyncVars

\* A task that has settled while nobody polls it stays settled and is not
\* polled again: its outcome changes only by a cancel, which keeps the values.
SettledStays ==
    [][\A h \in Spawned :
          (tasks[h].state \in Settled /\ ~InPoll(h))
          => /\ tasks'[h].state \in {tasks[h].state, "Cancelled"}
             /\ tasks'[h].result = tasks[h].result
             /\ tasks'[h].exception = tasks[h].exception
             /\ frames'[h] = frames[h]
             /\ ~InPoll(h)']_asyncVars

\* What an await hands back is the outcome of the task: the result of one that
\* completed and the exception of one that failed (arth_rt_await looks at the
\* registry again after every poll).
AwaitReturnsOutcome ==
    [][\A t \in Callers :
          (call[t].pc = "return" /\ call'[t].pc = "idle")
          => LET task == tasks[call[t].task]
             IN (Sole(call[t].task) /\ ~task.cancelled)
                => /\ task.state \in Settled
                   /\ ReturnValue(t) = IF task.state = "Completed" THEN task.result
                                                                  ELSE task.exception]_asyncVars

\* Every await returns: a lowered body reaches its last state whatever becomes
\* of the tasks it awaits, and of the other threads that poll it.
AwaitReturns ==
    \A t \in Callers : (call[t].pc # "idle") ~> (call[t].pc = "idle")

\* Cancelled bodies stop, settled tasks stay settled and an await hands back what the task
\* settled with (arth_rt_await, the poll functions, arth_rt_task_cancel).
SettlesOnce == CancelStopsBody /\ SettledStays /\ AwaitReturnsOutcome

=============================================================================
