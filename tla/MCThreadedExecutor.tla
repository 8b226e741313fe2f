------------------------- MODULE MCThreadedExecutor -------------------------
(* Values of the constants of ThreadedExecutor for TLC.                    *)
EXTENDS ThreadedExecutor

MCSendable == {[sendable |-> TRUE, origin |-> 0]}

\* Tasks bound to the first worker, by an origin number beyond the range.
MCAffine == MCSendable \cup {[sendable |-> FALSE, origin |-> 3]}

\* Every reason to block, and the calls that end each of them.
SuspendOps == {"await", "recv", "send", "net", "sleep", "wake", "wake_all",
               "wake_net", "cancel"}

\* Bodies that finish other tasks by themselves.
FinishOps == {"sleep", "spawn", "start", "complete", "panic"}

\* One thread: tasks that block, tasks that wait for each other only, and
\* tasks that are finished by others.
MCSinglePrograms == {SuspendOps, {"await", "cancel"}, FinishOps}

\* Several workers: tasks that wait for messages, and embedding threads that
\* wake, cancel or complete them, or shut the executor down.
MCMultiPrograms == {{"recv", "wake", "cancel"}, {"complete", "shutdown"}}
=============================================================================
