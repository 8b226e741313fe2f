-------------------------- MODULE MCConcurrentPool --------------------------
(* Values of the constants of ConcurrentPool for TLC.                      *)
EXTENDS ConcurrentPool, TLC

(* The results of the CPU-bound work types are opaque to the pool: one      *)
(* distinct value for each work type and argument.                          *)
MCCpu(fn, n) == 1000 * fn + n

MCInputs == {1, 2, 3, 4, 7, 10, 100}

\* A leaf job and one that awaits a sub-task.
MCAwaitJobs == { [fn |-> 2, args |-> <<4>>], [fn |-> 3, args |-> <<2, 4, 7>>] }

\* With a job whose sub-task awaits a sub-task of its own.
MCNestedJobs == MCAwaitJobs \cup { [fn |-> 3, args |-> <<3>>] }

Symmetry == Permutations(Workers) \cup Permutations(Clients)
=============================================================================
