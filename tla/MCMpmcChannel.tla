---------------------------- MODULE MCMpmcChannel ----------------------------
(* Small instances of MpmcChannel: three tasks, and the mixes of operations *)
(* that programs use.                                                       *)
EXTENDS MpmcChannel, TLC

CONSTANTS t1, t2, t3

MCBounded   == {1}
MCCapacities == {0, 1, 2}
MCPayload(v) == v

AllOps == {"send", "send_and_wake", "send_with_task", "send_blocking", "recv",
           "recv_and_wake", "recv_with_task", "recv_blocking", "close"}

\* Senders that wait in every way, and receivers that wake them.
BackpressureOps == {"send", "send_with_task", "send_blocking", "recv_and_wake"}

\* Receivers that wait, and senders that wake them.
DeliveryOps == {"send_and_wake", "recv_with_task", "recv_and_wake", "recv",
                "close"}

\* Any mix of operations, and the two that keep one side from being stranded.
MCPrograms == {AllOps, BackpressureOps, DeliveryOps}

\* Only senders that suspend and receivers that wake them.
MCSuspending == {{"send_with_task", "recv_and_wake"}}

Symmetry == Permutations(Threads)
=============================================================================
