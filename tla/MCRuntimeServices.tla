------------------------- MODULE MCRuntimeServices --------------------------
(* Small instances of the services of the VM's runtime that tasks use: an   *)
(* actor with its senders, message loop and supervisor; a thread that       *)
(* selects over two channels that the others fill and close; requests to    *)
(* the network; event loops; timers.  A behaviour is one of them.           *)
EXTENDS Actor, ChannelSelect, NetRequests, EventTimers, TLC

CONSTANTS t1, t2, t3

MCCapacities == {1}
MCPayload(v) == v

\* The programs that select, and those that do not use the channels.
SelectPrograms ==
    {{"select_with_task", "send_and_wake"},
     {"try_select", "send", "close"},
     {"select_blocking", "send", "recv_and_wake"}}
OtherPrograms == {{"actor"}, {"net"}, {"loop"}, {"timer"}}
MCPrograms == SelectPrograms \cup OtherPrograms

\* A listener, streams, an HTTP server and an HTTP client, with blocking calls or without.
MCPurposes == {{"accept", "blocking"}, {"read", "connect"}, {"serve", "send"},
               {"serve", "blocking"}, {"get"}}

ServiceInit ==
    /\ ActorInit /\ SelectInit /\ NetInit /\ LoopInit
    /\ "net" \notin ops => purpose = {"get"}

ServiceNext ==
    \/ "actor" \in ops /\ ActorNext /\ UNCHANGED <<selVars, netVars, loopVars>>
    \/ ops \in SelectPrograms /\ SelectNext /\ UNCHANGED <<actorVars, netVars, loopVars>>
    \/ "net" \in ops /\ NetNext /\ UNCHANGED <<allVars, selVars, loopVars>>
    \/ "loop" \in ops /\ LoopNext /\ UNCHANGED <<allVars, selVars, netVars>>
    \/ "timer" \in ops /\ TimerNext /\ UNCHANGED <<allVars, selVars, netVars>>

serviceVars == <<allVars, selVars, netVars, loopVars>>

ServiceSpec == ServiceInit /\ [][ServiceNext]_serviceVars

\* One actor.
OneActor == "actor" \in ops => next_chan <= 2

Symmetry == Permutations(Threads \ Selectors)
=============================================================================
