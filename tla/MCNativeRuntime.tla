-------------------------- MODULE MCNativeRuntime --------------------------
(* Small instances of the native runtime's asynchronous and shared parts.   *)
(* They share no state: a behaviour is one of either, and interleaving them *)
(* would add nothing.                                                       *)
EXTENDS NativeAsync, CryptoTasks, NonceTracking

\* Bodies with no, one and two await points, one of them never registered.
MCAwaits == [plain |-> 0, trivial |-> 0, one |-> 1, two |-> 2]

\* A program without functions uses the crypto library.
AsyncPrograms == {{"one", "ext"}, {"two"}, {"plain", "trivial"}}
MCFnSets == AsyncPrograms \cup {{}}

RuntimeInit == AsyncInit /\ CryptoInit /\ NonceInit

RuntimeNext ==
    \/ /\ fns # {}
       /\ AsyncNext
       /\ UNCHANGED <<cryptoVars, nonceVars>>
    \/ /\ fns = {} /\ NonceInit
       /\ CryptoNext
       /\ UNCHANGED <<asyncVars, nonceVars>>
    \/ /\ fns = {} /\ CryptoInit
       /\ NonceNext
       /\ UNCHANGED <<asyncVars, cryptoVars>>

runtimeVars == <<asyncVars, cryptoVars, nonceVars>>

RuntimeSpec ==
    /\ RuntimeInit
    /\ [][RuntimeNext]_runtimeVars
    /\ AsyncFairness
=============================================================================
