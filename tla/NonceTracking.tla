--------------------------- MODULE NonceTracking ---------------------------
(***************************************************************************)
(* The nonce registry of the native crypto library, crypto.rs: the pairs   *)
(* of a key fingerprint and a nonce that were used, a set under a lock.    *)
(* It is consulted only while tracking is enabled; a call reads that flag  *)
(* before it takes the lock, so that the two may disagree.                 *)
(***************************************************************************)
EXTENDS Naturals

CONSTANTS
    Users,        \* threads that encrypt
    Nonces,       \* pairs of a key and a nonce
    MaxChecks     \* bound on the calls of a thread

ASSUME NonceAssumption == MaxChecks \in Nat

VARIABLES
    tracking,     \* NONCE_TRACKING_ENABLED
    nonces,       \* NONCE_REGISTRY
    at,           \* [thread |-> the call it is in, past the flag]
    checks,       \* calls a thread may still make
    marked,       \* history: the pairs inserted since the registry was cleared
    fresh         \* history: how often "first use" was answered since then

nonceVars == <<tracking, nonces, at, checks, marked, fresh>>

NonceInit ==
    /\ tracking = FALSE
    /\ nonces = {}
    /\ at = [u \in Users |-> "idle"]
    /\ checks = [u \in Users |-> MaxChecks]
    /\ marked = {}
    /\ fresh = [n \in Nonces |-> 0]

Begin(u) ==
    /\ at[u] = "idle" /\ checks[u] > 0
    /\ checks' = [checks EXCEPT ![u] = @ - 1]

End(u) == at' = [at EXCEPT ![u] = "idle"]

EnableTracking(u) ==
    /\ Begin(u)
    /\ tracking' \in BOOLEAN
    /\ UNCHANGED <<nonces, at, marked, fresh>>

\* check_and_mark, mark_used and clear go on if the flag is set, and answer -1
\* otherwise.
PassFlag(u, c) ==
    /\ Begin(u)
    /\ tracking
    /\ at' = [at EXCEPT ![u] = c]
    /\ UNCHANGED <<tracking, nonces, marked, fresh>>

Mut_MarkUsed(u, n) ==
    /\ at[u] \in {"mark_used", "check_and_mark"}
    /\ nonces' = IF tracking THEN nonces \cup {n} ELSE nonces
    /\ marked' = marked \cup {n}
    /\ fresh' = IF n \in nonces THEN fresh ELSE [fresh EXCEPT ![n] = @ + 1]
    /\ End(u)
    /\ UNCHANGED <<tracking, checks>>

\* One insertion under the lock: the answer is 0 for a pair that was not in the
\* set and 1 for one that was.
MarkUsed(u, n) ==
    /\ at[u] \in {"mark_used", "check_and_mark"}
    /\ nonces' = nonces \cup {n}
    /\ marked' = marked \cup {n}
    /\ fresh' = IF n \in nonces THEN fresh ELSE [fresh EXCEPT ![n] = @ + 1]
    /\ End(u)
    /\ UNCHANGED <<tracking, checks>>

ClearNonces(u) ==
    /\ at[u] = "clear"
    /\ nonces' = {}
    /\ marked' = {}
    /\ fresh' = [n \in Nonces |-> 0]
    /\ End(u)
    /\ UNCHANGED <<tracking, checks>>

NonceNext ==
    \E u \in Users :
        \/ EnableTracking(u)
        \/ \E c \in {"mark_used", "check_and_mark", "clear"} : PassFlag(u, c)
        \/ \E n \in Nonces : MarkUsed(u, n)
        \/ ClearNonces(u)

NonceSpec == NonceInit /\ [][NonceNext]_nonceVars

\* Between two clears, "first use" is answered exactly once for each key and
\* nonce that any call marked, however the calls interleave with each other and
\* with the switching of the flag they have read (arth_rt_aead_nonce_check_and_mark,
\* "a single atomic operation").
FreshOnce == \A n \in Nonces : fresh[n] = IF n \in marked THEN 1 ELSE 0

\* The inductive invariant: the registry holds what was marked.
NonceInv ==
    /\ nonces = marked
    /\ marked \subseteq Nonces
    /\ fresh \in [Nonces -> Nat]
    /\ FreshOnce

=============================================================================
