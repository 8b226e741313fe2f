------------------------------ MODULE NestedTx ------------------------------
(***************************************************************************)
(* What transaction scopes promise on one connection: scopes nest, what is *)
(* written belongs to the innermost one, a scope that ends with success    *)
(* hands its writes to the scope around it, one that fails drops them, and *)
(* the outermost scope makes them permanent.                               *)
(***************************************************************************)
EXTENDS Integers, Sequences

CONSTANT Writes

VARIABLES
    stack,        \* the writes of each open scope, the outermost first
    committed,    \* the writes that are permanent
    verdict       \* what the caller said of the scope that ended last

Init == stack = <<>> /\ committed = {} /\ verdict = TRUE

Begin == stack' = Append(stack, {}) /\ UNCHANGED <<committed, verdict>>

Write(w) ==
    /\ IF stack = <<>>
       THEN committed' = committed \cup {w} /\ UNCHANGED stack
       ELSE /\ stack' = [stack EXCEPT ![Len(stack)] = @ \cup {w}]
            /\ UNCHANGED committed
    /\ UNCHANGED verdict

Succeed ==
    /\ stack # <<>>
    /\ verdict' = TRUE
    /\ LET n == Len(stack)
       IN IF n = 1
          THEN stack' = <<>> /\ committed' = committed \cup stack[1]
          ELSE /\ stack' = [i \in 1 .. n - 1 |-> IF i = n - 1
                               THEN stack[i] \cup stack[n] ELSE stack[i]]
               /\ UNCHANGED committed

Fail ==
    /\ stack # <<>>
    /\ verdict' = FALSE
    /\ stack' = SubSeq(stack, 1, Len(stack) - 1)
    /\ UNCHANGED committed

Next == Begin \/ Succeed \/ Fail \/ \E w \in Writes : Write(w)

Spec == Init /\ [][Next]_<<stack, committed, verdict>>
=============================================================================
