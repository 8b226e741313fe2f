----------------------------- MODULE Retaining ------------------------------
(***************************************************************************)
(* Vec::retain and Iterator::filter of the standard library, for a         *)
(* condition that is given as a set: what DepGraph and ChannelSelect keep  *)
(* of a list.  SelectSeq does the same for a condition that is an operator *)
(* and is opaque to the provers.                                           *)
(***************************************************************************)
EXTENDS Integers, Sequences

\* The elements of s that are in S, in their order.
Retain(s, S) ==
    LET kept[i \in 0 .. Len(s)] ==
            IF i = 0 THEN <<>>
            ELSE IF s[i] \in S THEN Append(kept[i - 1], s[i]) ELSE kept[i - 1]
    IN  kept[Len(s)]

=============================================================================
