---------------------------- MODULE SsaPromotion ----------------------------
(***************************************************************************)
(* mem2reg_promote, ir/ssa.rs: a local variable of a function, kept in a   *)
(* stack slot by the lowering, becomes SSA values.  The immediate          *)
(* dominators (the sweeps of DomInfo::compute, one a step), the dominance  *)
(* frontiers, the blocks that need a phi, the renaming over the dominator  *)
(* tree; then the function is executed before and after at once: memory    *)
(* is the slot, registers are what the values hold.                        *)
(*                                                                         *)
(* One variable that every block loads, and stores after it or does not.   *)
(* Promoted variables do not meet, except in the position of their phis.   *)
(* As the lowering leaves it, no block goes to the entry or to one block   *)
(* twice.                                                                  *)
(***************************************************************************)
EXTENDS Integers, Sequences, SequencesExt

CONSTANTS
    LastBlock,      \* the blocks are 0 .. LastBlock; 0 is the entry
    Functions       \* the functions: the successors of each block and the blocks that store

Blocks == 0 .. LastBlock
Entry  == 0
NoBlock == LastBlock + 1

ASSUME FunctionAssumption ==
    \A f \in Functions :
        /\ f.succs \in [Blocks -> Seq(Blocks)] /\ f.storing \subseteq Blocks
        /\ \A b \in Blocks : Entry \notin ToSet(f.succs[b]) /\ IsInjective(f.succs[b])

VARIABLES
    func,         \* the function
    idom,         \* immediate dominators found so far
    ssa,          \* the promoted function: its phis, its loads and the operands of its phis
    current,      \* the block that is executed, NoBlock before the promotion is done
    memory,       \* what the slot holds on entry to it
    registers     \* what the SSA values hold

ssaVars == <<func, idom, ssa, current, memory, registers>>

-----------------------------------------------------------------------------
(* The control flow graph, ir/cfg.rs.                                      *)

Succs(b) == ToSet(func.succs[b])
Preds(b) == SetToSortSeq({p \in Blocks : b \in Succs(p)}, <)

\* Depth first with a stack of blocks and the edges already followed.
RECURSIVE Rpo(_, _, _)
Rpo(stack, visited, order) ==
    IF stack = <<>> THEN order
    ELSE LET top  == Last(stack)
             rest == Append(Front(stack), [top EXCEPT !.edge = @ + 1])
             v    == func.succs[top.block][top.edge]
         IN  IF top.edge > Len(func.succs[top.block])
             THEN Rpo(Front(stack), visited, <<top.block>> \o order)
             ELSE IF v \in visited THEN Rpo(rest, visited, order)
             ELSE Rpo(Append(rest, [block |-> v, edge |-> 1]), visited \cup {v}, order)

ReversePostorder == Rpo(<<[block |-> Entry, edge |-> 1]>>, {Entry}, <<>>)
Reachable == ToSet(ReversePostorder)

-----------------------------------------------------------------------------
(* Dominators, ir/dom.rs.                                                  *)

\* Mutant: both blocks go up at once, whichever is the deeper.
RECURSIVE Mut_Intersect(_, _, _, _)
Mut_Intersect(b1, b2, id, index) ==
    IF b1 = b2 THEN b1 ELSE Mut_Intersect(id[b1], id[b2], id, index)

RECURSIVE Intersect(_, _, _, _)
Intersect(b1, b2, id, index) ==
    IF b1 = b2 THEN b1
    ELSE IF index[b1] > index[b2] THEN Intersect(id[b1], b2, id, index)
    ELSE Intersect(b1, id[b2], id, index)

\* The intersection of the predecessors that have a dominator yet.
NewIdom(b, id, index) ==
    LET known == SelectSeq(Preds(b), LAMBDA p : p \in Reachable /\ id[p] # NoBlock)
    IN  IF known = <<>> THEN id[b]
        ELSE FoldLeft(LAMBDA q, p : Intersect(p, q, id, index), known[1], Tail(known))

\* One pass over the blocks in reverse postorder.
Sweep(id) ==
    LET rpo == ReversePostorder
        index == [b \in Blocks |-> IF b \in ToSet(rpo) THEN CHOOSE i \in DOMAIN rpo : rpo[i] = b
                                   ELSE NoBlock]
    IN  FoldLeft(LAMBDA d, b : [d EXCEPT ![b] = NewIdom(b, d, index)], id, Tail(rpo))

DomTree(b) == SetToSortSeq({c \in Blocks \ {b} : idom[c] = b}, <)

\* The blocks from a predecessor up to, and without, a block.
RECURSIVE Runners(_, _)
Runners(r, stop) ==
    IF r = stop THEN {}
    ELSE IF idom[r] = NoBlock THEN {r} ELSE {r} \cup Runners(idom[r], stop)

Frontier(a) ==
    {b \in Reachable : /\ Len(Preds(b)) >= 2
                       /\ \E p \in ToSet(Preds(b)) : a \in Runners(p, idom[b])}

-----------------------------------------------------------------------------
(* Promotion, ir/ssa.rs.                                                   *)

\* The blocks that get a phi from a work list of blocks that define the variable.
RECURSIVE Spread(_, _)
Spread(placed, work) ==
    IF work = {} THEN placed
    ELSE LET new == UNION {Frontier(x) : x \in work} \ placed
         IN  Spread(placed \cup new, new \ func.storing)

PlacePhis == Spread({}, func.storing)

\* An SSA value: the result of a phi, what a block stores, or the constant 0.
Phi(b)    == <<"phi", b>>
Stored(b) == <<"store", b>>
Zero      == <<"zero", Entry>>

Newest(stack) == IF stack = <<>> THEN Zero ELSE Last(stack)

Popped(stack, pushed) == SubSeq(stack, 1, Len(stack) - pushed)

\* rename_block: r has the stack of values, the loads and the operands so far.
RECURSIVE Rename(_, _, _)
Rename(b, phis, r) ==
    LET opened == IF b \in phis THEN [r EXCEPT !.stack = Append(@, Phi(b))] ELSE r
        loaded == [opened EXCEPT !.loads[b] = Newest(opened.stack)]
        stored == IF b \in func.storing THEN [loaded EXCEPT !.stack = Append(@, Stored(b))]
                  ELSE loaded
        leaving == [stored EXCEPT !.operands =
                      [e \in DOMAIN @ |-> IF e[1] = b /\ e[2] \in Succs(b) \cap phis
                                          THEN Newest(stored.stack) ELSE @[e]]]
        below == FoldLeft(LAMBDA x, c : Rename(c, phis, x), leaving, DomTree(b))
        pushed == Len(stored.stack) - Len(r.stack)
    IN  [below EXCEPT !.stack = Popped(@, pushed)]

Promoted ==
    LET phis == PlacePhis
        start == [stack |-> <<>>, loads |-> [b \in Blocks |-> Zero],
                  operands |-> [e \in Blocks \X phis |-> Zero]]
        end == Rename(Entry, phis, start)
    IN  [phis |-> phis, loads |-> end.loads, operands |-> end.operands]

-----------------------------------------------------------------------------

NoSsa == [phis |-> {}, loads |-> <<>>, operands |-> <<>>]

SsaInit ==
    /\ func \in Functions
    /\ idom = [b \in Blocks |-> IF b = Entry THEN Entry ELSE NoBlock]
    /\ ssa = NoSsa
    /\ current = NoBlock
    /\ memory = Zero
    /\ registers = <<>>

ComputeDominators ==
    /\ current = NoBlock
    /\ Sweep(idom) # idom
    /\ idom' = Sweep(idom)
    /\ UNCHANGED <<func, ssa, current, memory, registers>>

\* A dynamic value: the block that stored it, and which of two it was.
Promote ==
    /\ current = NoBlock
    /\ Sweep(idom) = idom
    /\ ssa' = Promoted
    /\ current' = Entry
    /\ memory' = Zero
    /\ registers' = [v \in {Phi(b) : b \in ssa'.phis} \cup {Stored(b) : b \in func.storing}
                           \cup {Zero} |-> Zero]
    /\ UNCHANGED <<func, idom>>

\* What block b stores: not what it stored before.
Fresh(b) == IF registers[Stored(b)] = <<"first", b>> THEN <<"second", b>> ELSE <<"first", b>>

\* The block is executed to its end and control goes to a successor.
Execute ==
    LET b == current
        after == IF b \in func.storing THEN [registers EXCEPT ![Stored(b)] = Fresh(b)]
                 ELSE registers
    IN  /\ current # NoBlock
        /\ \E c \in Succs(b) :
              /\ current' = c
              /\ memory' = IF b \in func.storing THEN Fresh(b) ELSE memory
              /\ registers' = IF c \in ssa.phis
                              THEN [after EXCEPT ![Phi(c)] = after[ssa.operands[<<b, c>>]]]
                              ELSE after
        /\ UNCHANGED <<func, idom, ssa>>

SsaNext == ComputeDominators \/ Promote \/ Execute

-----------------------------------------------------------------------------
(* Properties.                                                             *)

\* The blocks on some path from the entry to b that avoids a.
RECURSIVE Avoiding(_, _)
Avoiding(a, seen) ==
    LET more == (UNION {Succs(b) : b \in seen}) \ ({a} \cup seen)
    IN  IF more = {} THEN seen ELSE Avoiding(a, seen \cup more)

\* Every path from the entry to b goes through a.
Dominates(a, b) == a = b \/ a = Entry \/ b \notin Avoiding(a, {Entry})

RECURSIVE Ancestors(_)
Ancestors(b) == IF idom[b] = b THEN {b} ELSE {b} \cup Ancestors(idom[b])

(* The sweeps end with the dominators of every block that can be reached: a   *)
(* block's chain of immediate dominators is the set of blocks on all paths    *)
(* to it, in graphs with loops that have two entries too.                     *)
DominatorsExact ==
    current = Entry =>
        \A b \in Reachable : Ancestors(b) = {a \in Reachable : Dominates(a, b)}

(* Whichever path is taken, a load that was replaced by an SSA value gives    *)
(* what the slot holds: the phis are where two definitions meet, and their    *)
(* operands and the loads get the definition that reaches them, in loops the  *)
(* one of the same iteration.                                                 *)
LoadsAgree == current # NoBlock => registers[ssa.loads[current]] = memory

(* Promotion is sound: the dominators it rests on are exact and every load it *)
(* replaced gives what memory holds (mem2reg_promote).                         *)
PromotionSound == DominatorsExact /\ LoadsAgree

=============================================================================
