------------------------------- MODULE Lowering -------------------------------
(***************************************************************************)
(* The lowering of structured statements to basic blocks: lower_block and  *)
(* lower_stmt of lower/hir_to_ir.rs, for the VM.                           *)
(*                                                                         *)
(* A block is its instructions and its terminator, the default terminator  *)
(* being a return without a value.  A lowering is the blocks so far, the   *)
(* current one, whether a call may unwind into this function, the finally  *)
(* blocks and loops it is in, its drop scopes, and the slot of the         *)
(* variable of the enclosing catch.  Loop regions are left out: on the VM  *)
(* nothing is allocated in them.                                           *)
(***************************************************************************)
EXTENDS StructuredCode

New == [code |-> <<>>, term |-> [op |-> "ret"]]

Empty == [blocks |-> <<New>>, cur |-> 1, unwind |-> FALSE, fins |-> <<>>, loops |-> <<>>,
          scopes |-> <<<<>>>>, var |-> 0]

NewBlocks(L, n) == [L EXCEPT !.blocks = @ \o [i \in 1 .. n |-> New]]
SetCur(L, b) == [L EXCEPT !.cur = b]
Emit(L, inst) == [L EXCEPT !.blocks[L.cur].code = Append(@, inst)]
SetTerm(L, term) == [L EXCEPT !.blocks[L.cur].term = term]
Br(b) == [op |-> "br", to |-> b]

Term(L) == L.blocks[L.cur].term.op

\* The terminators that count as explicit.
Terminated(L) == Term(L) \in {"retval", "throw", "rethrow", "panic", "br", "cond", "match"}

SetTermIfFallthrough(L, term) ==
    IF Term(L) \in {"retval", "throw", "rethrow", "panic", "br"} THEN L ELSE SetTerm(L, term)

\* Drops for the scopes above a depth, the last declared first.
EmitDrops(L, depth) ==
    LET owned == Reverse(FlattenSeq(SubSeq(L.scopes, depth + 1, Len(L.scopes))))
    IN  [L EXCEPT !.blocks[L.cur].code =
            @ \o [i \in DOMAIN owned |-> [op |-> "drop", n |-> owned[i]]]]

PushScope(L) == [L EXCEPT !.scopes = Append(@, <<>>)]
PopScope(L) == [EmitDrops(L, Len(L.scopes) - 1) EXCEPT !.scopes = Front(@)]

RECURSIVE LowerStmt(_, _), LowerStmts(_, _)

LowerStmts(L, stmts) ==
    IF stmts = <<>> THEN L
    ELSE LET M == LowerStmt(L, Head(stmts))
         IN  IF Terminated(M) THEN M ELSE LowerStmts(M, Tail(stmts))

\* The scope of a block that is terminated is not popped.
LowerBlock(L, stmts) ==
    LET M == LowerStmts(PushScope(L), stmts) IN IF Terminated(M) THEN M ELSE PopScope(M)

\* Inside a try a call ends its block.
LowerCall(L, f) ==
    LET normal == Len(L.blocks) + 1
    IN  IF L.unwind
        THEN SetCur(NewBlocks(SetTerm(L, [op |-> "invoke", f |-> f, to |-> normal]), 1), normal)
        ELSE Emit(L, [op |-> "call", f |-> f])

\* The result of an extern function marked @ffi_owned is dropped with its block.
\* No driver says which types have a deinit, so nothing else is ever dropped.
LowerOwned(L, s) == Emit([L EXCEPT !.scopes[Len(L.scopes)] = Append(@, s.n)], s)

LowerIf(L, s) ==
    LET then == Len(L.blocks) + 1
        else == then + 1
        join == then + 2
        M == SetTerm(NewBlocks(L, 3), [op |-> "cond", then |-> then, else |-> else])
        T == SetTermIfFallthrough(LowerBlock(SetCur(M, then), s.then), Br(join))
        E == SetTermIfFallthrough(LowerBlock(SetCur(T, else), s.else), Br(join))
    IN  SetCur(E, join)

\* The branch back replaces whatever ended the body.
LowerWhile(L, s) ==
    LET header == Len(L.blocks) + 1
        body == header + 1
        exit == header + 2
        H == SetTerm(SetCur(SetTerm(NewBlocks(L, 3), Br(header)), header),
                     [op |-> "cond", then |-> body, else |-> exit])
        loop == [brk |-> exit, cont |-> header, depth |-> Len(L.scopes)]
        B == LowerBlock(PushScope([SetCur(H, body) EXCEPT !.loops = Append(@, loop)]), s.body)
    IN  SetCur([SetTerm(PopScope(B), Br(header)) EXCEPT !.loops = L.loops], exit)

ExitLoop(L, to) == SetTerm(EmitDrops(L, Last(L.loops).depth), Br(to))

\* The finally blocks a return is in are lowered again before it, in the order
\* of the stack.
LowerReturn(L, term) ==
    SetTerm(EmitDrops(FoldLeft(LAMBDA M, fin : LowerBlock(M, fin), L, L.fins), 0), term)

-----------------------------------------------------------------------------
(* try.                                                                     *)

\* The body, the end of its handler, and finally on the normal path.
TryBody(L, s, join, pad) ==
    LET M == Emit(L, [op |-> "set", to |-> pad])
        F == IF s.fin = <<>> THEN M ELSE [M EXCEPT !.fins = Append(@, s.fin)]
        B == [LowerBlock([F EXCEPT !.unwind = TRUE], s.body) EXCEPT !.unwind = L.unwind]
        C == Emit(B, [op |-> "clear"])
        normal == Len(C.blocks) + 1
    IN  CASE Terminated(B) -> B
          [] ~Terminated(B) /\ s.fin = <<>> -> SetTerm(C, Br(join))
          [] OTHER -> SetTerm(LowerBlock(SetCur(NewBlocks(SetTerm(C, Br(normal)), 1), normal),
                                         s.fin),
                              Br(join))

\* A finally block of its own, then `last` unless the block is terminated.
ThenFinally(L, fin, last) ==
    LET own == Len(L.blocks) + 1
        M == IF fin = <<>> THEN L
             ELSE LowerBlock(SetCur(NewBlocks(SetTerm(L, Br(own)), 1), own), fin)
    IN  IF Terminated(M) THEN M ELSE SetTerm(M, last)

\* The i-th clause: its type check and its body.  A finally block makes calls in
\* the body end their block, but no handler is set for them.
CatchClause(L, s, i, join, pad, check) ==
    LET rethrow == check - 1
        at == check + 2 * (i - 1)
        next == IF i < Len(s.catches) THEN at + 2 ELSE rethrow
        K == SetTerm(SetCur(L, at),
                     [op |-> "match", type |-> s.catches[i].type, slot |-> pad,
                      then |-> at + 1, else |-> next])
        B == LowerBlock([SetCur(K, at + 1) EXCEPT !.unwind = @ \/ s.fin # <<>>, !.var = pad],
                        s.catches[i].body)
        C == [B EXCEPT !.unwind = L.unwind, !.var = L.var]
    IN  IF Terminated(C) THEN C ELSE ThenFinally(C, s.fin, Br(join))

LowerTry(L, s) ==
    LET join == Len(L.blocks) + 1
        pad  == join + 1
        T    == TryBody(NewBlocks(L, 2), s, join, pad)
        rethrow == Len(T.blocks) + 1
        check == rethrow + 1
        P == SetTerm(Emit(SetCur(NewBlocks(T, 1 + 2 * Len(s.catches)), pad),
                          [op |-> "landing", slot |-> pad]),
                     Br(IF s.catches = <<>> THEN rethrow ELSE check))
        C == FoldLeft(LAMBDA M, i : CatchClause(M, s, i, join, pad, check), P,
                      [i \in DOMAIN s.catches |-> i])
        R == ThenFinally(SetCur(C, rethrow), s.fin, [op |-> "rethrow", slot |-> pad])
    IN  SetCur([R EXCEPT !.fins = L.fins], join)

LowerStmt(L, s) ==
    CASE s.op = "print" -> Emit(L, s)
      [] s.op = "own" -> LowerOwned(L, s)
      [] s.op = "call" -> LowerCall(L, s.f)
      [] s.op = "throw" -> SetTerm(EmitDrops(L, 0), s)
      [] s.op = "rethrow" -> SetTerm(EmitDrops(L, 0), [op |-> "rethrow", slot |-> L.var])
      [] s.op = "panic" -> SetTerm(EmitDrops(L, 0), s)
      [] s.op = "return" -> LowerReturn(L, [op |-> "retval"])
      [] s.op = "leave" -> LowerReturn(L, [op |-> "ret"])
      [] s.op = "break" -> ExitLoop(L, Last(L.loops).brk)
      [] s.op = "continue" -> ExitLoop(L, Last(L.loops).cont)
      [] s.op = "if" -> LowerIf(L, s)
      [] s.op = "while" -> LowerWhile(L, s)
      [] s.op = "try" -> LowerTry(L, s)

\* The blocks of a function.
Lower(body) == LowerBlock(Empty, body).blocks

=============================================================================
