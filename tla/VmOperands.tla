----------------------------- MODULE VmOperands -----------------------------
(***************************************************************************)
(* The operand stack while the interpreter runs compiled code.  The stack  *)
(* is shared by all functions and never cut back, so each instruction must *)
(* leave it as it found it: what one leaves behind is taken by another.    *)
(*                                                                         *)
(* The program is any sequence of instructions, calls and returns.  The    *)
(* operands an instruction pushes are numbered 1, 2, ..., its answers are  *)
(* Answer, and what earlier instructions left is Stray.  Left out: the     *)
(* JIT, calls into other libraries, CondDrop of a moved value (its jump    *)
(* goes astray) and the counts of shared values, which nothing emits.      *)
(***************************************************************************)
EXTENDS VmEffects, VmEmission, SequencesExt

CONSTANTS
    MaxStrays,   \* an instruction starts on a stack of at most so many operands
    MaxCalls,    \* calls in progress
    MaxParams    \* parameters, and captured values, of a function

VARIABLES
    host,      \* "none", or whether the host grants or refuses what is asked of it
    running,   \* the program has not ended
    operands,  \* the stack
    code,      \* what is left of the current instruction
    callers,   \* for each call in progress, what its caller does next
    silent,    \* the instruction gets no answer
    params,    \* what the function just entered got for its parameters
    clean      \* nothing that is known to leave operands behind has run

opVars == <<host, running, operands, code, callers, silent, params, clean>>

Stray  == 0
Answer == 99
Captured(i) == 10 + i

NoParams == [by |-> "none", captured |-> 0, given |-> <<>>]

\* The stack without its top n operands.
Below(n) == SubSeq(operands, 1, Len(operands) - n)
Answers(n) == [i \in 1 .. n |-> Answer]
OwnSlots == {i \in DOMAIN operands : operands[i] # Stray}

\* What others left, to an instruction that starts or a function that is entered.
Forgotten(s) == [i \in DOMAIN s |-> Stray]

OperandsInit ==
    /\ host \in {"none", "granted", "refused"}
    /\ running = TRUE /\ operands = <<>> /\ code = <<>> /\ callers = <<>>
    /\ silent = FALSE /\ params = NoParams /\ clean = TRUE

-----------------------------------------------------------------------------
(* Instructions.                                                            *)

\* Instructions that answer nothing, although their answer is stored.
Silent == {"TimerSleep", "Yield"}

\* Instructions whose answers are not all taken.
Leaky == {"RegionEnter", "SqlitePoolStats", "PgPoolStats"}

Start(c) ==
    /\ running /\ code = <<>> /\ Len(operands) <= MaxStrays
    /\ code' = c
    /\ operands' = Forgotten(operands)
    /\ params' = NoParams
    /\ UNCHANGED <<host, running, callers>>

Instruction == \E i \in DOMAIN Lowered :
    /\ Start(Lowered[i])
    /\ silent' = (i \in Silent)
    /\ clean' = (clean /\ i \notin Leaky)

Calls ==
    {EmitCall(n) : n \in 0 .. MaxParams} \cup UNION {EmitInvoke(n) : n \in 0 .. MaxParams}
    \cup {EmitClosureCall(n) : n \in 0 .. MaxParams} \cup {EmitAwait}

\* Calls of destructors, the only ones followed by more than one opcode.
Destructors == {EmitDrop, EmitCondDrop, EmitFieldDrop} \cup EmitRegionExit

Call == \E c \in Calls \cup Destructors :
    /\ Len(callers) < MaxCalls
    /\ Start(c)
    /\ silent' = FALSE
    /\ clean' = (clean /\ c \notin EmitRegionExit)

Exits ==
    \E c \in {EmitThrow, EmitPanic}
             \cup (IF callers = <<>> THEN {EmitRet(TRUE)} ELSE {EmitRet(Head(callers).void)}) :
        Start(c) /\ silent' = FALSE /\ UNCHANGED clean

-----------------------------------------------------------------------------
(* Opcodes.                                                                 *)

Opcodes     == DOMAIN Effect
DatabaseOps == DOMAIN DbOps
Guarded     == DOMAIN HostOps \cup DatabaseOps   \* those the host may refuse

\* The next opcode is one of ops; it goes on to the one after it.
Next(ops)  == running /\ code # <<>> /\ Head(code) \in ops
Doing(ops) == Next(ops) /\ code' = Tail(code)

\* LocalGet and the constants.
Push ==
    /\ Doing({"arg"})
    /\ operands' = Append(operands, Cardinality(OwnSlots) + 1)
    /\ UNCHANGED <<host, running, callers, silent, params, clean>>

\* LocalSet and Pop, which do without an operand on an empty stack.
Pop ==
    /\ Doing({"set", "drop"})
    /\ operands' = Below(Min({1, Len(operands)}))
    /\ UNCHANGED <<host, running, callers, silent, params, clean>>

\* The program ends with an error.
End == running' = FALSE /\ code' = <<>> /\ callers' = <<>>
       /\ UNCHANGED <<host, operands, silent, params, clean>>

\* The next opcode is carried out: the host does not refuse it, and exists.
Available == /\ host = "refused" => Head(code) \notin Guarded
             /\ host = "none" => Head(code) \notin DatabaseOps

Operate ==
    /\ Doing(Opcodes) /\ Available /\ Effect[Head(code)].wrong # "missing"
    /\ LET e == Effect[Head(code)]
       IN  operands' = Below(Min({e.takes, Len(operands)})) \o Answers(e.leaves)
    /\ UNCHANGED <<host, running, callers, silent, params, clean>>

\* An operand is of another type: the k-th from the top ends the operation.
WrongOperand ==
    /\ Doing(Opcodes) /\ Available /\ Effect[Head(code)].wrong = "answer"
    /\ \E k \in 1 .. Effect[Head(code)].takes :
        /\ operands' = Append(Below(Min({k, Len(operands)})), Answer)
        /\ clean' = (clean /\ k = Effect[Head(code)].takes)
    /\ UNCHANGED <<host, running, callers, silent, params>>

Fail ==
    /\ Next(Opcodes) /\ Available /\ Effect[Head(code)].wrong \in {"end", "missing"}
    /\ End

\* The host refuses: the answer is -1, the operands stay.
Refuse ==
    /\ Doing(Guarded) /\ host = "refused"
    /\ operands' = Append(operands, Answer)
    /\ clean' = (clean /\ Effect[Head(code)].takes = 0)
    /\ UNCHANGED <<host, running, callers, silent, params>>

\* Without a host one operand is taken, whatever the operation.
NoHost ==
    /\ Doing(DatabaseOps) /\ host = "none"
    /\ operands' = Append(Below(Min({1, Len(operands)})), Answer)
    /\ clean' = (clean /\ Effect[Head(code)].takes = 1)
    /\ UNCHANGED <<host, running, callers, silent, params>>

-----------------------------------------------------------------------------
(* Calls.                                                                   *)

\* The prologue: n operands go to the locals of the n parameters, the top to the
\* last.
Prologue(s, n) == SubSeq(s, Len(s) - n + 1, Len(s))

\* A function with n parameters is entered with its arguments on stack s.
EnterFunction(by, captured, s, n, void) ==
    /\ callers' = <<[code |-> Tail(code), void |-> void]>> \o callers
    /\ code' = <<>>
    /\ params' = [by |-> by, captured |-> captured, given |-> Prologue(s, n)]
    /\ operands' = Forgotten(SubSeq(s, 1, Len(s) - n))
    /\ silent' = FALSE
    /\ UNCHANGED <<host, running>>

\* A function without parameters has no prologue, and is given the top operand
\* if there is one, for the first local it reads.
CallFunction == \E void \in BOOLEAN :
    LET n == Cardinality(OwnSlots)
        s == IF n = 0 THEN Below(Min({1, Len(operands)})) ELSE operands
    IN  /\ Next({"Call"})
        /\ Len(code) > 2 => void   \* a destructor
        /\ EnterFunction("Call", 0, s, n, void)
        /\ UNCHANGED clean

\* The handle and the arguments are taken; the captured values and the arguments
\* are pushed.
ClosureCall == \E void \in BOOLEAN, c \in 0 .. MaxParams :
    LET n    == Cardinality(OwnSlots) - 1
        rest == Below(n + 1)
        given == SubSeq(operands, Len(rest) + 1, Len(rest) + n)
    IN  /\ Next({"ClosureCall"})
        /\ EnterFunction("ClosureCall", c, rest \o [i \in 1 .. c |-> Captured(i)] \o given, c + n, void)
        /\ UNCHANGED clean

\* The body of a task that was not started runs now, on the arguments it was given;
\* they are pushed from the last to the first.
AwaitPending == \E void \in BOOLEAN, n \in 0 .. MaxParams :
    /\ Next({"TaskAwait"})
    /\ EnterFunction("TaskAwait", 0, Below(1) \o [i \in 1 .. n |-> n + 1 - i], n, void)
    /\ UNCHANGED clean

\* A task that has completed, panicked or is not known.
AwaitDone ==
    /\ Doing({"TaskAwait"})
    /\ operands' = Append(Below(1), Answer)
    /\ UNCHANGED <<host, running, callers, silent, params, clean>>

\* A handler of this function or of one of its callers goes on, on the same stack.
UnwindTo(s) ==
    /\ \E d \in 0 .. Len(callers) : callers' = SubSeq(callers, d + 1, Len(callers))
    /\ code' = <<>> /\ operands' = s
    /\ UNCHANGED <<host, running, silent, params>>

\* A task that failed or was cancelled: its exception is pushed, and thrown.
AwaitFailed ==
    /\ Next({"TaskAwait"})
    /\ \/ UnwindTo(Append(Below(1), Answer)) /\ clean' = FALSE
       \/ End

OpThrow ==
    /\ Next({"Throw"})
    /\ \/ UnwindTo(Below(1)) /\ UNCHANGED clean
       \/ End

OpPanic ==
    /\ Next({"Panic"})
    /\ \/ UnwindTo(operands) /\ UNCHANGED clean
       \/ End

\* The value returned stays on the stack.
OpRet ==
    /\ Next({"Ret"})
    /\ IF callers = <<>>
       THEN End
       ELSE /\ code' = Head(callers).code
            /\ callers' = Tail(callers)
            /\ silent' = Head(callers).void
            /\ UNCHANGED <<host, running, operands, params, clean>>

OperandsNext ==
    \/ Instruction \/ Call \/ Exits
    \/ Push \/ Pop \/ Operate \/ WrongOperand \/ Fail \/ Refuse \/ NoHost
    \/ CallFunction \/ ClosureCall \/ AwaitPending \/ AwaitDone \/ AwaitFailed
    \/ OpThrow \/ OpPanic \/ OpRet

-----------------------------------------------------------------------------
(* Properties.                                                              *)

Shortage(op) == Effect[op].takes > Cardinality(OwnSlots)

\* An opcode takes no operand of another instruction: what compile_ir_to_program
\* pushed for it covers what the interpreter pops, however the instruction began
\* and whatever earlier ones left on the stack.
OwnOperands ==
    Next(Opcodes) => ~ Shortage(Head(code))

\* A local receives the answer of its own instruction: when LocalSet runs, or Pop,
\* the top operand was pushed by this instruction, unless it answers nothing.
OwnResults ==
    Next({"set", "drop"}) /\ ~ silent
        => operands # <<>> /\ Last(operands) # Stray

\* The stack neither grows nor shrinks: between instructions of a program it is
\* empty, unless an operation was refused or cut short, or one ran that is known to
\* leave something (Leaky).
StackSettles == running /\ code = <<>> /\ clean => operands = <<>>

\* Each parameter gets its own argument, after the captured values of a closure;
\* arguments of a task that is awaited before it ran are in order when it has one.
ParamsInOrder ==
    LET c == params.captured
        n == Len(params.given)
    IN  ~ (params.by = "TaskAwait" /\ n > 1) =>
        params.given = [i \in 1 .. n |-> IF i <= c THEN Captured(i) ELSE i - c]

\* Instructions, calls and closures get their own operands and results, and leave no others.
OperandsMatch == OwnOperands /\ OwnResults /\ StackSettles /\ ParamsInOrder

=============================================================================
