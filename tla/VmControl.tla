------------------------------- MODULE VmControl -------------------------------
(***************************************************************************)
(* The control of a compiled program on the VM: what driver/vm.rs makes of *)
(* the blocks of Lowering, and how run_program_internal of                 *)
(* interpreter.inc.rs executes it, with the handler stack and the          *)
(* exception value of ffi.inc.rs.                                          *)
(*                                                                         *)
(* An address is a function, a block and a position in it: the code        *)
(* generator lays the blocks out in one sequence and patches every target  *)
(* to an offset, so a handler is an address in no particular frame.  A     *)
(* frame is its locals: the exceptions landing pads stored, and the locals *)
(* with a deinit that were initialised.  The operand stack is empty        *)
(* between instructions.                                                   *)
(***************************************************************************)
EXTENDS Lowering, FiniteSets

CONSTANTS
    Code,           \* programs
    ConditionInputs \* inputs

VARIABLES
    program,    \* the program
    input,      \* what its conditions evaluate to
    blocks,     \* its functions, lowered
    ip,         \* the instruction pointer
    frames,     \* the call frames
    rets,       \* ret_stack
    handlers,   \* unwind_handlers
    exception,  \* the value in exception_state
    used,       \* inputs used
    log,        \* events: prints and drops
    status      \* "running", or how the program ended

codeVars == <<program, input, blocks>>
vmVars == <<codeVars, ip, frames, rets, handlers, exception, used, log, status>>

\* fn is no part of a frame: it names the function the frame was made for.
NewFrame(f) == [fn |-> f, exc |-> [b \in 1 .. Len(blocks[f]) |-> NoException], own |-> {}]

VmInit ==
    /\ program \in Code
    /\ input \in ConditionInputs
    /\ blocks = [f \in DOMAIN program |-> Lower(program[f])]
    /\ ip = [fn |-> 1, b |-> 1, i |-> 1]
    /\ frames = <<[fn |-> 1, exc |-> [b \in 1 .. Len(blocks[1]) |-> NoException], own |-> {}]>>
    /\ rets = <<>> /\ handlers = <<>> /\ exception = NoException
    /\ used = 0 /\ log = <<>> /\ status = "running"

Block == blocks[ip.fn][ip.b]
AtTerm == ip.i > Len(Block.code)
Inst == Block.code[ip.i]
TermOf == Block.term

At(op) == status = "running" /\ ~AtTerm /\ Inst.op = op
AtTerminator(op) == status = "running" /\ AtTerm /\ TermOf.op = op

Next1 == [ip EXCEPT !.i = @ + 1]
To(b) == [fn |-> ip.fn, b |-> b, i |-> 1]

Top == Len(frames)

\* A local that was never set reads as 0.
ExcOf(slot) == IF slot \in DOMAIN frames[Top].exc THEN frames[Top].exc[slot] ELSE NoException

-----------------------------------------------------------------------------
(* Instructions.                                                            *)

PrintStep ==
    /\ At("print")
    /\ log' = Append(log, <<"print", Inst.n>>)
    /\ ip' = Next1
    /\ UNCHANGED <<codeVars, frames, rets, handlers, exception, used, status>>

OwnStep ==
    /\ At("own")
    /\ frames' = [frames EXCEPT ![Top].own = @ \cup {Inst.n}]
    /\ ip' = Next1
    /\ UNCHANGED <<codeVars, rets, handlers, exception, used, log, status>>

\* The deinit function gets what the slot holds.
DropStep ==
    /\ At("drop")
    /\ log' = Append(log, <<"drop", IF Inst.n \in frames[Top].own THEN Inst.n ELSE 0>>)
    /\ ip' = Next1
    /\ UNCHANGED <<codeVars, frames, rets, handlers, exception, used, status>>

\* The call of an instruction, or of an invoke, which then jumps to its block.
CallStep ==
    /\ At("call") \/ AtTerminator("invoke")
    /\ LET f == IF AtTerm THEN TermOf.f ELSE Inst.f IN
       /\ rets' = Append(rets, IF AtTerm THEN To(TermOf.to) ELSE Next1)
       /\ frames' = Append(frames, NewFrame(f))
       /\ ip' = [fn |-> f, b |-> 1, i |-> 1]
    /\ UNCHANGED <<codeVars, handlers, exception, used, log, status>>

SetUnwindHandler ==
    /\ At("set")
    /\ handlers' = Append(handlers, [at |-> To(Inst.to), depth |-> Len(frames)])
    /\ ip' = Next1
    /\ UNCHANGED <<codeVars, frames, rets, exception, used, log, status>>

ClearUnwindHandler ==
    /\ At("clear")
    /\ handlers' = IF handlers = <<>> THEN handlers ELSE Front(handlers)
    /\ ip' = Next1
    /\ UNCHANGED <<codeVars, frames, rets, exception, used, log, status>>

\* GetException clears the exception; a landing pad in a frame that is not its
\* own stores into that frame all the same.
GetException ==
    /\ At("landing")
    /\ frames' = [frames EXCEPT ![Top].exc = (Inst.slot :> exception) @@ @]
    /\ exception' = NoException
    /\ ip' = Next1
    /\ UNCHANGED <<codeVars, rets, handlers, used, log, status>>

-----------------------------------------------------------------------------
(* Terminators.                                                             *)

Jump ==
    /\ AtTerminator("br")
    /\ ip' = To(TermOf.to)
    /\ UNCHANGED <<codeVars, frames, rets, handlers, exception, used, log, status>>

JumpIfFalse ==
    /\ AtTerminator("cond")
    /\ ip' = To(IF Condition(input, used + 1) THEN TermOf.then ELSE TermOf.else)
    /\ used' = used + 1
    /\ UNCHANGED <<codeVars, frames, rets, handlers, exception, log, status>>

\* The type of a catch is compared with the name of the exception's type; the
\* type of no exception, and of a clause without a type, is the empty name.
MatchStep ==
    /\ AtTerminator("match")
    /\ ip' = To(IF ExcOf(TermOf.slot) = TermOf.type THEN TermOf.then ELSE TermOf.else)
    /\ UNCHANGED <<codeVars, frames, rets, handlers, exception, used, log, status>>

Ret ==
    /\ AtTerminator("ret") \/ AtTerminator("retval")
    /\ frames' = Front(frames)
    /\ IF rets = <<>> THEN status' = "ok" /\ UNCHANGED <<ip, rets>>
       ELSE ip' = Last(rets) /\ rets' = Front(rets) /\ UNCHANGED status
    /\ UNCHANGED <<codeVars, handlers, exception, used, log>>

Least(a, b) == IF a < b THEN a ELSE b

Mut_Unwind(failure) ==
    IF handlers = <<>>
    THEN status' = failure /\ UNCHANGED <<ip, frames, rets, handlers>>
    ELSE LET h == Last(handlers) IN
         /\ handlers' = Front(handlers)
         /\ frames' = SubSeq(frames, 1, Least(Len(frames), h.depth))
         /\ ip' = h.at
         /\ UNCHANGED <<rets, status>>

\* The last handler is popped, the frames above it are left.
Unwind(failure) ==
    IF handlers = <<>>
    THEN status' = failure /\ UNCHANGED <<ip, frames, rets, handlers>>
    ELSE LET h == Last(handlers)
             kept == Least(Len(frames), h.depth)
             left == Len(frames) - kept
         IN  /\ handlers' = Front(handlers)
             /\ frames' = SubSeq(frames, 1, kept)
             /\ rets' = SubSeq(rets, 1, Len(rets) - Least(left, Len(rets)))
             /\ ip' = h.at
             /\ UNCHANGED status

Throw ==
    /\ AtTerminator("throw") \/ AtTerminator("rethrow")
    /\ exception' = IF TermOf.op = "throw" THEN TermOf.e ELSE ExcOf(TermOf.slot)
    /\ Unwind("exception")
    /\ UNCHANGED <<codeVars, used, log>>

\* A panic unwinds to the same handlers and leaves the exception as it is.
Panic ==
    /\ AtTerminator("panic")
    /\ Unwind("panic")
    /\ UNCHANGED <<codeVars, exception, used, log>>

VmNext ==
    \/ PrintStep \/ OwnStep \/ DropStep \/ CallStep
    \/ SetUnwindHandler \/ ClearUnwindHandler \/ GetException
    \/ Jump \/ JumpIfFalse \/ MatchStep \/ Ret \/ Throw \/ Panic

VmSpec == VmInit /\ [][VmNext]_vmVars

-----------------------------------------------------------------------------
(* The programs that run as they are written.                               *)

Throwing == {"throw", "rethrow", "panic"}
Leaving == {"return", "leave", "break", "continue"}

RECURSIVE PlainBlock(_), Quiet(_)

\* No exception or panic leaves the function.
Quiet(f) ==
    \A s \in Stmts(program[f]) : s.op \notin Throwing /\ (s.op = "call" => Quiet(s.f))

QuietCalls(block) == \A s \in Stmts(block) : s.op = "call" => Quiet(s.f)

\* A try is left at its end or by an exception, its finally block ends without
\* one, and a catch with a finally block neither throws nor leaves a loop.
PlainTry(s) ==
    /\ Ops(s.body) \cap Leaving = {}
    /\ Ops(s.fin) \cap (Throwing \cup Leaving) = {}
    /\ \A i \in DOMAIN s.catches :
         /\ s.catches[i].type # NoException
         /\ s.fin # <<>> => /\ Ops(s.catches[i].body) \cap
                                  (Throwing \cup {"break", "continue"}) = {}
                            /\ QuietCalls(s.catches[i].body)

\* A loop's body does not end in a jump, and a return has a value.
PlainBlock(block) ==
    \A s \in ToSet(block) :
        /\ s.op # "leave"
        /\ s.op = "while" => s.body = <<>> \/ Last(s.body).op \notin Throwing \cup Leaving
        /\ s.op = "try" => PlainTry(s)
        /\ \A b \in Subblocks(s) : PlainBlock(b)

\* A function that owns results of extern functions is left at its end only.
Plain ==
    \A f \in DOMAIN program :
        /\ PlainBlock(program[f])
        /\ "own" \in Ops(program[f]) =>
             Ops(program[f]) \cap (Throwing \cup Leaving) = {} /\ QuietCalls(program[f])

\* A plain program prints, drops and ends as it is written, exceptions and
\* panics included: a panic runs finally blocks and no catch, though its exit
\* code is then the one of an exception (lower_stmt, compile_ir_to_program,
\* run_program_internal).
RunsAsWritten ==
    status # "running" /\ Plain =>
        LET m == Meaning(program, input) IN
        /\ log = m.log
        /\ status = CASE m.out = "throw" -> "exception"
                      [] m.out = "panic" -> IF status = "panic" THEN "panic" ELSE "exception"
                      [] OTHER -> "ok"

\* In a plain program a handler is always one of the frame it was set in, and
\* inner frames have the later handlers: no throw lands in a function that has
\* returned (SetUnwindHandler, ClearUnwindHandler, Throw).
HandlersAreLive ==
    Plain /\ status = "running" =>
        /\ frames # <<>> /\ ip.fn = frames[Top].fn
        /\ \A k \in DOMAIN handlers :
             /\ handlers[k].depth \in DOMAIN frames
             /\ frames[handlers[k].depth].fn = handlers[k].at.fn
             /\ \A j \in 1 .. k : handlers[j].depth <= handlers[k].depth

\* Compiled control flow follows the program, and its handlers the calls (lower_stmt,
\* run_program_internal).
ControlSafe == RunsAsWritten /\ HandlersAreLive

=============================================================================
