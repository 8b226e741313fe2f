---------------------------- MODULE StructuredCode ----------------------------
(***************************************************************************)
(* Small programs of structured statements, and what they mean.            *)
(*                                                                         *)
(* A statement is a record: print n, own x (call an extern function whose  *)
(* result is the caller's to drop), call f, throw e, rethrow (throw the    *)
(* variable of the enclosing catch), panic, return (with a value), leave   *)
(* (return without one), break, continue, if, while and try.  A block is a *)
(* sequence of statements.  A try without finally has an empty one.  A     *)
(* program is a sequence of functions, the first of which is main; what    *)
(* its conditions evaluate to is a sequence of inputs, FALSE once that is  *)
(* used up.                                                                *)
(*                                                                         *)
(* The meaning is the one of the language guide: an exception unwinds the  *)
(* blocks up to the first catch of its type, finally runs however a try is *)
(* left, an owned result is dropped once when its block is left, a panic   *)
(* is caught by nothing.                                                   *)
(***************************************************************************)
EXTENDS Naturals, Sequences, SequencesExt

CONSTANT NoException    \* no exception value: the handle 0

\* A run: the events so far, the inputs used, how the statement ended, the
\* exception in flight, the exception caught, and the locals of the block.
Started == [log |-> <<>>, used |-> 0, out |-> "go", exc |-> NoException, caught |-> NoException,
            own |-> <<>>]

Ends(r, how) == [r EXCEPT !.out = how]
Throws(r, e) == [r EXCEPT !.out = "throw", !.exc = e]

Condition(input, k) == k <= Len(input) /\ input[k]

\* A clause without a type catches every exception.
Catches(clause, e) == clause.type \in {e, NoException}

RECURSIVE RunStmt(_, _, _, _), RunList(_, _, _, _)

RunList(prog, input, stmts, r) ==
    IF stmts = <<>> \/ r.out # "go" THEN r
    ELSE RunList(prog, input, Tail(stmts), RunStmt(prog, input, Head(stmts), r))

\* A block drops its locals, the last one first.
RunBlock(prog, input, stmts, r) ==
    LET done == RunList(prog, input, stmts, [r EXCEPT !.own = <<>>])
        drops == [i \in 1 .. Len(done.own) |-> <<"drop", Reverse(done.own)[i]>>]
    IN  [done EXCEPT !.log = @ \o drops, !.own = r.own]

RunCall(prog, input, f, r) ==
    LET done == RunBlock(prog, input, prog[f], r)
    IN  [done EXCEPT !.out = IF @ = "return" THEN "go" ELSE @, !.caught = r.caught]

RunTry(prog, input, s, r) ==
    LET body    == RunBlock(prog, input, s.body, r)
        clauses == {i \in DOMAIN s.catches : Catches(s.catches[i], body.exc)}
        clause  == s.catches[CHOOSE i \in clauses : \A j \in clauses : i <= j]
        caught  == IF body.out = "throw" /\ clauses # {}
                   THEN RunBlock(prog, input, clause.body,
                                 [body EXCEPT !.out = "go", !.caught = body.exc])
                   ELSE body
        last    == RunBlock(prog, input, s.fin, [caught EXCEPT !.out = "go"])
    IN  [last EXCEPT !.caught = r.caught,
                     !.out = IF @ = "go" THEN caught.out ELSE @,
                     !.exc = IF last.out = "go" THEN caught.exc ELSE @]

RunWhile(prog, input, s, r) ==
    LET again == Condition(input, r.used + 1)
        once == RunBlock(prog, input, s.body, [r EXCEPT !.used = @ + 1])
    IN  CASE ~again -> [r EXCEPT !.used = @ + 1]
          [] again /\ once.out \in {"go", "continue"} -> RunStmt(prog, input, s, Ends(once, "go"))
          [] again /\ once.out = "break" -> Ends(once, "go")
          [] OTHER -> once

RunStmt(prog, input, s, r) ==
    CASE s.op = "print" -> [r EXCEPT !.log = Append(@, <<"print", s.n>>)]
      [] s.op = "own" -> [r EXCEPT !.own = Append(@, s.n)]
      [] s.op = "call" -> RunCall(prog, input, s.f, r)
      [] s.op = "throw" -> Throws(r, s.e)
      [] s.op = "rethrow" -> Throws(r, r.caught)
      [] s.op \in {"panic", "return", "break", "continue"} -> Ends(r, s.op)
      [] s.op = "leave" -> Ends(r, "return")
      [] s.op = "if" ->
           RunBlock(prog, input, IF Condition(input, r.used + 1) THEN s.then ELSE s.else,
                    [r EXCEPT !.used = @ + 1])
      [] s.op = "while" -> RunWhile(prog, input, s, r)
      [] s.op = "try" -> RunTry(prog, input, s, r)

Meaning(prog, input) == RunBlock(prog, input, prog[1], Started)

-----------------------------------------------------------------------------
(* Parts of a block.                                                        *)

RECURSIVE Stmts(_)

\* The blocks directly in a statement.
Subblocks(s) ==
    CASE s.op = "if" -> {s.then, s.else}
      [] s.op = "while" -> {s.body}
      [] s.op = "try" -> {s.body, s.fin} \cup {s.catches[i].body : i \in DOMAIN s.catches}
      [] OTHER -> {}

\* The statements in a block, at any depth.
Stmts(block) ==
    ToSet(block) \cup UNION {UNION {Stmts(b) : b \in Subblocks(s)} : s \in ToSet(block)}

Ops(block) == {s.op : s \in Stmts(block)}

=============================================================================
