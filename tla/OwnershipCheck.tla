---------------------------- MODULE OwnershipCheck ----------------------------
(***************************************************************************)
(* The checks of initialisation, moves and exclusive borrows the type      *)
(* checker makes of a function body, beside the runs of that body.         *)
(*                                                                         *)
(* The checker walks the statements once.  It keeps a stack of scopes, in  *)
(* which a local has a legacy flag `moved` and a move state, and the names *)
(* borrowed, exclusively or shared; an initialisation state by name; and   *)
(* the exclusive borrows the lifetime environment knows.  An error refuses *)
(* the body, so what the environment holds after one does not matter.      *)
(*                                                                         *)
(* A run takes any branch, any number of iterations up to MaxRounds, and   *)
(* every call and await may throw.  It knows what really is initialised,   *)
(* moved and borrowed, and what was touched that must not be.              *)
(*                                                                         *)
(* A step is one statement of the body, checked and run.                   *)
(*                                                                         *)
(* Expressions: new (a literal), id, field, call (of a function with a     *)
(* signature), borrow and release (borrowMut and release), await.  Labels, *)
(* lambdas, providers, final variables and shadowed names are left out.    *)
(***************************************************************************)
EXTENDS Integers, Sequences, FiniteSets, SequencesExt, FiniteSetsExt

CONSTANTS
    FunctionBodies, \* the function bodies looked at
    CopyNames,      \* the variables of a type that is copied
    CopyFields,     \* the fields of such a type
    MaxRounds       \* bound: iterations of a loop

VARIABLES
    body,           \* the statements of the function
    next,           \* the index of the next one
    env,            \* what the checker knows
    store           \* what the run has done

ownVars == <<body, next, env, store>>

-----------------------------------------------------------------------------
(* Move states and initialisation states.                                   *)

NotMoved == [k |-> "available", fields |-> {}]
FullyMoved == [k |-> "full", fields |-> {}]
ConditionallyMoved == [k |-> "conditional", fields |-> {}]
PartiallyMoved(fs) == [k |-> "partial", fields |-> fs]

FieldMoved(m, f) == m.k \in {"full", "conditional"} \/ f \in m.fields

MoveField(m, f) ==
    IF m.k \in {"available", "partial"} THEN PartiallyMoved(m.fields \cup {f}) ELSE m

JoinMoves(m, n) ==
    IF m = n THEN m
    ELSE IF {m.k, n.k} \subseteq {"available", "partial"} THEN PartiallyMoved(m.fields \cup n.fields)
    ELSE ConditionallyMoved

\* Mutant: a variable assigned on one branch counts as assigned.
Mut_JoinInit(i, j) ==
    LET at(k, x) == IF x \in DOMAIN k THEN k[x] ELSE "not"
    IN  [x \in DOMAIN i \cup DOMAIN j |-> IF at(i, x) = "definitely" THEN at(i, x) ELSE at(j, x)]

JoinInit(i, j) ==
    LET at(k, x) == IF x \in DOMAIN k THEN k[x] ELSE "not"
    IN  [x \in DOMAIN i \cup DOMAIN j |-> IF at(i, x) = at(j, x) THEN at(i, x) ELSE "possibly"]

-----------------------------------------------------------------------------
(* The environment.                                                         *)

EmptyScope == [vars |-> <<>>, excl |-> {}, shared |-> {}]

NewEnv == [scopes |-> <<EmptyScope>>, init |-> <<>>, live |-> {}, loops |-> <<>>, fin |-> FALSE,
           ok |-> TRUE]

Require(E, b) == [E EXCEPT !.ok = @ /\ b]

Depth(E) == Len(E.scopes)

EnterScope(E) == [E EXCEPT !.scopes = Append(@, EmptyScope)]

\* The borrows made in a scope end with it.
ExitScope(E) == [E EXCEPT !.scopes = Front(@), !.live = {b \in @ : b.depth # Depth(E)}]

Home(E, x) == Max({d \in 1 .. Depth(E) : x \in DOMAIN E.scopes[d].vars})
Local(E, x) == E.scopes[Home(E, x)].vars[x]
SetLocal(E, x, li) == [E EXCEPT !.scopes[Home(E, x)].vars[x] = li]

AllNames(E) == UNION {DOMAIN E.scopes[d].vars : d \in 1 .. Depth(E)}

Declare(E, x, initialised) ==
    [E EXCEPT !.scopes[Depth(E)].vars = (x :> [moved |-> FALSE, state |-> NotMoved,
                                                  initialized |-> initialised]) @@ @,
              !.init = (x :> IF initialised THEN "definitely" ELSE "not") @@ @]

DefinitelyInit(E, x) == x \in DOMAIN E.init /\ E.init[x] = "definitely"
ExclBorrowed(E, x) == \E d \in 1 .. Depth(E) : x \in E.scopes[d].excl
SharedBorrowed(E, x) == \E d \in 1 .. Depth(E) : x \in E.scopes[d].shared
Borrowed(E, x) == \E b \in E.live : b.source = x

MutationAllowed(E, x) == ExclBorrowed(E, x) \/ ~SharedBorrowed(E, x)

CaptureMoves(E) == [x \in AllNames(E) |-> Local(E, x).state]

\* The legacy flag follows the states that are put back.
RestoreMoves(E, ms) ==
    [E EXCEPT !.scopes = [d \in DOMAIN @ |->
        [@[d] EXCEPT !.vars = [x \in DOMAIN @ |->
            IF x \in DOMAIN ms
            THEN [@[x] EXCEPT !.moved = ms[x].k \in {"full", "conditional"}, !.state = ms[x]]
            ELSE @[x]]]]]

JoinStates(a, b) ==
    LET at(m, x) == IF x \in DOMAIN m THEN m[x] ELSE NotMoved
    IN  [x \in DOMAIN a \cup DOMAIN b |-> JoinMoves(at(a, x), at(b, x))]

-----------------------------------------------------------------------------
(* Expressions.                                                             *)

\* Moving a whole variable.
ConsumeIdent(E, x) ==
    LET li == Local(E, x)
        fine == /\ DefinitelyInit(E, x)
                /\ ~Borrowed(E, x) /\ ~ExclBorrowed(E, x) /\ ~SharedBorrowed(E, x)
                /\ ~li.moved /\ li.state = NotMoved
    IN  IF fine THEN SetLocal(E, x, [li EXCEPT !.moved = TRUE, !.state = FullyMoved]) ELSE Require(E, FALSE)

\* Moving one field of a variable.
ConsumeField(E, x, f) ==
    LET li == Local(E, x)
        fine == /\ DefinitelyInit(E, x)
                /\ ~Borrowed(E, x) /\ ~ExclBorrowed(E, x)
                /\ ~li.moved /\ ~FieldMoved(li.state, f)
    IN  IF fine THEN SetLocal(E, x, [li EXCEPT !.state = MoveField(@, f)]) ELSE Require(E, FALSE)

\* Reading a field borrows the variable until the scope ends.
CheckFieldRead(E, x, f) ==
    LET li == Local(E, x)
        fine == ~ExclBorrowed(E, x) /\ ~li.moved /\ ~FieldMoved(li.state, f)
    IN  IF fine THEN [E EXCEPT !.scopes[Depth(E)].shared = @ \cup {x}] ELSE Require(E, FALSE)

BorrowMut(E, x) ==
    IF ExclBorrowed(E, x) \/ SharedBorrowed(E, x) \/ Borrowed(E, x) THEN Require(E, FALSE)
    ELSE [E EXCEPT !.scopes[Depth(E)].excl = @ \cup {x},
                   !.live = @ \cup {[source |-> x, depth |-> Depth(E)]}]

\* Only the innermost scope forgets the borrow; the argument is then moved like any other.
Release(E, x) ==
    LET released == [E EXCEPT !.scopes[Depth(E)].excl = @ \ {x},
                              !.live = {b \in @ : b.source # x}]
    IN  IF x \in CopyNames THEN released ELSE ConsumeIdent(released, x)

\* No exclusive borrow lives across an await.
AwaitBoundary(E) == Require(E, E.scopes[Depth(E)].excl = {} /\ E.live = {})

\* The arguments of borrowMut and release are not looked at: they have no signature.
RECURSIVE TypeOf(_, _)
TypeOf(E, e) ==
    CASE e.op = "id" ->
           Require(E, DefinitelyInit(E, e.x) /\ ~Local(E, e.x).moved /\ ~ExclBorrowed(E, e.x))
      [] e.op = "field" -> Require(E, ~ExclBorrowed(E, e.x))
      [] e.op = "call" -> FoldLeft(TypeOf, E, e.args)
      [] e.op = "await" -> TypeOf(E, e.of)
      [] OTHER -> E

RECURSIVE CheckMoves(_, _)
CheckMoves(E, e) ==
    LET Argument(F, a) ==
            LET G == CheckMoves(F, a)
            IN  CASE a.op = "field" /\ a.f \notin CopyFields -> ConsumeField(TypeOf(G, a), a.x, a.f)
                  [] a.op = "id" /\ a.x \notin CopyNames -> ConsumeIdent(G, a.x)
                  [] OTHER -> G
    IN  CASE e.op = "call" -> FoldLeft(Argument, E, e.args)
          [] e.op = "borrow" -> BorrowMut(E, e.x)
          [] e.op = "release" -> Release(E, e.x)
          [] e.op = "await" -> AwaitBoundary(CheckMoves(E, e.of))
          [] e.op = "field" -> CheckFieldRead(E, e.x, e.f)
          [] OTHER -> E

\* The value of a variable that is not copied is moved into another one.
MovesFrom(e, x) == e.op = "id" /\ e.x # x /\ e.x \notin CopyNames
CheckSource(E, e, x) == IF MovesFrom(e, x) THEN ConsumeIdent(E, e.x) ELSE CheckMoves(E, e)

-----------------------------------------------------------------------------
(* Statements.                                                              *)

CheckDecl(E, s) ==
    IF s.e.op = "none" THEN Declare(E, s.x, FALSE)
    ELSE Declare(CheckSource(TypeOf(E, s.e), s.e, s.x), s.x, TRUE)

\* The target is available again before the source is moved.
CheckAssign(E, s) ==
    LET F == Require(TypeOf(E, s.e), ~Borrowed(E, s.x) /\ ~ExclBorrowed(E, s.x) /\ MutationAllowed(E, s.x))
        G == SetLocal(F, s.x, [moved |-> FALSE, state |-> NotMoved, initialized |-> TRUE])
    IN  CheckSource([G EXCEPT !.init[s.x] = "definitely"], s.e, s.x)

CheckFieldAssign(E, s) == CheckMoves(Require(TypeOf(E, s.e), MutationAllowed(E, s.x)), s.e)

CheckReturn(E, s) == CheckMoves(TypeOf(Require(E, ~E.fin), s.e), s.e)

CheckBreak(E, s) ==
    Require(E, ~E.fin /\ IF s.op = "break" THEN E.loops # <<>>
                         ELSE \E i \in DOMAIN E.loops : E.loops[i] = "loop")

\* What two branches leave: initialised on both, moved on either, borrowed on either.
JoinBranches(F, G) ==
    [RestoreMoves(G, JoinStates(CaptureMoves(F), CaptureMoves(G)))
        EXCEPT !.init = JoinInit(F.init, G.init), !.live = F.live \cup G.live]

RECURSIVE CheckStmt(_, _)

CheckBlock(E, stmts) == FoldLeft(CheckStmt, E, stmts)
CheckScope(E, stmts) == ExitScope(CheckBlock(EnterScope(E), stmts))

\* The condition is typed; moves in it are not looked at.
CheckIf(E, s) ==
    LET C == TypeOf(E, s.c)
        T == CheckScope(C, s.then)
        back == [RestoreMoves(T, CaptureMoves(C)) EXCEPT !.init = C.init, !.live = C.live]
    IN  JoinBranches(T, CheckScope(back, s.else))

\* The body is checked once.
CheckWhile(E, s) ==
    LET C == CheckMoves(TypeOf(E, s.c), s.c)
        B == CheckScope([C EXCEPT !.loops = Append(@, "loop")], s.body)
    IN  [B EXCEPT !.loops = C.loops, !.init = JoinInit(C.init, @), !.live = C.live \cup @]

CheckFor(E, s) ==
    LET I == CheckStmt(EnterScope(E), s.init)
        C == CheckMoves(TypeOf([I EXCEPT !.loops = Append(@, "loop")], s.c), s.c)
        S == CheckStmt(CheckScope(C, s.body), s.step)
    IN  [ExitScope([S EXCEPT !.loops = E.loops, !.live = I.live \cup @]) EXCEPT !.init = JoinInit(I.init, @)]

\* Only the initialisation is put back between the cases.  Without a default no case may match.
CheckSwitch(E, s) ==
    LET C == CheckMoves(TypeOf([E EXCEPT !.loops = Append(@, "switch")], s.e), s.e)
        blocks == IF s.default THEN s.cases \o <<s.other>> ELSE s.cases
        Case(acc, b) ==
            LET F == CheckScope([acc.E EXCEPT !.init = C.init], b)
            IN  [E |-> F, inits |-> Append(acc.inits, F.init)]
        all == FoldLeft(Case, [E |-> C, inits |-> <<>>], blocks)
        joined == FoldLeft(JoinInit, Head(all.inits), Tail(all.inits))
    IN  [all.E EXCEPT !.loops = E.loops,
                      !.init = IF s.default THEN joined ELSE JoinInit(C.init, joined)]

\* The body is checked in a copy.  What it moved is marked by the legacy flag alone, here
\* and in the copies the clauses and the finally block are checked in.
CheckTry(E, s) ==
    LET T == CheckScope(E, s.body)
        moved == {x \in AllNames(E) : ~Local(E, x).moved /\ Local(T, x).moved}
        Mark(F, x) == SetLocal(F, x, [Local(F, x) EXCEPT !.moved = TRUE])
        Hit(F) == FoldSet(LAMBDA x, G : Mark(G, x), F, moved)
        Unshare(F) == [F EXCEPT !.scopes = [d \in DOMAIN @ |-> [@[d] EXCEPT !.shared = @ \ moved]]]
        out == Hit(E)
        clauses == [i \in DOMAIN s.catches |-> CheckScope(Unshare(out), s.catches[i])]
        F == CheckScope([Unshare(out) EXCEPT !.fin = TRUE], s.fin)
        kept == \A x \in AllNames(E) :
                    Local(out, x).initialized /\ Local(F, x).moved => Local(out, x).moved
        inits == <<T.init>> \o [i \in DOMAIN clauses |-> clauses[i].init]
                 \o (IF s.fin = <<>> THEN <<>> ELSE <<F.init>>)
    IN  [out EXCEPT !.init = FoldLeft(JoinInit, T.init, Tail(inits)),
                    !.ok = /\ T.ok /\ \A i \in DOMAIN clauses : clauses[i].ok
                           /\ s.fin # <<>> => F.ok /\ kept]

CheckStmt(E, s) ==
    CASE s.op = "decl" -> CheckDecl(E, s)
      [] s.op = "assign" -> CheckAssign(E, s)
      [] s.op = "setfield" -> CheckFieldAssign(E, s)
      [] s.op \in {"expr", "throw"} -> CheckMoves(TypeOf(E, s.e), s.e)
      [] s.op = "return" -> CheckReturn(E, s)
      [] s.op \in {"break", "continue"} -> CheckBreak(E, s)
      [] s.op = "if" -> CheckIf(E, s)
      [] s.op = "while" -> CheckWhile(E, s)
      [] s.op = "for" -> CheckFor(E, s)
      [] s.op = "switch" -> CheckSwitch(E, s)
      [] s.op = "try" -> CheckTry(E, s)
      [] s.op = "block" -> CheckScope(E, s.body)

-----------------------------------------------------------------------------
(* Runs.                                                                    *)

NewRun == [init |-> {}, moved |-> {}, excl |-> {}, misuse |-> {}, out |-> "go"]

Blame(r, b, what) == [r EXCEPT !.misuse = IF b THEN @ \cup {what} ELSE @]

\* Touching a variable in any way but through its exclusive borrow.
Touch(r, x) == Blame(r, x \in r.excl, "borrowed")

ReadVar(r, x) == Blame(Blame(Touch(r, x), x \notin r.init, "uninitialised"), <<x, "all">> \in r.moved, "moved")
ReadField(r, x, f) == Blame(Touch(r, x), {<<x, "all">>, <<x, f>>} \cap r.moved # {}, "moved")

TakeVar(r, x) ==
    LET used == Blame(ReadVar(r, x), \E p \in r.moved : p[1] = x, "moved")
    IN  IF x \in CopyNames THEN ReadVar(r, x) ELSE [used EXCEPT !.moved = @ \cup {<<x, "all">>}]

TakeField(r, x, f) ==
    LET used == Blame(ReadField(r, x, f), x \notin r.init, "uninitialised")
    IN  IF f \in CopyFields THEN ReadField(r, x, f) ELSE [used EXCEPT !.moved = @ \cup {<<x, f>>}]

Store(r, x) ==
    [Touch(r, x) EXCEPT !.init = @ \cup {x}, !.moved = {p \in @ : p[1] # x}]

\* With P(r) for a run that goes on; a run that does not is left as it is.
Going(rs, P(_)) == UNION {IF r.out = "go" THEN P(r) ELSE {r} : r \in rs}

MayThrow(r) == {r, [r EXCEPT !.out = "throw"]}

RECURSIVE Eval(_, _)
Eval(r, e) ==
    LET Argument(rs, a) ==
            Going(rs, LAMBDA q : CASE a.op = "id" -> {TakeVar(q, a.x)}
                                   [] a.op = "field" -> {TakeField(q, a.x, a.f)}
                                   [] OTHER -> Eval(q, a))
    IN  CASE e.op = "id" -> {ReadVar(r, e.x)}
          [] e.op = "field" -> {ReadField(r, e.x, e.f)}
          [] e.op = "call" -> Going(FoldLeft(Argument, {r}, e.args), MayThrow)
          [] e.op = "borrow" -> {[r EXCEPT !.excl = @ \cup {e.x}]}
          [] e.op = "release" -> {[r EXCEPT !.excl = @ \ {e.x}]}
          [] e.op = "await" ->
               Going(Eval(r, e.of), LAMBDA q : MayThrow(Blame(q, q.excl # {}, "awaited")))
          [] OTHER -> {r}

EvalSource(r, e) == IF e.op = "id" THEN {TakeVar(r, e.x)} ELSE Eval(r, e)

RECURSIVE Outcomes(_, _)
RunStmts(r, stmts) == FoldLeft(LAMBDA rs, s : Going(rs, LAMBDA q : Outcomes(q, s)), {r}, stmts)

\* A borrow made in a block ends with it.
EndBorrows(r, rs) == {[q EXCEPT !.excl = @ \cap r.excl] : q \in rs}
RunScope(r, stmts) == EndBorrows(r, RunStmts(r, stmts))

Caught(rs, hows) == {IF q.out \in hows THEN [q EXCEPT !.out = "go"] ELSE q : q \in rs}

RECURSIVE Rounds(_, _, _, _)
Rounds(r, s, step, n) ==
    Going(Eval(r, s.c), LAMBDA q :
        {q} \cup IF n = 0 THEN {}
                 ELSE LET once == Caught(RunScope(q, s.body), {"continue"})
                      IN  Going(Going(once, LAMBDA p : RunStmts(p, step)),
                                LAMBDA p : Rounds(p, s, step, n - 1)))

\* An exception goes to some clause, and out of the statement if none catches it.
Handled(rs, s) ==
    UNION {IF q.out # "throw" THEN {q}
           ELSE {q} \cup UNION {RunScope([q EXCEPT !.out = "go"], s.catches[i]) : i \in DOMAIN s.catches}
             : q \in rs}

Finally(rs, s) ==
    UNION {{IF p.out = "go" THEN [p EXCEPT !.out = q.out] ELSE p
              : p \in RunScope([q EXCEPT !.out = "go"], s.fin)} : q \in rs}

Outcomes(r, s) ==
    CASE s.op = "decl" /\ s.e.op = "none" ->
           {[r EXCEPT !.init = @ \ {s.x}, !.moved = {p \in @ : p[1] # s.x}]}
      [] s.op = "decl" -> Going(EvalSource([r EXCEPT !.init = @ \ {s.x}], s.e), LAMBDA q : {Store(q, s.x)})
      [] s.op = "assign" ->
           Going(IF s.e.op = "id" /\ s.e.x = s.x THEN Eval(r, s.e) ELSE EvalSource(r, s.e),
                 LAMBDA q : {Store(q, s.x)})
      [] s.op = "setfield" ->
           Going(Eval(r, s.e), LAMBDA q : {[q EXCEPT !.moved = @ \ {<<s.x, s.f>>}]})
      [] s.op = "expr" -> Eval(r, s.e)
      [] s.op \in {"return", "throw"} -> Going(Eval(r, s.e), LAMBDA q : {[q EXCEPT !.out = s.op]})
      [] s.op \in {"break", "continue"} -> {[r EXCEPT !.out = s.op]}
      [] s.op = "if" -> Going(Eval(r, s.c), LAMBDA q : RunScope(q, s.then) \cup RunScope(q, s.else))
      [] s.op = "while" -> Caught(Rounds(r, s, <<>>, MaxRounds), {"break"})
      [] s.op = "for" ->
           Caught(EndBorrows(r, Going(Outcomes(r, s.init), LAMBDA q : Rounds(q, s, <<s.step>>, MaxRounds))),
                  {"break"})
      [] s.op = "switch" ->
           Caught(Going(Eval(r, s.e), LAMBDA q :
                      UNION {RunScope(q, s.cases[i]) : i \in DOMAIN s.cases}
                      \cup (IF s.default THEN RunScope(q, s.other) ELSE {q})), {"break"})
      [] s.op = "try" -> Finally(Handled(RunScope(r, s.body), s), s)
      [] s.op = "block" -> RunScope(r, s.body)

-----------------------------------------------------------------------------

OwnInit == body \in FunctionBodies /\ next = 1 /\ env = NewEnv /\ store = NewRun

\* The next statement is checked, and run.
CheckAndRun ==
    /\ next <= Len(body) /\ env.ok /\ store.out = "go"
    /\ env' = CheckStmt(env, body[next])
    /\ store' \in Outcomes(store, body[next])
    /\ next' = next + 1
    /\ UNCHANGED body

OwnNext == CheckAndRun

-----------------------------------------------------------------------------
(* The programs the checks are right about.                                 *)

SubBlocks(s) ==
    CASE s.op = "if" -> <<s.then, s.else>>
      [] s.op \in {"while", "block"} -> <<s.body>>
      [] s.op = "for" -> <<<<s.init>>, s.body, <<s.step>>>>
      [] s.op = "switch" -> Append(s.cases, s.other)
      [] s.op = "try" -> <<s.body>> \o s.catches \o <<s.fin>>
      [] OTHER -> <<>>

RECURSIVE Statements(_)
Statements(stmts) ==
    ToSet(stmts) \cup UNION {Statements(b) : b \in UNION {ToSet(SubBlocks(s)) : s \in ToSet(stmts)}}

Expressions(s) == {s[k] : k \in DOMAIN s \cap {"e", "c"}}

RECURSIVE Taken(_)
Taken(e) ==
    CASE e.op = "call" -> {e.args[i].x : i \in {j \in DOMAIN e.args : e.args[j].op \in {"id", "field"}}}
                          \cup UNION {Taken(e.args[i]) : i \in DOMAIN e.args}
      [] e.op = "await" -> Taken(e.of)
      [] OTHER -> {}

MovedWhole(s) == IF s.op \in {"decl", "assign"} /\ s.e.op = "id" THEN {s.e.x} ELSE {}

DeclaredIn(stmts) == {s.x : s \in {t \in Statements(stmts) : t.op = "decl"}}
AssignedIn(stmts) == {s.x : s \in {t \in Statements(stmts) : t.op = "assign"}}

\* The variables of outside that are moved inside.
MovedIn(stmts) ==
    UNION {MovedWhole(s) \cup UNION {Taken(e) : e \in Expressions(s)} : s \in Statements(stmts)}
    \ (DeclaredIn(stmts) \cup CopyNames)

FieldsTaken(s) ==
    \E e \in Expressions(s) : e.op = "call" /\ \E i \in DOMAIN e.args : e.args[i].op = "field"

\* No loop, switch, catch or finally block moves a variable of outside, nor does the condition
\* of an if.  A try body that does moves it as a whole and assigns it no value, and the
\* function has no if, after which the move would be forgotten.
MovesPlainly(stmts) ==
    \A s \in Statements(stmts) :
        /\ s.op \in {"while", "for", "switch"} => MovedIn(<<s>>) = {}
        /\ s.op = "if" => Taken(s.c) = {}
        /\ s.op = "try" =>
              /\ \A i \in DOMAIN s.catches : MovedIn(s.catches[i]) = {}
              /\ MovedIn(s.fin) = {}
              /\ MovedIn(s.body) # {} =>
                    /\ MovedIn(s.body) \cap AssignedIn(s.body) = {}
                    /\ ~\E t \in Statements(s.body) : FieldsTaken(t)
                    /\ ~\E t \in Statements(stmts) : t.op = "if"

RECURSIVE BreaksOut(_)
BreaksOut(stmts) ==
    \E s \in ToSet(stmts) :
        \/ s.op = "break"
        \/ /\ s.op \in {"if", "try", "block"}
           /\ \E b \in ToSet(SubBlocks(s)) : BreaksOut(b)

\* No switch is left by a break: what follows the break in its case may not have been assigned.
NoSwitchBreak(stmts) ==
    \A s \in Statements(stmts) : s.op = "switch" => \A b \in ToSet(SubBlocks(s)) : ~BreaksOut(b)

\* No case of a switch releases a borrow, which the others may not, and no step of a for
\* makes one, which its next iteration would meet.
BorrowsPlainly(stmts) ==
    \A s \in Statements(stmts) :
        /\ s.op = "switch" =>
              \A t \in Statements(<<s>>) : \A e \in Expressions(t) : e.op # "release"
        /\ s.op = "for" => \A e \in Expressions(s.step) : e.op # "borrow"

-----------------------------------------------------------------------------
(* Properties.                                                              *)

\* Definite assignment over all paths (init_env): in a body that is accepted so far, no run
\* has read or moved a variable that was not assigned on its path, whatever branches, loops,
\* breaks and exceptions it took.
ReadsInitialised ==
    env.ok /\ NoSwitchBreak(body) => "uninitialised" \notin store.misuse

\* Move states joined at the end of branches: in an accepted body that moves plainly, no run
\* has read or moved a value, or a field, that its path had moved before; after a throw this
\* holds in the clauses too.
NoUseAfterMove ==
    env.ok /\ MovesPlainly(body) => "moved" \notin store.misuse

\* Exclusive borrows by scope and by region: in an accepted body no run has read, moved or
\* assigned a variable while it was exclusively borrowed, nor awaited with such a borrow.
ExclusiveIsExclusive ==
    env.ok /\ BorrowsPlainly(body) => store.misuse \cap {"borrowed", "awaited"} = {}

\* A body that the checker accepts uses no variable before its value, after its move or
\* against a borrow, in any run (check_stmt).
AcceptedIsSafe == ReadsInitialised /\ NoUseAfterMove /\ ExclusiveIsExclusive

=============================================================================
