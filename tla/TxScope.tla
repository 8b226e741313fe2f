------------------------------- MODULE TxScope -------------------------------
(***************************************************************************)
(* Managed transaction scopes, host.rs (the sqlite_tx_scope_ and           *)
(* pg_tx_scope_ calls).  For each connection the host keeps a depth, a     *)
(* stack of scope ids and one of savepoints, beside the transaction that   *)
(* the database itself has open.  The database is modelled by what the     *)
(* statements the host sends to it do: a stack of savepoints, each with    *)
(* the writes made above it.                                               *)
(*                                                                         *)
(* A connection has one user at a time, so that the update of the host's   *)
(* state and the statement sent after it are one step.                     *)
(***************************************************************************)
EXTENDS Integers, Sequences, FiniteSets

CONSTANTS
    MaxConns,     \* bound on the connections opened
    MaxScopes,    \* bound on the scopes begun
    MaxWrites     \* bound on the writes made

Conns  == 1 .. MaxConns
Scopes == 1 .. MaxScopes
Writes == 1 .. MaxWrites

ASSUME TxBounds == MaxConns \in Nat /\ MaxScopes \in Nat /\ MaxWrites \in Nat

VARIABLES
    kind,         \* the database: "sqlite" or "pg"
    depth,        \* TxState.depth of each connection
    savepoints,   \* TxState.savepoints
    scope_ids,    \* TxState.scope_ids
    next_scope,   \* next_tx_scope_id
    db,           \* the database: [name, writes] of each open level; 0 is BEGIN
    broken,       \* the connections that the database has dropped
    committed,    \* what is permanent, by connection
    next_write,
    verdict,      \* history: what the caller said of the scope ended last
    failed,       \* history: a statement failed on the connection
    left_open     \* history: the connection was released inside a scope

hostVars == <<depth, savepoints, scope_ids, next_scope>>
dbVars   == <<db, broken, committed, next_write, verdict, failed, left_open>>
txVars   == <<kind, hostVars, dbVars>>

TxInit ==
    /\ kind \in {"sqlite", "pg"}
    /\ depth = [c \in Conns |-> 0]
    /\ savepoints = [c \in Conns |-> <<>>]
    /\ scope_ids = [c \in Conns |-> <<>>]
    /\ next_scope = 1
    /\ db = [c \in Conns |-> <<>>]
    /\ broken = [c \in Conns |-> FALSE]
    /\ committed = [c \in Conns |-> {}]
    /\ next_write = 1
    /\ verdict = [c \in Conns |-> TRUE]
    /\ failed = [c \in Conns |-> FALSE]
    /\ left_open = [c \in Conns |-> FALSE]

-----------------------------------------------------------------------------
(* The database.                                                           *)

Last(s)  == s[Len(s)]
Front(s) == SubSeq(s, 1, Len(s) - 1)

InTx(c) == db[c] # <<>>

Level(name) == [name |-> name, writes |-> {}]

\* The levels of c from number i on, and the writes in them.
WritesFrom(c, i) == UNION {db[c][k].writes : k \in i .. Len(db[c])}

\* The numbers of the levels of c with a name.
Named(c, name) == {i \in 1 .. Len(db[c]) : db[c][i].name = name}

\* Level i of c takes over the writes of the levels above it.
Merged(c, i) == [SubSeq(db[c], 1, i) EXCEPT ![i].writes = WritesFrom(c, i)]

BeginOk(c)        == ~broken[c] /\ (kind = "sqlite" => ~InTx(c))
AfterBegin(c)     == IF InTx(c) THEN db[c] ELSE <<Level(0)>>
SavepointOk(c)    == ~broken[c] /\ (kind = "pg" => InTx(c))
AfterSavepoint(c, name) == Append(db[c], Level(name))
NameOk(c, name)   == ~broken[c] /\ Named(c, name) # {}
EndOk(c)          == ~broken[c] /\ (kind = "sqlite" => InTx(c))

(* Releasing the savepoint that opened a transaction commits it.            *)
Release(c, name) ==
    LET i == CHOOSE i \in Named(c, name) : \A k \in Named(c, name) : k <= i
    IN IF i = 1
       THEN /\ committed' = [committed EXCEPT ![c] = @ \cup WritesFrom(c, 1)]
            /\ db' = [db EXCEPT ![c] = <<>>]
       ELSE /\ db' = [db EXCEPT ![c] =
                  [Merged(c, i - 1) EXCEPT ![i - 1].writes = WritesFrom(c, i - 1)]]
            /\ UNCHANGED committed

\* The savepoint itself stays.
RollbackTo(c, name) ==
    LET i == CHOOSE i \in Named(c, name) : \A k \in Named(c, name) : k <= i
    IN /\ db' = [db EXCEPT ![c] = [SubSeq(@, 1, i) EXCEPT ![i].writes = {}]]
       /\ UNCHANGED committed

Commit(c) ==
    /\ committed' = [committed EXCEPT ![c] = @ \cup WritesFrom(c, 1)]
    /\ db' = [db EXCEPT ![c] = <<>>]

Rollback(c) == db' = [db EXCEPT ![c] = <<>>] /\ UNCHANGED committed

NoEffect == UNCHANGED <<db, committed>>

\* A write of the program: permanent at once outside a transaction.
Write(c) ==
    /\ next_write \in Writes
    /\ ~broken[c]
    /\ next_write' = next_write + 1
    /\ IF InTx(c)
       THEN /\ db' = [db EXCEPT ![c] =
                  [db[c] EXCEPT ![Len(db[c])].writes = Last(db[c]).writes \cup {next_write}]]
            /\ UNCHANGED committed
       ELSE /\ committed' = [committed EXCEPT ![c] = @ \cup {next_write}]
            /\ UNCHANGED db
    /\ UNCHANGED <<kind, hostVars, broken, verdict, failed, left_open>>

\* The database drops the connection and, with it, its transaction.
Break(c) ==
    /\ ~broken[c]
    /\ broken' = [broken EXCEPT ![c] = TRUE]
    /\ db' = [db EXCEPT ![c] = <<>>]
    /\ failed' = [failed EXCEPT ![c] = TRUE]
    /\ UNCHANGED <<kind, hostVars, committed, next_write, verdict, left_open>>

-----------------------------------------------------------------------------
(* The host.                                                               *)

\* A statement of the host on c went well, or failed and had no effect.
Ran(c, ok) == failed' = [failed EXCEPT ![c] = @ \/ ~ok]

\* A scope id is used up whether or not the statement succeeds.
TxScopeBegin(c) ==
    /\ next_scope \in Scopes
    /\ next_scope' = next_scope + 1
    /\ LET outer == depth[c] = 0
           ok    == IF outer THEN BeginOk(c) ELSE SavepointOk(c)
       IN /\ IF ok
             THEN /\ depth' = [depth EXCEPT ![c] = @ + 1]
                  /\ scope_ids' = [scope_ids EXCEPT ![c] = Append(@, next_scope)]
                  /\ savepoints' = IF outer THEN savepoints
                        ELSE [savepoints EXCEPT ![c] = Append(@, next_scope)]
                  /\ db' = [db EXCEPT ![c] = IF outer THEN AfterBegin(c)
                                             ELSE AfterSavepoint(c, next_scope)]
             ELSE UNCHANGED <<depth, scope_ids, savepoints, db>>
          /\ Ran(c, ok)
    /\ UNCHANGED <<kind, broken, committed, next_write, verdict, left_open>>

\* The scope is the innermost one; otherwise the call is an error.
EndsInnermost(c, id) ==
    /\ depth[c] > 0
    /\ scope_ids[c] # <<>>
    /\ Last(scope_ids[c]) = id

(* The outermost scope: the depth is 0 whatever becomes of the statement.   *)
(* A commit may fail: SQLite keeps the transaction, PostgreSQL drops it.    *)
EndOutermost(c, success) ==
    /\ depth' = [depth EXCEPT ![c] = 0]
    /\ UNCHANGED savepoints
    /\ \/ EndOk(c) /\ (IF success THEN Commit(c) ELSE Rollback(c)) /\ Ran(c, TRUE)
       \/ ~EndOk(c) /\ NoEffect /\ Ran(c, FALSE)
       \/ /\ success /\ InTx(c)
          /\ IF kind = "sqlite" THEN NoEffect ELSE Rollback(c)
          /\ Ran(c, FALSE)

\* Mutant: a failed nested scope releases its savepoint too.
Mut_EndNested(c, success) ==
    /\ savepoints[c] # <<>>
    /\ depth' = [depth EXCEPT ![c] = @ - 1]
    /\ savepoints' = [savepoints EXCEPT ![c] = Front(@)]
    /\ LET name == Last(savepoints[c])
       IN /\ IF NameOk(c, name) THEN Release(c, name) ELSE NoEffect
          /\ Ran(c, NameOk(c, name))

EndNested(c, success) ==
    /\ savepoints[c] # <<>>
    /\ depth' = [depth EXCEPT ![c] = @ - 1]
    /\ savepoints' = [savepoints EXCEPT ![c] = Front(@)]
    /\ LET name == Last(savepoints[c])
       IN /\ IF ~NameOk(c, name) THEN NoEffect
             ELSE IF success THEN Release(c, name) ELSE RollbackTo(c, name)
          /\ Ran(c, NameOk(c, name))

TxScopeEnd(c, id, success) ==
    /\ EndsInnermost(c, id)
    /\ scope_ids' = [scope_ids EXCEPT ![c] = Front(@)]
    /\ IF depth[c] = 1 THEN EndOutermost(c, success) ELSE EndNested(c, success)
    /\ verdict' = [verdict EXCEPT ![c] = success]
    /\ UNCHANGED <<kind, next_scope, broken, next_write, left_open>>

TxCall(c) ==
    \/ TxScopeBegin(c)
    \/ \E id \in Scopes, success \in BOOLEAN : TxScopeEnd(c, id, success)

-----------------------------------------------------------------------------
(* Properties.                                                             *)

TxTypeOK ==
    /\ kind \in {"sqlite", "pg"}
    /\ depth \in [Conns -> Nat]
    /\ savepoints \in [Conns -> Seq(Scopes)]
    /\ scope_ids \in [Conns -> Seq(Scopes)]
    /\ next_scope \in 1 .. MaxScopes + 1
    /\ \A c \in Conns : \A i \in 1 .. Len(db[c]) :
          db[c][i].name \in Scopes \cup {0} /\ db[c][i].writes \subseteq Writes
    /\ broken \in [Conns -> BOOLEAN]
    /\ committed \in [Conns -> SUBSET Writes]
    /\ verdict \in [Conns -> BOOLEAN]
    /\ failed \in [Conns -> BOOLEAN]
    /\ left_open \in [Conns -> BOOLEAN]

(* The three stacks of the host agree, whatever statements fail: the depth  *)
(* is the number of scope ids, and every scope but the outermost has a      *)
(* savepoint.                                                               *)
StacksAgree ==
    \A c \in Conns :
        /\ depth[c] = Len(scope_ids[c])
        /\ depth[c] > 0 => Len(savepoints[c]) = depth[c] - 1
        /\ depth[c] = 0 => savepoints[c] = <<>>

Trusted(c) == ~failed[c] /\ ~left_open[c]

(* The depth says whether the database is in a transaction, unless a        *)
(* statement failed on the connection or it went back to a pool inside a    *)
(* scope.                                                                   *)
DepthAgrees == \A c \in Conns : Trusted(c) => (depth[c] = 0 <=> ~InTx(c))

\* The level of c that scope number i of the host was opened with.
LevelOf(c, i) ==
    IF i = 1 THEN 1 ELSE CHOOSE k \in 1 .. Len(db[c]) :
                            db[c][k].name = scope_ids[c][i]

\* The writes of each open scope, as the levels of the database hold them.
ScopeWrites(c) ==
    IF ~Trusted(c) THEN <<>>
    ELSE [i \in 1 .. depth[c] |->
             UNION {db[c][k].writes : k \in LevelOf(c, i) ..
                       (IF i = depth[c] THEN Len(db[c]) ELSE LevelOf(c, i + 1) - 1)}]

Nested(c) == INSTANCE NestedTx WITH stack <- ScopeWrites(c),
                                    committed <- committed[c],
                                    verdict <- verdict[c]

(* Scopes behave as nested transactions, in every nesting of successes and  *)
(* failures, as long as no statement fails: savepoints that a rollback      *)
(* leaves behind in the database do not matter.                             *)
ScopesNest ==
    [][\A c \in Conns :
          \/ Nested(c)!Next
          \/ UNCHANGED <<ScopeWrites(c), committed[c], verdict[c]>>
          \/ ~Trusted(c)' ]_txVars
=============================================================================
