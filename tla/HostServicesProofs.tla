------------------------ MODULE HostServicesProofs --------------------------
(***************************************************************************)
(* Theorems about the host's services: the connection pools of the         *)
(* database calls with the transaction scopes on their connections, and    *)
(* the asynchronous PostgreSQL queries, for any number of threads,         *)
(* connections, scopes and commands and any limits and answers.            *)
(***************************************************************************)
EXTENDS DbPool, PgAsync, FiniteSetTheorems, TLAPS

(* The transaction scopes.                                                 *)

Levels == [name : Scopes \cup {0}, writes : SUBSET Writes]

\* Levels d of a database, opened by scopes below n: no two have one name.
Good(d, n) ==
    /\ d \in Seq(Levels)
    /\ \A i, k \in 1 .. Len(d) : d[i].name = d[k].name => i = k
    /\ \A i \in 1 .. Len(d) : d[i].name < n

\* The stacks of the host agree with each other and, on a connection that can be
\* trusted, with the database, whose first level is then a transaction.
Agree(dp, sp, ids, d, trusted) ==
    /\ dp = Len(ids)
    /\ dp > 0 => Len(sp) = dp - 1
    /\ dp = 0 => sp = <<>>
    /\ trusted => (dp = 0 <=> d = <<>>)
    /\ trusted /\ d # <<>> => d[1].name = 0

\* The inductive invariant of the scopes.
TxInv ==
    /\ TxTypeOK
    /\ db \in [Conns -> Seq(Levels)]
    /\ \A c \in Conns : Good(db[c], next_scope)
    /\ \A c \in Conns : Agree(depth[c], savepoints[c], scope_ids[c], db[c], Trusted(c))

-----------------------------------------------------------------------------
(* The pool.                                                               *)

\* What a pool that does not exist, or is gone, looks like.
Stages ==
    /\ pool # "open" => available = <<>> /\ in_use = {}
    /\ pool = "none" => /\ \A t \in Threads : pc[t] = "idle"
                        /\ \A c \in Conns : holder[c] = NoConn
    /\ poisoned => pool = "closed"
    /\ PanicNeedsClose

Distinct == \A i, k \in 1 .. Len(available) : available[i] = available[k] => i = k

\* Where connections are.
Places ==
    /\ Distinct
    /\ Idles \cap in_use = {}
    /\ pool = "open" => in_use = {c \in Conns : holder[c] # NoConn}
    /\ NoneLeaked

\* The connection that a thread has opened and not recorded is only its own.
Hands ==
    /\ \A t \in Threads : pc[t] = "insert" => got[t] # NoConn
    /\ \A t \in Threads : got[t] # NoConn =>
          /\ pc[t] \in {"insert", "panicked"}
          /\ got[t] \in live /\ got[t] \notin Idles /\ got[t] \notin in_use
    /\ \A s, t \in Threads : got[s] = got[t] /\ got[s] # NoConn => s = t

\* Handles that were not given out yet.
Unused ==
    /\ \A c \in live : c < next_conn
    /\ \A c \in Conns : c >= next_conn => ~InTx(c) /\ holder[c] = NoConn

\* The connections of the pool and those to come.
Weight == Total(available, in_use) + Cardinality(Opening)

Limits ==
    /\ ~raced => Weight <= MaxConnections
    /\ Weight < MaxConnections + Cardinality(Threads)

\* The inductive invariant of the pool.
PoolInv ==
    /\ PoolTypeOK /\ TxInv /\ Stages /\ Places /\ Hands /\ Unused
    /\ IdleIsClean /\ Limits

-----------------------------------------------------------------------------
(* Levels of a database.                                                   *)

(* Taking the last element off a stack.                                     *)
LEMMA FrontOf ==
    ASSUME NEW S, NEW s \in Seq(S), s # <<>>
    PROVE  /\ Len(s) \in Nat /\ Len(s) >= 1
           /\ Front(s) \in Seq(S) /\ Len(Front(s)) = Len(s) - 1
           /\ \A i \in 1 .. Len(s) - 1 : Front(s)[i] = s[i]
           /\ Last(s) \in S
<1>1. Len(s) \in Nat /\ Len(s) >= 1 OBVIOUS
<1>2. \A i \in 1 .. Len(s) : s[i] \in S OBVIOUS
<1> DEFINE m == Len(s) - 1
<1>3. m \in Nat /\ m <= Len(s) BY <1>1
<1>4. Front(s) = SubSeq(s, 1, m) BY DEF Front
<1> HIDE DEF m
<1>5. SubSeq(s, 1, m) \in Seq(S) /\ Len(SubSeq(s, 1, m)) = m BY <1>3
<1>6. \A i \in 1 .. m : SubSeq(s, 1, m)[i] = s[i] BY <1>3
<1>7. Last(s) \in S BY <1>1, <1>2 DEF Last
<1> QED BY <1>1, <1>4, <1>5, <1>6, <1>7 DEF m

(* Names of levels are numbers.                                             *)
LEMMA LevelNames ==
    ASSUME NEW d \in Seq(Levels), NEW i \in 1 .. Len(d)
    PROVE  d[i] \in Levels /\ d[i].name \in Nat
<1>1. d[i] \in Levels OBVIOUS
<1>2. \A l \in Levels : l.name \in Nat BY TxBounds DEF Levels, Scopes
<1> QED BY <1>1, <1>2

(* A database without a transaction has no levels.                          *)
LEMMA GoodEmpty ==
    ASSUME NEW n
    PROVE  Good(<<>>, n)
BY DEF Good

(* BEGIN opens a level that no scope names.                                 *)
LEMMA GoodBegin ==
    ASSUME NEW n \in Nat, n >= 1
    PROVE  Good(<<Level(0)>>, n) /\ <<Level(0)>> # <<>> /\ <<Level(0)>>[1].name = 0
<1>1. Level(0) \in Levels /\ Level(0).name = 0 BY DEF Level, Levels
<1> QED BY <1>1 DEF Good

(* Later scopes change nothing for the levels that are there.               *)
LEMMA GoodMono ==
    ASSUME NEW n \in Nat, NEW m \in Nat, n <= m, NEW d, Good(d, n)
    PROVE  Good(d, m)
<1>1. \A i \in 1 .. Len(d) : d[i].name \in Nat
  BY LevelNames DEF Good
<1> QED BY <1>1 DEF Good

(* SAVEPOINT opens a level with a new name.                                 *)
LEMMA GoodAppend ==
    ASSUME NEW n \in Scopes, NEW d, Good(d, n)
    PROVE  /\ Good(Append(d, Level(n)), n + 1)
           /\ Append(d, Level(n)) # <<>>
           /\ d # <<>> => Append(d, Level(n))[1] = d[1]
<1> DEFINE e == Append(d, Level(n))
<1>1. Level(n) \in Levels /\ Level(n).name = n /\ n \in Nat
  BY TxBounds DEF Level, Levels, Scopes
<1>2. d \in Seq(Levels) BY DEF Good
<1>3. /\ e \in Seq(Levels) /\ Len(e) = Len(d) + 1 /\ e[Len(d) + 1] = Level(n)
      /\ \A i \in 1 .. Len(d) : e[i] = d[i]
  BY <1>1, <1>2
<1>4. \A i \in 1 .. Len(d) : d[i].name < n /\ d[i].name \in Nat
  BY <1>2, LevelNames DEF Good
<1>5. \A i \in 1 .. Len(e) : i \in 1 .. Len(d) \/ i = Len(d) + 1
  BY <1>2, <1>3
<1>6. \A i \in 1 .. Len(e) : e[i].name < n + 1
  BY <1>1, <1>3, <1>4, <1>5
<1>7. \A i, k \in 1 .. Len(e) : e[i].name = e[k].name => i = k
  BY <1>1, <1>3, <1>4, <1>5 DEF Good
<1>8. e # <<>> /\ (d # <<>> => e[1] = d[1])
  BY <1>2, <1>3
<1> QED BY <1>3, <1>6, <1>7, <1>8 DEF Good

\* Level i of d with other writes.
WithWrites(d, i, w) == [d EXCEPT ![i].writes = w]

(* Replacing the writes of a level leaves the names.                        *)
LEMMA GoodSet ==
    ASSUME NEW n, NEW d, Good(d, n), NEW i \in 1 .. Len(d), NEW w \in SUBSET Writes
    PROVE  /\ Good(WithWrites(d, i, w), n)
           /\ Len(WithWrites(d, i, w)) = Len(d)
           /\ WithWrites(d, i, w) # <<>>
           /\ WithWrites(d, i, w)[1].name = d[1].name
<1> DEFINE e == WithWrites(d, i, w)
<1>1. d \in Seq(Levels) BY DEF Good
<1>2. \A k \in 1 .. Len(d) : d[k] \in Levels BY <1>1
<1>3. e = [k \in 1 .. Len(d) |-> IF k = i THEN [d[k] EXCEPT !.writes = w] ELSE d[k]]
  BY <1>1 DEF WithWrites
<1>4. \A k \in 1 .. Len(d) : [d[k] EXCEPT !.writes = w] \in Levels
                             /\ [d[k] EXCEPT !.writes = w].name = d[k].name
  BY <1>2 DEF Levels
<1>5. \A k \in 1 .. Len(d) : e[k] \in Levels /\ e[k].name = d[k].name
  BY <1>2, <1>3, <1>4
<1>6. Len(d) \in Nat BY <1>1
<1>7. e \in Seq(Levels) /\ Len(e) = Len(d)
  <2>1. e = [k \in 1 .. Len(d) |-> e[k]] BY <1>3
  <2> HIDE DEF e
  <2> QED BY <2>1, <1>5, <1>6
<1>8. e # <<>> /\ 1 \in 1 .. Len(d) BY <1>6, <1>7
<1> QED BY <1>5, <1>7, <1>8 DEF Good

(* Dropping levels leaves the ones below.                                   *)
LEMMA GoodSub ==
    ASSUME NEW n, NEW d, Good(d, n), NEW i \in 1 .. Len(d)
    PROVE  /\ Good(SubSeq(d, 1, i), n)
           /\ Len(SubSeq(d, 1, i)) = i
           /\ SubSeq(d, 1, i)[1] = d[1]
<1> DEFINE e == SubSeq(d, 1, i)
<1>1. d \in Seq(Levels) BY DEF Good
<1>2. e \in Seq(Levels) /\ Len(e) = i /\ \A k \in 1 .. i : e[k] = d[k]
  BY <1>1
<1>3. \A k \in 1 .. i : k \in 1 .. Len(d) BY <1>1
<1>4. 1 \in 1 .. i BY <1>1
<1> QED BY <1>2, <1>3, <1>4 DEF Good

(* The writes above a level are writes.                                     *)
LEMMA WritesAbove ==
    ASSUME TxInv, NEW c \in Conns, NEW i \in Nat, i >= 1
    PROVE  WritesFrom(c, i) \in SUBSET Writes
<1>1. db[c] \in Seq(Levels) BY DEF TxInv
<1>2. \A k \in i .. Len(db[c]) : db[c][k] \in Levels BY <1>1
<1>3. \A k \in i .. Len(db[c]) : db[c][k].writes \subseteq Writes
  BY <1>2 DEF Levels
<1> QED BY <1>3 DEF WritesFrom

(* A name finds one level.                                                  *)
LEMMA NamedLevel ==
    ASSUME TxInv, NEW c \in Conns, NEW name, Named(c, name) # {}
    PROVE  LET i == CHOOSE i \in Named(c, name) : \A k \in Named(c, name) : k <= i
           IN i \in 1 .. Len(db[c]) /\ db[c][i].name = name
<1>1. Good(db[c], next_scope) /\ db[c] \in Seq(Levels) BY DEF TxInv
<1>2. PICK j \in Named(c, name) : TRUE OBVIOUS
<1>3. j \in 1 .. Len(db[c]) /\ j \in Nat BY <1>1, <1>2 DEF Named
<1>4. \A k \in Named(c, name) : k = j
  BY <1>1, <1>2 DEF Named, Good
<1>5. \A k \in Named(c, name) : k <= j BY <1>3, <1>4
<1>6. \E i \in Named(c, name) : \A k \in Named(c, name) : k <= i BY <1>2, <1>5
<1>7. (CHOOSE i \in Named(c, name) : \A k \in Named(c, name) : k <= i) \in Named(c, name)
  BY <1>6
<1> QED BY <1>7 DEF Named

-----------------------------------------------------------------------------
(* Steps of the scopes.                                                    *)

(* Writing the value that is there changes nothing.                         *)
LEMMA SameValue ==
    ASSUME NEW S, NEW T, NEW f \in [S -> T], NEW c \in S
    PROVE  f = [f EXCEPT ![c] = f[c]]
OBVIOUS

\* A step of the scopes that changes connection c only, and what it becomes.
TxTo(c, dp, sp, ids, d, b, co, v, f, l) ==
    /\ dp \in Nat /\ depth' = [depth EXCEPT ![c] = dp]
    /\ sp \in Seq(Scopes) /\ savepoints' = [savepoints EXCEPT ![c] = sp]
    /\ ids \in Seq(Scopes) /\ scope_ids' = [scope_ids EXCEPT ![c] = ids]
    /\ db' = [db EXCEPT ![c] = d]
    /\ b \in BOOLEAN /\ broken' = [broken EXCEPT ![c] = b]
    /\ co \in SUBSET Writes /\ committed' = [committed EXCEPT ![c] = co]
    /\ v \in BOOLEAN /\ verdict' = [verdict EXCEPT ![c] = v]
    /\ f \in BOOLEAN /\ failed' = [failed EXCEPT ![c] = f]
    /\ l \in BOOLEAN /\ left_open' = [left_open EXCEPT ![c] = l]
    /\ kind' = kind
    /\ next_scope' \in 1 .. MaxScopes + 1 /\ next_scope <= next_scope'
    /\ Good(d, next_scope')
    /\ Agree(dp, sp, ids, d, ~f /\ ~l)

(* TxInv is kept by a step that changes one connection only and leaves it   *)
(* good.                                                                    *)
LEMMA TxUpdate ==
    ASSUME TxInv, NEW c \in Conns,
           NEW dp, NEW sp, NEW ids, NEW d, NEW b, NEW co, NEW v, NEW f, NEW l,
           TxTo(c, dp, sp, ids, d, b, co, v, f, l)
    PROVE  TxInv'
<1> USE DEF TxTo
<1>1. /\ kind' \in {"sqlite", "pg"} /\ depth' \in [Conns -> Nat]
      /\ savepoints' \in [Conns -> Seq(Scopes)] /\ scope_ids' \in [Conns -> Seq(Scopes)]
      /\ broken' \in [Conns -> BOOLEAN] /\ committed' \in [Conns -> SUBSET Writes]
      /\ verdict' \in [Conns -> BOOLEAN] /\ failed' \in [Conns -> BOOLEAN]
      /\ left_open' \in [Conns -> BOOLEAN]
  BY DEF TxInv, TxTypeOK
<1>2. db' \in [Conns -> Seq(Levels)]
  BY DEF TxInv, Good
<1>3. \A x \in Conns : Good(db'[x], next_scope')
  <2> TAKE x \in Conns
  <2>1. CASE x = c BY <2>1 DEF TxInv
  <2>2. CASE x # c
    <3>1. db'[x] = db[x] BY <2>2
    <3>2. next_scope \in Nat /\ next_scope' \in Nat BY TxBounds DEF TxInv, TxTypeOK
    <3> QED BY <3>1, <3>2, GoodMono DEF TxInv
  <2> QED BY <2>1, <2>2
<1>4. \A x \in Conns : Agree(depth'[x], savepoints'[x], scope_ids'[x], db'[x],
                             ~failed'[x] /\ ~left_open'[x])
  <2> TAKE x \in Conns
  <2>1. CASE x = c
    <3>1. /\ depth'[x] = dp /\ savepoints'[x] = sp /\ scope_ids'[x] = ids
          /\ db'[x] = d /\ failed'[x] = f /\ left_open'[x] = l
      BY <2>1 DEF TxInv, TxTypeOK
    <3> QED BY <3>1
  <2>2. CASE x # c
    <3>1. /\ depth'[x] = depth[x] /\ savepoints'[x] = savepoints[x]
          /\ scope_ids'[x] = scope_ids[x] /\ db'[x] = db[x]
          /\ failed'[x] = failed[x] /\ left_open'[x] = left_open[x]
      BY <2>2 DEF TxInv, TxTypeOK
    <3> QED BY <3>1 DEF TxInv, Trusted
  <2> QED BY <2>1, <2>2
<1>5. \A x \in Conns : \A i \in 1 .. Len(db'[x]) :
          db'[x][i].name \in Scopes \cup {0} /\ db'[x][i].writes \subseteq Writes
  <2>1. \A x \in Conns : \A i \in 1 .. Len(db'[x]) : db'[x][i] \in Levels
    BY <1>2, LevelNames
  <2>2. \A y \in Levels : y.name \in Scopes \cup {0} /\ y.writes \subseteq Writes
    BY DEF Levels
  <2> QED BY <2>1, <2>2
<1> QED BY <1>1, <1>2, <1>3, <1>4, <1>5 DEF TxInv, TxTypeOK, Trusted

(* What TxInv says of one connection.                                       *)
LEMMA TxOf ==
    ASSUME TxInv, NEW c \in Conns
    PROVE  /\ depth[c] \in Nat /\ savepoints[c] \in Seq(Scopes)
           /\ scope_ids[c] \in Seq(Scopes) /\ db[c] \in Seq(Levels)
           /\ broken[c] \in BOOLEAN /\ committed[c] \in SUBSET Writes
           /\ verdict[c] \in BOOLEAN /\ failed[c] \in BOOLEAN /\ left_open[c] \in BOOLEAN
           /\ next_scope \in Nat /\ next_scope >= 1 /\ next_scope \in 1 .. MaxScopes + 1
           /\ Good(db[c], next_scope)
           /\ Agree(depth[c], savepoints[c], scope_ids[c], db[c],
                    ~failed[c] /\ ~left_open[c])
           /\ depth = [depth EXCEPT ![c] = depth[c]]
           /\ savepoints = [savepoints EXCEPT ![c] = savepoints[c]]
           /\ scope_ids = [scope_ids EXCEPT ![c] = scope_ids[c]]
           /\ db = [db EXCEPT ![c] = db[c]]
           /\ broken = [broken EXCEPT ![c] = broken[c]]
           /\ committed = [committed EXCEPT ![c] = committed[c]]
           /\ verdict = [verdict EXCEPT ![c] = verdict[c]]
           /\ failed = [failed EXCEPT ![c] = failed[c]]
           /\ left_open = [left_open EXCEPT ![c] = left_open[c]]
<1>1. /\ depth[c] \in Nat /\ savepoints[c] \in Seq(Scopes)
      /\ scope_ids[c] \in Seq(Scopes) /\ db[c] \in Seq(Levels)
      /\ broken[c] \in BOOLEAN /\ committed[c] \in SUBSET Writes
      /\ verdict[c] \in BOOLEAN /\ failed[c] \in BOOLEAN /\ left_open[c] \in BOOLEAN
      /\ next_scope \in 1 .. MaxScopes + 1
  BY DEF TxInv, TxTypeOK
<1>2. next_scope \in Nat /\ next_scope >= 1 BY <1>1, TxBounds
<1>3. /\ depth = [depth EXCEPT ![c] = depth[c]]
      /\ savepoints = [savepoints EXCEPT ![c] = savepoints[c]]
      /\ scope_ids = [scope_ids EXCEPT ![c] = scope_ids[c]]
      /\ db = [db EXCEPT ![c] = db[c]]
      /\ broken = [broken EXCEPT ![c] = broken[c]]
      /\ committed = [committed EXCEPT ![c] = committed[c]]
      /\ verdict = [verdict EXCEPT ![c] = verdict[c]]
      /\ failed = [failed EXCEPT ![c] = failed[c]]
      /\ left_open = [left_open EXCEPT ![c] = left_open[c]]
  BY SameValue, Zenon DEF TxInv, TxTypeOK
<1> QED BY <1>1, <1>2, <1>3 DEF TxInv, Trusted

(* TxInv is kept by a step that leaves the scopes alone.                    *)
LEMMA TxFrame ==
    ASSUME TxInv, UNCHANGED txVars
    PROVE  TxInv'
<1> USE DEF txVars, hostVars, dbVars
<1>1. TxTypeOK' BY DEF TxInv, TxTypeOK
<1>2. db' \in [Conns -> Seq(Levels)] /\ \A c \in Conns : Good(db'[c], next_scope')
  BY DEF TxInv
<1>3. \A c \in Conns : Agree(depth'[c], savepoints'[c], scope_ids'[c], db'[c],
                             ~failed'[c] /\ ~left_open'[c])
  BY DEF TxInv, Trusted
<1> QED BY <1>1, <1>2, <1>3 DEF TxInv, Trusted

(* BEGIN or SAVEPOINT, and its failure.                                     *)
LEMMA TxBegin ==
    ASSUME TxInv, NEW c \in Conns, TxScopeBegin(c)
    PROVE  TxInv'
<1> DEFINE outer == depth[c] = 0
           ok == IF outer THEN BeginOk(c) ELSE SavepointOk(c)
           n == next_scope
<1>1. n \in Scopes /\ n + 1 \in 1 .. MaxScopes + 1 /\ next_scope' = n + 1 /\ n <= n + 1
  BY TxBounds DEF TxScopeBegin, Scopes
<1>2. /\ kind' = kind /\ broken' = broken /\ committed' = committed
      /\ verdict' = verdict /\ left_open' = left_open
  BY DEF TxScopeBegin
<1>3. ok \in BOOLEAN BY DEF BeginOk, SavepointOk
<1>4. failed' = [failed EXCEPT ![c] = failed[c] \/ ~ok]
  BY DEF TxScopeBegin, Ran
<1>5. n \in Nat /\ n + 1 \in Nat /\ n + 1 >= 1 BY TxOf
<1>6. Good(db[c], n + 1) BY <1>1, <1>5, TxOf, GoodMono
<1>7. CASE ~ok
  <2>1. depth' = depth /\ savepoints' = savepoints /\ scope_ids' = scope_ids /\ db' = db
    BY <1>7 DEF TxScopeBegin
  <2>2. Agree(depth[c], savepoints[c], scope_ids[c], db[c],
              ~(failed[c] \/ ~ok) /\ ~left_open[c])
    BY <1>7, TxOf DEF Agree
  <2>3. (failed[c] \/ ~ok) \in BOOLEAN OBVIOUS
  <2> HIDE DEF ok
  <2>4. TxTo(c, depth[c], savepoints[c], scope_ids[c], db[c], broken[c], committed[c],
             verdict[c], failed[c] \/ ~ok, left_open[c])
    BY <1>1, <1>2, <1>4, <1>6, <2>1, <2>2, <2>3, TxOf DEF TxTo
  <2> QED BY <2>4, TxUpdate
<1>8. CASE ok /\ outer
  <2>1. /\ depth' = [depth EXCEPT ![c] = 1] /\ savepoints' = savepoints
        /\ scope_ids' = [scope_ids EXCEPT ![c] = Append(scope_ids[c], n)]
        /\ db' = [db EXCEPT ![c] = AfterBegin(c)]
    BY <1>8, TxOf DEF TxScopeBegin
  <2>2. Append(scope_ids[c], n) \in Seq(Scopes) /\ Len(Append(scope_ids[c], n)) = 1
    BY <1>1, <1>8, TxOf DEF Agree
  <2>3. savepoints[c] = <<>> BY <1>8, TxOf DEF Agree
  <2>4. Good(AfterBegin(c), n + 1) /\ AfterBegin(c) # <<>>
    BY <1>5, <1>6, GoodBegin DEF AfterBegin, InTx
  <2>5. ~failed[c] /\ ~left_open[c] => db[c] = <<>>
    BY <1>8, TxOf DEF Agree
  <2>6. ~failed[c] /\ ~left_open[c] => AfterBegin(c)[1].name = 0
    BY <1>5, <2>5, GoodBegin DEF AfterBegin, InTx
  <2>7. Agree(1, savepoints[c], Append(scope_ids[c], n), AfterBegin(c),
              ~(failed[c] \/ ~ok) /\ ~left_open[c])
    BY <2>2, <2>3, <2>4, <2>6 DEF Agree
  <2>8. (failed[c] \/ ~ok) \in BOOLEAN OBVIOUS
  <2> HIDE DEF ok
  <2>9. TxTo(c, 1, savepoints[c], Append(scope_ids[c], n), AfterBegin(c), broken[c],
             committed[c], verdict[c], failed[c] \/ ~ok, left_open[c])
    BY <1>1, <1>2, <1>4, <2>1, <2>2, <2>4, <2>7, <2>8, TxOf DEF TxTo
  <2> QED BY <2>9, TxUpdate
<1>9. CASE ok /\ ~outer
  <2>1. /\ depth' = [depth EXCEPT ![c] = depth[c] + 1]
        /\ savepoints' = [savepoints EXCEPT ![c] = Append(savepoints[c], n)]
        /\ scope_ids' = [scope_ids EXCEPT ![c] = Append(scope_ids[c], n)]
        /\ db' = [db EXCEPT ![c] = Append(db[c], Level(n))]
    BY <1>9 DEF TxScopeBegin, AfterSavepoint
  <2>2. /\ Append(scope_ids[c], n) \in Seq(Scopes)
        /\ Len(Append(scope_ids[c], n)) = depth[c] + 1
        /\ Append(savepoints[c], n) \in Seq(Scopes)
        /\ Len(Append(savepoints[c], n)) = depth[c]
    BY <1>1, <1>9, TxOf DEF Agree
  <2>3. /\ Good(Append(db[c], Level(n)), n + 1) /\ Append(db[c], Level(n)) # <<>>
        /\ db[c] # <<>> => Append(db[c], Level(n))[1] = db[c][1]
    BY <1>1, TxOf, GoodAppend
  <2>4. ~failed[c] /\ ~left_open[c] => db[c] # <<>> /\ db[c][1].name = 0
    BY <1>9, TxOf DEF Agree
  <2>5. depth[c] + 1 \in Nat /\ depth[c] + 1 # 0 BY TxOf
  <2>6. Agree(depth[c] + 1, Append(savepoints[c], n), Append(scope_ids[c], n),
              Append(db[c], Level(n)), ~(failed[c] \/ ~ok) /\ ~left_open[c])
    <3> HIDE DEF ok
    <3> QED BY <2>2, <2>3, <2>4, <2>5, TxOf DEF Agree
  <2>7. (failed[c] \/ ~ok) \in BOOLEAN OBVIOUS
  <2> HIDE DEF ok
  <2>8. TxTo(c, depth[c] + 1, Append(savepoints[c], n), Append(scope_ids[c], n),
             Append(db[c], Level(n)), broken[c], committed[c], verdict[c],
             failed[c] \/ ~ok, left_open[c])
    BY <1>1, <1>2, <1>4, <2>1, <2>2, <2>3, <2>5, <2>6, <2>7, TxOf DEF TxTo
  <2> QED BY <2>8, TxUpdate
<1> QED BY <1>3, <1>7, <1>8, <1>9

(* The end of the outermost scope.                                          *)
LEMMA TxEndOutermost ==
    ASSUME TxInv, NEW c \in Conns, NEW id, NEW success \in BOOLEAN,
           TxScopeEnd(c, id, success), depth[c] = 1
    PROVE  TxInv'
<1> DEFINE ids == Front(scope_ids[c])
<1>1. /\ depth' = [depth EXCEPT ![c] = 0] /\ savepoints' = savepoints
      /\ scope_ids' = [scope_ids EXCEPT ![c] = ids]
      /\ verdict' = [verdict EXCEPT ![c] = success]
      /\ kind' = kind /\ next_scope' = next_scope /\ broken' = broken
      /\ left_open' = left_open
  BY DEF TxScopeEnd, EndOutermost
<1>2. ids \in Seq(Scopes) /\ Len(ids) = 0 /\ savepoints[c] = <<>>
  BY TxOf DEF Agree, Front
<1>3. WritesFrom(c, 1) \in SUBSET Writes BY WritesAbove
<1>4. \E d, co, f :
         /\ db' = [db EXCEPT ![c] = d] /\ d \in {<<>>, db[c]}
         /\ committed' = [committed EXCEPT ![c] = co] /\ co \in SUBSET Writes
         /\ failed' = [failed EXCEPT ![c] = f] /\ f \in BOOLEAN
         /\ ~f => d = <<>>
  <2>1. EndOk(c) /\ (IF success THEN Commit(c) ELSE Rollback(c)) /\ Ran(c, TRUE)
        => /\ db' = [db EXCEPT ![c] = <<>>]
           /\ \/ committed' = [committed EXCEPT ![c] = committed[c] \cup WritesFrom(c, 1)]
              \/ committed' = committed
           /\ failed' = failed
    BY TxOf DEF Commit, Rollback, Ran
  <2>2. ~EndOk(c) /\ NoEffect /\ Ran(c, FALSE)
        => db' = db /\ committed' = committed /\ failed' = [failed EXCEPT ![c] = TRUE]
    BY TxOf DEF NoEffect, Ran
  <2>3. /\ success /\ InTx(c)
        /\ IF kind = "sqlite" THEN NoEffect ELSE Rollback(c)
        /\ Ran(c, FALSE)
        => /\ db' = db \/ db' = [db EXCEPT ![c] = <<>>]
           /\ committed' = committed /\ failed' = [failed EXCEPT ![c] = TRUE]
    BY TxOf DEF NoEffect, Rollback, Ran
  <2>4. \/ EndOk(c) /\ (IF success THEN Commit(c) ELSE Rollback(c)) /\ Ran(c, TRUE)
        \/ ~EndOk(c) /\ NoEffect /\ Ran(c, FALSE)
        \/ /\ success /\ InTx(c)
           /\ IF kind = "sqlite" THEN NoEffect ELSE Rollback(c)
           /\ Ran(c, FALSE)
    BY DEF TxScopeEnd, EndOutermost
  <2>5. /\ \/ db' = [db EXCEPT ![c] = <<>>]
           \/ db' = [db EXCEPT ![c] = db[c]] /\ failed' = [failed EXCEPT ![c] = TRUE]
        /\ \/ committed' = [committed EXCEPT ![c] = committed[c] \cup WritesFrom(c, 1)]
           \/ committed' = [committed EXCEPT ![c] = committed[c]]
        /\ \/ failed' = [failed EXCEPT ![c] = TRUE]
           \/ failed' = [failed EXCEPT ![c] = failed[c]]
    BY <2>1, <2>2, <2>3, <2>4, TxOf
  <2>6. committed[c] \cup WritesFrom(c, 1) \in SUBSET Writes BY <1>3, TxOf
  <2>7. CASE failed' = [failed EXCEPT ![c] = TRUE]
    <3>1. \E d : db' = [db EXCEPT ![c] = d] /\ d \in {<<>>, db[c]} BY <2>5
    <3>2. \E co : committed' = [committed EXCEPT ![c] = co] /\ co \in SUBSET Writes
      BY <2>5, <2>6, TxOf
    <3> QED BY <2>7, <3>1, <3>2
  <2>8. CASE failed' # [failed EXCEPT ![c] = TRUE]
    <3>1. db' = [db EXCEPT ![c] = <<>>] /\ failed' = [failed EXCEPT ![c] = failed[c]]
      BY <2>5, <2>8
    <3>2. \E co : committed' = [committed EXCEPT ![c] = co] /\ co \in SUBSET Writes
      BY <2>5, <2>6, TxOf
    <3>3. failed[c] \in BOOLEAN BY TxOf
    <3> QED BY <3>1, <3>2, <3>3
  <2> QED BY <2>7, <2>8
<1>5. PICK d, co, f :
         /\ db' = [db EXCEPT ![c] = d] /\ d \in {<<>>, db[c]}
         /\ committed' = [committed EXCEPT ![c] = co] /\ co \in SUBSET Writes
         /\ failed' = [failed EXCEPT ![c] = f] /\ f \in BOOLEAN
         /\ ~f => d = <<>>
  BY <1>4
<1>6. Good(d, next_scope) BY <1>5, GoodEmpty, TxOf
<1>7. Agree(0, savepoints[c], ids, d, ~f /\ ~left_open[c])
  BY <1>2, <1>5 DEF Agree
<1>8. 0 \in Nat /\ next_scope <= next_scope BY TxOf
<1> HIDE DEF ids
<1>9. TxTo(c, 0, savepoints[c], ids, d, broken[c], co, success, f, left_open[c])
  BY <1>1, <1>2, <1>5, <1>6, <1>7, <1>8, TxOf DEF TxTo
<1> QED BY <1>9, TxUpdate

(* The end of a nested scope: its savepoint is released or rolled back to.  *)
LEMMA TxEndNested ==
    ASSUME TxInv, NEW c \in Conns, NEW id, NEW success \in BOOLEAN,
           TxScopeEnd(c, id, success), depth[c] # 1
    PROVE  TxInv'
<1> DEFINE ids == Front(scope_ids[c])
           sp == Front(savepoints[c])
           name == Last(savepoints[c])
           ok == NameOk(c, name)
           i == CHOOSE i \in Named(c, name) : \A k \in Named(c, name) : k <= i
<1>1. /\ depth[c] > 0 /\ savepoints[c] # <<>>
      /\ depth' = [depth EXCEPT ![c] = depth[c] - 1]
      /\ savepoints' = [savepoints EXCEPT ![c] = sp]
      /\ scope_ids' = [scope_ids EXCEPT ![c] = ids]
      /\ verdict' = [verdict EXCEPT ![c] = success]
      /\ kind' = kind /\ next_scope' = next_scope /\ broken' = broken
      /\ left_open' = left_open
      /\ failed' = [failed EXCEPT ![c] = failed[c] \/ ~ok]
  BY DEF TxScopeEnd, EndNested, EndsInnermost, Ran
<1>2. /\ depth[c] - 1 \in Nat /\ depth[c] - 1 # 0
      /\ ids \in Seq(Scopes) /\ Len(ids) = depth[c] - 1
      /\ sp \in Seq(Scopes) /\ Len(sp) = depth[c] - 2
      /\ name \in Scopes
  <2>1. depth[c] \in Nat /\ depth[c] >= 2 /\ Len(savepoints[c]) = depth[c] - 1
        /\ Len(scope_ids[c]) = depth[c]
    BY <1>1, TxOf DEF Agree
  <2>2. scope_ids[c] # <<>> BY <2>1, TxOf
  <2>3. ids \in Seq(Scopes) /\ Len(ids) = depth[c] - 1
    <3>1. scope_ids[c] \in Seq(Scopes) BY TxOf
    <3>2. ids \in Seq(Scopes) /\ Len(ids) = Len(scope_ids[c]) - 1
      BY <3>1, <2>2, FrontOf
    <3> QED BY <3>2, <2>1
  <2>4. sp \in Seq(Scopes) /\ Len(sp) = depth[c] - 1 - 1 /\ name \in Scopes
    <3>1. savepoints[c] \in Seq(Scopes) BY TxOf
    <3>2. sp \in Seq(Scopes) /\ Len(sp) = Len(savepoints[c]) - 1 /\ name \in Scopes
      BY <1>1, <3>1, FrontOf
    <3> QED BY <3>2, <2>1
  <2> HIDE DEF ids, sp, name
  <2> QED BY <2>1, <2>3, <2>4
<1>3. name # 0 BY <1>2, TxBounds DEF Scopes
<1>4. \E d, co :
         /\ db' = [db EXCEPT ![c] = d] /\ Good(d, next_scope)
         /\ committed' = [committed EXCEPT ![c] = co] /\ co \in SUBSET Writes
         /\ ok /\ ~failed[c] /\ ~left_open[c] => d # <<>> /\ d[1].name = 0
  <2>1. CASE ~ok
    <3>1. db' = db /\ committed' = committed
      BY <2>1, <1>1 DEF TxScopeEnd, EndNested, NoEffect
    <3> QED BY <2>1, <3>1, TxOf
  <2>2. CASE ok
    <3>1. i \in 1 .. Len(db[c]) /\ db[c][i].name = name
      BY <2>2, NamedLevel DEF NameOk
    <3>2. ~failed[c] /\ ~left_open[c] => i # 1 /\ db[c][1].name = 0
      BY <1>1, <1>3, <3>1, TxOf DEF Agree
    <3>3. Good(db[c], next_scope) /\ i \in Nat /\ i >= 1 BY <3>1, TxOf
    <3> HIDE DEF i
    <3>4. CASE success /\ i = 1
      <4>1. /\ db' = [db EXCEPT ![c] = <<>>]
            /\ committed' = [committed EXCEPT ![c] = committed[c] \cup WritesFrom(c, 1)]
        BY <2>2, <3>4, <1>1 DEF TxScopeEnd, EndNested, Release, i
      <4>2. committed[c] \cup WritesFrom(c, 1) \in SUBSET Writes BY WritesAbove, TxOf
      <4> QED BY <4>1, <4>2, <3>2, <3>4, GoodEmpty
    <3>5. CASE success /\ i # 1
      <4> DEFINE s == SubSeq(db[c], 1, i - 1)
                 w == WritesFrom(c, i - 1)
                 e == WithWrites(s, i - 1, w)
                 d == WithWrites(e, i - 1, w)
      <4>1. db' = [db EXCEPT ![c] = d] /\ committed' = committed
        BY <2>2, <3>5, <1>1 DEF TxScopeEnd, EndNested, Release, Merged, i, WithWrites
      <4>2. i - 1 \in 1 .. Len(db[c]) /\ i - 1 \in Nat /\ i - 1 >= 1
        BY <3>1, <3>5, TxOf
      <4>3. Good(s, next_scope) /\ Len(s) = i - 1 /\ s[1] = db[c][1]
        BY <3>3, <4>2, GoodSub
      <4>4. w \in SUBSET Writes BY <4>2, WritesAbove
      <4>5. i - 1 \in 1 .. Len(s) BY <4>2, <4>3
      <4> HIDE DEF s, w
      <4>6. Good(e, next_scope) /\ Len(e) = Len(s) /\ e[1].name = s[1].name
        BY <4>3, <4>4, <4>5, GoodSet
      <4> HIDE DEF e
      <4>7. Good(d, next_scope) /\ d # <<>> /\ d[1].name = e[1].name
        BY <4>4, <4>5, <4>6, GoodSet
      <4> HIDE DEF d
      <4>8. committed' = [committed EXCEPT ![c] = committed[c]] /\ committed[c] \in SUBSET Writes
        BY <4>1, TxOf
      <4> QED BY <4>1, <4>3, <4>6, <4>7, <4>8, <3>2
    <3>6. CASE ~success
      <4> DEFINE s == SubSeq(db[c], 1, i)
                 d == WithWrites(s, i, {})
      <4>1. db' = [db EXCEPT ![c] = d] /\ committed' = committed
        BY <2>2, <3>6, <1>1 DEF TxScopeEnd, EndNested, RollbackTo, i, WithWrites
      <4>2. Good(s, next_scope) /\ Len(s) = i /\ s[1] = db[c][1]
        BY <3>1, <3>3, GoodSub
      <4>3. i \in 1 .. Len(s) /\ {} \in SUBSET Writes BY <3>3, <4>2
      <4> HIDE DEF s
      <4>4. Good(d, next_scope) /\ d # <<>> /\ d[1].name = s[1].name
        BY <4>2, <4>3, GoodSet
      <4> HIDE DEF d
      <4>5. committed' = [committed EXCEPT ![c] = committed[c]] /\ committed[c] \in SUBSET Writes
        BY <4>1, TxOf
      <4> QED BY <4>1, <4>2, <4>4, <4>5, <3>2
    <3> QED BY <3>4, <3>5, <3>6
  <2> QED BY <2>1, <2>2 DEF NameOk
<1>5. PICK d, co :
         /\ db' = [db EXCEPT ![c] = d] /\ Good(d, next_scope)
         /\ committed' = [committed EXCEPT ![c] = co] /\ co \in SUBSET Writes
         /\ ok /\ ~failed[c] /\ ~left_open[c] => d # <<>> /\ d[1].name = 0
  BY <1>4
<1>6. (failed[c] \/ ~ok) \in BOOLEAN OBVIOUS
<1> HIDE DEF ok, ids, sp
<1>7. Agree(depth[c] - 1, sp, ids, d, ~(failed[c] \/ ~ok) /\ ~left_open[c])
  BY <1>2, <1>5, TxOf DEF Agree
<1>8. next_scope <= next_scope BY TxOf
<1>9. TxTo(c, depth[c] - 1, sp, ids, d, broken[c], co, success, failed[c] \/ ~ok, left_open[c])
  BY <1>1, <1>2, <1>5, <1>6, <1>7, <1>8, TxOf DEF TxTo
<1> QED BY <1>9, TxUpdate

(* A write of the program.                                                  *)
LEMMA TxWrite ==
    ASSUME TxInv, NEW c \in Conns, Write(c)
    PROVE  TxInv'
<1>1. /\ kind' = kind /\ depth' = depth /\ savepoints' = savepoints
      /\ scope_ids' = scope_ids /\ next_scope' = next_scope /\ broken' = broken
      /\ verdict' = verdict /\ failed' = failed /\ left_open' = left_open
      /\ next_write \in Writes
  BY DEF Write, hostVars
<1>2. next_scope <= next_scope BY TxOf
<1>3. CASE ~InTx(c)
  <2>1. db' = db /\ committed' = [committed EXCEPT ![c] = committed[c] \cup {next_write}]
    BY <1>3 DEF Write
  <2>2. committed[c] \cup {next_write} \in SUBSET Writes BY <1>1, TxOf
  <2>3. TxTo(c, depth[c], savepoints[c], scope_ids[c], db[c], broken[c],
             committed[c] \cup {next_write}, verdict[c], failed[c], left_open[c])
    BY <1>1, <1>2, <2>1, <2>2, TxOf DEF TxTo
  <2> QED BY <2>3, TxUpdate
<1>4. CASE InTx(c)
  <2> DEFINE i == Len(db[c])
             w == Last(db[c]).writes \cup {next_write}
             d == WithWrites(db[c], i, w)
  <2>1. db' = [db EXCEPT ![c] = d] /\ committed' = committed
    BY <1>4 DEF Write, WithWrites
  <2>2. i \in 1 .. Len(db[c]) /\ Good(db[c], next_scope) BY <1>4, TxOf DEF InTx
  <2>3. w \in SUBSET Writes
    <3>1. db[c][i] \in Levels BY <2>2, TxOf, LevelNames
    <3> QED BY <3>1, <1>1 DEF Levels, Last
  <2>4. Good(d, next_scope) /\ d # <<>> /\ d[1].name = db[c][1].name
    <3> HIDE DEF i, w
    <3> QED BY <2>2, <2>3, GoodSet
  <2> HIDE DEF d
  <2>5. Agree(depth[c], savepoints[c], scope_ids[c], d, ~failed[c] /\ ~left_open[c])
    BY <1>4, <2>4, TxOf DEF Agree, InTx
  <2>6. TxTo(c, depth[c], savepoints[c], scope_ids[c], d, broken[c],
             committed[c], verdict[c], failed[c], left_open[c])
    BY <1>1, <1>2, <2>1, <2>4, <2>5, TxOf DEF TxTo
  <2> QED BY <2>6, TxUpdate
<1> QED BY <1>3, <1>4

(* The database drops the connection.                                       *)
LEMMA TxBreak ==
    ASSUME TxInv, NEW c \in Conns, Break(c)
    PROVE  TxInv'
<1>1. /\ kind' = kind /\ depth' = depth /\ savepoints' = savepoints
      /\ scope_ids' = scope_ids /\ next_scope' = next_scope
      /\ broken' = [broken EXCEPT ![c] = TRUE] /\ db' = [db EXCEPT ![c] = <<>>]
      /\ failed' = [failed EXCEPT ![c] = TRUE]
      /\ committed' = committed /\ verdict' = verdict /\ left_open' = left_open
  BY DEF Break, hostVars
<1>2. next_scope <= next_scope BY TxOf
<1>3. Agree(depth[c], savepoints[c], scope_ids[c], <<>>, ~TRUE /\ ~left_open[c])
  BY TxOf DEF Agree
<1>4. TxTo(c, depth[c], savepoints[c], scope_ids[c], <<>>, TRUE,
           committed[c], verdict[c], TRUE, left_open[c])
  BY <1>1, <1>2, <1>3, TxOf, GoodEmpty DEF TxTo
<1> QED BY <1>4, TxUpdate

(* The rollback of release.                                                 *)
LEMMA TxRelease ==
    ASSUME TxInv, NEW c \in Conns, RollbackOnRelease(c)
    PROVE  TxInv'
<1> DEFINE d == IF EndOk(c) THEN <<>> ELSE db[c]
           l == left_open[c] \/ depth[c] > 0
<1>1. /\ kind' = kind /\ depth' = depth /\ savepoints' = savepoints
      /\ scope_ids' = scope_ids /\ next_scope' = next_scope
      /\ broken' = broken /\ db' = [db EXCEPT ![c] = d]
      /\ failed' = failed /\ left_open' = [left_open EXCEPT ![c] = l]
      /\ committed' = committed /\ verdict' = verdict
  BY DEF RollbackOnRelease, hostVars
<1>2. next_scope <= next_scope BY TxOf
<1>3. Good(d, next_scope) BY TxOf, GoodEmpty
<1>4. l \in BOOLEAN OBVIOUS
<1>5. Agree(depth[c], savepoints[c], scope_ids[c], d, ~failed[c] /\ ~l)
  BY TxOf DEF Agree
<1> HIDE DEF d, l
<1>6. TxTo(c, depth[c], savepoints[c], scope_ids[c], d, broken[c],
           committed[c], verdict[c], failed[c], l)
  BY <1>1, <1>2, <1>3, <1>4, <1>5, TxOf DEF TxTo
<1> QED BY <1>6, TxUpdate

(* Any call of the scopes.                                                  *)
LEMMA TxCalls ==
    ASSUME TxInv, NEW c \in Conns, TxCall(c)
    PROVE  TxInv'
<1>1. ASSUME NEW id \in Scopes, NEW success \in BOOLEAN, TxScopeEnd(c, id, success)
      PROVE  TxInv'
  BY <1>1, TxEndOutermost, TxEndNested
<1> QED BY <1>1, TxBegin DEF TxCall

-----------------------------------------------------------------------------
(* Steps of the pool.                                                      *)

\* Where a thread is that opens a connection.
OpeningAt == {"fetch", "open", "insert"}

\* Where a thread may be.
PoolAt == {"idle", "asleep", "fetch", "open", "insert", "exhausted", "panicked"}

(* Sizes are numbers.                                                       *)
LEMMA Sizes ==
    ASSUME PoolTypeOK
    PROVE  /\ IsFiniteSet(in_use) /\ Cardinality(in_use) \in Nat
           /\ IsFiniteSet(Opening) /\ Cardinality(Opening) \in Nat
           /\ Cardinality(Opening) <= Cardinality(Threads)
           /\ Cardinality(Threads) \in Nat /\ Cardinality(Threads) >= 1
           /\ Len(available) \in Nat
<1>1. IsFiniteSet(Conns) BY TxBounds, FS_Interval DEF Conns
<1>2. in_use \subseteq Conns /\ available \in Seq(Conns) BY DEF PoolTypeOK
<1>3. IsFiniteSet(in_use) BY <1>1, <1>2, FS_Subset
<1>4. Opening \subseteq Threads BY DEF Opening
<1>5. IsFiniteSet(Opening) /\ Cardinality(Opening) <= Cardinality(Threads)
  BY <1>4, ThreadsAssumption, FS_Subset
<1>6. Cardinality(Threads) \in Nat /\ Cardinality(Threads) # 0
  BY ThreadsAssumption, FS_CardinalityType, FS_EmptySet
<1>7. Len(available) \in Nat BY <1>2
<1>8. Cardinality(Threads) >= 1 BY <1>6
<1> QED BY <1>3, <1>5, <1>6, <1>7, <1>8, FS_CardinalityType

(* A thread stops opening, or was not.                                      *)
LEMMA LeaveOpening ==
    ASSUME PoolTypeOK, NEW t \in Threads, NEW p, p \notin OpeningAt, PoolGoto(t, p)
    PROVE  /\ Cardinality(Opening') \in Nat
           /\ Cardinality(Opening') <= Cardinality(Opening)
           /\ pc[t] \in OpeningAt => Cardinality(Opening') = Cardinality(Opening) - 1
<1>1. pc \in [Threads -> PoolAt] BY DEF PoolTypeOK, PoolAt
<1>2. Opening' = Opening \ {t}
  BY <1>1 DEF PoolGoto, Opening, OpeningAt
<1>3. IsFiniteSet(Opening) /\ Cardinality(Opening) \in Nat BY Sizes
<1>4. CASE t \in Opening
  <2>1. Cardinality(Opening') = Cardinality(Opening) - 1 /\ IsFiniteSet(Opening')
    BY <1>2, <1>3, <1>4, FS_RemoveElement
  <2>2. Cardinality(Opening') \in Nat BY <2>1, FS_CardinalityType
  <2> QED BY <1>3, <2>1, <2>2
<1>5. CASE t \notin Opening
  <2>1. Opening' = Opening BY <1>2, <1>5
  <2> QED BY <1>3, <1>5, <2>1 DEF Opening, OpeningAt
<1> QED BY <1>4, <1>5

(* A thread starts opening.                                                 *)
LEMMA EnterOpening ==
    ASSUME PoolTypeOK, NEW t \in Threads, NEW p \in OpeningAt, PoolGoto(t, p)
    PROVE  /\ pc[t] \in OpeningAt => Opening' = Opening
           /\ pc[t] \notin OpeningAt => Cardinality(Opening') = Cardinality(Opening) + 1
           /\ Cardinality(Opening') \in Nat
           /\ Cardinality(Opening') <= Cardinality(Threads)
<1>1. pc \in [Threads -> PoolAt] BY DEF PoolTypeOK, PoolAt
<1>2. Opening' = Opening \cup {t}
  BY <1>1 DEF PoolGoto, Opening, OpeningAt
<1>3. IsFiniteSet(Opening) /\ Cardinality(Opening) \in Nat BY Sizes
<1>4. pc[t] \in OpeningAt => Opening' = Opening
  BY <1>2 DEF Opening, OpeningAt
<1>5. pc[t] \notin OpeningAt => t \notin Opening BY DEF Opening, OpeningAt
<1>6. pc[t] \notin OpeningAt => Cardinality(Opening') = Cardinality(Opening) + 1
  BY <1>2, <1>3, <1>5, FS_AddElement
<1>7. Opening' \subseteq Threads BY DEF Opening
<1>8. IsFiniteSet(Opening') /\ Cardinality(Opening') <= Cardinality(Threads)
  BY <1>7, ThreadsAssumption, FS_Subset
<1> QED BY <1>4, <1>6, <1>8, FS_CardinalityType

(* The last available connection is taken off the stack.                    *)
LEMMA FrontIdles ==
    ASSUME PoolTypeOK, Distinct, available # <<>>, available' = Front(available)
    PROVE  /\ available' \in Seq(Conns) /\ Len(available') = Len(available) - 1
           /\ Last(available) \in Idles /\ Last(available) \in Conns
           /\ Idles' = Idles \ {Last(available)}
           /\ Distinct'
<1>1. available \in Seq(Conns) BY DEF PoolTypeOK
<1> DEFINE n == Len(available)
<1>2. /\ n \in Nat /\ n >= 1 /\ available' \in Seq(Conns) /\ Len(available') = n - 1
      /\ \A i \in 1 .. n - 1 : available'[i] = available[i]
      /\ Last(available) \in Conns
  BY <1>1, FrontOf
<1>3. Last(available) = available[n] BY DEF Last
<1>4. \A i \in 1 .. n - 1 : i \in 1 .. n /\ i # n BY <1>2
<1>5. \A i \in 1 .. n : i \in 1 .. n - 1 \/ i = n BY <1>2
<1>6. n \in 1 .. n BY <1>2
<1>7. Last(available) \in Idles BY <1>3, <1>6 DEF Idles
<1>8. \A i \in 1 .. n - 1 : available[i] # available[n] BY <1>4, <1>6 DEF Distinct
<1>9. Idles' = {available[i] : i \in 1 .. n - 1} BY <1>2 DEF Idles
<1>10. Idles' = Idles \ {Last(available)}
  BY <1>3, <1>4, <1>5, <1>8, <1>9 DEF Idles
<1>11. Distinct' BY <1>2, <1>4 DEF Distinct
<1> QED BY <1>2, <1>7, <1>10, <1>11

(* A connection is put on the stack.                                        *)
LEMMA AppendIdles ==
    ASSUME PoolTypeOK, Distinct, NEW c \in Conns, c \notin Idles,
           available' = Append(available, c)
    PROVE  /\ available' \in Seq(Conns) /\ Len(available') = Len(available) + 1
           /\ Idles' = Idles \cup {c}
           /\ Distinct'
<1>1. available \in Seq(Conns) BY DEF PoolTypeOK
<1> DEFINE n == Len(available)
<1>2. /\ n \in Nat /\ available' \in Seq(Conns) /\ Len(available') = n + 1
      /\ available'[n + 1] = c
      /\ \A i \in 1 .. n : available'[i] = available[i]
  BY <1>1
<1>3. \A i \in 1 .. n + 1 : i \in 1 .. n \/ i = n + 1 BY <1>2
<1>4. n + 1 \in 1 .. n + 1 /\ \A i \in 1 .. n : i \in 1 .. n + 1 BY <1>2
<1>5. \A i \in 1 .. n : available[i] # c BY DEF Idles
<1>6. Idles' = Idles \cup {c} BY <1>2, <1>3, <1>4 DEF Idles
<1>7. Distinct' BY <1>2, <1>3, <1>5 DEF Distinct
<1> QED BY <1>2, <1>6, <1>7

(* PoolInv is kept by a step in which a thread moves on and nothing of the  *)
(* pool changes, but that its lock may be poisoned.                         *)
LEMMA GoQuiet ==
    ASSUME PoolInv, NEW t \in Threads, NEW p \in PoolAt, PoolGoto(t, p),
           UNCHANGED <<pool, available, in_use, next_conn, live, got, holder, raced, txVars>>,
           poisoned' \in BOOLEAN, poisoned' => pool = "closed",
           orphans \subseteq orphans', orphans' \subseteq Conns,
           pool = "none" => p = "idle",
           p = "panicked" => pool = "closed",
           p # "insert",
           got[t] # NoConn => p = "panicked",
           p \in OpeningAt => pc[t] \in OpeningAt
    PROVE  PoolInv'
<1>1. TxInv' /\ TxTypeOK' BY TxFrame DEF PoolInv, TxInv
<1>2. pc' = [pc EXCEPT ![t] = p] /\ pc \in [Threads -> PoolAt]
  BY DEF PoolGoto, PoolInv, PoolTypeOK, PoolAt
<1>3. PoolTypeOK'
  BY <1>1, <1>2 DEF PoolInv, PoolTypeOK, PoolAt
<1>4. Stages'
  BY <1>2 DEF PoolInv, Stages, PanicNeedsClose
<1>5. Idles' = Idles /\ (Distinct' <=> Distinct) BY DEF Idles, Distinct
<1>6. Places'
  BY <1>5 DEF PoolInv, Places, NoneLeaked
<1>7. Hands'
  BY <1>2, <1>5 DEF PoolInv, Hands
<1>8. Unused' /\ IdleIsClean'
  BY <1>5 DEF PoolInv, Unused, IdleIsClean, InTx, txVars, dbVars
<1>9. Limits'
  <2>1. Cardinality(Opening') \in Nat /\ Cardinality(Opening') <= Cardinality(Opening)
    <3>1. CASE p \in OpeningAt BY <3>1, EnterOpening, Sizes DEF PoolInv
    <3>2. CASE p \notin OpeningAt BY <3>2, LeaveOpening DEF PoolInv
    <3> QED BY <3>1, <3>2
  <2>2. Total(available', in_use') = Total(available, in_use)
    BY DEF Total
  <2>3. Total(available, in_use) \in Nat /\ Cardinality(Opening) \in Nat
        /\ Cardinality(Threads) \in Nat
    BY Sizes DEF Total, PoolInv
  <2> QED BY <2>1, <2>2, <2>3, PoolAssumption DEF PoolInv, Limits, Weight
<1> QED BY <1>1, <1>3, <1>4, <1>6, <1>7, <1>8, <1>9 DEF PoolInv

(* A thread finds the lock poisoned.                                        *)
LEMMA StepPanicOnPoison ==
    ASSUME PoolInv, NEW t \in Threads, PanicOnPoison(t)
    PROVE  PoolInv'
<1>1. poisoned \in BOOLEAN /\ pool = "closed" /\ orphans \subseteq Conns
  BY DEF PoolInv, PoolTypeOK, Stages, PanicOnPoison
<1>2. "panicked" \in PoolAt /\ "panicked" \notin OpeningAt BY DEF PoolAt, OpeningAt
<1>3. /\ PoolGoto(t, "panicked") /\ poisoned' = poisoned
      /\ UNCHANGED <<pool, available, in_use, next_conn, live, got, holder, raced, txVars>>
      /\ orphans \subseteq orphans' /\ orphans' \subseteq Conns
  BY <1>1 DEF PanicOnPoison
<1> QED BY <1>1, <1>2, <1>3, GoQuiet

(* A thread inside acquire finds no pool.                                   *)
LEMMA StepPanicWithLock ==
    ASSUME PoolInv, NEW t \in Threads, PanicWithLock(t), pc[t] # "idle"
    PROVE  PoolInv'
<1>1. pool = "closed" /\ orphans \subseteq Conns
  BY DEF PoolInv, PoolTypeOK, Stages, PanicWithLock
<1>2. "panicked" \in PoolAt /\ "panicked" \notin OpeningAt BY DEF PoolAt, OpeningAt
<1>3. /\ PoolGoto(t, "panicked") /\ poisoned' = TRUE
      /\ UNCHANGED <<pool, available, in_use, next_conn, live, got, holder, raced, txVars>>
      /\ orphans \subseteq orphans' /\ orphans' \subseteq Conns
  BY <1>1 DEF PanicWithLock
<1> QED BY <1>1, <1>2, <1>3, GoQuiet

(* A call returns without effect.                                           *)
LEMMA StepFails ==
    ASSUME PoolInv, NEW t \in Threads, Fails(t), pc[t] \notin {"insert", "panicked"}
    PROVE  PoolInv'
<1>1. poisoned \in BOOLEAN /\ (poisoned => pool = "closed") /\ orphans \subseteq Conns
      /\ got[t] = NoConn
  BY DEF PoolInv, PoolTypeOK, Stages, Hands
<1>2. "idle" \in PoolAt /\ "idle" \notin OpeningAt BY DEF PoolAt, OpeningAt
<1>3. /\ PoolGoto(t, "idle") /\ poisoned' = poisoned /\ orphans' = orphans
      /\ UNCHANGED <<pool, available, in_use, next_conn, live, got, holder, raced, txVars>>
  BY DEF Fails
<1> QED BY <1>1, <1>2, <1>3, GoQuiet

(* A thread inside acquire moves on.                                        *)
LEMMA StepMoves ==
    ASSUME PoolInv, NEW t \in Threads, NEW p, PoolGoto(t, p),
           \/ pc[t] = "fetch" /\ p = "open"
           \/ pc[t] = "exhausted" /\ p = "asleep",
           UNCHANGED <<pool, poisoned, available, in_use, next_conn, live, got,
                         holder, orphans, raced, txVars>>
    PROVE  PoolInv'
<1>1. poisoned \in BOOLEAN /\ (poisoned => pool = "closed") /\ orphans \subseteq Conns
      /\ got[t] = NoConn /\ pool # "none"
  BY DEF PoolInv, PoolTypeOK, Stages, Hands
<1>2. p \in PoolAt /\ p # "insert" /\ p # "panicked" /\ (p \in OpeningAt => pc[t] \in OpeningAt)
  BY DEF PoolAt, OpeningAt
<1> QED BY <1>1, <1>2, GoQuiet

(* Looking up the connection string.                                        *)
LEMMA StepFetchString ==
    ASSUME PoolInv, NEW t \in Threads, FetchString(t)
    PROVE  PoolInv'
<1>1. pc[t] = "fetch" BY DEF FetchString
<1>2. CASE PanicOnPoison(t) BY <1>2, StepPanicOnPoison
<1>3. CASE PanicWithLock(t) BY <1>1, <1>3, StepPanicWithLock
<1>4. CASE /\ PoolGoto(t, "open")
           /\ UNCHANGED <<pool, poisoned, available, in_use, next_conn, live, got,
                          holder, orphans, raced, txVars>>
  BY <1>1, <1>4, StepMoves
<1> QED BY <1>2, <1>3, <1>4 DEF FetchString

(* The timeout, or another round.                                           *)
LEMMA StepExhausted ==
    ASSUME PoolInv, NEW t \in Threads, Exhausted(t)
    PROVE  PoolInv'
<1>1. pc[t] = "exhausted" BY DEF Exhausted
<1>2. CASE PanicOnPoison(t) BY <1>2, StepPanicOnPoison
<1>3. CASE Fails(t) BY <1>1, <1>3, StepFails
<1>4. CASE /\ PoolGoto(t, "asleep")
           /\ UNCHANGED <<pool, poisoned, available, in_use, next_conn, live, got,
                          holder, orphans, raced, txVars>>
  BY <1>1, <1>4, StepMoves
<1> QED BY <1>2, <1>3, <1>4 DEF Exhausted

(* OpenOrWait moves the thread on, and what is to come stays in the limit.  *)
LEMMA OpensOrWaits ==
    ASSUME PoolInv, NEW t \in Threads, NEW av, OpenOrWait(t, av), available' = av,
           Len(av) \in Nat, Len(av) <= Len(available), in_use' = in_use,
           pc[t] \in {"idle", "asleep"}
    PROVE  /\ raced' \in BOOLEAN
           /\ \E p \in {"fetch", "open", "exhausted"} : pc' = [pc EXCEPT ![t] = p]
           /\ Limits'
<1> DEFINE w == Len(av) + Cardinality(in_use)
<1>1. /\ PoolTypeOK /\ raced \in BOOLEAN /\ Limits /\ kind \in {"sqlite", "pg"}
  BY DEF PoolInv, PoolTypeOK, TxTypeOK
<1>2. pc[t] \notin OpeningAt BY DEF OpeningAt
<1>3. Total(available', in_use') = w /\ Total(av, in_use) = w BY DEF Total
<1>4. /\ Cardinality(in_use) \in Nat /\ Cardinality(Opening) \in Nat
      /\ Cardinality(Threads) \in Nat /\ Len(available) \in Nat
      /\ Cardinality(Threads) >= 1 /\ MaxConnections \in Nat
  BY <1>1, Sizes, PoolAssumption
<1>5. /\ w \in Nat /\ w <= Total(available, in_use) BY <1>4 DEF Total
<1>6. CASE w < MaxConnections
  <2>1. /\ \E p \in {"fetch", "open"} : PoolGoto(t, p)
        /\ raced' = (raced \/ Opening # {})
    BY <1>3, <1>6 DEF OpenOrWait, MayOpen
  <2>2. PICK p \in {"fetch", "open"} : PoolGoto(t, p) BY <2>1
  <2>3. p \in OpeningAt BY DEF OpeningAt
  <2>4. /\ Cardinality(Opening') = Cardinality(Opening) + 1
        /\ Cardinality(Opening') <= Cardinality(Threads)
    BY <1>1, <1>2, <2>2, <2>3, EnterOpening
  <2>5. ~raced' => ~raced /\ Cardinality(Opening) = 0 BY <2>1, FS_EmptySet
  <2>6. ~raced' => w + Cardinality(Opening') <= MaxConnections
    BY <1>4, <1>5, <1>6, <2>4, <2>5
  <2>7. w + Cardinality(Opening') < MaxConnections + Cardinality(Threads)
    BY <1>4, <1>5, <1>6, <2>4
  <2>8. raced' \in BOOLEAN BY <1>1, <2>1
  <2> QED BY <1>3, <2>2, <2>6, <2>7, <2>8 DEF Limits, Weight, PoolGoto
<1>7. CASE ~(w < MaxConnections)
  <2>1. PoolGoto(t, "exhausted") /\ raced' = raced
    BY <1>3, <1>7 DEF OpenOrWait, MayOpen
  <2>2. "exhausted" \notin OpeningAt BY DEF OpeningAt
  <2>3. Cardinality(Opening') \in Nat /\ Cardinality(Opening') <= Cardinality(Opening)
    BY <1>1, <2>1, <2>2, LeaveOpening
  <2>4. /\ ~raced' => w + Cardinality(Opening') <= MaxConnections
        /\ w + Cardinality(Opening') < MaxConnections + Cardinality(Threads)
    BY <1>1, <1>4, <1>5, <2>1, <2>3 DEF Limits, Weight, Total
  <2> QED BY <1>1, <1>3, <2>1, <2>4 DEF Limits, Weight, PoolGoto
<1> QED BY <1>6, <1>7

(* Nothing is available.                                                    *)
LEMMA AttemptNone ==
    ASSUME PoolInv, NEW t \in Threads, pc[t] \in {"idle", "asleep"}, pool = "open",
           OpenOrWait(t, available),
           UNCHANGED <<available, in_use, live, holder, pool, poisoned, next_conn, got,
                       orphans, txVars>>
    PROVE  PoolInv'
<1>1. TxInv' /\ TxTypeOK' BY TxFrame DEF PoolInv, TxInv
<1>2. Len(available) \in Nat /\ Len(available) <= Len(available)
  BY Sizes DEF PoolInv
<1>3. raced' \in BOOLEAN /\ Limits'
      /\ \E p \in {"fetch", "open", "exhausted"} : pc' = [pc EXCEPT ![t] = p]
  BY <1>2, OpensOrWaits
<1>4. PICK p \in {"fetch", "open", "exhausted"} : pc' = [pc EXCEPT ![t] = p] BY <1>3
<1>5. pc \in [Threads -> PoolAt] /\ p \in PoolAt BY DEF PoolInv, PoolTypeOK, PoolAt
<1>6. PoolTypeOK' BY <1>1, <1>3, <1>4, <1>5 DEF PoolInv, PoolTypeOK, PoolAt
<1>7. Stages' BY <1>4, <1>5 DEF PoolInv, Stages, PanicNeedsClose
<1>8. Idles' = Idles /\ (Distinct' <=> Distinct) BY DEF Idles, Distinct
<1>9. Places' BY <1>8 DEF PoolInv, Places, NoneLeaked
<1>10. got[t] = NoConn BY DEF PoolInv, Hands
<1>11. Hands' BY <1>4, <1>5, <1>8, <1>10 DEF PoolInv, Hands
<1>12. Unused' /\ IdleIsClean'
  BY <1>8 DEF PoolInv, Unused, IdleIsClean, InTx, txVars, dbVars
<1> QED BY <1>1, <1>3, <1>6, <1>7, <1>9, <1>11, <1>12 DEF PoolInv

(* The available connection fails the health check.                         *)
LEMMA AttemptBroken ==
    ASSUME PoolInv, NEW t \in Threads, pc[t] \in {"idle", "asleep"}, pool = "open",
           available # <<>>, available' = Front(available),
           live' = live \ {Last(available)},
           OpenOrWait(t, Front(available)),
           UNCHANGED <<in_use, holder, pool, poisoned, next_conn, got, orphans, txVars>>
    PROVE  PoolInv'
<1> DEFINE c == Last(available)
<1>1. TxInv' /\ TxTypeOK' BY TxFrame DEF PoolInv, TxInv
<1>2. /\ available' \in Seq(Conns) /\ Len(available') = Len(available) - 1
      /\ c \in Idles /\ c \in Conns /\ Idles' = Idles \ {c} /\ Distinct'
  BY FrontIdles DEF PoolInv, Places
<1>3. /\ Len(available') \in Nat /\ Len(available') <= Len(available)
  BY <1>2, Sizes DEF PoolInv
<1>4. raced' \in BOOLEAN /\ Limits'
      /\ \E p \in {"fetch", "open", "exhausted"} : pc' = [pc EXCEPT ![t] = p]
  BY <1>3, OpensOrWaits
<1>5. PICK p \in {"fetch", "open", "exhausted"} : pc' = [pc EXCEPT ![t] = p] BY <1>4
<1>6. pc \in [Threads -> PoolAt] /\ p \in PoolAt BY DEF PoolInv, PoolTypeOK, PoolAt
<1> HIDE DEF c
<1>7. live' = live \ {c} BY DEF c
<1>8. PoolTypeOK'
  BY <1>1, <1>2, <1>4, <1>5, <1>6, <1>7 DEF PoolInv, PoolTypeOK, PoolAt
<1>9. Stages' BY <1>5, <1>6 DEF PoolInv, Stages, PanicNeedsClose
<1>10. Places' BY <1>2, <1>7 DEF PoolInv, Places, NoneLeaked
<1>11. got[t] = NoConn BY DEF PoolInv, Hands
<1>12. Hands' BY <1>2, <1>5, <1>6, <1>7, <1>11 DEF PoolInv, Hands
<1>13. Unused' /\ IdleIsClean'
  BY <1>2, <1>7 DEF PoolInv, Unused, IdleIsClean, InTx, txVars, dbVars
<1> QED BY <1>1, <1>4, <1>8, <1>9, <1>10, <1>12, <1>13 DEF PoolInv

(* The available connection is handed out.                                  *)
LEMMA AttemptTakes ==
    ASSUME PoolInv, NEW t \in Threads, pc[t] \in {"idle", "asleep"}, pool = "open",
           available # <<>>, TakeAvailable(t, Last(available)),
           UNCHANGED <<pool, poisoned, next_conn, got, orphans, txVars>>
    PROVE  PoolInv'
<1> DEFINE c == Last(available)
<1>1. TxInv' /\ TxTypeOK' BY TxFrame DEF PoolInv, TxInv
<1>2. available' = Front(available) BY DEF TakeAvailable
<1>3. /\ available' \in Seq(Conns) /\ Len(available') = Len(available) - 1
      /\ c \in Idles /\ c \in Conns /\ Idles' = Idles \ {c} /\ Distinct'
  BY <1>2, FrontIdles DEF PoolInv, Places
<1> HIDE DEF c
<1>4. /\ in_use' = in_use \cup {c} /\ holder' = [holder EXCEPT ![c] = t]
      /\ pc' = [pc EXCEPT ![t] = "idle"] /\ live' = live /\ raced' = raced
  BY DEF TakeAvailable, PoolGoto, c
<1>5. /\ pc \in [Threads -> PoolAt] /\ holder \in [Conns -> Threads \cup {NoConn}]
      /\ t # NoConn
  BY PoolAssumption DEF PoolInv, PoolTypeOK, PoolAt
<1>6. PoolTypeOK'
  BY <1>1, <1>3, <1>4, <1>5 DEF PoolInv, PoolTypeOK
<1>7. Stages' BY <1>4, <1>5 DEF PoolInv, Stages, PanicNeedsClose
<1>8. c \notin in_use BY <1>3 DEF PoolInv, Places
<1>9. in_use' = {x \in Conns : holder'[x] # NoConn}
  <2>1. in_use = {x \in Conns : holder[x] # NoConn} BY DEF PoolInv, Places
  <2> QED BY <1>3, <1>4, <1>5, <2>1
<1>10. Places' BY <1>3, <1>4, <1>9 DEF PoolInv, Places, NoneLeaked
<1>11. got[t] = NoConn BY DEF PoolInv, Hands
<1>12. Hands' BY <1>3, <1>4, <1>5, <1>11 DEF PoolInv, Hands
<1>13. Unused'
  <2>1. c \in live /\ c < next_conn BY <1>3 DEF PoolInv, Unused, Places, NoneLeaked
  <2>2. c \in Nat /\ next_conn \in Nat
    BY <1>3, TxBounds DEF Conns, PoolInv, PoolTypeOK
  <2>3. \A x \in Conns : x >= next_conn => x # c
    BY <2>1, <2>2 DEF Conns
  <2> QED BY <1>4, <1>5, <2>3 DEF PoolInv, Unused, InTx, txVars, dbVars
<1>14. IdleIsClean'
  BY <1>3 DEF PoolInv, IdleIsClean, InTx, txVars, dbVars
<1>15. Limits'
  <2>1. /\ Len(available) \in Nat /\ IsFiniteSet(in_use) /\ Cardinality(in_use) \in Nat
        /\ Cardinality(Opening) \in Nat /\ Cardinality(Threads) \in Nat
        /\ MaxConnections \in Nat
    BY Sizes, PoolAssumption DEF PoolInv
  <2>2. Cardinality(in_use') = Cardinality(in_use) + 1
    BY <1>4, <1>8, <2>1, FS_AddElement
  <2>3. Total(available', in_use') = Total(available, in_use) /\ Total(available, in_use) \in Nat
    BY <1>3, <2>1, <2>2 DEF Total
  <2>4. "idle" \notin OpeningAt /\ PoolGoto(t, "idle") BY <1>4 DEF OpeningAt, PoolGoto
  <2>5. Cardinality(Opening') \in Nat /\ Cardinality(Opening') <= Cardinality(Opening)
    BY <2>4, LeaveOpening DEF PoolInv
  <2> QED BY <1>4, <2>1, <2>3, <2>5 DEF PoolInv, Limits, Weight
<1> QED BY <1>1, <1>6, <1>7, <1>10, <1>12, <1>13, <1>14, <1>15 DEF PoolInv

(* One attempt of acquire.                                                  *)
LEMMA StepAttempt ==
    ASSUME PoolInv, NEW t \in Threads, pc[t] \in {"idle", "asleep"}, Attempt(t)
    PROVE  PoolInv'
<1>1. pool = "open" /\ UNCHANGED <<pool, poisoned, next_conn, got, orphans, txVars>>
  BY DEF Attempt
<1>2. CASE available = <<>>
  <2>1. OpenOrWait(t, available) /\ UNCHANGED <<available, in_use, live, holder>>
    BY <1>2 DEF Attempt
  <2> QED BY <1>1, <2>1, AttemptNone
<1>3. CASE available # <<>> /\ broken[Last(available)] /\ "untested" \notin ops
  <2>1. /\ available' = Front(available) /\ live' = live \ {Last(available)}
        /\ OpenOrWait(t, Front(available)) /\ UNCHANGED <<in_use, holder>>
    BY <1>3 DEF Attempt
  <2> QED BY <1>1, <1>3, <2>1, AttemptBroken
<1>4. CASE available # <<>> /\ ~(broken[Last(available)] /\ "untested" \notin ops)
  <2>1. TakeAvailable(t, Last(available)) BY <1>4 DEF Attempt
  <2> QED BY <1>1, <1>4, <2>1, AttemptTakes
<1> QED BY <1>2, <1>3, <1>4

(* acquire and its later attempts.                                          *)
LEMMA StepAcquire ==
    ASSUME PoolInv, NEW t \in Threads, PoolAcquire(t) \/ Retry(t)
    PROVE  PoolInv'
<1>1. pc[t] \in {"idle", "asleep"} BY DEF PoolAcquire, Retry, IsIdle
<1>2. PanicOnPoison(t) \/ Fails(t) \/ Attempt(t) BY DEF PoolAcquire, Retry
<1> QED BY <1>1, <1>2, StepPanicOnPoison, StepFails, StepAttempt

(* A new connection has a handle that nobody knows yet.                     *)
LEMMA StepOpen ==
    ASSUME PoolInv, NEW t \in Threads, OpenConnection(t)
    PROVE  PoolInv'
<1>1. pc[t] = "open" BY DEF OpenConnection
<1>2. CASE Fails(t) BY <1>1, <1>2, StepFails
<1>3. CASE /\ next_conn \in Conns
           /\ got' = [got EXCEPT ![t] = next_conn]
           /\ next_conn' = next_conn + 1
           /\ live' = live \cup {next_conn}
           /\ PoolGoto(t, "insert")
           /\ UNCHANGED <<pool, poisoned, available, in_use, holder, orphans, raced, txVars>>
  <2>1. TxInv' /\ TxTypeOK' BY <1>3, TxFrame DEF PoolInv, TxInv
  <2>2. /\ pc \in [Threads -> PoolAt] /\ got \in [Threads -> Conns \cup {NoConn}]
        /\ pc' = [pc EXCEPT ![t] = "insert"]
    BY <1>3 DEF PoolInv, PoolTypeOK, PoolAt, PoolGoto
  <2>3. next_conn \in Nat /\ next_conn' \in 1 .. MaxConns + 1
    BY <1>3, TxBounds DEF Conns
  <2>4. PoolTypeOK' BY <1>3, <2>1, <2>2, <2>3 DEF PoolInv, PoolTypeOK, PoolAt
  <2>5. Stages' BY <1>1, <1>3, <2>2 DEF PoolInv, Stages, PanicNeedsClose
  <2>6. Idles' = Idles /\ (Distinct' <=> Distinct) BY <1>3 DEF Idles, Distinct
  <2>7. got[t] = NoConn BY <1>1 DEF PoolInv, Hands
  <2>8. live \subseteq Conns /\ NoConn \notin Conns
    BY PoolAssumption DEF PoolInv, PoolTypeOK
  <2>9. /\ \A s \in Threads : s # t => got'[s] = got[s]
        /\ got'[t] = next_conn
    BY <1>3, <2>2
  <2>10. next_conn \notin live BY <2>3 DEF PoolInv, Unused
  <2>11. NoneLeaked'
    <3>1. live \subseteq Idles \cup in_use \cup orphans \cup {got[s] : s \in Threads}
      BY DEF PoolInv, Places, NoneLeaked
    <3>2. \A c \in live : c \in {got[s] : s \in Threads} => c \in {got'[s] : s \in Threads}
      BY <2>7, <2>8, <2>9
    <3>3. next_conn \in {got'[s] : s \in Threads} BY <2>9
    <3>4. live' \subseteq Idles' \cup in_use' \cup orphans' \cup {got'[s] : s \in Threads}
      BY <1>3, <2>6, <3>1, <3>2, <3>3
    <3>5. Idles' \cup in_use' \subseteq live'
      BY <1>3, <2>6 DEF PoolInv, Places, NoneLeaked
    <3> QED BY <3>4, <3>5 DEF NoneLeaked
  <2>12. Places' BY <1>3, <2>6, <2>11 DEF PoolInv, Places
  <2>13. Hands'
    <3>1. next_conn \notin Idles /\ next_conn \notin in_use
      BY <2>10 DEF PoolInv, Places, NoneLeaked
    <3>2. \A s \in Threads : got[s] # next_conn
      BY <1>3, <2>8, <2>10 DEF PoolInv, Hands
    <3>3. \A s \in Threads : s # t => pc'[s] = pc[s] BY <2>2
    <3>4. pc'[t] = "insert" BY <2>2
    <3>5. next_conn # NoConn BY <1>3, <2>8
    <3>6. \A s \in Threads : pc'[s] = "insert" => got'[s] # NoConn
      BY <2>9, <3>3, <3>5 DEF PoolInv, Hands
    <3>7. \A s \in Threads : got'[s] # NoConn =>
             /\ pc'[s] \in {"insert", "panicked"}
             /\ got'[s] \in live' /\ got'[s] \notin Idles' /\ got'[s] \notin in_use'
      BY <1>3, <2>6, <2>9, <3>1, <3>3, <3>4 DEF PoolInv, Hands
    <3>8. \A r, s \in Threads : got'[r] = got'[s] /\ got'[r] # NoConn => r = s
      BY <2>9, <3>2 DEF PoolInv, Hands
    <3> QED BY <3>6, <3>7, <3>8 DEF Hands
  <2>14. Unused'
    <3>1. \A c \in Conns : c \in Nat BY TxBounds DEF Conns
    <3>2. \A c \in live' : c < next_conn'
      BY <1>3, <2>3, <2>8, <3>1 DEF PoolInv, Unused
    <3>3. \A c \in Conns : c >= next_conn' => c >= next_conn
      BY <1>3, <2>3, <3>1
    <3> QED BY <1>3, <3>2, <3>3 DEF PoolInv, Unused, InTx, txVars, dbVars
  <2>15. IdleIsClean' BY <1>3, <2>6 DEF PoolInv, IdleIsClean, InTx, txVars, dbVars
  <2>16. Limits'
    <3>1. "insert" \in OpeningAt /\ "open" \in OpeningAt BY DEF OpeningAt
    <3>2. Opening' = Opening BY <1>1, <1>3, <3>1, EnterOpening DEF PoolInv
    <3> QED BY <1>3, <3>2 DEF PoolInv, Limits, Weight, Total
  <2> QED BY <2>1, <2>4, <2>5, <2>12, <2>13, <2>14, <2>15, <2>16 DEF PoolInv
<1> QED BY <1>2, <1>3 DEF OpenConnection

(* The new connection is recorded.                                          *)
LEMMA StepInsert ==
    ASSUME PoolInv, NEW t \in Threads, Insert(t)
    PROVE  PoolInv'
<1>1. pc[t] = "insert" BY DEF Insert
<1>2. CASE PanicOnPoison(t) BY <1>2, StepPanicOnPoison
<1>3. CASE PanicWithLock(t) BY <1>1, <1>3, StepPanicWithLock
<1>4. CASE /\ pool = "open"
           /\ in_use' = in_use \cup {got[t]}
           /\ holder' = [holder EXCEPT ![got[t]] = t]
           /\ got' = [got EXCEPT ![t] = NoConn]
           /\ PoolGoto(t, "idle")
           /\ UNCHANGED <<pool, poisoned, available, next_conn, live, orphans, raced, txVars>>
  <2> DEFINE c == got[t]
  <2>1. TxInv' /\ TxTypeOK' BY <1>4, TxFrame DEF PoolInv, TxInv
  <2>2. /\ pc \in [Threads -> PoolAt] /\ got \in [Threads -> Conns \cup {NoConn}]
        /\ holder \in [Conns -> Threads \cup {NoConn}]
        /\ pc' = [pc EXCEPT ![t] = "idle"] /\ t # NoConn /\ NoConn \notin Conns
    BY <1>4, PoolAssumption DEF PoolInv, PoolTypeOK, PoolAt, PoolGoto
  <2>3. c # NoConn /\ c \in live /\ c \notin Idles /\ c \notin in_use
    BY <1>1 DEF PoolInv, Hands
  <2>4. c \in Conns BY <2>2, <2>3
  <2>5. /\ \A s \in Threads : s # t => got'[s] = got[s] /\ got[s] # c
        /\ got'[t] = NoConn
    BY <1>4, <2>2, <2>3 DEF PoolInv, Hands
  <2>6. \A s \in Threads : s # t => pc'[s] = pc[s] BY <2>2
  <2>7. Idles' = Idles /\ (Distinct' <=> Distinct) BY <1>4 DEF Idles, Distinct
  <2> HIDE DEF c
  <2>8. in_use' = in_use \cup {c} /\ holder' = [holder EXCEPT ![c] = t]
    BY <1>4 DEF c
  <2>9. PoolTypeOK'
    BY <1>4, <2>1, <2>2, <2>4, <2>8 DEF PoolInv, PoolTypeOK, PoolAt
  <2>10. Stages' BY <1>4, <2>2 DEF PoolInv, Stages, PanicNeedsClose
  <2>11. Places'
    <3>1. in_use = {x \in Conns : holder[x] # NoConn} BY <1>4 DEF PoolInv, Places
    <3>2. in_use' = {x \in Conns : holder'[x] # NoConn} BY <2>2, <2>4, <2>8, <3>1
    <3>3. live \subseteq Idles \cup in_use \cup orphans \cup {got[s] : s \in Threads}
      BY DEF PoolInv, Places, NoneLeaked
    <3>4. {got[s] : s \in Threads} \subseteq {got'[s] : s \in Threads} \cup {c}
      BY <2>5 DEF c
    <3>5. NoneLeaked'
      BY <1>4, <2>3, <2>7, <2>8, <3>3, <3>4 DEF PoolInv, Places, NoneLeaked
    <3> QED BY <2>3, <2>7, <2>8, <3>2, <3>5 DEF PoolInv, Places
  <2>12. Hands'
    <3>1. \A s \in Threads : pc'[s] = "insert" => s # t BY <2>2
    <3>2. \A s \in Threads : pc'[s] = "insert" => got'[s] # NoConn
      BY <2>5, <2>6, <3>1 DEF PoolInv, Hands
    <3>3. \A s \in Threads : got'[s] # NoConn =>
             /\ pc'[s] \in {"insert", "panicked"}
             /\ got'[s] \in live' /\ got'[s] \notin Idles' /\ got'[s] \notin in_use'
      BY <1>4, <2>5, <2>6, <2>7, <2>8 DEF PoolInv, Hands
    <3>4. \A r, s \in Threads : got'[r] = got'[s] /\ got'[r] # NoConn => r = s
      BY <2>5 DEF PoolInv, Hands
    <3> QED BY <3>2, <3>3, <3>4 DEF Hands
  <2>13. Unused'
    <3>1. c < next_conn BY <2>3 DEF PoolInv, Unused
    <3>2. c \in Nat /\ next_conn \in Nat /\ \A x \in Conns : x \in Nat
      BY <2>4, TxBounds DEF Conns, PoolInv, PoolTypeOK
    <3>3. \A x \in Conns : x >= next_conn => x # c BY <3>1, <3>2
    <3> QED BY <1>4, <2>2, <2>8, <3>3 DEF PoolInv, Unused, InTx, txVars, dbVars
  <2>14. IdleIsClean' BY <1>4, <2>7 DEF PoolInv, IdleIsClean, InTx, txVars, dbVars
  <2>15. Limits'
    <3>1. /\ Len(available) \in Nat /\ IsFiniteSet(in_use) /\ Cardinality(in_use) \in Nat
          /\ Cardinality(Opening) \in Nat /\ Cardinality(Threads) \in Nat
          /\ MaxConnections \in Nat
      BY Sizes, PoolAssumption DEF PoolInv
    <3>2. Cardinality(in_use') = Cardinality(in_use) + 1
      BY <2>3, <2>8, <3>1, FS_AddElement
    <3>3. "idle" \notin OpeningAt /\ "insert" \in OpeningAt BY DEF OpeningAt
    <3>4. Cardinality(Opening') \in Nat /\ Cardinality(Opening') = Cardinality(Opening) - 1
      BY <1>1, <1>4, <3>3, LeaveOpening DEF PoolInv
    <3>5. Weight' = Weight BY <1>4, <3>1, <3>2, <3>4 DEF Weight, Total
    <3> QED BY <1>4, <3>5 DEF PoolInv, Limits
  <2> QED BY <2>1, <2>9, <2>10, <2>11, <2>12, <2>13, <2>14, <2>15 DEF PoolInv
<1> QED BY <1>2, <1>3, <1>4 DEF Insert

(* The first connections are opened; the pool is recorded if all could be.  *)
LEMMA StepCreate ==
    ASSUME PoolInv, NEW t \in Threads, PoolCreate(t)
    PROVE  PoolInv'
<1>1. PICK n \in 0 .. MinConnections :
         LET opened == next_conn .. next_conn + n - 1
         IN /\ opened \subseteq Conns
            /\ next_conn' = next_conn + n
            /\ live' = live \cup opened
            /\ IF n = MinConnections
               THEN /\ pool' = "open"
                    /\ available' = [i \in 1 .. n |-> next_conn + i - 1]
                    /\ UNCHANGED orphans
               ELSE orphans' = orphans \cup opened /\ UNCHANGED <<pool, available>>
  BY DEF PoolCreate
<1> DEFINE opened == next_conn .. next_conn + n - 1
<1>2. /\ opened \subseteq Conns /\ next_conn' = next_conn + n /\ live' = live \cup opened
  BY <1>1
<1>3. /\ pool = "none" /\ poisoned = FALSE
      /\ UNCHANGED <<poisoned, in_use, pc, got, holder, raced, txVars>>
  BY DEF PoolCreate, PoolInv, PoolTypeOK
<1>4. TxInv' /\ TxTypeOK' BY <1>3, TxFrame DEF PoolInv, TxInv
<1>5. /\ available = <<>> /\ in_use = {} /\ \A s \in Threads : pc[s] = "idle"
      /\ \A x \in Conns : holder[x] = NoConn
  BY <1>3 DEF PoolInv, Stages
<1>6. Opening = {} /\ Opening' = {} BY <1>3, <1>5 DEF Opening
<1>7. /\ n \in Nat /\ n <= MaxConnections /\ next_conn \in Nat /\ next_conn >= 1
      /\ MaxConns \in Nat /\ MaxConnections \in Nat
      /\ Cardinality(Threads) \in Nat /\ Cardinality(Threads) >= 1
  BY PoolAssumption, TxBounds, Sizes DEF PoolInv, PoolTypeOK
<1>8. next_conn' \in 1 .. MaxConns + 1
  <2>1. CASE n = 0 BY <1>2, <1>7, <2>1 DEF PoolInv, PoolTypeOK
  <2>2. CASE n # 0
    <3>1. next_conn + n - 1 \in opened BY <1>7, <2>2
    <3>2. next_conn + n - 1 <= MaxConns BY <1>2, <3>1 DEF Conns
    <3> QED BY <1>2, <1>7, <3>2
  <2> QED BY <2>1, <2>2
<1>9. \A s \in Threads : got[s] = NoConn BY <1>5 DEF PoolInv, Hands
<1>10. Hands' BY <1>3, <1>5, <1>9 DEF Hands
<1>11. \A c \in Conns : c \in Nat BY <1>7 DEF Conns
<1>12. Unused'
  <2>1. live \subseteq Conns BY DEF PoolInv, PoolTypeOK
  <2>2. \A c \in live : c < next_conn + n BY <1>7, <1>11, <2>1 DEF PoolInv, Unused
  <2>3. \A c \in opened : c < next_conn + n BY <1>7
  <2>4. \A c \in Conns : c >= next_conn + n => c >= next_conn BY <1>7, <1>11
  <2> HIDE DEF opened
  <2> QED BY <1>2, <1>3, <2>2, <2>3, <2>4 DEF PoolInv, Unused, InTx, txVars, dbVars
<1>13. CASE n # MinConnections
  <2>1. pool' = pool /\ available' = available /\ orphans' = orphans \cup opened
    BY <1>1, <1>13
  <2> HIDE DEF opened
  <2>2. PoolTypeOK'
    BY <1>2, <1>3, <1>4, <1>8, <2>1 DEF PoolInv, PoolTypeOK
  <2>3. Stages' BY <1>3, <2>1 DEF PoolInv, Stages, PanicNeedsClose
  <2>4. Idles' = Idles /\ (Distinct' <=> Distinct) BY <2>1 DEF Idles, Distinct
  <2>5. Places' BY <1>2, <1>3, <2>1, <2>4 DEF PoolInv, Places, NoneLeaked
  <2>6. IdleIsClean' BY <1>3, <2>4 DEF PoolInv, IdleIsClean, InTx, txVars, dbVars
  <2>7. Limits' BY <1>3, <1>6, <2>1 DEF PoolInv, Limits, Weight, Total
  <2> QED BY <1>4, <1>10, <1>12, <2>2, <2>3, <2>5, <2>6, <2>7 DEF PoolInv
<1>14. CASE n = MinConnections
  <2>1. /\ pool' = "open" /\ orphans' = orphans
        /\ available' = [i \in 1 .. n |-> next_conn + i - 1]
    BY <1>1, <1>14
  <2>2. \A i \in 1 .. n : next_conn + i - 1 \in opened BY <1>7
  <2>3. available' \in Seq(Conns) /\ Len(available') = n
    <3>1. \A i \in 1 .. n : next_conn + i - 1 \in Conns BY <1>2, <2>2
    <3> QED BY <1>7, <2>1, <3>1
  <2>4. Idles' = opened
    <3>1. \A c \in opened : c - next_conn + 1 \in 1 .. n
                            /\ c = next_conn + (c - next_conn + 1) - 1
      BY <1>7
    <3>2. Idles' = {next_conn + i - 1 : i \in 1 .. n} BY <2>1, <2>3 DEF Idles
    <3> HIDE DEF opened
    <3> QED BY <2>2, <3>1, <3>2
  <2>5. Distinct'
    <3>1. \A i, k \in 1 .. n : next_conn + i - 1 = next_conn + k - 1 => i = k BY <1>7
    <3> QED BY <2>1, <2>3, <3>1 DEF Distinct
  <2>6. \A c \in opened : c >= next_conn BY <1>7
  <2> HIDE DEF opened
  <2>7. PoolTypeOK'
    BY <1>2, <1>3, <1>4, <1>8, <2>1, <2>3 DEF PoolInv, PoolTypeOK
  <2>8. Stages' BY <1>3, <1>5, <2>1 DEF PoolInv, Stages, PanicNeedsClose
  <2>9. Places'
    <3>1. Idles = {} BY <1>5 DEF Idles
    <3>2. NoneLeaked' BY <1>2, <1>3, <1>5, <2>1, <2>4, <3>1 DEF PoolInv, Places, NoneLeaked
    <3> QED BY <1>3, <1>5, <2>5, <3>2 DEF Places
  <2>10. IdleIsClean'
    BY <1>2, <1>3, <2>4, <2>6 DEF PoolInv, Unused, IdleIsClean, InTx, txVars, dbVars
  <2>11. Limits'
    <3>1. Cardinality(Opening') = 0 /\ Cardinality(in_use') = 0
      BY <1>3, <1>5, <1>6, FS_EmptySet
    <3>2. Weight' = n BY <1>7, <2>3, <3>1 DEF Weight, Total
    <3> QED BY <1>7, <3>2 DEF Limits
  <2> QED BY <1>4, <1>10, <1>12, <2>7, <2>8, <2>9, <2>10, <2>11 DEF PoolInv
<1> QED BY <1>13, <1>14

(* The pool is closed with all its connections.                             *)
LEMMA StepClose ==
    ASSUME PoolInv, NEW t \in Threads, PoolClose(t)
    PROVE  PoolInv'
<1>1. pc[t] = "idle" BY DEF PoolClose, IsIdle
<1>2. CASE PanicOnPoison(t) BY <1>2, StepPanicOnPoison
<1>3. CASE Fails(t) BY <1>1, <1>3, StepFails
<1>4. CASE /\ pool = "open" /\ pool' = "closed"
           /\ live' = live \ (Idles \cup in_use)
           /\ available' = <<>> /\ in_use' = {}
           /\ UNCHANGED <<poisoned, next_conn, pc, got, holder, orphans, raced, txVars>>
  <2>1. TxInv' /\ TxTypeOK' BY <1>4, TxFrame DEF PoolInv, TxInv
  <2>2. Idles' = {} /\ Distinct' BY <1>4 DEF Idles, Distinct
  <2>3. <<>> \in Seq(Conns) OBVIOUS
  <2>4. PoolTypeOK' BY <1>4, <2>1, <2>3 DEF PoolInv, PoolTypeOK
  <2>5. Stages' BY <1>4 DEF PoolInv, Stages, PanicNeedsClose
  <2>6. Places' BY <1>4, <2>2 DEF PoolInv, Places, NoneLeaked
  <2>7. Hands' BY <1>4, <2>2 DEF PoolInv, Hands
  <2>8. Unused' BY <1>4 DEF PoolInv, Unused, InTx, txVars, dbVars
  <2>9. IdleIsClean' BY <2>2 DEF IdleIsClean
  <2>10. Limits'
    <3>1. Opening' = Opening BY <1>4 DEF Opening
    <3>2. Total(available', in_use') = 0 BY <1>4, FS_EmptySet DEF Total
    <3>3. /\ Total(available, in_use) \in Nat /\ Cardinality(Opening) \in Nat
          /\ MaxConnections \in Nat /\ Cardinality(Threads) \in Nat
      BY Sizes, PoolAssumption DEF PoolInv, Total
    <3> QED BY <1>4, <3>1, <3>2, <3>3 DEF PoolInv, Limits, Weight
  <2> QED BY <2>1, <2>4, <2>5, <2>6, <2>7, <2>8, <2>9, <2>10 DEF PoolInv
<1> QED BY <1>2, <1>3, <1>4 DEF PoolClose, Idles

(* A connection comes back.                                                 *)
LEMMA StepRelease ==
    ASSUME PoolInv, NEW t \in Threads, NEW c \in Conns, PoolRelease(t, c)
    PROVE  PoolInv'
<1>1. pc[t] = "idle" BY DEF PoolRelease, IsIdle
<1>2. CASE PanicOnPoison(t) BY <1>2, StepPanicOnPoison
<1>3. CASE Fails(t) BY <1>1, <1>3, StepFails
<1>4. CASE /\ pool = "open" /\ c \in in_use
           /\ in_use' = in_use \ {c}
           /\ holder' = [holder EXCEPT ![c] = NoConn]
           /\ RollbackOnRelease(c)
           /\ IF ~broken[c] /\ Total(available, in_use \ {c}) < MaxConnections
              THEN available' = Append(available, c) /\ UNCHANGED live
              ELSE live' = live \ {c} /\ UNCHANGED available
           /\ UNCHANGED <<pool, poisoned, next_conn, pc, got, orphans, raced>>
  <2>1. TxInv' BY <1>4, TxRelease DEF PoolInv
  <2>2. TxTypeOK' BY <2>1 DEF TxInv
  <2>3. /\ c \notin Idles /\ c \in live /\ c < next_conn
        /\ holder \in [Conns -> Threads \cup {NoConn}]
    BY <1>4 DEF PoolInv, PoolTypeOK, Places, NoneLeaked, Unused
  <2>4. /\ available' \in Seq(Conns) /\ Len(available') \in Nat
        /\ Len(available') <= Len(available) + 1
        /\ Distinct'
        /\ \/ Idles' = Idles \cup {c} /\ live' = live /\ ~broken[c]
           \/ Idles' = Idles /\ live' = live \ {c}
    <3>1. CASE ~broken[c] /\ available' = Append(available, c) /\ live' = live
      <4>1. /\ available' \in Seq(Conns) /\ Len(available') = Len(available) + 1
            /\ Idles' = Idles \cup {c} /\ Distinct'
        BY <2>3, <3>1, AppendIdles DEF PoolInv, Places
      <4> QED BY <3>1, <4>1, Sizes DEF PoolInv
    <3>2. CASE live' = live \ {c} /\ available' = available
      <4>1. Idles' = Idles /\ Distinct' BY <3>2 DEF Idles, Distinct, PoolInv, Places
      <4> QED BY <3>2, <4>1, Sizes DEF PoolInv, PoolTypeOK
    <3> QED BY <1>4, <3>1, <3>2
  <2>5. db' = [db EXCEPT ![c] = IF EndOk(c) THEN <<>> ELSE db[c]] /\ kind' = kind
        /\ db \in [Conns -> Seq(Levels)]
    BY <1>4 DEF RollbackOnRelease, PoolInv, TxInv
  <2>6. \A x \in Conns : x # c => db'[x] = db[x] BY <2>5
  <2>7. ~broken[c] => db'[c] = <<>> BY <2>5 DEF EndOk, InTx
  <2>8. PoolTypeOK' BY <1>4, <2>2, <2>3, <2>4 DEF PoolInv, PoolTypeOK
  <2>9. Stages' BY <1>4, <2>3 DEF PoolInv, Stages, PanicNeedsClose
  <2>10. Places'
    <3>1. in_use' = {x \in Conns : holder'[x] # NoConn}
      <4>1. in_use = {x \in Conns : holder[x] # NoConn} BY <1>4 DEF PoolInv, Places
      <4> QED BY <1>4, <2>3, <4>1
    <3>2. Idles' \cap in_use' = {} BY <1>4, <2>4 DEF PoolInv, Places
    <3>3. NoneLeaked' BY <1>4, <2>3, <2>4 DEF PoolInv, Places, NoneLeaked
    <3> QED BY <2>4, <3>1, <3>2, <3>3 DEF Places
  <2>11. Hands'
    <3>1. \A s \in Threads : got[s] # NoConn => got[s] # c BY <1>4 DEF PoolInv, Hands
    <3> QED BY <1>4, <2>4, <3>1 DEF PoolInv, Hands
  <2>12. Unused'
    <3>1. c \in Nat /\ next_conn \in Nat /\ \A x \in Conns : x \in Nat
      BY TxBounds DEF Conns, PoolInv, PoolTypeOK
    <3>2. \A x \in Conns : x >= next_conn => x # c BY <2>3, <3>1
    <3> QED BY <1>4, <2>3, <2>4, <2>6, <3>2 DEF PoolInv, Unused, InTx
  <2>13. IdleIsClean'
    <3>1. \A x \in Idles : x \in Conns BY DEF Idles, PoolInv, PoolTypeOK
    <3>2. \A x \in Idles : db'[x] = <<>>
      BY <2>3, <2>6, <3>1 DEF PoolInv, IdleIsClean, InTx
    <3>3. \A x \in Idles' : db'[x] = <<>> BY <2>4, <2>7, <3>2
    <3> QED BY <3>3 DEF IdleIsClean, InTx
  <2>14. Limits'
    <3>1. /\ Len(available) \in Nat /\ IsFiniteSet(in_use) /\ Cardinality(in_use) \in Nat
          /\ Cardinality(Opening) \in Nat /\ Cardinality(Threads) \in Nat
          /\ MaxConnections \in Nat
      BY Sizes, PoolAssumption DEF PoolInv
    <3>2. Cardinality(in_use') = Cardinality(in_use) - 1 /\ IsFiniteSet(in_use')
      BY <1>4, <3>1, FS_RemoveElement
    <3>3. Cardinality(in_use') \in Nat BY <3>2, FS_CardinalityType
    <3>4. Opening' = Opening BY <1>4 DEF Opening
    <3>5. Weight' <= Weight /\ Weight' \in Nat /\ Weight \in Nat
      BY <2>4, <3>1, <3>2, <3>3, <3>4 DEF Weight, Total
    <3> QED BY <1>4, <3>1, <3>5 DEF PoolInv, Limits
  <2> QED BY <2>1, <2>8, <2>9, <2>10, <2>11, <2>12, <2>13, <2>14 DEF PoolInv
<1> QED BY <1>2, <1>3, <1>4 DEF PoolRelease

(* PoolInv is kept by a step of the scopes on a connection that is not      *)
(* available, or that ends its transaction.                                 *)
LEMMA PoolFrame ==
    ASSUME PoolInv, UNCHANGED poolVars, TxInv',
           \A x \in Conns : \/ db'[x] = db[x]
                            \/ db'[x] = <<>>
                            \/ ~(x >= next_conn) /\ x \notin Idles
    PROVE  PoolInv'
<1> USE DEF poolVars
<1>1. PoolTypeOK' BY DEF PoolInv, PoolTypeOK, TxInv
<1>2. Stages' BY DEF PoolInv, Stages, PanicNeedsClose
<1>3. Idles' = Idles /\ (Distinct' <=> Distinct) BY DEF Idles, Distinct
<1>4. Places' BY <1>3 DEF PoolInv, Places, NoneLeaked
<1>5. Hands' BY <1>3 DEF PoolInv, Hands
<1>6. Unused' BY DEF PoolInv, Unused, InTx
<1>7. \A x \in Idles : x \in Conns BY DEF Idles, PoolInv, PoolTypeOK
<1>8. IdleIsClean' BY <1>3, <1>7 DEF PoolInv, IdleIsClean, InTx
<1>9. Opening' = Opening BY DEF Opening
<1>10. Limits' BY <1>9 DEF PoolInv, Limits, Weight, Total
<1> QED BY <1>1, <1>2, <1>4, <1>5, <1>6, <1>8, <1>10 DEF PoolInv

(* The scopes of a connection change the database there only.               *)
LEMMA OnlyThere ==
    ASSUME TxInv, NEW c \in Conns, TxCall(c) \/ Write(c) \/ Break(c)
    PROVE  \A x \in Conns : x # c => db'[x] = db[x]
<1>1. db \in [Conns -> Seq(Levels)] BY DEF TxInv
<1>2. db' = db \/ \E d : db' = [db EXCEPT ![c] = d]
  <2>1. CASE TxScopeBegin(c) BY <2>1 DEF TxScopeBegin
  <2>2. ASSUME NEW id \in Scopes, NEW success \in BOOLEAN, TxScopeEnd(c, id, success)
        PROVE  db' = db \/ \E d : db' = [db EXCEPT ![c] = d]
    <3>1. Release(c, Last(savepoints[c])) => \E d : db' = [db EXCEPT ![c] = d]
      BY DEF Release
    <3>2. RollbackTo(c, Last(savepoints[c])) => \E d : db' = [db EXCEPT ![c] = d]
      BY DEF RollbackTo
    <3>3. Commit(c) \/ Rollback(c) => \E d : db' = [db EXCEPT ![c] = d]
      BY DEF Commit, Rollback
    <3> QED BY <2>2, <3>1, <3>2, <3>3 DEF TxScopeEnd, EndOutermost, EndNested, NoEffect
  <2>3. CASE Write(c) BY <2>3 DEF Write
  <2>4. CASE Break(c) BY <2>4 DEF Break
  <2> QED BY <2>1, <2>2, <2>3, <2>4 DEF TxCall
<1> QED BY <1>1, <1>2

(* A thread uses a connection that it holds.                                *)
LEMMA StepUse ==
    ASSUME PoolInv, NEW t \in Threads, UseConnection(t)
    PROVE  PoolInv'
<1>1. PICK c \in Mine(t) \cap live : TxCall(c) \/ Write(c) BY DEF UseConnection
<1>2. UNCHANGED poolVars BY DEF UseConnection
<1>3. /\ c \in Conns /\ holder[c] # NoConn /\ c < next_conn /\ c \in Nat /\ next_conn \in Nat
  BY <1>1, PoolAssumption, TxBounds DEF Mine, Conns, PoolInv, PoolTypeOK, Unused
<1>4. c \notin Idles
  <2>1. CASE pool = "open" BY <1>3, <2>1 DEF PoolInv, Places
  <2>2. CASE pool # "open" BY <2>2 DEF PoolInv, Stages, Idles
  <2> QED BY <2>1, <2>2
<1>5. TxInv' BY <1>1, <1>3, TxCalls, TxWrite DEF PoolInv
<1>6. \A x \in Conns : x # c => db'[x] = db[x] BY <1>1, <1>3, OnlyThere DEF PoolInv
<1>7. ~(c >= next_conn) BY <1>3
<1> QED BY <1>2, <1>4, <1>5, <1>6, <1>7, PoolFrame

(* The database drops a connection.                                         *)
LEMMA StepDrop ==
    ASSUME PoolInv, DropConnection
    PROVE  PoolInv'
<1>1. PICK c \in live : Break(c) BY DEF DropConnection
<1>2. UNCHANGED poolVars BY DEF DropConnection
<1>3. c \in Conns BY DEF PoolInv, PoolTypeOK
<1>4. TxInv' BY <1>1, <1>3, TxBreak DEF PoolInv
<1>5. \A x \in Conns : x # c => db'[x] = db[x] BY <1>1, <1>3, OnlyThere DEF PoolInv
<1>6. db'[c] = <<>> BY <1>1, <1>3 DEF Break, PoolInv, TxInv
<1> QED BY <1>2, <1>4, <1>5, <1>6, PoolFrame

(* The initial states.                                                      *)
LEMMA InitPoolInv == Init => PoolInv
<1> SUFFICES ASSUME Init PROVE PoolInv OBVIOUS
<1>1. <<>> \in Seq(Scopes) /\ <<>> \in Seq(Levels) /\ <<>> \in Seq(Conns) OBVIOUS
<1>2. TxTypeOK BY <1>1, TxBounds DEF Init, TxInit, TxTypeOK
<1>3. \A c \in Conns : db[c] = <<>> /\ depth[c] = 0 /\ savepoints[c] = <<>> /\ scope_ids[c] = <<>>
  BY DEF Init, TxInit
<1>4. TxInv
  <2>1. db \in [Conns -> Seq(Levels)] BY <1>1 DEF Init, TxInit
  <2>2. \A c \in Conns : Good(db[c], next_scope) BY <1>3, GoodEmpty
  <2>3. \A c \in Conns : Agree(depth[c], savepoints[c], scope_ids[c], db[c], Trusted(c))
    BY <1>3 DEF Agree
  <2> QED BY <1>2, <2>1, <2>2, <2>3 DEF TxInv
<1>5. PoolTypeOK
  <2>1. next_conn \in 1 .. MaxConns + 1 BY TxBounds DEF Init
  <2>2. pc \in [Threads -> {"idle", "asleep", "fetch", "open", "insert", "exhausted",
                            "panicked"}]
    BY DEF Init
  <2>3. got \in [Threads -> Conns \cup {NoConn}] /\ holder \in [Conns -> Threads \cup {NoConn}]
    BY DEF Init
  <2>4. available \in Seq(Conns) BY <1>1 DEF Init
  <2>5. /\ pool \in {"none", "open", "closed"} /\ poisoned \in BOOLEAN /\ raced \in BOOLEAN
        /\ in_use \subseteq Conns /\ live \subseteq Conns /\ orphans \subseteq Conns
    BY DEF Init
  <2> QED BY <1>2, <2>1, <2>2, <2>3, <2>4, <2>5 DEF PoolTypeOK
<1>6. Stages BY DEF Init, Stages, PanicNeedsClose
<1>7. Idles = {} /\ Distinct BY DEF Init, Idles, Distinct
<1>8. Places BY <1>7 DEF Init, Places, NoneLeaked
<1>9. Hands BY DEF Init, Hands
<1>10. Unused BY <1>3 DEF Init, Unused, InTx
<1>11. IdleIsClean BY <1>7 DEF IdleIsClean
<1>12. Limits
  <2>1. Opening = {} BY DEF Init, Opening
  <2>2. Cardinality(Opening) = 0 /\ Cardinality(in_use) = 0
    BY <2>1, FS_EmptySet DEF Init
  <2>3. Weight = 0 BY <2>2 DEF Init, Weight, Total
  <2>4. MaxConnections \in Nat /\ Cardinality(Threads) \in Nat /\ Cardinality(Threads) >= 1
    BY <1>5, Sizes, PoolAssumption
  <2> QED BY <2>3, <2>4 DEF Limits
<1> QED BY <1>4, <1>5, <1>6, <1>8, <1>9, <1>10, <1>11, <1>12 DEF PoolInv

(* Every step.                                                              *)
LEMMA NextPoolInv == PoolInv /\ [Next]_vars => PoolInv'
<1> SUFFICES ASSUME PoolInv, [Next]_vars PROVE PoolInv' OBVIOUS
<1>1. CASE UNCHANGED vars
  <2>1. UNCHANGED poolVars /\ UNCHANGED txVars BY <1>1 DEF vars
  <2>2. TxInv' /\ db' = db BY <2>1, TxFrame DEF PoolInv, txVars, dbVars
  <2> QED BY <2>1, <2>2, PoolFrame
<1>2. ASSUME NEW t \in Threads,
             \/ PoolCreate(t) \/ PoolClose(t) \/ PoolAcquire(t) \/ AcquireStep(t)
             \/ ReleaseOwn(t) \/ ReleaseStray(t) \/ UseConnection(t)
      PROVE  PoolInv'
  <2>1. AcquireStep(t) => PoolInv'
    BY StepAcquire, StepFetchString, StepOpen, StepInsert, StepExhausted DEF AcquireStep
  <2>2. ReleaseOwn(t) \/ ReleaseStray(t) => PoolInv'
    BY StepRelease DEF ReleaseOwn, ReleaseStray, Mine
  <2> QED BY <1>2, <2>1, <2>2, StepCreate, StepClose, StepAcquire, StepUse
<1>3. CASE DropConnection BY <1>3, StepDrop
<1> QED BY <1>1, <1>2, <1>3 DEF Next

(* The inductive invariant holds in every reachable state.                  *)
LEMMA DbPoolInvariant == Spec => []PoolInv
<1> QED BY InitPoolInv, NextPoolInv, PTL DEF Spec

(* Whichever threads acquire, release, fail and close, and whatever the     *)
(* databases do: no connection is shared or leaked, the limit is passed     *)
(* only by threads that open at the same time, an available connection has  *)
(* no open transaction, and the stacks of the scopes agree with each other  *)
(* and with the database.                                                   *)
THEOREM DbConnectionsSafe == Spec => []ConnectionsSafe
<1>1. PoolInv => ConnectionsSafe
  <2> SUFFICES ASSUME PoolInv PROVE ConnectionsSafe OBVIOUS
  <2>1. Exclusive BY DEF PoolInv, Places, Distinct, Exclusive
  <2>2. LimitKept
    <3>1. /\ Total(available, in_use) \in Nat /\ Cardinality(Opening) \in Nat
          /\ MaxConnections \in Nat /\ Cardinality(Threads) \in Nat
      BY Sizes, PoolAssumption DEF PoolInv, Total
    <3> QED BY <3>1 DEF PoolInv, Limits, Weight, LimitKept
  <2>3. StacksAgree BY DEF PoolInv, TxInv, Agree, StacksAgree
  <2>4. DepthAgrees BY DEF PoolInv, TxInv, Agree, DepthAgrees, InTx
  <2> QED BY <2>1, <2>2, <2>3, <2>4 DEF PoolInv, ConnectionsSafe, Places, Stages
<1> QED BY <1>1, DbPoolInvariant, PTL

-----------------------------------------------------------------------------
(* Scopes as nested transactions.                                          *)

\* The names of the levels d are in ascending order: a scope's id is its name.
Ascending(d) == \A i, k \in 1 .. Len(d) : i < k => d[i].name < d[k].name

\* The scopes ids are open, in this order, in the levels d of a database.  Levels
\* that a rollback has left behind may lie between theirs.
Nest(d, ids) ==
    /\ d \in Seq(Levels) /\ ids \in Seq(Scopes)
    /\ ids # <<>> => d # <<>>
    /\ d # <<>> => d[1].name = 0
    /\ Ascending(d)
    /\ \A i, k \in 1 .. Len(ids) : i < k => ids[i] < ids[k]
    /\ \A i \in 2 .. Len(ids) : \E k \in 1 .. Len(d) : d[k].name = ids[i]

\* The level that scope i was opened with, and the last level that is its own.
At(d, ids, i) == IF i = 1 THEN 1 ELSE CHOOSE k \in 1 .. Len(d) : d[k].name = ids[i]
Upto(d, ids, i) == IF i = Len(ids) THEN Len(d) ELSE At(d, ids, i + 1) - 1

\* The writes in levels i to k, and those of each open scope.
Span(d, i, k) == UNION {d[j].writes : j \in i .. k}
Stack(d, ids) == [i \in 1 .. Len(ids) |-> Span(d, At(d, ids, i), Upto(d, ids, i))]

(* Levels in ascending order have one name each.                            *)
LEMMA AtIs ==
    ASSUME NEW d, NEW ids, Nest(d, ids), NEW i \in 2 .. Len(ids),
           NEW k \in 1 .. Len(d), d[k].name = ids[i]
    PROVE  At(d, ids, i) = k
<1>1. d \in Seq(Levels) /\ ids \in Seq(Scopes) /\ i # 1 BY DEF Nest
<1>2. \A j \in 1 .. Len(d) : d[j].name \in Nat BY <1>1, LevelNames
<1>3. \A j \in 1 .. Len(d) : d[j].name = ids[i] => j = k
  <2> SUFFICES ASSUME NEW j \in 1 .. Len(d), d[j].name = ids[i] PROVE j = k OBVIOUS
  <2>1. ~(j < k) /\ ~(k < j) BY <1>2 DEF Nest, Ascending
  <2> QED BY <2>1, <1>1
<1>4. (CHOOSE j \in 1 .. Len(d) : d[j].name = ids[i]) = k BY <1>3
<1> QED BY <1>1, <1>4 DEF At

(* Where the scopes are: in the levels, in order.                           *)
LEMMA Positions ==
    ASSUME NEW d, NEW ids, Nest(d, ids)
    PROVE  /\ Len(d) \in Nat /\ Len(ids) \in Nat
           /\ \A i \in 1 .. Len(ids) : At(d, ids, i) \in 1 .. Len(d)
           /\ \A i \in 2 .. Len(ids) : d[At(d, ids, i)].name = ids[i]
           /\ \A i, k \in 1 .. Len(ids) : i < k => At(d, ids, i) < At(d, ids, k)
           /\ \A i \in 1 .. Len(ids) : Upto(d, ids, i) \in 0 .. Len(d)
<1>1. d \in Seq(Levels) /\ ids \in Seq(Scopes) /\ Len(d) \in Nat /\ Len(ids) \in Nat
  BY DEF Nest
<1>2. \A j \in 1 .. Len(d) : d[j].name \in Nat BY <1>1, LevelNames
<1>3. \A i \in 1 .. Len(ids) : ids[i] \in Nat /\ ids[i] # 0
  <2>1. \A i \in 1 .. Len(ids) : ids[i] \in Scopes BY <1>1
  <2> QED BY <2>1, TxBounds DEF Scopes
<1>4. Len(ids) >= 1 => Len(d) >= 1 /\ d[1].name = 0
  BY <1>1 DEF Nest
<1>5. ASSUME NEW i \in 2 .. Len(ids)
      PROVE  At(d, ids, i) \in 1 .. Len(d) /\ d[At(d, ids, i)].name = ids[i]
  <2>1. PICK k \in 1 .. Len(d) : d[k].name = ids[i] BY DEF Nest
  <2>2. At(d, ids, i) = k BY <2>1, AtIs
  <2> QED BY <2>1, <2>2
<1>6. At(d, ids, 1) = 1 BY DEF At
<1>7. \A i \in 1 .. Len(ids) : i = 1 \/ i \in 2 .. Len(ids) BY <1>1
<1>8. \A i \in 1 .. Len(ids) : At(d, ids, i) \in 1 .. Len(d)
  BY <1>1, <1>4, <1>5, <1>6, <1>7
<1>9. ASSUME NEW i \in 1 .. Len(ids), NEW k \in 1 .. Len(ids), i < k
      PROVE  At(d, ids, i) < At(d, ids, k)
  <2>1. k \in 2 .. Len(ids) /\ At(d, ids, k) \in 1 .. Len(d) /\ d[At(d, ids, k)].name = ids[k]
    BY <1>1, <1>5, <1>9
  <2>2. CASE i = 1
    <3>1. At(d, ids, i) = 1 /\ d[1].name = 0 /\ 1 \in 1 .. Len(d) BY <1>1, <1>4, <1>6, <2>2
    <3>2. At(d, ids, k) # 1 BY <1>3, <2>1, <3>1
    <3> QED BY <2>1, <3>1, <3>2
  <2>3. CASE i \in 2 .. Len(ids)
    <3>1. At(d, ids, i) \in 1 .. Len(d) /\ d[At(d, ids, i)].name = ids[i] BY <1>5, <2>3
    <3>2. ids[i] < ids[k] /\ ids[i] \in Nat /\ ids[k] \in Nat BY <1>3, <1>9 DEF Nest
    <3>3. At(d, ids, i) # At(d, ids, k) BY <2>1, <3>1, <3>2
    <3>4. ~(At(d, ids, k) < At(d, ids, i)) BY <2>1, <3>1, <3>2 DEF Nest, Ascending
    <3> QED BY <2>1, <3>1, <3>3, <3>4
  <2> QED BY <1>7, <2>2, <2>3
<1>10. ASSUME NEW i \in 1 .. Len(ids)
       PROVE  Upto(d, ids, i) \in 0 .. Len(d)
  <2>1. CASE i = Len(ids) BY <1>1, <2>1 DEF Upto
  <2>2. CASE i # Len(ids)
    <3>1. i + 1 \in 1 .. Len(ids) BY <1>1, <2>2
    <3>2. At(d, ids, i + 1) \in 1 .. Len(d) BY <1>8, <3>1
    <3>3. Upto(d, ids, i) = At(d, ids, i + 1) - 1 BY <2>2 DEF Upto
    <3> QED BY <1>1, <3>2, <3>3
  <2> QED BY <2>1, <2>2
<1> QED BY <1>1, <1>5, <1>8, <1>9, <1>10

(* A stack of levels and scopes that begins like another: the scopes that   *)
(* are in both are at the same levels.                                      *)
LEMMA SamePlace ==
    ASSUME NEW d, NEW ids, Nest(d, ids), NEW e, NEW js, Nest(e, js),
           Len(e) <= Len(d), Len(js) <= Len(ids),
           \A k \in 1 .. Len(e) : e[k].name = d[k].name,
           \A i \in 1 .. Len(js) : js[i] = ids[i],
           NEW i \in 1 .. Len(js)
    PROVE  At(e, js, i) = At(d, ids, i)
<1>1. /\ Len(d) \in Nat /\ Len(ids) \in Nat /\ Len(e) \in Nat /\ Len(js) \in Nat
  BY Positions
<1>2. CASE i = 1 BY <1>2 DEF At
<1>3. CASE i \in 2 .. Len(js)
  <2>1. At(e, js, i) \in 1 .. Len(e) /\ e[At(e, js, i)].name = js[i]
    BY <1>3, Positions
  <2>2. At(e, js, i) \in 1 .. Len(d) /\ d[At(e, js, i)].name = ids[i] /\ i \in 2 .. Len(ids)
    BY <1>1, <1>3, <2>1
  <2> QED BY <2>2, AtIs
<1> QED BY <1>1, <1>2, <1>3

(* The lower levels hold the scopes below scope m.                          *)
LEMMA NestPrefix ==
    ASSUME NEW d, NEW ids, Nest(d, ids), NEW e, e \in Seq(Levels),
           NEW js, js \in Seq(Scopes),
           Len(e) <= Len(d), Len(js) <= Len(ids), e # <<>>,
           \A k \in 1 .. Len(e) : e[k].name = d[k].name,
           \A i \in 1 .. Len(js) : js[i] = ids[i],
           js # <<>> => At(d, ids, Len(js)) <= Len(e)
    PROVE  Nest(e, js)
<1>1. /\ Len(d) \in Nat /\ Len(ids) \in Nat /\ Len(e) \in Nat /\ Len(js) \in Nat
      /\ Len(e) >= 1 /\ d # <<>>
  BY Positions DEF Nest
<1>2. e[1].name = 0 BY <1>1 DEF Nest
<1>3. Ascending(e)
  <2>1. \A k \in 1 .. Len(e) : k \in 1 .. Len(d) BY <1>1
  <2> QED BY <2>1 DEF Nest, Ascending
<1>4. \A i \in 1 .. Len(js) : i \in 1 .. Len(ids) BY <1>1
<1>5. \A i, k \in 1 .. Len(js) : i < k => js[i] < js[k] BY <1>4 DEF Nest
<1>6. ASSUME NEW i \in 2 .. Len(js)
      PROVE  \E k \in 1 .. Len(e) : e[k].name = js[i]
  <2>1. /\ i \in 2 .. Len(ids) /\ i \in 1 .. Len(ids) /\ Len(js) \in 1 .. Len(ids)
        /\ js # <<>> /\ i \in 1 .. Len(js)
    BY <1>1
  <2>2. At(d, ids, i) \in 1 .. Len(d) /\ d[At(d, ids, i)].name = ids[i] BY <2>1, Positions
  <2>3. At(d, ids, Len(js)) \in 1 .. Len(d) /\ At(d, ids, Len(js)) <= Len(e)
    BY <2>1, Positions
  <2>4. i = Len(js) \/ At(d, ids, i) < At(d, ids, Len(js)) BY <1>1, <2>1, Positions
  <2>5. At(d, ids, i) \in 1 .. Len(e) BY <1>1, <2>2, <2>3, <2>4
  <2> QED BY <2>1, <2>2, <2>5
<1> QED BY <1>2, <1>3, <1>5, <1>6 DEF Nest
(* The writes in a row of levels, taken apart, and of rows that are alike.  *)
LEMMA SpanSplit ==
    ASSUME NEW d, NEW i \in Nat, NEW m \in Int, NEW k \in Nat, i <= m + 1, m <= k
    PROVE  Span(d, i, k) = Span(d, i, m) \cup Span(d, m + 1, k)
<1>1. \A j : j \in i .. k <=> (j \in i .. m \/ j \in m + 1 .. k) OBVIOUS
<1> QED BY <1>1 DEF Span

LEMMA SpanSame ==
    ASSUME NEW d, NEW e, NEW i, NEW k,
           \A j \in i .. k : d[j].writes = e[j].writes
    PROVE  Span(d, i, k) = Span(e, i, k)
BY DEF Span

LEMMA SpanOne ==
    ASSUME NEW d, NEW i \in Nat
    PROVE  Span(d, i, i) = d[i].writes
<1>1. i .. i = {i} OBVIOUS
<1> QED BY <1>1 DEF Span

LEMMA SpanNone ==
    ASSUME NEW d, NEW i \in Nat
    PROVE  Span(d, i, i - 1) = {}
<1>1. i .. i - 1 = {} OBVIOUS
<1> QED BY <1>1 DEF Span

(* Scopes that are in the same levels, with the same writes up to where the *)
(* next scope begins.                                                       *)
LEMMA SameBelow ==
    ASSUME NEW d, NEW ids, Nest(d, ids), NEW e, NEW js, Nest(e, js),
           NEW n \in 1 .. Len(ids), n <= Len(js),
           \A i \in 1 .. n : At(d, ids, i) = At(e, js, i),
           \A j \in 1 .. At(d, ids, n) - 1 : d[j].writes = e[j].writes
    PROVE  \A i \in 1 .. n : i < n => Stack(e, js)[i] = Stack(d, ids)[i]
<1> SUFFICES ASSUME NEW i \in 1 .. n, i < n PROVE Stack(e, js)[i] = Stack(d, ids)[i]
  OBVIOUS
<1>1. Len(ids) \in Nat /\ Len(js) \in Nat /\ Len(d) \in Nat BY Positions
<1>2. /\ i \in 1 .. Len(ids) /\ i \in 1 .. Len(js) /\ i # Len(ids) /\ i # Len(js)
      /\ i + 1 \in 1 .. n /\ i + 1 \in 1 .. Len(ids) /\ n \in 1 .. n /\ n \in 1 .. Len(ids)
  BY <1>1
<1>3. /\ Upto(d, ids, i) = At(d, ids, i + 1) - 1 /\ Upto(e, js, i) = At(e, js, i + 1) - 1
  BY <1>2 DEF Upto
<1>4. Upto(e, js, i) = Upto(d, ids, i) BY <1>2, <1>3
<1>5. /\ At(d, ids, i) \in 1 .. Len(d) /\ At(d, ids, i + 1) \in 1 .. Len(d)
      /\ At(d, ids, n) \in 1 .. Len(d)
      /\ (i + 1 = n \/ At(d, ids, i + 1) < At(d, ids, n))
  BY <1>1, <1>2, Positions
<1>6. \A j \in At(d, ids, i) .. Upto(d, ids, i) : j \in 1 .. At(d, ids, n) - 1
  BY <1>1, <1>3, <1>5
<1>7. Span(d, At(d, ids, i), Upto(d, ids, i)) = Span(e, At(d, ids, i), Upto(d, ids, i))
  BY <1>6, SpanSame
<1>8. At(e, js, i) = At(d, ids, i) OBVIOUS
<1> QED BY <1>2, <1>4, <1>7, <1>8 DEF Stack

(* A savepoint opens a scope without writes.                                *)
LEMMA StackBegin ==
    ASSUME NEW d, NEW ids, Nest(d, ids), ids # <<>>, NEW n \in Scopes,
           \A i \in 1 .. Len(d) : d[i].name < n,
           \A i \in 1 .. Len(ids) : ids[i] < n
    PROVE  /\ Nest(Append(d, Level(n)), Append(ids, n))
           /\ Stack(Append(d, Level(n)), Append(ids, n)) = Append(Stack(d, ids), {})
<1> DEFINE e == Append(d, Level(n))
           js == Append(ids, n)
           m == Len(ids)
<1>1. /\ d \in Seq(Levels) /\ ids \in Seq(Scopes) /\ Len(d) \in Nat /\ m \in Nat
      /\ d # <<>> /\ m >= 1 /\ Len(d) >= 1 /\ d[1].name = 0
  BY DEF Nest
<1>2. Level(n) \in Levels /\ Level(n).name = n /\ Level(n).writes = {} /\ n \in Nat
  BY TxBounds DEF Level, Levels, Scopes
<1>3. /\ e \in Seq(Levels) /\ Len(e) = Len(d) + 1 /\ e[Len(d) + 1] = Level(n) /\ e # <<>>
      /\ \A i \in 1 .. Len(d) : e[i] = d[i]
  BY <1>1, <1>2
<1>4. /\ js \in Seq(Scopes) /\ Len(js) = m + 1 /\ js[m + 1] = n
      /\ \A i \in 1 .. m : js[i] = ids[i]
  BY <1>1
<1> HIDE DEF e, js
<1>5. \A i \in 1 .. Len(e) : i \in 1 .. Len(d) \/ i = Len(d) + 1 BY <1>1, <1>3
<1>6. \A i \in 1 .. m + 1 : i \in 1 .. m \/ i = m + 1 BY <1>1
<1>7. Nest(e, js)
  <2>1. Ascending(e)
    <3> SUFFICES ASSUME NEW i \in 1 .. Len(e), NEW k \in 1 .. Len(e), i < k
                 PROVE  e[i].name < e[k].name
      BY DEF Ascending
    <3>1. i \in 1 .. Len(d) BY <1>1, <1>3
    <3>2. CASE k \in 1 .. Len(d) BY <1>3, <3>1, <3>2 DEF Nest, Ascending
    <3>3. CASE k = Len(d) + 1 BY <1>2, <1>3, <3>1, <3>3
    <3> QED BY <1>5, <3>2, <3>3
  <2>2. \A i, k \in 1 .. Len(js) : i < k => js[i] < js[k]
    <3> SUFFICES ASSUME NEW i \in 1 .. m + 1, NEW k \in 1 .. m + 1, i < k
                 PROVE  js[i] < js[k]
      BY <1>4
    <3>1. i \in 1 .. m BY <1>1
    <3>2. CASE k \in 1 .. m BY <1>4, <3>1, <3>2 DEF Nest
    <3>3. CASE k = m + 1 BY <1>4, <3>1, <3>3
    <3> QED BY <1>6, <3>2, <3>3
  <2>3. ASSUME NEW i \in 2 .. Len(js)
        PROVE  \E k \in 1 .. Len(e) : e[k].name = js[i]
    <3>1. CASE i = m + 1
      <4>1. Len(d) + 1 \in 1 .. Len(e) BY <1>1, <1>3
      <4> QED BY <1>2, <1>3, <1>4, <3>1, <4>1
    <3>2. CASE i \in 2 .. m
      <4>1. PICK k \in 1 .. Len(d) : d[k].name = ids[i] BY <3>2 DEF Nest
      <4>2. k \in 1 .. Len(e) /\ i \in 1 .. m BY <1>1, <1>3, <3>2
      <4> QED BY <1>3, <1>4, <4>1, <4>2
    <3> QED BY <1>1, <1>4, <3>1, <3>2
  <2>4. e[1].name = 0 BY <1>1, <1>3
  <2> QED BY <1>3, <1>4, <2>1, <2>2, <2>3, <2>4 DEF Nest
<1>8. \A i \in 1 .. m : At(d, ids, i) = At(e, js, i)
  <2>1. Len(d) <= Len(e) /\ Len(ids) <= Len(js) BY <1>1, <1>3, <1>4
  <2>2. \A k \in 1 .. Len(d) : d[k].name = e[k].name BY <1>3
  <2>3. \A i \in 1 .. Len(ids) : ids[i] = js[i] BY <1>4
  <2> QED BY <1>7, <2>1, <2>2, <2>3, SamePlace
<1>9. At(e, js, m + 1) = Len(d) + 1
  <2>1. Len(d) + 1 \in 1 .. Len(e) /\ m + 1 \in 2 .. Len(js) BY <1>1, <1>3, <1>4
  <2> QED BY <1>2, <1>3, <1>4, <1>7, <2>1, AtIs
<1>10. m \in 1 .. m /\ At(d, ids, m) \in 1 .. Len(d) BY <1>1, Positions
<1>11. \A i \in 1 .. m : i < m => Stack(e, js)[i] = Stack(d, ids)[i]
  <2>1. \A j \in 1 .. At(d, ids, m) - 1 : d[j].writes = e[j].writes
    BY <1>1, <1>3, <1>10
  <2>2. m \in 1 .. Len(ids) /\ m <= Len(js) BY <1>1, <1>4
  <2> QED BY <1>1, <1>7, <1>8, <2>1, <2>2, SameBelow
<1>12. Stack(e, js)[m] = Stack(d, ids)[m]
  <2>1. m # Len(js) /\ m \in 1 .. Len(js) BY <1>1, <1>4
  <2>2. Upto(e, js, m) = Len(d) BY <1>1, <1>9, <2>1 DEF Upto
  <2>3. Upto(d, ids, m) = Len(d) BY DEF Upto
  <2>4. \A j \in At(d, ids, m) .. Len(d) : d[j].writes = e[j].writes
    BY <1>1, <1>3, <1>10
  <2>5. Span(d, At(d, ids, m), Len(d)) = Span(e, At(d, ids, m), Len(d)) BY <2>4, SpanSame
  <2> QED BY <1>8, <1>10, <2>1, <2>2, <2>3, <2>5 DEF Stack
<1>13. Stack(e, js)[m + 1] = {}
  <2>1. m + 1 = Len(js) /\ m + 1 \in 1 .. Len(js) BY <1>1, <1>4
  <2>2. Upto(e, js, m + 1) = Len(d) + 1 BY <1>3, <2>1 DEF Upto
  <2>3. Span(e, Len(d) + 1, Len(d) + 1) = {} BY <1>1, <1>2, <1>3, SpanOne
  <2> QED BY <1>9, <2>1, <2>2, <2>3 DEF Stack
<1>14. Stack(e, js) = Append(Stack(d, ids), {})
  <2> DEFINE s == Stack(d, ids)
             r == Stack(e, js)
  <2>1. s = [i \in 1 .. m |-> s[i]] /\ r = [i \in 1 .. m + 1 |-> r[i]]
    BY <1>4 DEF Stack
  <2>2. \A i \in 1 .. m : r[i] = s[i] BY <1>1, <1>11, <1>12
  <2>3. r[m + 1] = {} BY <1>13
  <2> HIDE DEF s, r, m
  <2>4. Len(s) = m /\ DOMAIN s = 1 .. m BY <1>1, <2>1
  <2>5. Append(s, {}) = [i \in 1 .. m + 1 |-> IF i = m + 1 THEN {} ELSE s[i]]
    BY <1>1, <2>1, <2>4
  <2>6. \A i \in 1 .. m + 1 : r[i] = IF i = m + 1 THEN {} ELSE s[i]
    BY <1>1, <1>6, <2>2, <2>3
  <2> QED BY <2>1, <2>5, <2>6 DEF s, r
<1> QED BY <1>7, <1>14 DEF e, js
(* The last of a row of levels.                                             *)
LEMMA SpanLast ==
    ASSUME NEW d, NEW i \in Nat, NEW k \in Nat, i <= k
    PROVE  Span(d, i, k) = Span(d, i, k - 1) \cup d[k].writes
<1>1. k - 1 \in Int /\ i <= (k - 1) + 1 /\ k - 1 <= k /\ (k - 1) + 1 = k OBVIOUS
<1>2. Span(d, i, k) = Span(d, i, k - 1) \cup Span(d, k, k) BY <1>1, SpanSplit
<1>3. Span(d, k, k) = d[k].writes BY SpanOne
<1> QED BY <1>2, <1>3

(* Replacing the writes of a level leaves all the rest.                     *)
LEMMA SetWrites ==
    ASSUME NEW d \in Seq(Levels), NEW i \in 1 .. Len(d), NEW w \in SUBSET Writes
    PROVE  /\ WithWrites(d, i, w) \in Seq(Levels) /\ Len(WithWrites(d, i, w)) = Len(d)
           /\ \A k \in 1 .. Len(d) : WithWrites(d, i, w)[k].name = d[k].name
           /\ \A k \in 1 .. Len(d) :
                 WithWrites(d, i, w)[k].writes = IF k = i THEN w ELSE d[k].writes
<1> DEFINE e == WithWrites(d, i, w)
<1>1. \A k \in 1 .. Len(d) : d[k] \in Levels OBVIOUS
<1>2. e = [k \in 1 .. Len(d) |-> IF k = i THEN [d[k] EXCEPT !.writes = w] ELSE d[k]]
  BY DEF WithWrites
<1>3. \A k \in 1 .. Len(d) : /\ [d[k] EXCEPT !.writes = w] \in Levels
                             /\ [d[k] EXCEPT !.writes = w].name = d[k].name
                             /\ [d[k] EXCEPT !.writes = w].writes = w
  BY <1>1 DEF Levels
<1>4. \A k \in 1 .. Len(d) : /\ e[k] \in Levels /\ e[k].name = d[k].name
                             /\ e[k].writes = IF k = i THEN w ELSE d[k].writes
  BY <1>1, <1>2, <1>3
<1>5. e \in Seq(Levels) /\ Len(e) = Len(d)
  <2>1. e = [k \in 1 .. Len(d) |-> e[k]] /\ Len(d) \in Nat BY <1>2
  <2> HIDE DEF e
  <2> QED BY <1>4, <2>1
<1> QED BY <1>4, <1>5

\* d cut off after level k, which holds the writes w then.
Cut(d, k, w) == WithWrites(SubSeq(d, 1, k), k, w)

LEMMA CutIs ==
    ASSUME NEW d \in Seq(Levels), NEW k \in 1 .. Len(d), NEW w \in SUBSET Writes
    PROVE  /\ Cut(d, k, w) \in Seq(Levels) /\ Len(Cut(d, k, w)) = k /\ Cut(d, k, w) # <<>>
           /\ \A j \in 1 .. k : Cut(d, k, w)[j].name = d[j].name
           /\ \A j \in 1 .. k - 1 : Cut(d, k, w)[j].writes = d[j].writes
           /\ Cut(d, k, w)[k].writes = w
<1> DEFINE b == SubSeq(d, 1, k)
           e == Cut(d, k, w)
<1>1. Len(d) \in Nat /\ k \in Nat /\ k >= 1 /\ k \in 1 .. k OBVIOUS
<1>2. b \in Seq(Levels) /\ Len(b) = k /\ \A j \in 1 .. k : b[j] = d[j] BY <1>1
<1>3. e = WithWrites(b, k, w) BY DEF Cut
<1> HIDE DEF b, e
<1>4. /\ e \in Seq(Levels) /\ Len(e) = k
      /\ \A j \in 1 .. k : e[j].name = b[j].name
      /\ \A j \in 1 .. k : e[j].writes = IF j = k THEN w ELSE b[j].writes
  BY <1>1, <1>2, <1>3, SetWrites
<1>5. \A j \in 1 .. k - 1 : j \in 1 .. k /\ j # k BY <1>1
<1>6. e # <<>> BY <1>1, <1>4
<1> QED BY <1>1, <1>2, <1>4, <1>5, <1>6 DEF e

\* js are the first of the scopes ids.
Begins(js, ids) == Len(js) <= Len(ids) /\ \A i \in 1 .. Len(js) : js[i] = ids[i]

\* The writes of the first m scopes, of which the last is left with its writes below
\* level k and w.
CutStack(d, ids, m, k, w) ==
    [i \in 1 .. m |-> IF i = m THEN Span(d, At(d, ids, m), k - 1) \cup w ELSE Stack(d, ids)[i]]

(* Scopes of which the last one, m, is cut off at level k: the ones below   *)
(* it have the writes that they had.                                        *)
LEMMA StackCut ==
    ASSUME NEW d, NEW ids, Nest(d, ids), NEW js \in Seq(Scopes),
           NEW m \in 1 .. Len(ids), Len(js) = m, Begins(js, ids),
           NEW k \in 1 .. Len(d), At(d, ids, m) <= k, NEW w \in SUBSET Writes
    PROVE  /\ Nest(Cut(d, k, w), js)
           /\ Stack(Cut(d, k, w), js) = CutStack(d, ids, m, k, w)
<1> DEFINE e == Cut(d, k, w)
<1>1. /\ d \in Seq(Levels) /\ Len(d) \in Nat /\ Len(ids) \in Nat /\ m \in Nat /\ m >= 1
      /\ m \in 1 .. m /\ k \in Nat
  BY DEF Nest
<1>2. /\ e \in Seq(Levels) /\ Len(e) = k /\ e # <<>>
      /\ \A j \in 1 .. k : e[j].name = d[j].name
      /\ \A j \in 1 .. k - 1 : e[j].writes = d[j].writes
      /\ e[k].writes = w
  BY <1>1, CutIs
<1> HIDE DEF e
<1>3. Len(e) <= Len(d) /\ Len(js) <= Len(ids) BY <1>1, <1>2
<1>4. Nest(e, js) BY <1>2, <1>3, NestPrefix DEF Begins
<1>5. \A i \in 1 .. m : At(e, js, i) = At(d, ids, i)
  BY <1>2, <1>3, <1>4, SamePlace DEF Begins
<1>6. At(d, ids, m) \in 1 .. Len(d) BY Positions
<1>7. \A i \in 1 .. m : i < m => Stack(e, js)[i] = Stack(d, ids)[i]
  <2>1. \A j \in 1 .. At(d, ids, m) - 1 : d[j].writes = e[j].writes BY <1>1, <1>2, <1>6
  <2> QED BY <1>1, <1>4, <1>5, <2>1, SameBelow
<1>8. Stack(e, js)[m] = Span(d, At(d, ids, m), k - 1) \cup w
  <2>1. Upto(e, js, m) = k BY <1>2 DEF Upto
  <2>2. Stack(e, js)[m] = Span(e, At(d, ids, m), k) BY <1>1, <1>5, <2>1 DEF Stack
  <2>3. \A j \in At(d, ids, m) .. k - 1 : d[j].writes = e[j].writes BY <1>1, <1>2, <1>6
  <2>4. At(d, ids, m) \in Nat BY <1>6
  <2>5. Span(d, At(d, ids, m), k - 1) = Span(e, At(d, ids, m), k - 1) BY <2>3, SpanSame
  <2>6. Span(e, At(d, ids, m), k) = Span(e, At(d, ids, m), k - 1) \cup e[k].writes
    BY <1>1, <2>4, SpanLast
  <2> QED BY <1>2, <2>2, <2>5, <2>6
<1>9. Stack(e, js) = CutStack(d, ids, m, k, w)
  <2>1. Stack(e, js) = [i \in 1 .. m |-> Stack(e, js)[i]] BY DEF Stack
  <2>2. \A i \in 1 .. m : i = m \/ i < m BY <1>1
  <2>3. \A i \in 1 .. m : Stack(e, js)[i] =
           IF i = m THEN Span(d, At(d, ids, m), k - 1) \cup w ELSE Stack(d, ids)[i]
    BY <1>7, <1>8, <2>2
  <2> QED BY <2>1, <2>3 DEF CutStack
<1> QED BY <1>4, <1>9 DEF e
(* A write goes to the innermost scope.                                     *)
LEMMA StackWrite ==
    ASSUME NEW d, NEW ids, Nest(d, ids), ids # <<>>, NEW x \in Writes
    PROVE  LET e == WithWrites(d, Len(d), d[Len(d)].writes \cup {x})
           IN /\ Nest(e, ids)
              /\ Stack(e, ids) = [Stack(d, ids) EXCEPT ![Len(ids)] = @ \cup {x}]
<1> DEFINE k == Len(d)
           m == Len(ids)
           w == d[k].writes \cup {x}
           s == Stack(d, ids)
<1>1. /\ d \in Seq(Levels) /\ ids \in Seq(Scopes) /\ k \in Nat /\ m \in Nat /\ m >= 1
      /\ m \in 1 .. Len(ids) /\ k \in 1 .. Len(d)
  BY DEF Nest
<1>2. w \in SUBSET Writes
  <2>1. d[k] \in Levels BY <1>1
  <2> QED BY <2>1 DEF Levels
<1>3. SubSeq(d, 1, k) = d BY <1>1
<1>4. Cut(d, k, w) = WithWrites(d, k, w) BY <1>3 DEF Cut
<1>5. At(d, ids, m) \in 1 .. k BY <1>1, Positions
<1>6. At(d, ids, m) <= k /\ At(d, ids, m) \in Nat BY <1>1, <1>5
<1> HIDE DEF w, k
<1>7. /\ Nest(Cut(d, k, w), ids)
      /\ Stack(Cut(d, k, w), ids) = CutStack(d, ids, m, k, w)
  <2>1. Begins(ids, ids) BY <1>1 DEF Begins
  <2> QED BY <1>1, <1>2, <1>6, <2>1, StackCut
<1>8. s = [i \in 1 .. m |-> s[i]] BY DEF Stack
<1>9. s[m] = Span(d, At(d, ids, m), k) BY <1>1 DEF Stack, Upto, k
<1>10. Span(d, At(d, ids, m), k) = Span(d, At(d, ids, m), k - 1) \cup d[k].writes
  BY <1>1, <1>6, SpanLast
<1>11. Span(d, At(d, ids, m), k - 1) \cup w = s[m] \cup {x} BY <1>9, <1>10 DEF w
<1> HIDE DEF s
<1>12. Stack(Cut(d, k, w), ids) = [s EXCEPT ![m] = @ \cup {x}]
  BY <1>1, <1>7, <1>8, <1>11 DEF CutStack, s
<1> QED BY <1>4, <1>7, <1>12 DEF w, k, s

(* What the ends of nested scopes need: the levels around the last one.     *)
LEMMA Around ==
    ASSUME NEW d, NEW ids, Nest(d, ids), NEW m \in Nat, m >= 1, Len(ids) = m + 1
    PROVE  /\ m \in 1 .. Len(ids) /\ Len(d) \in Nat
           /\ At(d, ids, m) \in Nat /\ At(d, ids, m) >= 1
           /\ At(d, ids, m + 1) \in 1 .. Len(d) /\ At(d, ids, m) < At(d, ids, m + 1)
           /\ Stack(d, ids)[m] = Span(d, At(d, ids, m), At(d, ids, m + 1) - 1)
           /\ Stack(d, ids)[m + 1] = Span(d, At(d, ids, m + 1), Len(d))
<1>1. m \in 1 .. Len(ids) /\ m + 1 \in 1 .. Len(ids) /\ m # Len(ids) OBVIOUS
<1>2. At(d, ids, m) \in 1 .. Len(d) /\ At(d, ids, m + 1) \in 1 .. Len(d) /\ Len(d) \in Nat
  BY <1>1, Positions
<1>3. At(d, ids, m) < At(d, ids, m + 1) BY <1>1, Positions
<1>4. Upto(d, ids, m) = At(d, ids, m + 1) - 1 /\ Upto(d, ids, m + 1) = Len(d)
  BY <1>1 DEF Upto
<1> QED BY <1>1, <1>2, <1>3, <1>4 DEF Stack

(* Rolling back to the savepoint of the innermost scope drops its writes    *)
(* and leaves the savepoint to the scope around it.                         *)
LEMMA StackRollback ==
    ASSUME NEW d, NEW ids, Nest(d, ids), NEW js \in Seq(Scopes), js # <<>>,
           Len(ids) = Len(js) + 1, \A i \in 1 .. Len(js) : js[i] = ids[i]
    PROVE  LET e == Cut(d, At(d, ids, Len(ids)), {})
           IN Nest(e, js) /\ Stack(e, js) = SubSeq(Stack(d, ids), 1, Len(js))
<1> DEFINE m == Len(js)
           p == At(d, ids, m + 1)
           s == Stack(d, ids)
<1>1. m \in Nat /\ m >= 1 OBVIOUS
<1>2. /\ m \in 1 .. Len(ids) /\ Len(d) \in Nat /\ p \in 1 .. Len(d) /\ At(d, ids, m) <= p
      /\ s[m] = Span(d, At(d, ids, m), p - 1)
  BY <1>1, Around
<1> HIDE DEF p
<1>3. {} \in SUBSET Writes OBVIOUS
<1>4. /\ Nest(Cut(d, p, {}), js)
      /\ Stack(Cut(d, p, {}), js) = CutStack(d, ids, m, p, {})
  <2>1. Len(js) = m /\ Begins(js, ids) BY <1>1 DEF Begins
  <2> HIDE DEF m
  <2> QED BY <1>2, <1>3, <2>1, StackCut
<1>5. s = [i \in 1 .. m + 1 |-> s[i]] BY DEF Stack
<1> HIDE DEF s, m
<1>6. SubSeq(s, 1, m) = [i \in 1 .. m |-> s[i]] BY <1>1, <1>5
<1>7. Stack(Cut(d, p, {}), js) = [i \in 1 .. m |-> s[i]] BY <1>2, <1>4 DEF CutStack, s
<1> QED BY <1>4, <1>6, <1>7 DEF p, s, m

\* The writes of open scopes when the innermost one hands its own to the one around.
Handed(s) == [i \in 1 .. Len(s) - 1 |->
                 IF i = Len(s) - 1 THEN s[i] \cup s[Len(s)] ELSE s[i]]

(* Releasing the savepoint of the innermost scope hands its writes to the   *)
(* scope around it.                                                         *)
LEMMA StackRelease ==
    ASSUME NEW d, NEW ids, Nest(d, ids), NEW js \in Seq(Scopes), js # <<>>,
           Len(ids) = Len(js) + 1, Begins(js, ids),
           NEW k \in Nat, k + 1 = At(d, ids, Len(ids)),
           NEW w \in SUBSET Writes, w = Span(d, k, Len(d))
    PROVE  Nest(Cut(d, k, w), js) /\ Stack(Cut(d, k, w), js) = Handed(Stack(d, ids))
<1> DEFINE m == Len(js)
           a == At(d, ids, m)
           s == Stack(d, ids)
<1>1. m \in Nat /\ m >= 1 OBVIOUS
<1>2. /\ m \in 1 .. Len(ids) /\ Len(d) \in Nat /\ k + 1 \in 1 .. Len(d)
      /\ a \in Nat /\ a >= 1 /\ a <= k /\ k \in 1 .. Len(d)
      /\ s[m] = Span(d, a, k) /\ s[m + 1] = Span(d, k + 1, Len(d))
  BY <1>1, Around
<1>3. /\ Nest(Cut(d, k, w), js)
      /\ Stack(Cut(d, k, w), js) = CutStack(d, ids, m, k, w)
  <2>1. Len(js) = m /\ At(d, ids, m) <= k BY <1>2
  <2> HIDE DEF m
  <2> QED BY <1>2, <2>1, StackCut
<1>4. Span(d, a, k - 1) \cup w = s[m] \cup s[m + 1]
  <2> HIDE DEF a, m
  <2>1. Span(d, a, k) = Span(d, a, k - 1) \cup d[k].writes
    <3>1. k \in Nat /\ a \in Nat /\ a <= k BY <1>2
    <3> QED BY <3>1, SpanLast
  <2>2. w = d[k].writes \cup Span(d, k + 1, Len(d))
    <3>1. k \in Nat /\ k \in Int /\ k <= k + 1 /\ k <= Len(d) BY <1>2
    <3>2. w = Span(d, k, k) \cup Span(d, k + 1, Len(d)) BY <1>2, <3>1, SpanSplit
    <3> QED BY <3>1, <3>2, SpanOne
  <2> QED BY <1>2, <2>1, <2>2
<1>5. s = [i \in 1 .. m + 1 |-> s[i]] BY DEF Stack
<1> HIDE DEF s, m, a
<1>6. Len(s) = m + 1 BY <1>1, <1>5
<1>7. Len(s) - 1 = m BY <1>1, <1>6
<1>8. Stack(Cut(d, k, w), js) = [i \in 1 .. m |-> IF i = m THEN s[i] \cup s[m + 1] ELSE s[i]]
  BY <1>3, <1>4 DEF CutStack, s, a
<1> QED BY <1>3, <1>6, <1>7, <1>8 DEF s, Handed
-----------------------------------------------------------------------------
(* Steps of the scopes, as steps of nested transactions.                   *)

\* The scopes of a connection are open in its database, in order, and each of them
\* but the first has its savepoint.
Linked(d, ids, sp, n) ==
    /\ Nest(d, ids)
    /\ \A i \in 1 .. Len(ids) : ids[i] < n
    /\ \A i \in 1 .. Len(sp) : sp[i] = ids[i + 1]

\* What ScopesNest needs beside TxInv.
NestInv ==
    \A c \in Conns :
        Trusted(c) => Linked(db[c], scope_ids[c], savepoints[c], next_scope)

\* A step keeps NestInv on c and is one of nested transactions there.
Keeps(c) ==
    Trusted(c)' =>
        /\ Linked(db'[c], scope_ids'[c], savepoints'[c], next_scope')
        /\ \/ Nested(c)!Next
           \/ UNCHANGED <<ScopeWrites(c), committed[c], verdict[c]>>

(* A stack of height 0.                                                     *)
LEMMA LenZero ==
    ASSUME NEW S, NEW s \in Seq(S), Len(s) = 0
    PROVE  s = <<>>
OBVIOUS

(* The writes of the open scopes, before and after a step.                  *)
LEMMA StackIs ==
    ASSUME TxInv, NEW c \in Conns, Trusted(c)
    PROVE  ScopeWrites(c) = Stack(db[c], scope_ids[c])
<1>1. depth[c] = Len(scope_ids[c]) BY TxOf DEF Agree
<1>2. \A i \in 1 .. Len(scope_ids[c]) :
         UNION {db[c][k].writes : k \in LevelOf(c, i) ..
                   (IF i = depth[c] THEN Len(db[c]) ELSE LevelOf(c, i + 1) - 1)}
         = Span(db[c], At(db[c], scope_ids[c], i), Upto(db[c], scope_ids[c], i))
  <2>1. \A i : LevelOf(c, i) = At(db[c], scope_ids[c], i) BY DEF LevelOf, At
  <2>2. \A i : (IF i = depth[c] THEN Len(db[c]) ELSE LevelOf(c, i + 1) - 1)
               = Upto(db[c], scope_ids[c], i)
    BY <1>1, <2>1 DEF Upto
  <2> QED BY <2>1, <2>2, Zenon DEF Span
<1> QED BY <1>1, <1>2 DEF ScopeWrites, Stack

LEMMA StackWillBe ==
    ASSUME TxInv', NEW c \in Conns, Trusted(c)'
    PROVE  ScopeWrites(c)' = Stack(db'[c], scope_ids'[c])
<1>1. depth'[c] = Len(scope_ids'[c]) BY DEF TxInv, Agree
<1>2. \A i \in 1 .. Len(scope_ids'[c]) :
         UNION {db'[c][k].writes : k \in LevelOf(c, i)' ..
                   (IF i = depth'[c] THEN Len(db'[c]) ELSE LevelOf(c, i + 1)' - 1)}
         = Span(db'[c], At(db'[c], scope_ids'[c], i), Upto(db'[c], scope_ids'[c], i))
  <2>1. \A i : LevelOf(c, i)' = At(db'[c], scope_ids'[c], i) BY DEF LevelOf, At
  <2>2. \A i : (IF i = depth'[c] THEN Len(db'[c]) ELSE LevelOf(c, i + 1)' - 1)
               = Upto(db'[c], scope_ids'[c], i)
    BY <1>1, <2>1 DEF Upto
  <2> QED BY <2>1, <2>2, Zenon DEF Span
<1> QED BY <1>1, <1>2 DEF ScopeWrites, Stack

(* Later scopes change nothing for the ones that are open.                  *)
LEMMA LinkedMono ==
    ASSUME NEW n \in Nat, NEW m \in Nat, n <= m, NEW d, NEW ids, NEW sp,
           Linked(d, ids, sp, n)
    PROVE  Linked(d, ids, sp, m)
<1>1. \A i \in 1 .. Len(ids) : ids[i] \in Nat
  <2>1. \A i \in 1 .. Len(ids) : ids[i] \in Scopes BY DEF Linked, Nest
  <2> QED BY <2>1, TxBounds DEF Scopes
<1> QED BY <1>1 DEF Linked

(* A step that leaves a connection alone.                                   *)
LEMMA KeepsSame ==
    ASSUME TxInv, NestInv, TxInv', NEW c \in Conns, next_scope <= next_scope',
           db'[c] = db[c], scope_ids'[c] = scope_ids[c], savepoints'[c] = savepoints[c],
           committed'[c] = committed[c], verdict'[c] = verdict[c],
           Trusted(c)' => Trusted(c)
    PROVE  Keeps(c)
<1> SUFFICES ASSUME Trusted(c)'
             PROVE  /\ Linked(db'[c], scope_ids'[c], savepoints'[c], next_scope')
                    /\ UNCHANGED <<ScopeWrites(c), committed[c], verdict[c]>>
  BY DEF Keeps
<1>1. next_scope \in Nat /\ next_scope' \in Nat BY TxBounds DEF TxInv, TxTypeOK
<1>2. Linked(db[c], scope_ids[c], savepoints[c], next_scope) BY DEF NestInv
<1>3. Linked(db[c], scope_ids[c], savepoints[c], next_scope') BY <1>1, <1>2, LinkedMono
<1>4. ScopeWrites(c)' = ScopeWrites(c) BY StackIs, StackWillBe
<1> QED BY <1>3, <1>4

(* A scope begins.                                                          *)
LEMMA KeepsBegin ==
    ASSUME TxInv, NestInv, TxInv', NEW c \in Conns, TxScopeBegin(c)
    PROVE  Keeps(c)
<1> SUFFICES ASSUME Trusted(c)'
             PROVE  /\ Linked(db'[c], scope_ids'[c], savepoints'[c], next_scope')
                    /\ Nested(c)!Next
  BY DEF Keeps
<1> DEFINE outer == depth[c] = 0
           ok == IF outer THEN BeginOk(c) ELSE SavepointOk(c)
           n == next_scope
           d == db[c]
           ids == scope_ids[c]
           sp == savepoints[c]
<1>1. /\ n \in Scopes /\ n \in Nat /\ n >= 1 /\ next_scope' = n + 1 /\ ok \in BOOLEAN
      /\ committed'[c] = committed[c] /\ verdict'[c] = verdict[c]
      /\ left_open' = left_open
  BY TxOf DEF TxScopeBegin, BeginOk, SavepointOk
<1>2. failed'[c] = (failed[c] \/ ~ok)
  <2>1. failed' = [failed EXCEPT ![c] = failed[c] \/ ~ok] BY DEF TxScopeBegin, Ran
  <2>2. failed \in [Conns -> BOOLEAN] BY DEF TxInv, TxTypeOK
  <2> HIDE DEF ok
  <2> QED BY <2>1, <2>2
<1>3. ok /\ Trusted(c)
  <2> HIDE DEF ok
  <2> QED BY <1>1, <1>2 DEF Trusted
<1>4. Linked(d, ids, sp, n) BY <1>3 DEF NestInv
<1>5. /\ Good(d, n) /\ ids \in Seq(Scopes) /\ sp \in Seq(Scopes)
      /\ depth[c] = Len(ids) /\ (depth[c] = 0 => d = <<>> /\ sp = <<>>)
      /\ (depth[c] > 0 => Len(sp) = Len(ids) - 1) /\ depth[c] \in Nat
  BY <1>3, TxOf DEF Agree, Trusted
<1>6. /\ db \in [Conns -> Seq(Levels)] /\ scope_ids \in [Conns -> Seq(Scopes)]
      /\ savepoints \in [Conns -> Seq(Scopes)]
  BY DEF TxInv, TxTypeOK
<1>7. scope_ids'[c] = Append(ids, n) BY <1>3, <1>6 DEF TxScopeBegin
<1>8. \A i \in 1 .. Len(Append(ids, n)) : Append(ids, n)[i] < n + 1
  <2>1. \A i \in 1 .. Len(ids) : ids[i] < n /\ ids[i] \in Nat
    <3>1. \A i \in 1 .. Len(ids) : ids[i] \in Scopes BY <1>5
    <3> QED BY <1>4, <3>1, TxBounds DEF Linked, Scopes
  <2> HIDE DEF ids, n
  <2> QED BY <1>1, <1>5, <2>1
<1>9. CASE outer
  <2>1. ids = <<>> /\ d = <<>> /\ sp = <<>>
    <3>1. ids \in Seq(Scopes) /\ Len(ids) = 0 BY <1>5, <1>9
    <3>2. ids = <<>> BY <3>1, LenZero
    <3> QED BY <1>5, <1>9, <3>2
  <2>2. db'[c] = <<Level(0)>> /\ savepoints'[c] = <<>>
    BY <1>3, <1>6, <1>9, <2>1 DEF TxScopeBegin, AfterBegin, InTx
  <2>3. Level(0) \in Levels /\ Level(0).name = 0 /\ Level(0).writes = {}
    BY DEF Level, Levels
  <2>4. Append(ids, n) = <<n>> BY <2>1
  <2>5. Nest(<<Level(0)>>, <<n>>)
    <3> DEFINE l == Level(0)
    <3>1. l \in Levels /\ l.name = 0 /\ n \in Scopes BY <1>1, <2>3
    <3> HIDE DEF n, l
    <3>2. /\ <<l>> \in Seq(Levels) /\ <<n>> \in Seq(Scopes) /\ Len(<<l>>) = 1 /\ Len(<<n>>) = 1
          /\ <<l>> # <<>> /\ <<l>>[1].name = 0
      BY <3>1
    <3>3. Nest(<<l>>, <<n>>) BY <3>2 DEF Nest, Ascending
    <3> QED BY <3>3 DEF l
  <2>6. Stack(<<Level(0)>>, <<n>>) = <<{}>>
    <3>1. At(<<Level(0)>>, <<n>>, 1) = 1 /\ Upto(<<Level(0)>>, <<n>>, 1) = 1 BY DEF At, Upto
    <3>2. Span(<<Level(0)>>, 1, 1) = {} BY <2>3, SpanOne
    <3>3. Stack(<<Level(0)>>, <<n>>) = [i \in 1 .. 1 |-> {}]
      <4>1. Len(<<n>>) = 1 /\ \A i \in 1 .. 1 : i = 1 OBVIOUS
      <4> QED BY <3>1, <3>2, <4>1 DEF Stack
    <3> QED BY <3>3
  <2>7. Stack(d, ids) = <<>> BY <2>1 DEF Stack
  <2>8. ScopeWrites(c)' = Append(ScopeWrites(c), {})
    <3>1. ScopeWrites(c) = <<>> BY <1>3, <2>7, StackIs
    <3>2. ScopeWrites(c)' = <<{}>> BY <1>7, <2>2, <2>4, <2>6, StackWillBe
    <3> QED BY <3>1, <3>2
  <2>9. Nested(c)!Begin BY <1>1, <2>8 DEF Nested!Begin
  <2>10. Linked(db'[c], scope_ids'[c], savepoints'[c], next_scope')
    BY <1>1, <1>7, <1>8, <2>2, <2>4, <2>5 DEF Linked
  <2> QED BY <2>9, <2>10 DEF Nested!Next
<1>10. CASE ~outer
  <2>1. /\ db'[c] = Append(d, Level(n)) /\ savepoints'[c] = Append(sp, n)
    BY <1>3, <1>6, <1>10 DEF TxScopeBegin, AfterSavepoint
  <2>2. ids # <<>> /\ Len(sp) = Len(ids) - 1 BY <1>5, <1>10
  <2>3. /\ Nest(Append(d, Level(n)), Append(ids, n))
        /\ Stack(Append(d, Level(n)), Append(ids, n)) = Append(Stack(d, ids), {})
    <3>1. /\ Nest(d, ids) /\ n \in Scopes
          /\ \A i \in 1 .. Len(d) : d[i].name < n
          /\ \A i \in 1 .. Len(ids) : ids[i] < n
      BY <1>1, <1>4, <1>5 DEF Linked, Good
    <3> HIDE DEF d, ids, n
    <3> QED BY <2>2, <3>1, StackBegin
  <2>4. \A i \in 1 .. Len(Append(sp, n)) : Append(sp, n)[i] = Append(ids, n)[i + 1]
    <3>1. \A i \in 1 .. Len(sp) : sp[i] = ids[i + 1] BY <1>4 DEF Linked
    <3> HIDE DEF sp, ids, n
    <3> QED BY <1>1, <1>5, <2>2, <3>1
  <2>5. ScopeWrites(c)' = Append(ScopeWrites(c), {})
    BY <1>3, <1>7, <2>1, <2>3, StackIs, StackWillBe
  <2>6. Nested(c)!Begin BY <1>1, <2>5 DEF Nested!Begin
  <2>7. Linked(db'[c], scope_ids'[c], savepoints'[c], next_scope')
    BY <1>1, <1>7, <1>8, <2>1, <2>3, <2>4 DEF Linked
  <2> QED BY <2>6, <2>7 DEF Nested!Next
<1> QED BY <1>9, <1>10
(* A write of the program belongs to the innermost scope.                   *)
LEMMA KeepsWrite ==
    ASSUME TxInv, NestInv, TxInv', NEW c \in Conns, Write(c)
    PROVE  Keeps(c)
<1> SUFFICES ASSUME Trusted(c)'
             PROVE  /\ Linked(db'[c], scope_ids'[c], savepoints'[c], next_scope')
                    /\ Nested(c)!Next
  BY DEF Keeps
<1> DEFINE x == next_write
           d == db[c]
           ids == scope_ids[c]
           sp == savepoints[c]
           n == next_scope
<1>1. /\ x \in Writes /\ scope_ids' = scope_ids /\ savepoints' = savepoints
      /\ next_scope' = n /\ verdict' = verdict /\ Trusted(c)
  BY DEF Write, hostVars, Trusted
<1>2. Linked(d, ids, sp, n) BY <1>1 DEF NestInv
<1>3. /\ d \in Seq(Levels) /\ ids \in Seq(Scopes) /\ depth[c] = Len(ids)
      /\ (d = <<>> <=> depth[c] = 0) /\ committed \in [Conns -> SUBSET Writes]
      /\ db \in [Conns -> Seq(Levels)]
  BY <1>1, TxOf DEF Agree, Trusted, TxInv, TxTypeOK
<1>4. ScopeWrites(c) = Stack(d, ids) /\ ScopeWrites(c)' = Stack(db'[c], ids)
  BY <1>1, StackIs, StackWillBe
<1>5. CASE ~InTx(c)
  <2>1. db' = db /\ committed'[c] = committed[c] \cup {x} BY <1>3, <1>5 DEF Write
  <2>2. Len(ids) = 0 BY <1>3, <1>5 DEF InTx
  <2>3. ids = <<>> BY <1>3, <2>2, LenZero
  <2>4. Stack(d, ids) = <<>> BY <2>3 DEF Stack
  <2>5. Nested(c)!Write(x) BY <1>1, <1>4, <2>1, <2>4 DEF Nested!Write
  <2> QED BY <1>1, <1>2, <2>1, <2>5 DEF Nested!Next
<1>6. CASE InTx(c)
  <2> DEFINE e == WithWrites(d, Len(d), d[Len(d)].writes \cup {x})
  <2>1. db' = [db EXCEPT ![c] = e] /\ committed' = committed
    BY <1>6 DEF Write, WithWrites, Last
  <2>2. db'[c] = e BY <1>3, <2>1
  <2>3. ids # <<>> /\ Nest(d, ids) BY <1>2, <1>3, <1>6 DEF InTx, Linked
  <2>4. Nest(e, ids) /\ Stack(e, ids) = [Stack(d, ids) EXCEPT ![Len(ids)] = @ \cup {x}]
    <3> HIDE DEF d, ids, x
    <3> QED BY <1>1, <2>3, StackWrite
  <2>5. Len(Stack(d, ids)) = Len(ids) /\ Stack(d, ids) # <<>>
    <3>1. Len(ids) \in Nat /\ Len(ids) # 0 BY <1>3, <1>6 DEF InTx
    <3>2. DOMAIN Stack(d, ids) = 1 .. Len(ids) BY DEF Stack
    <3>3. Len(Stack(d, ids)) = Len(ids) BY <3>1 DEF Stack
    <3> QED BY <3>1, <3>3
  <2> HIDE DEF e
  <2>6. Nested(c)!Write(x) BY <1>1, <1>4, <2>1, <2>2, <2>4, <2>5 DEF Nested!Write
  <2>7. Linked(e, ids, sp, n) BY <1>2, <2>4 DEF Linked
  <2> QED BY <1>1, <2>2, <2>6, <2>7 DEF Nested!Next
<1> QED BY <1>5, <1>6

(* The outermost scope ends: its writes are permanent or gone.              *)
LEMMA KeepsEndOutermost ==
    ASSUME TxInv, NestInv, TxInv', NEW c \in Conns, NEW id, NEW success \in BOOLEAN,
           TxScopeEnd(c, id, success), depth[c] = 1
    PROVE  Keeps(c)
<1> SUFFICES ASSUME Trusted(c)'
             PROVE  /\ Linked(db'[c], scope_ids'[c], savepoints'[c], next_scope')
                    /\ Nested(c)!Next
  BY DEF Keeps
<1> DEFINE d == db[c]
           ids == scope_ids[c]
<1>1. /\ scope_ids' = [scope_ids EXCEPT ![c] = Front(ids)] /\ savepoints' = savepoints
      /\ verdict' = [verdict EXCEPT ![c] = success] /\ left_open' = left_open
      /\ \/ EndOk(c) /\ (IF success THEN Commit(c) ELSE Rollback(c)) /\ Ran(c, TRUE)
         \/ Ran(c, FALSE)
  BY DEF TxScopeEnd, EndOutermost
<1>2. /\ db \in [Conns -> Seq(Levels)] /\ committed \in [Conns -> SUBSET Writes]
      /\ verdict \in [Conns -> BOOLEAN] /\ failed \in [Conns -> BOOLEAN]
      /\ scope_ids \in [Conns -> Seq(Scopes)]
  BY DEF TxInv, TxTypeOK
<1>3. ~Ran(c, FALSE) BY <1>2 DEF Ran, Trusted
<1>4. (IF success THEN Commit(c) ELSE Rollback(c)) /\ Ran(c, TRUE) BY <1>1, <1>3
<1>5. Trusted(c) BY <1>1, <1>2, <1>4 DEF Ran, Trusted
<1>6. /\ ids \in Seq(Scopes) /\ Len(ids) = 1 /\ savepoints[c] = <<>> /\ Nest(d, ids)
  <2>1. Nest(d, ids) BY <1>5 DEF NestInv, Linked
  <2>2. ids \in Seq(Scopes) /\ Len(ids) = 1 BY TxOf DEF Agree
  <2>3. savepoints[c] \in Seq(Scopes) /\ Len(savepoints[c]) = 0 BY TxOf DEF Agree
  <2> QED BY <2>1, <2>2, <2>3, LenZero
<1>7. scope_ids'[c] = <<>>
  <2>1. ids # <<>>
    <3>1. Len(<<>>) # 1 OBVIOUS
    <3> QED BY <1>6, <3>1
  <2>2. Front(ids) \in Seq(Scopes) /\ Len(Front(ids)) = Len(ids) - 1 BY <1>6, <2>1, FrontOf
  <2>3. Len(Front(ids)) = 0 BY <1>6, <2>2
  <2> QED BY <1>1, <1>2, <2>2, <2>3, LenZero
<1>8. /\ db'[c] = <<>>
      /\ committed'[c] = IF success THEN committed[c] \cup WritesFrom(c, 1) ELSE committed[c]
      /\ verdict'[c] = success
  BY <1>1, <1>2, <1>4 DEF Commit, Rollback
<1>9. Linked(db'[c], scope_ids'[c], savepoints'[c], next_scope')
  <2>1. savepoints'[c] = <<>> BY <1>1, <1>6
  <2>2. Linked(<<>>, <<>>, <<>>, next_scope') BY DEF Linked, Nest, Ascending
  <2> QED BY <1>7, <1>8, <2>1, <2>2
<1>10. ScopeWrites(c)' = <<>>
  <2>1. Stack(<<>>, <<>>) = <<>> BY DEF Stack
  <2> QED BY <1>7, <1>8, <2>1, StackWillBe
<1> DEFINE s == ScopeWrites(c)
<1>11. s = <<WritesFrom(c, 1)>>
  <2>1. s = Stack(d, ids) BY <1>5, StackIs
  <2>2. At(d, ids, 1) = 1 /\ Upto(d, ids, 1) = Len(d) BY <1>6 DEF At, Upto
  <2>3. Span(d, 1, Len(d)) = WritesFrom(c, 1) BY DEF Span, WritesFrom
  <2>4. Stack(d, ids) = [i \in 1 .. 1 |-> WritesFrom(c, 1)]
    <3>1. \A i \in 1 .. 1 : i = 1 OBVIOUS
    <3> QED BY <1>6, <2>2, <2>3, <3>1 DEF Stack
  <2> QED BY <2>1, <2>4
<1>12. s # <<>> /\ Len(s) = 1 /\ s[1] = WritesFrom(c, 1) /\ SubSeq(s, 1, Len(s) - 1) = <<>>
  <2> DEFINE w == WritesFrom(c, 1)
  <2> HIDE DEF w
  <2>1. <<w>> # <<>> /\ Len(<<w>>) = 1 /\ <<w>>[1] = w /\ SubSeq(<<w>>, 1, 0) = <<>> OBVIOUS
  <2> QED BY <1>11, <2>1 DEF w
<1>13. CASE success
  <2>1. Nested(c)!Succeed BY <1>8, <1>10, <1>12, <1>13 DEF Nested!Succeed
  <2> QED BY <1>9, <2>1 DEF Nested!Next
<1>14. CASE ~success
  <2>1. Nested(c)!Fail BY <1>8, <1>10, <1>12, <1>14 DEF Nested!Fail
  <2> QED BY <1>9, <2>1 DEF Nested!Next
<1> QED BY <1>13, <1>14
(* Setting the writes of a level twice is setting them once.                *)
LEMMA SetTwice ==
    ASSUME NEW d \in Seq(Levels), NEW i \in 1 .. Len(d), NEW w
    PROVE  WithWrites(WithWrites(d, i, w), i, w) = WithWrites(d, i, w)
BY DEF WithWrites

(* What the host and the database agree on when a nested scope ends: its    *)
(* savepoint names the level that it was opened with.                       *)
LEMMA InnermostLevel ==
    ASSUME TxInv, NestInv, NEW c \in Conns, Trusted(c), depth[c] > 1,
           Named(c, Last(savepoints[c])) # {}
    PROVE  LET d == db[c]
               ids == scope_ids[c]
               name == Last(savepoints[c])
               i == CHOOSE i \in Named(c, name) : \A k \in Named(c, name) : k <= i
           IN /\ i = At(d, ids, Len(ids)) /\ i \in 1 .. Len(d) /\ i # 1
              /\ Len(savepoints[c]) = Len(ids) - 1 /\ Len(ids) > 1
<1> DEFINE d == db[c]
           ids == scope_ids[c]
           sp == savepoints[c]
           name == Last(sp)
           i == CHOOSE i \in Named(c, name) : \A k \in Named(c, name) : k <= i
<1>1. Linked(d, ids, sp, next_scope) BY DEF NestInv
<1>2. /\ depth[c] = Len(ids) /\ Len(sp) = Len(ids) - 1 /\ Len(ids) \in Nat /\ Len(ids) > 1
  <2>1. depth[c] \in Nat /\ depth[c] = Len(ids) BY TxOf DEF Agree
  <2>2. depth[c] > 0 => Len(sp) = depth[c] - 1 BY TxOf DEF Agree
  <2> HIDE DEF ids, sp
  <2> QED BY <2>1, <2>2
<1>3. i \in 1 .. Len(d) /\ d[i].name = name BY NamedLevel
<1>4. name = ids[Len(ids)]
  <2>1. Len(sp) \in 1 .. Len(sp) /\ Len(sp) + 1 = Len(ids) BY <1>2
  <2>2. sp[Len(sp)] = ids[Len(sp) + 1] BY <1>1, <2>1 DEF Linked
  <2> QED BY <2>1, <2>2 DEF Last
<1>5. /\ Nest(d, ids) /\ Len(ids) \in 2 .. Len(ids)
      /\ 1 \in 1 .. Len(ids) /\ Len(ids) \in 1 .. Len(ids)
  BY <1>1, <1>2 DEF Linked
<1> HIDE DEF i, d, ids
<1>6. i = At(d, ids, Len(ids)) BY <1>3, <1>4, <1>5, AtIs
<1>7. At(d, ids, 1) < At(d, ids, Len(ids)) BY <1>2, <1>5, Positions
<1>8. i # 1
  <2>1. At(d, ids, 1) = 1 BY DEF At
  <2>2. ~(1 < 1) OBVIOUS
  <2> QED BY <1>6, <1>7, <2>1, <2>2
<1> QED BY <1>2, <1>3, <1>6, <1>8 DEF i, d, ids

(* A nested scope ends: its writes belong to the scope around it, or are    *)
(* gone.                                                                    *)
LEMMA KeepsEndNested ==
    ASSUME TxInv, NestInv, TxInv', NEW c \in Conns, NEW id, NEW success \in BOOLEAN,
           TxScopeEnd(c, id, success), depth[c] # 1
    PROVE  Keeps(c)
<1> SUFFICES ASSUME Trusted(c)'
             PROVE  /\ Linked(db'[c], scope_ids'[c], savepoints'[c], next_scope')
                    /\ Nested(c)!Next
  BY DEF Keeps
<1> DEFINE d == db[c]
           ids == scope_ids[c]
           sp == savepoints[c]
           js == Front(ids)
           name == Last(sp)
           ok == NameOk(c, name)
           i == CHOOSE i \in Named(c, name) : \A k \in Named(c, name) : k <= i
           s == ScopeWrites(c)
<1>1. /\ depth[c] > 0 /\ sp # <<>>
      /\ scope_ids' = [scope_ids EXCEPT ![c] = js]
      /\ savepoints' = [savepoints EXCEPT ![c] = Front(sp)]
      /\ verdict' = [verdict EXCEPT ![c] = success] /\ next_scope' = next_scope
      /\ left_open' = left_open
      /\ failed' = [failed EXCEPT ![c] = failed[c] \/ ~ok]
  BY DEF TxScopeEnd, EndNested, EndsInnermost, Ran
<1>2. /\ db \in [Conns -> Seq(Levels)] /\ committed \in [Conns -> SUBSET Writes]
      /\ verdict \in [Conns -> BOOLEAN] /\ failed \in [Conns -> BOOLEAN]
      /\ scope_ids \in [Conns -> Seq(Scopes)] /\ savepoints \in [Conns -> Seq(Scopes)]
      /\ depth[c] \in Nat
  BY DEF TxInv, TxTypeOK
<1>3. ok /\ Trusted(c)
  <2>1. ok \in BOOLEAN BY DEF NameOk
  <2> HIDE DEF ok
  <2> QED BY <1>1, <1>2, <2>1 DEF Trusted
<1>4. /\ i = At(d, ids, Len(ids)) /\ i \in 1 .. Len(d) /\ i # 1
      /\ Len(sp) = Len(ids) - 1 /\ Len(ids) > 1
  <2>1. depth[c] > 1 /\ Named(c, name) # {} BY <1>1, <1>2, <1>3 DEF NameOk
  <2> QED BY <1>3, <2>1, InnermostLevel
<1>5. /\ scope_ids'[c] = js /\ savepoints'[c] = Front(sp) /\ verdict'[c] = success
  BY <1>1, <1>2
<1>6. Linked(d, ids, sp, next_scope) BY <1>3 DEF NestInv
<1>7. /\ ids \in Seq(Scopes) /\ ids # <<>> /\ sp \in Seq(Scopes) /\ d \in Seq(Levels)
      /\ Nest(d, ids)
  BY <1>2, <1>6 DEF Linked, TxScopeEnd, EndsInnermost
<1>8. /\ js \in Seq(Scopes) /\ Len(js) = Len(ids) - 1 /\ js # <<>> /\ Len(ids) \in Nat
      /\ \A k \in 1 .. Len(js) : js[k] = ids[k]
      /\ Len(Front(sp)) = Len(sp) - 1 /\ \A k \in 1 .. Len(sp) - 1 : Front(sp)[k] = sp[k]
  <2>1. /\ js \in Seq(Scopes) /\ Len(js) = Len(ids) - 1 /\ Len(ids) \in Nat
        /\ \A k \in 1 .. Len(ids) - 1 : js[k] = ids[k]
    BY <1>7, FrontOf
  <2>2. Len(Front(sp)) = Len(sp) - 1 /\ \A k \in 1 .. Len(sp) - 1 : Front(sp)[k] = sp[k]
    BY <1>1, <1>7, FrontOf
  <2> HIDE DEF js, ids, sp
  <2>3. js # <<>>
    <3>1. Len(<<>>) = 0 OBVIOUS
    <3> QED BY <1>4, <2>1, <3>1
  <2> QED BY <2>1, <2>2, <2>3
<1>9. /\ \A k \in 1 .. Len(js) : js[k] < next_scope
      /\ \A k \in 1 .. Len(Front(sp)) : Front(sp)[k] = js[k + 1]
  <2>1. /\ \A k \in 1 .. Len(ids) : ids[k] < next_scope
        /\ \A k \in 1 .. Len(sp) : sp[k] = ids[k + 1]
    BY <1>6 DEF Linked
  <2>2. Len(Front(sp)) = Len(ids) - 2 BY <1>4, <1>8
  <2> HIDE DEF js, ids, sp
  <2>3. \A k \in 1 .. Len(js) : js[k] < next_scope BY <1>8, <2>1
  <2>4. ASSUME NEW k \in 1 .. Len(Front(sp)) PROVE Front(sp)[k] = js[k + 1]
    <3>1. k \in 1 .. Len(sp) /\ k \in 1 .. Len(sp) - 1 /\ k + 1 \in 1 .. Len(js)
      BY <1>4, <1>8, <2>2
    <3> QED BY <1>8, <2>1, <3>1
  <2> QED BY <2>3, <2>4
<1>10. s = Stack(d, ids) /\ ScopeWrites(c)' = Stack(db'[c], js)
  BY <1>3, <1>5, StackIs, StackWillBe
<1>11. Len(Stack(d, ids)) = Len(ids) BY <1>8 DEF Stack
<1>12. s # <<>> /\ Len(s) = Len(ids)
  <2>1. Len(<<>>) = 0 OBVIOUS
  <2> HIDE DEF s
  <2> QED BY <1>4, <1>10, <1>11, <2>1
<1>13. Len(ids) = Len(js) + 1 BY <1>8
<1>14. CASE success
  <2> DEFINE k == i - 1
             w == WritesFrom(c, k)
             b == SubSeq(d, 1, k)
             e == Cut(d, k, w)
  <2>1. /\ db' = [db EXCEPT ![c] = WithWrites(WithWrites(b, k, w), k, w)]
        /\ committed' = committed
    <3>1. Release(c, name) BY <1>3, <1>14, <1>1 DEF TxScopeEnd, EndNested
    <3>2. i # 1 BY <1>4
    <3> QED BY <3>1, <3>2 DEF Release, Merged, WithWrites
  <2>2. w = Span(d, k, Len(d)) BY DEF Span, WritesFrom
  <2>3. k \in 1 .. Len(d) /\ k \in Nat /\ k >= 1 /\ Len(d) \in Nat
    <3> HIDE DEF i, d
    <3> QED BY <1>4, <1>7
  <2>4. w \in SUBSET Writes BY <2>3, WritesAbove
  <2>5. b \in Seq(Levels) /\ Len(b) = k
    <3> HIDE DEF i, d, k
    <3> QED BY <1>7, <2>3
  <2>6. db'[c] = e
    <3>1. k \in 1 .. Len(b) BY <2>3, <2>5
    <3> HIDE DEF b, k, w
    <3>2. WithWrites(WithWrites(b, k, w), k, w) = WithWrites(b, k, w)
      BY <2>5, <3>1, SetTwice
    <3> QED BY <1>2, <2>1, <3>2 DEF Cut, b
  <2>7. k + 1 = At(d, ids, Len(ids))
    <3> HIDE DEF i, d, ids
    <3>1. i \in Nat BY <1>4
    <3>2. i - 1 + 1 = i BY <3>1
    <3> QED BY <1>4, <3>2
  <2>8. Nest(e, js) /\ Stack(e, js) = Handed(Stack(d, ids))
    <3>1. Begins(js, ids)
      <4> HIDE DEF js, ids
      <4> QED BY <1>8 DEF Begins
    <3> HIDE DEF i, k, d, ids, js, w
    <3> QED BY <1>7, <1>8, <1>13, <2>2, <2>3, <2>4, <2>7, <3>1, StackRelease
  <2>9. Nest(db'[c], js) /\ ScopeWrites(c)' = Handed(s) BY <1>10, <2>6, <2>8
  <2>10. Len(s) # 1
    <3> HIDE DEF s, ids
    <3> QED BY <1>4, <1>8, <1>12
  <2>11. Nested(c)!Succeed
    BY <1>5, <1>12, <1>14, <2>1, <2>9, <2>10 DEF Nested!Succeed, Handed
  <2>12. Linked(db'[c], js, Front(sp), next_scope) BY <1>9, <2>9 DEF Linked
  <2> QED BY <1>1, <1>5, <2>11, <2>12 DEF Nested!Next
<1>15. CASE ~success
  <2>1. db' = [db EXCEPT ![c] = Cut(d, i, {})] /\ committed' = committed
    BY <1>3, <1>15, <1>1 DEF TxScopeEnd, EndNested, RollbackTo, Cut, WithWrites
  <2>2. db'[c] = Cut(d, At(d, ids, Len(ids)), {}) BY <1>2, <1>4, <2>1
  <2>3. /\ Nest(db'[c], js) /\ Stack(db'[c], js) = SubSeq(Stack(d, ids), 1, Len(js))
    <3> HIDE DEF d, ids, js
    <3> QED BY <1>7, <1>8, <1>13, <2>2, StackRollback
  <2>4. ScopeWrites(c)' = SubSeq(s, 1, Len(s) - 1)
    <3> HIDE DEF s, ids, js, d
    <3>1. Len(s) - 1 = Len(js) BY <1>8, <1>12
    <3> QED BY <1>10, <2>3, <3>1
  <2>5. Nested(c)!Fail BY <1>5, <1>12, <1>15, <2>1, <2>4 DEF Nested!Fail
  <2>6. Linked(db'[c], js, Front(sp), next_scope) BY <1>9, <2>3 DEF Linked
  <2> QED BY <1>1, <1>5, <2>5, <2>6 DEF Nested!Next
<1> QED BY <1>14, <1>15
(* A connection that is released: the pool rolls back what is open, and a   *)
(* scope that is left open is not trusted any more.                         *)
LEMMA KeepsRelease ==
    ASSUME TxInv, NestInv, TxInv', NEW c \in Conns, RollbackOnRelease(c)
    PROVE  Keeps(c)
<1> SUFFICES ASSUME Trusted(c)' PROVE Keeps(c) BY DEF Keeps
<1>1. /\ left_open' = [left_open EXCEPT ![c] = left_open[c] \/ depth[c] > 0]
      /\ scope_ids' = scope_ids /\ savepoints' = savepoints /\ next_scope' = next_scope
      /\ committed' = committed /\ verdict' = verdict /\ failed' = failed
      /\ db' = [db EXCEPT ![c] = IF EndOk(c) THEN <<>> ELSE db[c]]
  BY DEF RollbackOnRelease, hostVars
<1>2. /\ left_open \in [Conns -> BOOLEAN] /\ db \in [Conns -> Seq(Levels)]
      /\ depth[c] \in Nat /\ next_scope \in Nat
  BY TxOf DEF TxInv, TxTypeOK
<1>3. left_open'[c] = (left_open[c] \/ depth[c] > 0) BY <1>1, <1>2
<1>4. Trusted(c) /\ depth[c] = 0
  <2>1. ~failed'[c] /\ ~left_open'[c] BY DEF Trusted
  <2>2. ~left_open[c] /\ ~(depth[c] > 0) BY <1>3, <2>1
  <2> QED BY <1>1, <1>2, <2>1, <2>2 DEF Trusted
<1>5. db[c] = <<>>
  <2>1. Agree(depth[c], savepoints[c], scope_ids[c], db[c], Trusted(c)) BY DEF TxInv
  <2> QED BY <1>4, <2>1 DEF Agree
<1>6. db'[c] = db[c] BY <1>1, <1>2, <1>5
<1> QED BY <1>1, <1>2, <1>4, <1>6, KeepsSame

(* What the calls on one connection leave alone of the others.              *)
LEMMA OthersSame ==
    ASSUME TxInv, NEW c \in Conns,
           TxCall(c) \/ Write(c) \/ Break(c) \/ RollbackOnRelease(c),
           NEW x \in Conns, x # c
    PROVE  /\ next_scope <= next_scope'
           /\ db'[x] = db[x] /\ scope_ids'[x] = scope_ids[x]
           /\ savepoints'[x] = savepoints[x] /\ committed'[x] = committed[x]
           /\ verdict'[x] = verdict[x]
           /\ failed'[x] = failed[x] /\ left_open'[x] = left_open[x]
<1> DEFINE Alone(f, g) == g = f \/ \E v : g = [f EXCEPT ![c] = v]
<1>1. next_scope \in Nat BY TxOf
<1>2. /\ next_scope <= next_scope'
      /\ Alone(db, db') /\ Alone(scope_ids, scope_ids') /\ Alone(savepoints, savepoints')
      /\ Alone(committed, committed') /\ Alone(verdict, verdict')
      /\ Alone(failed, failed') /\ Alone(left_open, left_open')
  <2>1. CASE TxScopeBegin(c)
    <3>1. next_scope <= next_scope' BY <1>1, <2>1 DEF TxScopeBegin
    <3>2. \E v : failed' = [failed EXCEPT ![c] = v] BY <2>1 DEF TxScopeBegin, Ran
    <3> QED BY <2>1, <3>1, <3>2 DEF TxScopeBegin
  <2>2. ASSUME NEW id \in Scopes, NEW success \in BOOLEAN, TxScopeEnd(c, id, success)
        PROVE  /\ next_scope <= next_scope'
               /\ Alone(db, db') /\ Alone(scope_ids, scope_ids')
               /\ Alone(savepoints, savepoints') /\ Alone(committed, committed')
               /\ Alone(verdict, verdict') /\ Alone(failed, failed')
               /\ Alone(left_open, left_open')
    <3>1. /\ next_scope <= next_scope' /\ Alone(left_open, left_open')
          /\ Alone(scope_ids, scope_ids') /\ Alone(verdict, verdict')
      <4>1. next_scope' = next_scope /\ left_open' = left_open BY <2>2 DEF TxScopeEnd
      <4>2. next_scope <= next_scope' BY <1>1, <4>1
      <4>3. Alone(scope_ids, scope_ids') BY <2>2 DEF TxScopeEnd
      <4>4. Alone(verdict, verdict') BY <2>2 DEF TxScopeEnd
      <4> QED BY <4>1, <4>2, <4>3, <4>4
    <3>2. \A ok : Ran(c, ok) => Alone(failed, failed') BY DEF Ran
    <3>3. Release(c, Last(savepoints[c])) => Alone(db, db') /\ Alone(committed, committed')
      BY DEF Release
    <3>4. RollbackTo(c, Last(savepoints[c])) => Alone(db, db') /\ Alone(committed, committed')
      BY DEF RollbackTo
    <3>5. Commit(c) \/ Rollback(c) \/ NoEffect => Alone(db, db') /\ Alone(committed, committed')
      BY DEF Commit, Rollback, NoEffect
    <3>6. CASE EndOutermost(c, success)
      <4>1. Alone(savepoints, savepoints') BY <3>6 DEF EndOutermost
      <4>2. Commit(c) \/ Rollback(c) \/ NoEffect BY <3>6 DEF EndOutermost
      <4>3. \E ok : Ran(c, ok) BY <3>6 DEF EndOutermost
      <4> HIDE DEF Alone
      <4> QED BY <3>1, <3>2, <3>5, <4>1, <4>2, <4>3 DEF Alone
    <3>7. CASE EndNested(c, success)
      <4>1. Alone(savepoints, savepoints') BY <3>7 DEF EndNested
      <4>2. \/ Release(c, Last(savepoints[c])) \/ RollbackTo(c, Last(savepoints[c]))
            \/ NoEffect
        BY <3>7 DEF EndNested
      <4>3. \E ok : Ran(c, ok) BY <3>7 DEF EndNested
      <4> HIDE DEF Alone
      <4> QED BY <3>1, <3>2, <3>3, <3>4, <3>5, <4>1, <4>2, <4>3 DEF Alone
    <3> QED BY <2>2, <3>6, <3>7 DEF TxScopeEnd
  <2>3. CASE Write(c)
    <3>1. /\ next_scope' = next_scope /\ scope_ids' = scope_ids /\ savepoints' = savepoints
          /\ verdict' = verdict /\ failed' = failed /\ left_open' = left_open
      BY <2>3 DEF Write, hostVars
    <3>2. next_scope <= next_scope' BY <1>1, <3>1
    <3>3. Alone(db, db') BY <2>3 DEF Write
    <3>4. Alone(committed, committed') BY <2>3 DEF Write
    <3> QED BY <3>1, <3>2, <3>3, <3>4
  <2>4. CASE Break(c)
    <3>1. /\ next_scope' = next_scope /\ scope_ids' = scope_ids /\ savepoints' = savepoints
          /\ verdict' = verdict /\ committed' = committed /\ left_open' = left_open
      BY <2>4 DEF Break, hostVars
    <3>2. next_scope <= next_scope' BY <1>1, <3>1
    <3>3. Alone(db, db') BY <2>4 DEF Break
    <3>4. Alone(failed, failed') BY <2>4 DEF Break
    <3> QED BY <3>1, <3>2, <3>3, <3>4
  <2>5. CASE RollbackOnRelease(c)
    <3>1. /\ next_scope' = next_scope /\ scope_ids' = scope_ids /\ savepoints' = savepoints
          /\ verdict' = verdict /\ committed' = committed /\ failed' = failed
      BY <2>5 DEF RollbackOnRelease, hostVars
    <3>2. next_scope <= next_scope' BY <1>1, <3>1
    <3>3. Alone(db, db') BY <2>5 DEF RollbackOnRelease
    <3>4. Alone(left_open, left_open') BY <2>5 DEF RollbackOnRelease
    <3> QED BY <3>1, <3>2, <3>3, <3>4
  <2> HIDE DEF Alone
  <2> QED BY <2>1, <2>2, <2>3, <2>4, <2>5 DEF TxCall
<1>3. /\ db \in [Conns -> Seq(Levels)] /\ committed \in [Conns -> SUBSET Writes]
      /\ verdict \in [Conns -> BOOLEAN] /\ failed \in [Conns -> BOOLEAN]
      /\ left_open \in [Conns -> BOOLEAN]
      /\ scope_ids \in [Conns -> Seq(Scopes)] /\ savepoints \in [Conns -> Seq(Scopes)]
  BY DEF TxInv, TxTypeOK
<1>4. \A f, g, S : f \in [Conns -> S] /\ Alone(f, g) => g[x] = f[x] OBVIOUS
<1> HIDE DEF Alone
<1> QED BY <1>2, <1>3, <1>4

(* Every call on a connection keeps NestInv and is a step of nested         *)
(* transactions there, or leaves the connection not to be trusted.          *)
LEMMA KeepsOn ==
    ASSUME TxInv, NestInv, TxInv', NEW c \in Conns,
           TxCall(c) \/ Write(c) \/ Break(c) \/ RollbackOnRelease(c)
    PROVE  \A x \in Conns : Keeps(x)
<1>1. Keeps(c)
  <2>1. CASE TxScopeBegin(c) BY <2>1, KeepsBegin
  <2>2. ASSUME NEW id \in Scopes, NEW success \in BOOLEAN, TxScopeEnd(c, id, success)
        PROVE  Keeps(c)
    BY <2>2, KeepsEndOutermost, KeepsEndNested
  <2>3. CASE Write(c) BY <2>3, KeepsWrite
  <2>4. CASE Break(c)
    <3>1. failed' = [failed EXCEPT ![c] = TRUE] /\ failed \in [Conns -> BOOLEAN]
      BY <2>4 DEF Break, TxInv, TxTypeOK
    <3> QED BY <3>1 DEF Keeps, Trusted
  <2>5. CASE RollbackOnRelease(c) BY <2>5, KeepsRelease
  <2> QED BY <2>1, <2>2, <2>3, <2>4, <2>5 DEF TxCall
<1>2. ASSUME NEW x \in Conns, x # c PROVE Keeps(x)
  <2>1. /\ next_scope <= next_scope'
        /\ db'[x] = db[x] /\ scope_ids'[x] = scope_ids[x]
        /\ savepoints'[x] = savepoints[x] /\ committed'[x] = committed[x]
        /\ verdict'[x] = verdict[x]
        /\ failed'[x] = failed[x] /\ left_open'[x] = left_open[x]
    BY <1>2, OthersSame
  <2>2. Trusted(x)' => Trusted(x) BY <2>1 DEF Trusted
  <2> QED BY <2>1, <2>2, KeepsSame
<1> QED BY <1>1, <1>2

(* Every step of the pool is of no effect on the scopes, or a call on one   *)
(* connection.                                                              *)
LEMMA NextKeeps == PoolInv /\ NestInv /\ [Next]_vars => \A c \in Conns : Keeps(c)
<1> SUFFICES ASSUME PoolInv, NestInv, [Next]_vars PROVE \A c \in Conns : Keeps(c) OBVIOUS
<1>1. PoolInv' BY NextPoolInv
<1>2. TxInv /\ TxInv' BY <1>1 DEF PoolInv
<1>3. CASE UNCHANGED txVars
  <2> SUFFICES ASSUME NEW c \in Conns PROVE Keeps(c) OBVIOUS
  <2>1. next_scope' = next_scope /\ next_scope \in Nat BY <1>2, <1>3, TxOf DEF txVars, hostVars
  <2>2. next_scope <= next_scope' BY <2>1
  <2>3. Trusted(c)' => Trusted(c) BY <1>3 DEF txVars, dbVars, Trusted
  <2> QED BY <1>2, <1>3, <2>2, <2>3, KeepsSame DEF txVars, hostVars, dbVars
<1>4. ASSUME NEW c \in Conns, TxCall(c) \/ Write(c) \/ Break(c) \/ RollbackOnRelease(c)
      PROVE  \A x \in Conns : Keeps(x)
  BY <1>2, <1>4, KeepsOn
<1>5. \/ UNCHANGED txVars
      \/ \E c \in Conns : TxCall(c) \/ Write(c) \/ Break(c) \/ RollbackOnRelease(c)
  <2> DEFINE Quiet == \/ UNCHANGED txVars
                      \/ \E c \in Conns : TxCall(c) \/ Write(c) \/ Break(c)
                                          \/ RollbackOnRelease(c)
  <2>1. UNCHANGED vars => UNCHANGED txVars BY DEF vars
  <2>2. ASSUME NEW t \in Threads,
               \/ PoolCreate(t) \/ PoolClose(t) \/ PoolAcquire(t) \/ AcquireStep(t)
               \/ ReleaseOwn(t) \/ ReleaseStray(t) \/ UseConnection(t)
        PROVE  Quiet
    <3>1. PanicOnPoison(t) \/ PanicWithLock(t) \/ Fails(t) \/ Attempt(t) => UNCHANGED txVars
      BY DEF PanicOnPoison, PanicWithLock, Fails, Attempt
    <3>2. PoolCreate(t) \/ PoolClose(t) \/ PoolAcquire(t) => UNCHANGED txVars
      BY <3>1 DEF PoolCreate, PoolClose, PoolAcquire
    <3>3. AcquireStep(t) => UNCHANGED txVars
      BY <3>1 DEF AcquireStep, Retry, FetchString, OpenConnection, Insert, Exhausted
    <3>4. ASSUME NEW c \in Conns, PoolRelease(t, c) PROVE Quiet
      BY <3>1, <3>4 DEF PoolRelease
    <3>5. ReleaseOwn(t) \/ ReleaseStray(t) => Quiet
      BY <3>4 DEF ReleaseOwn, ReleaseStray, Mine
    <3>6. UseConnection(t) => Quiet BY DEF UseConnection, Mine
    <3> QED BY <2>2, <3>2, <3>3, <3>5, <3>6
  <2>3. DropConnection => Quiet
    <3>1. live \subseteq Conns BY DEF PoolInv, PoolTypeOK
    <3> QED BY <3>1 DEF DropConnection
  <2> QED BY <2>1, <2>2, <2>3 DEF Next
<1> QED BY <1>3, <1>4, <1>5

(* The scopes of a connection that can be trusted are open in its database. *)
LEMMA NestInvariant == Spec => []NestInv
<1>1. Init => NestInv
  <2> SUFFICES ASSUME Init, NEW c \in Conns
               PROVE  Linked(db[c], scope_ids[c], savepoints[c], next_scope)
    BY DEF NestInv
  <2>1. db[c] = <<>> /\ scope_ids[c] = <<>> /\ savepoints[c] = <<>> BY DEF Init, TxInit
  <2> QED BY <2>1 DEF Linked, Nest, Ascending
<1>2. PoolInv /\ NestInv /\ [Next]_vars => NestInv'
  BY NextKeeps DEF Keeps, NestInv
<1> QED BY <1>1, <1>2, DbPoolInvariant, PTL DEF Spec

(* Scopes behave as nested transactions on every connection, in every       *)
(* nesting of successes and failures and whatever savepoints rollbacks have *)
(* left behind in the database, until a statement fails on the connection   *)
(* or it goes back to a pool inside a scope.                                *)
THEOREM DbScopesNest == Spec => ScopesNest
<1>1. /\ PoolInv /\ NestInv /\ [Next]_vars
      => [\A c \in Conns :
            \/ Nested(c)!Next
            \/ UNCHANGED <<ScopeWrites(c), committed[c], verdict[c]>>
            \/ ~Trusted(c)']_txVars
  BY NextKeeps DEF Keeps
<1> QED BY <1>1, DbPoolInvariant, NestInvariant, PTL DEF Spec, ScopesNest

-----------------------------------------------------------------------------
(* Asynchronous PostgreSQL queries.                                        *)

Steps == {"out", "finish", "send", "flush", "record", "busy", "get", "complete", "fail",
          "drain", "fetch"}

\* Callers, connections and entries.
CallerRecs == [step : Steps, conn : PgConns \cup {NoCaller}, query : Commands \cup {0},
               keeps : BOOLEAN, fetch : BOOLEAN, command : Commands \cup {0},
               result : Results \cup {NoResult}]

LibRecs == [open : BOOLEAN, sound : BOOLEAN, command : Commands \cup {0},
            answer : Seq({"ok", "error"}), sent : 0 .. 4, read : 0 .. 3,
            commands : SUBSET Commands]

QueryStates == {"none", "pending", "done", "failed", "taken", "reported", "cancelled"}

QueryRecs == [state : QueryStates, conn : PgConns \cup {NoCaller}, keeps : BOOLEAN,
              command : Commands \cup {0}, result : Results \cup {NoResult}]

PgTyped ==
    /\ connections \subseteq PgConns /\ overlapped \subseteq PgConns
    /\ lib \in [PgConns -> LibRecs] /\ queries \in [Commands -> QueryRecs]
    /\ at \in [Callers -> CallerRecs]
    /\ next_command \in 1 .. MaxCommands + 1 /\ next_query \in 1 .. next_command
    /\ queryLock \in Callers \cup {NoCaller}
    /\ queryLock # NoCaller => at[queryLock].step \in {"busy", "get"}
    /\ results \subseteq Results /\ stored \subseteq Commands \X (Results \cup {NoResult})

\* A connection has read no more than was sent, and of an answer that is cut off the
\* last result is the error; its commands are its own.
LibFits(c) ==
    LET l == lib[c]
    IN /\ l.read <= Len(l.answer) /\ l.read <= l.sent /\ l.sent <= Len(l.answer) + 1
       /\ Len(l.answer) <= 3 /\ (l.sound => Len(l.answer) <= 2)
       /\ (Len(l.answer) = 3 => l.answer[3] = "error")
       /\ l.command # 0 => l.answer # <<>> /\ l.command \in l.commands
       /\ \A k \in l.commands : k < next_command /\ \A d \in PgConns : k \in lib[d].commands => d = c

\* Entries are made in order and their command was sent on their connection.
QueryFits(q) ==
    IF q < next_query
    THEN /\ queries[q].state # "none" /\ queries[q].conn \in PgConns
         /\ queries[q].command \in lib[queries[q].conn].commands
         /\ \/ queries[q].result = NoResult
            \/ queries[q].result[1] \in lib[queries[q].conn].commands
    ELSE queries[q] = Absent

\* t has sent a command and not yet recorded its query.
Sending(t) == at[t].step \in {"flush", "record"}

\* What a caller holds agrees with the table; one that looks at a connection has locked it.
AtFits(t) ==
    LET a == at[t]
    IN /\ a.step \in {"finish", "send", "flush", "record"} => a.conn \in PgConns
       /\ IF Sending(t) THEN a.command \in lib[a.conn].commands ELSE a.command = 0
       /\ a.step \in {"busy", "get", "complete", "fail", "drain", "fetch"} =>
            a.query \in 1 .. next_query - 1
       /\ a.step \in {"busy", "get", "complete", "fail", "drain"} =>
            a.conn = queries[a.query].conn /\ a.keeps = queries[a.query].keeps
       /\ a.step \in {"busy", "get"} => /\ queryLock = t /\ queries[a.query].state = "pending"
                                       /\ a.result = NoResult
       /\ a.step \in {"drain", "fetch"} => queries[a.query].state # "pending"
       /\ a.step = "complete" => a.result = NoResult \/ a.result[1] \in lib[a.conn].commands

\* Every query, recorded or not, has a command of its own.
DistinctCommands ==
    /\ \A p, q \in 1 .. next_query - 1 : queries[p].command = queries[q].command => p = q
    /\ \A t \in Callers : Sending(t) =>
         /\ \A q \in Commands : queries[q].command # at[t].command
         /\ \A u \in Callers : Sending(u) /\ at[u].command = at[t].command => u = t

\* Somebody knows the command in flight.
Tracked ==
    \A c \in PgConns : (lib[c].open /\ lib[c].sound /\ lib[c].command # 0) =>
        \/ \E t \in Callers : at[t].conn = c /\ at[t].command = lib[c].command
        \/ \E q \in Commands : queries[q].command = lib[c].command

\* Results come from commands that were sent, and only entries are stored.
Recorded ==
    /\ \A r \in results : \E c \in PgConns : r[1] \in lib[c].commands
    /\ \A s \in stored : s[1] < next_query

\* What holds whatever threads do at the same time.
Frame == PgTyped /\ (\A c \in PgConns : LibFits(c)) /\ (\A q \in Commands : QueryFits(q))
         /\ (\A t \in Callers : AtFits(t)) /\ DistinctCommands /\ Tracked /\ Recorded

\* A thread that has read the first result of a connection.
PollHolds(t) ==
    LET q == at[t].query
    IN /\ at[t].step \in {"complete", "fail"} => queries[q].state \in {"pending", "cancelled"}
       /\ at[t].step = "complete" => at[t].result = <<queries[q].command, 1>>
       /\ at[t].step = "fail" => \A r \in results : r[1] # queries[q].command

\* A completed entry has the first result of its command, also if it was fetched.
EntryHolds(q) ==
    /\ queries[q].state = "done" =>
         /\ queries[q].result = <<queries[q].command, 1>>
         /\ ~queries[q].keeps => queries[q].result \notin results
    /\ \A r \in Results \cup {NoResult} :
                  <<q, r>> \in stored => r = <<queries[q].command, 1>>

\* A result of c belongs to an entry or to the thread that is about to complete it.
ResultHolds(c, r) ==
    r[1] \in lib[c].commands =>
        /\ r[2] = 1
        /\ \E q \in Commands :
             /\ queries[q].command = r[1]
             /\ \/ queries[q].state \in {"done", "cancelled"}
                \/ \E t \in Polling(c) : at[t].step = "complete" /\ at[t].query = q

\* One thread at a time has polled connection c.
Single(c) ==
    /\ \A t, u \in Polling(c) : t = u
    /\ \A t \in Polling(c) : PollHolds(t)
    /\ \A q \in Commands : queries[q].conn = c => EntryHolds(q)
    /\ \A r \in results : ResultHolds(c, r)

\* A second thread is about to read from c before the first one is done: its polls are
\* going to overlap.
Doomed(c) ==
    \E t \in Callers : /\ at[t].step = "get" /\ at[t].conn = c
                       /\ \E u \in Polling(c) : at[u].step \in {"complete", "fail"}

\* The first result of q was read, and its entry is not yet completed.
Reads(c, q) == \E t \in Polling(c) : at[t].query = q /\ at[t].step \in {"complete", "fail"}

\* The command in flight is the one of the thread that reads, of the query that is pending
\* or of the caller that has just sent it; before that nothing of its answer is read.
Orderly(c) ==
    /\ \A t \in Polling(c) : lib[c].command = queries[at[t].query].command
    /\ \A q \in Commands : queries[q].conn = c /\ queries[q].state = "pending" =>
         /\ lib[c].command = queries[q].command
         /\ lib[c].read = 0 \/ Reads(c, q)
    /\ \A t \in Callers : Sending(t) /\ at[t].conn = c =>
         lib[c].command = at[t].command /\ lib[c].read = 0
    /\ \A q \in Commands : queries[q].conn = c /\ queries[q].state \in {"done", "taken"}
         /\ queries[q].command = lib[c].command => Polling(c) # {}

\* The inductive invariant.
PgInv ==
    /\ Frame
    /\ \A c \in PgConns \ overlapped : Single(c) /\ (Doomed(c) \/ Orderly(c))

\* The command in flight and what was read of its answer do not change.
Commanded(d) == lib'[d].command = lib[d].command /\ lib'[d].read = lib[d].read
                /\ lib'[d].commands = lib[d].commands

\* A step that leaves connection d, its callers and its queries alone.
Untouched(d) ==
    /\ d \in overlapped => d \in overlapped'
    /\ Commanded(d)
    /\ \A u \in Callers :
         /\ (u \in Polling(d)) <=> (u \in Polling(d)')
         /\ u \in Polling(d) => at'[u].step = at[u].step /\ at'[u].query = at[u].query
                                /\ at'[u].result = at[u].result
         /\ (Sending(u) /\ at[u].conn = d)' =>
              Sending(u) /\ at[u].conn = d /\ at'[u].command = at[u].command
         /\ at[u].step = "get" /\ at[u].conn = d => at'[u].step = "get" /\ at'[u].conn = d
    /\ \A q \in Commands :
         queries'[q].conn = d =>
           /\ queries'[q] = queries[q]
           /\ \A r : <<q, r>> \in stored' => <<q, r>> \in stored
    /\ \A r \in Results : r[1] \in lib[d].commands => (r \in results' <=> r \in results)
    /\ \A q \in Commands : queries[q].conn = d => queries'[q] = queries[q]

(* A connection that a step leaves alone (Untouched) keeps what the        *)
(* invariant says of it.                                                   *)
LEMMA ElsewhereKeeps ==
    ASSUME PgInv, Frame', NEW d \in PgConns, d \notin overlapped', Untouched(d)
    PROVE  Single(d)' /\ (Doomed(d) \/ Orderly(d))'
<1>1. Frame /\ Single(d) /\ (Doomed(d) \/ Orderly(d))
  BY DEF PgInv, Untouched
<1>2. /\ results \subseteq Results /\ results' \subseteq Results
      /\ \A c \in PgConns : LibFits(c)
      /\ \A q \in Commands : QueryFits(q)
      /\ \A u \in Callers : AtFits(u)
      /\ next_query \in Nat
  BY <1>1, PgAssumption DEF Frame, PgTyped
<1>3. Polling(d)' = Polling(d)
  BY DEF Untouched, Polling
<1>4. ASSUME NEW q \in Commands, queries[q].conn = d
      PROVE  queries'[q] = queries[q] /\ queries[q].command \in lib[d].commands
  BY <1>2, <1>4, PgAssumption DEF Untouched, QueryFits, Absent
<1>5. ASSUME NEW u \in Polling(d)
      PROVE  /\ at[u].query \in Commands /\ queries[at[u].query].conn = d
             /\ queries[at[u].query].command \in lib[d].commands
             /\ at'[u].query = at[u].query /\ at'[u].step = at[u].step
             /\ at'[u].result = at[u].result
             /\ queries'[at[u].query] = queries[at[u].query]
  <2>1. u \in Callers /\ AtFits(u) /\ at[u].step \in {"complete", "fail", "drain"} /\ at[u].conn = d
    BY <1>2, <1>5 DEF Polling
  <2>2. at[u].query \in 1 .. next_query - 1 /\ d = queries[at[u].query].conn
    BY <2>1 DEF AtFits
  <2>3. at[u].query \in Commands
    BY <1>1, <2>2, PgAssumption DEF Frame, PgTyped, Commands
  <2> QED
    BY <1>4, <1>5, <2>1, <2>2, <2>3 DEF Untouched
<1>6. ASSUME NEW q \in Commands, NEW r \in Results, queries[q].command = r[1],
             r[1] \in lib[d].commands
      PROVE  queries[q].conn = d
  <2>1. q < next_query
    BY <1>2, <1>6 DEF QueryFits, Absent, Results, Commands
  <2> QED
    BY <1>2, <1>6, <2>1 DEF QueryFits, LibFits
<1>7. Single(d)'
  <2>1. \A t, u \in Polling(d)' : t = u
    BY <1>1, <1>3 DEF Single
  <2>2. ASSUME NEW t \in Polling(d)
        PROVE  PollHolds(t)'
    <3>1. PollHolds(t)
      BY <1>1, <2>2 DEF Single
    <3>2. \A r \in results' : r[1] = queries[at[t].query].command => r \in results
      BY <1>2, <1>5, <2>2 DEF Untouched
    <3> QED
      BY <1>5, <2>2, <3>1, <3>2 DEF PollHolds
  <2>3. ASSUME NEW q \in Commands, queries'[q].conn = d
        PROVE  EntryHolds(q)'
    <3>1. queries'[q] = queries[q] /\ EntryHolds(q) /\ queries[q].command \in lib[d].commands
      BY <1>1, <1>4, <2>3 DEF Untouched, Single
    <3>2. \A r : <<q, r>> \in stored' => <<q, r>> \in stored
      BY <2>3 DEF Untouched
    <3>3. queries[q].result = <<queries[q].command, 1>> /\ queries[q].result \notin results
            => queries[q].result \notin results'
      BY <1>2, <3>1 DEF Untouched
    <3> QED
      BY <3>1, <3>2, <3>3 DEF EntryHolds
  <2>4. ASSUME NEW r \in results', r[1] \in lib'[d].commands
        PROVE  ResultHolds(d, r)'
    <3>1. r \in results /\ r[1] \in lib[d].commands
      BY <1>2, <2>4 DEF Untouched, Commanded
    <3>2. ResultHolds(d, r)
      BY <1>1, <3>1 DEF Single
    <3>3. PICK q \in Commands :
             /\ queries[q].command = r[1]
             /\ \/ queries[q].state \in {"done", "cancelled"}
                \/ \E t \in Polling(d) : at[t].step = "complete" /\ at[t].query = q
      BY <3>1, <3>2 DEF ResultHolds
    <3>4. queries'[q] = queries[q]
      BY <1>2, <1>4, <1>6, <3>1, <3>3
    <3> QED
      BY <1>3, <1>5, <3>1, <3>2, <3>3, <3>4 DEF ResultHolds
  <2>5. \A r \in results' : ResultHolds(d, r)'
    BY <2>4 DEF ResultHolds
  <2> QED
    BY <1>3, <2>1, <2>2, <2>3, <2>5 DEF Single
<1>8. CASE Doomed(d)
  <2>1. PICK t \in Callers, u \in Polling(d) :
           at[t].step = "get" /\ at[t].conn = d /\ at[u].step \in {"complete", "fail"}
    BY <1>8 DEF Doomed
  <2>2. at'[t].step = "get" /\ at'[t].conn = d
    BY <2>1 DEF Untouched
  <2> QED
    BY <1>3, <1>5, <1>7, <2>1, <2>2 DEF Doomed
<1>9. CASE Orderly(d)
  <2>1. lib'[d].command = lib[d].command /\ lib'[d].read = lib[d].read
    BY DEF Untouched, Commanded
  <2>2. \A q \in Commands : Reads(d, q) => Reads(d, q)'
    BY <1>3, <1>5 DEF Reads
  <2>3. \A q \in Commands : queries'[q].conn = d => queries'[q] = queries[q]
    BY DEF Untouched
  <2>4. \A u \in Callers : (Sending(u) /\ at[u].conn = d)' =>
              Sending(u) /\ at[u].conn = d /\ at'[u].command = at[u].command
    BY DEF Untouched
  <2> QED
    BY <1>3, <1>5, <1>7, <1>9, <2>1, <2>2, <2>3, <2>4 DEF Orderly
<1> QED
  BY <1>1, <1>7, <1>8, <1>9

\* A step of t that sends and records no command.
Follows(t) ==
    /\ UNCHANGED <<next_command, next_query>>
    /\ connections' \subseteq PgConns /\ overlapped' \subseteq PgConns
    /\ lib' \in [PgConns -> LibRecs] /\ queries' \in [Commands -> QueryRecs]
    /\ at' \in [Callers -> CallerRecs]
    /\ results' \subseteq Results /\ stored' \subseteq Commands \X (Results \cup {NoResult})
    /\ \A c \in PgConns :
         /\ LibFits(c)' /\ lib'[c].commands = lib[c].commands
         /\ lib'[c].open /\ lib'[c].sound /\ lib'[c].command # 0 =>
              lib[c].open /\ lib[c].sound /\ lib'[c].command = lib[c].command
    /\ \A q \in Commands :
         /\ queries'[q].conn = queries[q].conn /\ queries'[q].keeps = queries[q].keeps
         /\ queries'[q].command = queries[q].command
         /\ queries'[q] = queries[q] \/ (q < next_query /\ queries'[q].state # "none")
         /\ queries'[q].state = "pending" => queries[q].state = "pending"
         /\ \/ queries'[q].result \in {queries[q].result, NoResult}
            \/ queries'[q].result[1] \in lib[queries[q].conn].commands
    /\ \A u \in Callers \ {t} :
         /\ at'[u] = at[u]
         /\ queryLock = u => queryLock' = u /\ queries' = queries
    /\ queryLock' \in {NoCaller, queryLock, t}
    /\ t \in Callers =>
         /\ AtFits(t)' /\ (queryLock' = t => at'[t].step \in {"busy", "get"})
         /\ Sending(t)' => /\ Sending(t) /\ at'[t].conn = at[t].conn
                           /\ at'[t].command = at[t].command
         /\ Sending(t) => \/ Sending(t)'
                          \/ ~(lib'[at[t].conn].open /\ lib'[at[t].conn].sound)
    /\ t \notin Callers => queryLock' = queryLock
    /\ \A r \in results' : \E c \in PgConns : r[1] \in lib[c].commands
    /\ \A s \in stored' : s[1] < next_query

(* A step that sends and records no command keeps what holds whatever      *)
(* threads do at the same time: the types, the connections of arth_rt, the *)
(* entries, and that each command has its own query.                       *)
LEMMA FollowsKeeps ==
    ASSUME Frame, NEW t, Follows(t)
    PROVE  Frame'
<1>1. /\ PgTyped /\ (\A c \in PgConns : LibFits(c)) /\ (\A q \in Commands : QueryFits(q))
      /\ (\A u \in Callers : AtFits(u)) /\ DistinctCommands /\ Tracked /\ Recorded
  BY DEF Frame
<1>2. PgTyped'
  <2>1. queryLock' \in Callers \cup {NoCaller}
    BY <1>1, PgAssumption DEF Follows, PgTyped
  <2>2. queryLock' # NoCaller => at'[queryLock'].step \in {"busy", "get"}
    <3> SUFFICES ASSUME queryLock' # NoCaller, queryLock' # t
                 PROVE  at'[queryLock'].step \in {"busy", "get"}
      BY <2>1, PgAssumption DEF Follows
    <3>1. queryLock' = queryLock /\ queryLock \in Callers \ {t}
      BY <2>1, PgAssumption DEF Follows
    <3> QED
      BY <1>1, <3>1, PgAssumption DEF Follows, PgTyped
  <2> QED
    BY <1>1, <2>1, <2>2 DEF Follows, PgTyped
<1>3. \A q \in Commands : QueryFits(q)'
  <2> SUFFICES ASSUME NEW q \in Commands
               PROVE  QueryFits(q)'
    OBVIOUS
  <2>1. QueryFits(q) /\ next_query' = next_query
    BY <1>1 DEF Follows
  <2>2. q < next_query => queries'[q].state # "none"
    BY <2>1 DEF Follows, QueryFits
  <2>3. ~(q < next_query) => queries'[q] = queries[q]
    BY DEF Follows
  <2>4. q < next_query => lib'[queries[q].conn].commands = lib[queries[q].conn].commands
    BY <2>1 DEF Follows, QueryFits
  <2>5. q < next_query => \/ queries'[q].result = NoResult
                          \/ queries'[q].result[1] \in lib[queries[q].conn].commands
    BY <2>1 DEF Follows, QueryFits
  <2> QED
    BY <2>1, <2>2, <2>3, <2>4, <2>5 DEF Follows, QueryFits, Absent
<1>4. ASSUME NEW u \in Callers, u # t
      PROVE  AtFits(u)'
  <2>1. AtFits(u) /\ at'[u] = at[u]
    BY <1>1, <1>4 DEF Follows
  <2>2. at[u].step \in {"busy", "get"} => queryLock' = u /\ queries' = queries
    BY <1>1, <1>4, <2>1 DEF Follows, AtFits
  <2>3. at[u].step \in {"busy", "get", "complete", "fail", "drain", "fetch"} =>
            at[u].query \in Commands
    BY <1>1, <2>1, PgAssumption DEF AtFits, PgTyped, Commands
  <2>4. at[u].step \in {"busy", "get", "complete", "fail", "drain"} =>
            at[u].conn = queries'[at[u].query].conn /\ at[u].keeps = queries'[at[u].query].keeps
    BY <2>1, <2>3 DEF Follows, AtFits
  <2>5. at[u].step \in {"drain", "fetch"} => queries'[at[u].query].state # "pending"
    BY <2>1, <2>3 DEF Follows, AtFits
  <2>6. Sending(u) => at[u].command \in lib'[at[u].conn].commands
    BY <2>1 DEF Follows, AtFits, Sending
  <2>7. at[u].step = "complete" =>
          at[u].result = NoResult \/ at[u].result[1] \in lib'[at[u].conn].commands
    <3> SUFFICES ASSUME at[u].step = "complete", at[u].result # NoResult
                 PROVE  at[u].result[1] \in lib'[at[u].conn].commands
      OBVIOUS
    <3>1. at[u].result[1] \in lib[at[u].conn].commands
      BY <2>1 DEF AtFits
    <3>2. at[u].conn \in PgConns
      <4>1. PICK q \in Commands : q = at[u].query /\ q \in 1 .. next_query - 1
                                 /\ at[u].conn = queries[q].conn
        BY <2>1, <2>3 DEF AtFits
      <4>2. next_query \in Int
        BY <1>1, PgAssumption DEF PgTyped
      <4>3. QueryFits(q) /\ q < next_query
        BY <1>1, <4>1, <4>2
      <4> QED
        BY <4>1, <4>3 DEF QueryFits
    <3> QED
      BY <3>1, <3>2 DEF Follows
  <2>8. next_query' = next_query
    BY DEF Follows
  <2> QED
    BY <2>1, <2>2, <2>3, <2>4, <2>5, <2>6, <2>7, <2>8 DEF AtFits, Sending
<1>5. DistinctCommands'
  <2>1. \A u \in Callers : Sending(u)' => /\ Sending(u) /\ at'[u].conn = at[u].conn
                                          /\ at'[u].command = at[u].command
    BY DEF Follows, Sending
  <2>2. \A p \in 1 .. next_query - 1 : p \in Commands
    BY <1>1, PgAssumption DEF PgTyped, Commands
  <2>3. \A q \in Commands : queries'[q].command = queries[q].command
    BY DEF Follows
  <2>4. next_query' = next_query
    BY DEF Follows
  <2>5. \A p, q \in 1 .. next_query - 1 : queries'[p].command = queries'[q].command => p = q
    BY <1>1, <2>2, <2>3 DEF DistinctCommands
  <2> QED
    BY <1>1, <2>1, <2>3, <2>4, <2>5 DEF DistinctCommands
<1>6. Tracked'
  <2> SUFFICES ASSUME NEW c \in PgConns, lib'[c].open, lib'[c].sound, lib'[c].command # 0
               PROVE  \/ \E u \in Callers : at'[u].conn = c /\ at'[u].command = lib'[c].command
                      \/ \E q \in Commands : queries'[q].command = lib'[c].command
    BY DEF Tracked
  <2>1. lib[c].open /\ lib[c].sound /\ lib'[c].command = lib[c].command
    BY DEF Follows
  <2>2. CASE \E q \in Commands : queries[q].command = lib[c].command
    BY <2>1, <2>2 DEF Follows
  <2>3. ASSUME NEW u \in Callers, at[u].conn = c, at[u].command = lib[c].command
        PROVE  at'[u].conn = c /\ at'[u].command = lib'[c].command
    <3>1. CASE u # t
      BY <2>1, <2>3, <3>1 DEF Follows
    <3>2. CASE u = t
      <4>1. Sending(t)
        BY <1>1, <2>1, <2>3, <3>2 DEF AtFits
      <4> QED
        BY <2>1, <2>3, <3>2, <4>1 DEF Follows
    <3> QED
      BY <3>1, <3>2
  <2> QED
    BY <1>1, <2>1, <2>2, <2>3 DEF Tracked
<1>7. Recorded'
  <2>1. \A r \in results' : \E c \in PgConns : r[1] \in lib'[c].commands
    BY DEF Follows
  <2> QED
    BY <2>1 DEF Follows, Recorded
<1>8. \A c \in PgConns : LibFits(c)'
  BY DEF Follows
<1>9. \A u \in Callers : AtFits(u)'
  BY <1>4 DEF Follows
<1> QED
  BY <1>2, <1>3, <1>5, <1>6, <1>7, <1>8, <1>9 DEF Frame

(* A step that changes no entry, no result and no command in flight, by a  *)
(* caller that does not read an answer, keeps the invariant.               *)
LEMMA QuietKeeps ==
    ASSUME PgInv, NEW t, Follows(t), UNCHANGED <<queries, results, stored, overlapped>>,
           \A d \in PgConns : Commanded(d),
           t \in Callers => /\ at[t].step \notin {"get", "complete", "fail", "drain"}
                            /\ at'[t].step \notin {"get", "complete", "fail", "drain"}
    PROVE  PgInv'
<1>1. Frame'
  BY FollowsKeeps DEF PgInv
<1>2. ASSUME NEW d \in PgConns
      PROVE  Untouched(d)
  <2>1. ASSUME NEW u \in Callers
        PROVE  /\ (u \in Polling(d)) <=> (u \in Polling(d)')
               /\ u \in Polling(d) => at'[u].step = at[u].step /\ at'[u].query = at[u].query
                                      /\ at'[u].result = at[u].result
               /\ (Sending(u) /\ at[u].conn = d)' =>
                    Sending(u) /\ at[u].conn = d /\ at'[u].command = at[u].command
               /\ at[u].step = "get" /\ at[u].conn = d => at'[u].step = "get" /\ at'[u].conn = d
    <3>1. CASE u = t
      BY <2>1, <3>1 DEF Polling, Follows, Sending
    <3>2. CASE u # t
      BY <2>1, <3>2 DEF Polling, Follows, Sending
    <3> QED
      BY <3>1, <3>2
  <2> QED
    BY <2>1 DEF Untouched
<1>3. \A d \in PgConns \ overlapped' : d \in PgConns \ overlapped
  OBVIOUS
<1> QED
  BY <1>1, <1>2, <1>3, ElsewhereKeeps DEF PgInv

(* A step of t that only moves t, and the lock it takes or drops.          *)
LEMMA MoveFollows ==
    ASSUME PgInv, NEW t \in Callers, NEW r \in CallerRecs, at' = [at EXCEPT ![t] = r],
           UNCHANGED <<lib, queries, next_command, next_query, results, stored, overlapped>>,
           connections' \subseteq PgConns,
           queryLock' \in {NoCaller, queryLock, t},
           queryLock' = queryLock \/ queryLock \in {t, NoCaller},
           queryLock' = t <=> r.step \in {"busy", "get"},
           r.step \notin {"flush", "record"} \/ (Sending(t) /\ r.command = at[t].command
                                                 /\ r.conn = at[t].conn),
           Sending(t) => \/ r.step \in {"flush", "record"}
                         \/ ~(lib[at[t].conn].open /\ lib[at[t].conn].sound),
           AtFits(t)'
    PROVE  /\ Follows(t) /\ at'[t] = r /\ \A d \in PgConns : Commanded(d)
           /\ \A u \in Callers \ {t} : at'[u] = at[u]
<1>1. Frame /\ PgTyped /\ (\A c \in PgConns : LibFits(c)) /\ Recorded
  BY DEF PgInv, Frame
<1>2. /\ at' \in [Callers -> CallerRecs] /\ at'[t] = r
      /\ \A u \in Callers \ {t} : at'[u] = at[u]
  BY <1>1 DEF PgTyped
<1>3. \A c \in PgConns : LibFits(c)'
  BY <1>1 DEF LibFits
<1>4. \A u \in Callers \ {t} : queryLock = u => queryLock' = u
  BY PgAssumption
<1>5. \A q \in Commands : queries'[q].state = "pending" => queries[q].state = "pending"
  OBVIOUS
<1> QED
  BY <1>1, <1>2, <1>3, <1>4, <1>5 DEF Follows, PgTyped, Sending, Recorded, Commanded

(* The state of a thread that makes no call.                               *)
LEMMA OutsideFields ==
    /\ Outside \in CallerRecs /\ Outside.step = "out" /\ Outside.command = 0
    /\ Outside.conn = NoCaller /\ Outside.query = 0
BY DEF Outside, CallerRecs, Steps, NoResult

(* A call ends early: the connection is closed or broken, libpq refuses    *)
(* the command, or the answer is not there yet (is_ready returns false).   *)
LEMMA OverInv ==
    ASSUME PgInv, NEW t \in Callers, at' = [at EXCEPT ![t] = Outside],
           UNCHANGED <<lib, queries, next_command, next_query, results, stored, overlapped>>,
           connections' = connections,
           IF at[t].step = "busy" THEN queryLock' = NoCaller ELSE queryLock' = queryLock,
           at[t].step \in {"send", "flush", "busy"},
           at[t].step = "flush" => ~(lib[at[t].conn].open /\ lib[at[t].conn].sound)
    PROVE  PgInv'
<1>1. Frame /\ PgTyped /\ AtFits(t)
  BY DEF PgInv, Frame
<1>2. at'[t] = Outside
  BY <1>1 DEF PgTyped
<1>3. AtFits(t)'
  BY <1>2, OutsideFields DEF AtFits, Sending
<1>4. queryLock' \in {NoCaller, queryLock, t} /\ queryLock' # t
      /\ (queryLock' = queryLock \/ queryLock \in {t, NoCaller})
  BY <1>1, PgAssumption DEF AtFits, PgTyped
<1>5. Follows(t) /\ \A d \in PgConns : Commanded(d)
  BY <1>1, <1>3, <1>4, OutsideFields, MoveFollows DEF PgTyped, Sending
<1> QED
  BY <1>2, <1>5, OutsideFields, QuietKeeps

(* The connection of a call is looked up (pg_query_async and the other     *)
(* calls that send).                                                       *)
LEMMA BeginInv ==
    ASSUME PgInv, NEW t \in Callers, NEW c \in PgConns, NEW keeps \in BOOLEAN, Begin(t, c, keeps)
    PROVE  PgInv'
<1>1. Frame /\ PgTyped /\ AtFits(t) /\ at[t].step = "out"
  BY DEF PgInv, Frame, Begin, IsOutside
<1>2. PICK r : r = [Outside EXCEPT !.step = "send", !.conn = c, !.keeps = keeps]
  OBVIOUS
<1>3. r \in CallerRecs /\ r.step = "send" /\ r.conn = c /\ r.command = 0
  BY <1>2 DEF Outside, CallerRecs, Steps, NoResult
<1>4. at' = [at EXCEPT ![t] = r] /\ at'[t] = r
  BY <1>1, <1>2 DEF Begin, PgTyped
<1>5. AtFits(t)'
  BY <1>3, <1>4 DEF AtFits, Sending
<1>6. queryLock' = queryLock /\ queryLock # t
  BY <1>1, PgAssumption DEF Begin, PgTyped
<1>7. Follows(t) /\ \A d \in PgConns : Commanded(d)
  BY <1>1, <1>3, <1>4, <1>5, <1>6, MoveFollows DEF PgTyped, Sending, Begin
<1> QED
  BY <1>1, <1>3, <1>4, <1>7, QuietKeeps DEF Begin

(* pg_disconnect_async takes the connection out of its table.              *)
LEMMA DisconnectInv ==
    ASSUME PgInv, NEW t \in Callers, NEW c \in PgConns, DisconnectAsync(t, c)
    PROVE  PgInv'
<1>1. Frame /\ PgTyped /\ AtFits(t) /\ at[t].step = "out"
  BY DEF PgInv, Frame, DisconnectAsync, IsOutside
<1>2. PICK r : r = [Outside EXCEPT !.step = "finish", !.conn = c]
  OBVIOUS
<1>3. r \in CallerRecs /\ r.step = "finish" /\ r.conn = c /\ r.command = 0
  BY <1>2 DEF Outside, CallerRecs, Steps, NoResult
<1>4. at' = [at EXCEPT ![t] = r] /\ at'[t] = r
  BY <1>1, <1>2 DEF DisconnectAsync, PgTyped
<1>5. AtFits(t)'
  BY <1>3, <1>4 DEF AtFits, Sending
<1>6. queryLock' = queryLock /\ queryLock # t
  BY <1>1, PgAssumption DEF DisconnectAsync, PgTyped
<1>7. Follows(t) /\ \A d \in PgConns : Commanded(d)
  BY <1>1, <1>3, <1>4, <1>5, <1>6, MoveFollows DEF PgTyped, Sending, DisconnectAsync
<1> QED
  BY <1>1, <1>3, <1>4, <1>7, QuietKeeps DEF DisconnectAsync

(* pg_is_ready and pg_get_async_result look the query up; a pending one is *)
(* polled with the table locked.                                           *)
LEMMA LookupInv ==
    ASSUME PgInv, NEW t \in Callers, NEW q \in Commands, NEW fetch \in BOOLEAN,
           Lookup(t, q, fetch)
    PROVE  PgInv'
<1>1. Frame /\ PgTyped /\ AtFits(t) /\ QueryFits(q) /\ at[t].step = "out"
      /\ queryLock = NoCaller /\ InTable(q)
  BY DEF PgInv, Frame, Lookup, IsOutside
<1>2. queries[q] \in QueryRecs /\ q \in 1 .. next_query - 1
  BY <1>1, PgAssumption DEF PgTyped, QueryFits, InTable, Absent, Commands
<1>3. PICK r \in CallerRecs :
        /\ at' = [at EXCEPT ![t] = r] /\ r.command = 0 /\ r.query = q /\ r.result = NoResult
        /\ \/ /\ r.step = "busy" /\ queries[q].state = "pending" /\ queryLock' = t
              /\ r.conn = queries[q].conn /\ r.keeps = queries[q].keeps
           \/ r.step = "fetch" /\ queries[q].state # "pending" /\ queryLock' = queryLock
  <2>1. PICK e \in CallerRecs : /\ e = [Outside EXCEPT !.query = q, !.fetch = fetch]
                                /\ e.command = 0 /\ e.query = q /\ e.result = NoResult
    <3>1. [Outside EXCEPT !.query = q, !.fetch = fetch] \in CallerRecs
      BY DEF Outside, CallerRecs, Steps, NoResult
    <3> QED
      BY <3>1 DEF Outside
  <2>2. CASE Polled(q)
    <3>1. PICK c \in PgConns \cup {NoCaller}, k \in BOOLEAN :
             c = queries[q].conn /\ k = queries[q].keeps
      BY <1>2 DEF QueryRecs
    <3>2. PICK r : r = [e EXCEPT !.step = "busy", !.conn = c, !.keeps = k]
      OBVIOUS
    <3>3. at' = [at EXCEPT ![t] = r]
      BY <2>1, <2>2, <3>1, <3>2 DEF Lookup
    <3>4. r \in CallerRecs /\ r.command = 0 /\ r.query = q /\ r.step = "busy" /\ r.result = NoResult
          /\ r.conn = c /\ r.keeps = k
      BY <2>1, <3>1, <3>2 DEF CallerRecs, Steps
    <3> QED
      BY <2>2, <3>1, <3>3, <3>4 DEF Lookup, Polled
  <2>3. CASE ~Polled(q)
    <3>1. PICK r : r = [e EXCEPT !.step = "fetch"]
      OBVIOUS
    <3>2. at' = [at EXCEPT ![t] = r]
      BY <2>1, <2>3, <3>1 DEF Lookup
    <3>3. r \in CallerRecs /\ r.command = 0 /\ r.query = q /\ r.step = "fetch" /\ r.result = NoResult
      BY <2>1, <3>1 DEF CallerRecs, Steps
    <3> QED
      BY <2>3, <3>2, <3>3 DEF Lookup, Polled
  <2> QED
    BY <2>2, <2>3
<1>4. at'[t] = r
  BY <1>1, <1>3 DEF PgTyped
<1>5. UNCHANGED <<connections, lib, queries, next_command, next_query, results, stored,
                  overlapped>>
  BY DEF Lookup
<1>6. AtFits(t)'
  BY <1>2, <1>3, <1>4, <1>5 DEF AtFits, Sending
<1>7. /\ queryLock' \in {NoCaller, queryLock, t}
      /\ queryLock' = t <=> r.step \in {"busy", "get"}
  BY <1>1, <1>3, PgAssumption
<1>8. Follows(t) /\ \A d \in PgConns : Commanded(d)
  BY <1>1, <1>3, <1>4, <1>5, <1>6, <1>7, MoveFollows DEF PgTyped, Sending
<1> QED
  BY <1>1, <1>3, <1>4, <1>5, <1>8, QuietKeeps

\* Connection c becomes l; t does nothing, or ends its call.
LibStep(t, c, l) ==
    /\ lib' = [lib EXCEPT ![c] = l]
    /\ l.command = lib[c].command /\ l.read = lib[c].read /\ l.commands = lib[c].commands
    /\ l.open /\ l.sound /\ l.command # 0 => lib[c].open /\ lib[c].sound
    /\ l.read <= l.sent /\ l.sent <= Len(l.answer) + 1 /\ l.read <= Len(l.answer)
    /\ Len(l.answer) <= 3 /\ (l.sound => Len(l.answer) <= 2)
    /\ (Len(l.answer) = 3 => l.answer[3] = "error")
    /\ l.command # 0 => l.answer # <<>>
    /\ UNCHANGED <<queries, next_command, next_query, queryLock, results, stored, overlapped>>
    /\ connections' \subseteq PgConns
    /\ \/ t \notin Callers /\ at' = at
       \/ /\ t \in Callers /\ at' = [at EXCEPT ![t] = Outside]
          /\ at[t].step = "finish"
       \/ t \in Callers /\ at' = at /\ at[t].step = "out"

(* A step that changes a connection, and neither the command in flight nor *)
(* what was read of its answer.                                            *)
LEMMA LibInv ==
    ASSUME PgInv, NEW t, NEW c \in PgConns, NEW l \in LibRecs, LibStep(t, c, l)
    PROVE  PgInv'
<1>1. Frame /\ PgTyped /\ (\A d \in PgConns : LibFits(d)) /\ (\A u \in Callers : AtFits(u))
      /\ Recorded
  BY DEF PgInv, Frame
<1>2. lib' \in [PgConns -> LibRecs] /\ lib'[c] = l /\ \A d \in PgConns \ {c} : lib'[d] = lib[d]
  BY <1>1 DEF PgTyped, LibStep
<1>3. \A d \in PgConns : Commanded(d)
  BY <1>2 DEF Commanded, LibStep
<1>4. \A d \in PgConns : LibFits(d)'
  <2>1. \A d \in PgConns : lib'[d].commands = lib[d].commands
    BY <1>3 DEF Commanded
  <2>2. LibFits(c)'
    BY <1>1, <1>2, <2>1 DEF LibFits, LibStep
  <2>3. \A d \in PgConns \ {c} : LibFits(d)'
    BY <1>1, <1>2, <2>1 DEF LibFits, LibStep
  <2> QED
    BY <2>2, <2>3
<1>5. /\ at' \in [Callers -> CallerRecs]
      /\ \A u \in Callers \ {t} : at'[u] = at[u]
      /\ t \in Callers => at'[t].step = "out" /\ at'[t].command = 0 /\ ~Sending(t) /\ ~Sending(t)'
                          /\ at[t].step \in {"out", "finish"}
  BY <1>1, OutsideFields DEF PgTyped, Sending, AtFits, LibStep
<1>6. t \in Callers => AtFits(t)' /\ queryLock' # t
  BY <1>1, <1>5, PgAssumption DEF AtFits, PgTyped, LibStep
<1>7. \A d \in PgConns :
        lib'[d].open /\ lib'[d].sound /\ lib'[d].command # 0 =>
              lib[d].open /\ lib[d].sound /\ lib'[d].command = lib[d].command
  BY <1>2 DEF LibStep
<1>8. Follows(t)
  BY <1>1, <1>2, <1>3, <1>4, <1>5, <1>6, <1>7 DEF Follows, PgTyped, Recorded, Commanded, LibStep
<1> QED
  BY <1>3, <1>5, <1>8, QuietKeeps DEF LibStep

(* pg_connect_async opens a connection.                                    *)
LEMMA ConnectInv ==
    ASSUME PgInv, NEW t \in Callers, NEW c \in PgConns, ConnectAsync(t, c)
    PROVE  PgInv'
<1>1. PgTyped /\ LibFits(c) /\ lib[c] \in LibRecs
  BY DEF PgInv, Frame, PgTyped
<1>2. PICK l : l = [lib[c] EXCEPT !.open = TRUE]
  OBVIOUS
<1>3. /\ l \in LibRecs /\ l.command = lib[c].command /\ l.read = lib[c].read
      /\ l.commands = lib[c].commands /\ l.answer = lib[c].answer /\ l.sent = lib[c].sent
      /\ l.sound = lib[c].sound
  BY <1>1, <1>2 DEF LibRecs
<1>4. lib[c].command = 0
  BY DEF ConnectAsync, Idle
<1>5. lib' = [lib EXCEPT ![c] = l]
  BY <1>2 DEF ConnectAsync
<1>6. LibStep(t, c, l)
  BY <1>1, <1>3, <1>4, <1>5 DEF LibStep, ConnectAsync, LibFits, IsOutside, PgTyped
<1> QED
  BY <1>3, <1>6, LibInv

(* PQfinish closes a connection, whatever is under way on it.              *)
LEMMA FinishInv ==
    ASSUME PgInv, NEW t \in Callers, Finish(t)
    PROVE  PgInv'
<1>1. PgTyped /\ AtFits(t) /\ at[t].conn \in PgConns
  BY DEF PgInv, Frame, AtFits, Finish
<1>2. PICK c \in PgConns : c = at[t].conn
  BY <1>1
<1>3. LibFits(c) /\ lib[c] \in LibRecs
  BY DEF PgInv, Frame, PgTyped
<1>4. PICK l : l = [lib[c] EXCEPT !.open = FALSE]
  OBVIOUS
<1>5. /\ l \in LibRecs /\ l.command = lib[c].command /\ l.read = lib[c].read
      /\ l.commands = lib[c].commands /\ l.answer = lib[c].answer /\ l.sent = lib[c].sent
      /\ l.sound = lib[c].sound /\ ~l.open
  BY <1>3, <1>4 DEF LibRecs
<1>6. lib' = [lib EXCEPT ![c] = l]
  BY <1>2, <1>4 DEF Finish
<1>7. LibStep(t, c, l)
  BY <1>1, <1>3, <1>5, <1>6 DEF LibStep, Finish, Returns, LibFits, PgTyped
<1> QED
  BY <1>5, <1>7, LibInv

(* The server sends a result, or that it is ready.                         *)
LEMMA AnswerInv ==
    ASSUME PgInv, NEW c \in PgConns, Answer(c)
    PROVE  PgInv'
<1>1. PgTyped /\ LibFits(c) /\ lib[c] \in LibRecs
  BY DEF PgInv, Frame, PgTyped
<1>2. PICK l : l = [lib[c] EXCEPT !.sent = @ + 1]
  OBVIOUS
<1>3. lib[c].answer \in Seq({"ok", "error"}) /\ Len(lib[c].answer) \in Nat
      /\ lib[c].sent \in 0 .. 4 /\ lib[c].sent + 1 <= 4
  BY <1>1 DEF LibRecs, Answer, LibFits
<1>4. /\ l \in LibRecs /\ l.command = lib[c].command /\ l.read = lib[c].read
      /\ l.commands = lib[c].commands /\ l.answer = lib[c].answer /\ l.sent = lib[c].sent + 1
      /\ l.sound = lib[c].sound /\ l.open = lib[c].open
  BY <1>1, <1>2, <1>3 DEF LibRecs
<1>5. lib' = [lib EXCEPT ![c] = l]
  BY <1>2 DEF Answer
<1>6. lib[c].read \in 0 .. 3
  BY <1>1 DEF LibRecs
<1>7. PICK t : t \notin Callers
  BY PgAssumption
<1>8. /\ l.read <= l.sent /\ l.sent <= Len(l.answer) + 1 /\ l.read <= Len(l.answer)
      /\ Len(l.answer) <= 3 /\ (l.sound => Len(l.answer) <= 2)
      /\ (Len(l.answer) = 3 => l.answer[3] = "error")
      /\ l.command # 0 => l.answer # <<>>
  BY <1>1, <1>3, <1>4, <1>6 DEF Answer, LibFits
<1>9. LibStep(t, c, l)
  BY <1>1, <1>4, <1>5, <1>7, <1>8 DEF LibStep, Answer, PgTyped
<1> QED
  BY <1>4, <1>9, LibInv

(* An answer that is cut off ends with an error.                           *)
LEMMA ErrorAppended ==
    ASSUME NEW x \in Seq({"ok", "error"})
    PROVE  /\ Append(x, "error") \in Seq({"ok", "error"}) /\ Append(x, "error") # <<>>
           /\ Len(Append(x, "error")) = Len(x) + 1 /\ Append(x, "error")[Len(x) + 1] = "error"
<1>1. Append(x, "error")[Len(x) + 1] = "error"
  OBVIOUS
<1>2. Append(x, "error") \in Seq({"ok", "error"}) /\ Len(Append(x, "error")) = Len(x) + 1
  OBVIOUS
<1> QED
  BY <1>1, <1>2

(* The connection breaks: the answer in flight ends with an error.         *)
LEMMA LoseInv ==
    ASSUME PgInv, NEW c \in PgConns, Lose(c)
    PROVE  PgInv'
<1>1. PgTyped /\ LibFits(c) /\ lib[c] \in LibRecs
  BY DEF PgInv, Frame, PgTyped
<1>2. PICK n, m, a : n = lib[c].sent /\ m = lib[c].read /\ a = lib[c].answer
  OBVIOUS
<1>3. n \in 0 .. 4 /\ m \in 0 .. 3 /\ a \in Seq({"ok", "error"}) /\ Len(a) \in Nat /\ Len(a) <= 2
      /\ m <= n /\ m <= Len(a) /\ n <= Len(a) + 1
  BY <1>1, <1>2 DEF LibRecs, LibFits, Lose
<1>4. PICK b, k : /\ b = IF n > Len(a) THEN a ELSE Append(SubSeq(a, 1, n), "error")
                  /\ k = IF n > Len(a) THEN n ELSE n + 2
  OBVIOUS
<1>5. b \in Seq({"ok", "error"}) /\ k \in 0 .. 4 /\ m <= Len(b) /\ k <= Len(b) + 1 /\ m <= k
      /\ Len(b) <= 3 /\ (a # <<>> => b # <<>>) /\ (Len(b) = 3 => b[3] = "error")
  <2>1. CASE n > Len(a)
    BY <1>3, <1>4, <2>1
  <2>2. CASE ~(n > Len(a))
    <3>1. SubSeq(a, 1, n) \in Seq({"ok", "error"}) /\ Len(SubSeq(a, 1, n)) = n
      BY <1>3, <2>2
    <3>2. b = Append(SubSeq(a, 1, n), "error") /\ k = n + 2
      BY <1>4, <2>2
    <3>3. b \in Seq({"ok", "error"}) /\ Len(b) = n + 1 /\ b # <<>> /\ b[n + 1] = "error"
      <4>1. PICK x \in Seq({"ok", "error"}) : x = SubSeq(a, 1, n) /\ Len(x) = n
        BY <3>1
      <4>2. b = Append(x, "error")
        BY <3>2, <4>1
      <4>3. /\ b \in Seq({"ok", "error"}) /\ Len(b) = Len(x) + 1 /\ b[Len(x) + 1] = "error"
            /\ b # <<>>
        BY <4>1, <4>2, ErrorAppended
      <4> QED
        BY <4>1, <4>3
    <3>4. Len(b) = 3 => b[3] = "error"
      <4> SUFFICES ASSUME Len(b) = 3
                   PROVE  b[3] = "error"
        OBVIOUS
      <4>1. n + 1 = 3
        BY <3>3
      <4> QED
        BY <3>3, <4>1
    <3>5. k \in 0 .. 4 /\ m <= Len(b) /\ k <= Len(b) + 1 /\ m <= k /\ Len(b) <= 3
      BY <1>3, <2>2, <3>2, <3>3
    <3> QED
      BY <3>3, <3>4, <3>5
  <2> QED
    BY <2>1, <2>2
<1>6. PICK l : l = [lib[c] EXCEPT !.sound = FALSE, !.answer = b, !.sent = k]
  OBVIOUS
<1>7. /\ l \in LibRecs /\ l.command = lib[c].command /\ l.read = m
      /\ l.commands = lib[c].commands /\ l.answer = b /\ l.sent = k /\ ~l.sound
  BY <1>1, <1>2, <1>5, <1>6 DEF LibRecs
<1>8. lib' = [lib EXCEPT ![c] = l]
  BY <1>2, <1>4, <1>6 DEF Lose
<1>9. l.command # 0 => b # <<>>
  BY <1>1, <1>2, <1>5, <1>7 DEF LibFits
<1>10. PICK t : t \notin Callers
  BY PgAssumption
<1>11. LibStep(t, c, l)
  BY <1>1, <1>2, <1>5, <1>7, <1>8, <1>9, <1>10 DEF LibStep, Lose, PgTyped
<1> QED
  BY <1>7, <1>11, LibInv

(* PQflush: on a connection that is closed or broken the call fails.       *)
LEMMA FlushInv ==
    ASSUME PgInv, NEW t \in Callers, Flush(t)
    PROVE  PgInv'
<1>1. Frame /\ PgTyped /\ AtFits(t) /\ at[t].step = "flush" /\ at[t] \in CallerRecs
  BY DEF PgInv, Frame, PgTyped, Flush
<1>2. CASE ~(lib[at[t].conn].open /\ lib[at[t].conn].sound)
  BY <1>1, <1>2, OverInv DEF Flush, Returns
<1>3. CASE lib[at[t].conn].open /\ lib[at[t].conn].sound
  <2>1. PICK r : r = [at[t] EXCEPT !.step = "record"]
    OBVIOUS
  <2>2. r \in CallerRecs /\ r.step = "record" /\ r.conn = at[t].conn /\ r.command = at[t].command
    BY <1>1, <2>1 DEF CallerRecs, Steps
  <2>3. at' = [at EXCEPT ![t] = r] /\ at'[t] = r
    BY <1>1, <1>3, <2>1 DEF Flush, PgTyped
  <2>4. AtFits(t)'
    BY <1>1, <2>2, <2>3 DEF AtFits, Sending, Flush
  <2>5. queryLock' = queryLock /\ queryLock # t
    BY <1>1, PgAssumption DEF Flush, PgTyped
  <2>6. Follows(t) /\ \A d \in PgConns : Commanded(d)
    BY <1>1, <2>2, <2>3, <2>4, <2>5, MoveFollows DEF PgTyped, Sending, Flush
  <2> QED
    BY <1>1, <2>2, <2>3, <2>6, QuietKeeps DEF Flush
<1> QED
  BY <1>2, <1>3

(* libpq refuses a command.                                                *)
LEMMA RefusedInv ==
    ASSUME PgInv, NEW t \in Callers, Send(t), at' = [at EXCEPT ![t] = Outside],
           UNCHANGED <<lib, next_command>>
    PROVE  PgInv'
BY OverInv DEF Send

(* The query a thread polls or fetches is in the table, or was, and its    *)
(* command was sent on its connection.                                     *)
LEMMA QueryOf ==
    ASSUME Frame, NEW u \in Callers,
           at[u].step \in {"busy", "get", "complete", "fail", "drain", "fetch"}
    PROVE  /\ at[u].query \in Commands /\ at[u].query \in 1 .. next_query - 1
           /\ at[u].query < next_query
           /\ queries[at[u].query].conn \in PgConns
           /\ at[u].step # "fetch" => at[u].conn = queries[at[u].query].conn
           /\ queries[at[u].query].command \in lib[queries[at[u].query].conn].commands
<1>1. AtFits(u) /\ next_query \in Int /\ next_query <= MaxCommands + 1
  BY PgAssumption DEF Frame, PgTyped
<1>2. at[u].query \in 1 .. next_query - 1
  BY <1>1 DEF AtFits
<1>3. PICK q \in Commands : q = at[u].query /\ q < next_query
  BY <1>1, <1>2, PgAssumption DEF Commands
<1>4. QueryFits(q)
  BY DEF Frame
<1> QED
  BY <1>1, <1>2, <1>3, <1>4 DEF AtFits, QueryFits

(* Commands that were sent are below the counter, those of queries and of  *)
(* callers among them, and no two connections share one.                   *)
LEMMA CommandsSent ==
    ASSUME Frame
    PROVE  /\ \A c \in PgConns : \A k \in lib[c].commands : k \in Commands /\ k # 0 /\ k < next_command
           /\ \A q \in Commands : queries[q].command < next_command /\ queries[q].command # next_command
           /\ \A q \in Commands : queries[q].command # 0 =>
                /\ q < next_query /\ queries[q].conn \in PgConns
                /\ queries[q].command \in lib[queries[q].conn].commands
           /\ \A t \in Callers : at[t].command < next_command /\ at[t].command # next_command
           /\ \A r \in results : r[1] # next_command
           /\ \A c \in PgConns, d \in PgConns : lib[c].commands \cap lib[d].commands # {} => c = d
<1>1. /\ PgTyped /\ (\A c \in PgConns : LibFits(c)) /\ (\A q \in Commands : QueryFits(q))
      /\ (\A u \in Callers : AtFits(u)) /\ DistinctCommands /\ Recorded /\ next_command \in Nat \ {0}
  BY PgAssumption DEF Frame, PgTyped
<1>2. ASSUME NEW c \in PgConns, NEW k \in lib[c].commands
      PROVE  k \in Commands /\ k # 0 /\ k < next_command /\ k # next_command
  <2>1. k \in Commands
    BY <1>1 DEF PgTyped, LibRecs
  <2>2. LibFits(c)
    BY <1>1
  <2> QED
    BY <1>1, <2>1, <2>2 DEF LibFits, Commands
<1>3. ASSUME NEW q \in Commands
      PROVE  /\ queries[q].command < next_command /\ queries[q].command # next_command
             /\ queries[q].command # 0 =>
                /\ q < next_query /\ queries[q].conn \in PgConns
                /\ queries[q].command \in lib[queries[q].conn].commands
  <2>1. QueryFits(q)
    BY <1>1
  <2>2. CASE q < next_query
    BY <1>2, <2>1, <2>2 DEF QueryFits
  <2>3. CASE ~(q < next_query)
    BY <1>1, <2>1, <2>3 DEF QueryFits, Absent
  <2> QED
    BY <2>2, <2>3
<1>4. ASSUME NEW t \in Callers
      PROVE  at[t].command < next_command /\ at[t].command # next_command
  <2>1. AtFits(t)
    BY <1>1
  <2>2. CASE Sending(t)
    BY <1>2, <2>1, <2>2 DEF AtFits, Sending
  <2>3. CASE ~Sending(t)
    BY <1>1, <2>1, <2>3 DEF AtFits
  <2> QED
    BY <2>2, <2>3
<1>5. \A r \in results : r[1] # next_command
  BY <1>1, <1>2 DEF Recorded
<1>6. \A c \in PgConns, d \in PgConns : lib[c].commands \cap lib[d].commands # {} => c = d
  BY <1>1 DEF LibFits
<1> QED
  BY <1>2, <1>3, <1>4, <1>5, <1>6

\* A command is sent on c, which becomes l; the caller becomes r.
SendStep(t, c, l, r) ==
    /\ at[t].step = "send" /\ at[t].conn = c
    /\ lib' = [lib EXCEPT ![c] = l] /\ at' = [at EXCEPT ![t] = r]
    /\ next_command <= MaxCommands /\ next_command' = next_command + 1
    /\ l.command = next_command /\ l.answer \in Answers /\ l.sent = 0 /\ l.read = 0
    /\ l.commands = lib[c].commands \cup {next_command}
    /\ r.step = "flush" /\ r.command = next_command /\ r.conn = c
    /\ UNCHANGED <<connections, queries, next_query, queryLock, results, stored, overlapped>>

(* Sending a command keeps what holds whatever threads do at the same      *)
(* time.                                                                   *)
LEMMA SentFrame ==
    ASSUME Frame, NEW t \in Callers, NEW c \in PgConns, NEW l \in LibRecs, NEW r \in CallerRecs,
           SendStep(t, c, l, r)
    PROVE  Frame'
<1>1. /\ PgTyped /\ (\A d \in PgConns : LibFits(d)) /\ (\A q \in Commands : QueryFits(q))
      /\ (\A u \in Callers : AtFits(u)) /\ DistinctCommands /\ Recorded /\ next_command \in Nat
      /\ Tracked /\ next_command \in Commands
  <2>1. /\ PgTyped /\ (\A d \in PgConns : LibFits(d)) /\ (\A q \in Commands : QueryFits(q))
        /\ (\A u \in Callers : AtFits(u)) /\ DistinctCommands /\ Recorded /\ Tracked
    BY DEF Frame
  <2>2. next_command \in Nat /\ next_command \in Commands
    BY <2>1, PgAssumption DEF PgTyped, Commands, SendStep
  <2> QED
    BY <2>1, <2>2
<1>0. /\ at[t].step = "send" /\ at[t].conn = c
      /\ lib' = [lib EXCEPT ![c] = l] /\ at' = [at EXCEPT ![t] = r]
      /\ next_command <= MaxCommands /\ next_command' = next_command + 1
      /\ l.command = next_command /\ l.answer \in Answers /\ l.sent = 0 /\ l.read = 0
      /\ l.commands = lib[c].commands \cup {next_command}
      /\ r.step = "flush" /\ r.command = next_command /\ r.conn = c
      /\ UNCHANGED <<connections, queries, next_query, queryLock, results, stored, overlapped>>
  BY DEF SendStep
<1>2. /\ lib' \in [PgConns -> LibRecs] /\ lib'[c] = l
      /\ at' \in [Callers -> CallerRecs] /\ at'[t] = r
  BY <1>0, <1>1 DEF PgTyped
<1>3. \A d \in PgConns \ {c} : lib'[d] = lib[d]
  BY <1>0, <1>1 DEF PgTyped
<1>4. \A u \in Callers \ {t} : at'[u] = at[u]
  BY <1>0, <1>1 DEF PgTyped
<1>5. queryLock # t
  BY <1>0, <1>1, PgAssumption DEF PgTyped
<1>6. PgTyped'
  <2>1. next_command' \in 1 .. MaxCommands + 1 /\ next_query' \in 1 .. next_command'
    BY <1>0, <1>1, PgAssumption DEF PgTyped
  <2>2. queryLock' # NoCaller => at'[queryLock'].step \in {"busy", "get"}
    BY <1>0, <1>1, <1>4, <1>5 DEF PgTyped
  <2> QED
    BY <1>0, <1>1, <1>2, <2>1, <2>2 DEF PgTyped
<1>7. \A d \in PgConns : lib[d].commands \subseteq lib'[d].commands
  BY <1>0, <1>2, <1>3
<1>8. \A d \in PgConns : LibFits(d)'
  <2>1. \A d \in PgConns : \A k \in lib[d].commands : k < next_command' /\ k # next_command
    BY <1>0, <1>1, CommandsSent DEF Commands
  <2>2. Len(l.answer) \in Nat /\ Len(l.answer) <= 2 /\ l.answer # <<>>
    BY <1>0, PgAssumption
  <2>3. \A d \in PgConns : \A k \in lib'[d].commands : k < next_command'
    BY <1>0, <1>1, <1>2, <1>3, <2>1
  <2>4. \A d, e \in PgConns : \A k \in lib'[d].commands : k \in lib'[e].commands => e = d
    <3> SUFFICES ASSUME NEW d \in PgConns, NEW e \in PgConns, NEW k \in lib'[d].commands,
                        k \in lib'[e].commands
                 PROVE  e = d
      OBVIOUS
    <3>1. CASE k = next_command
      BY <1>0, <1>2, <1>3, <2>1, <3>1
    <3>2. CASE k # next_command
      <4>1. k \in lib[d].commands /\ k \in lib[e].commands
        BY <1>0, <1>2, <1>3, <3>2
      <4> QED
        BY <1>0, <4>1, CommandsSent
    <3> QED
      BY <1>0, <3>1, <3>2
  <2>5. LibFits(c)'
    BY <1>0, <1>1, <1>2, <2>2, <2>3, <2>4 DEF LibFits
  <2>6. ASSUME NEW d \in PgConns \ {c}
        PROVE  LibFits(d)'
    BY <1>0, <1>1, <1>3, <2>3, <2>4, <2>6 DEF LibFits
  <2> QED
    BY <1>0, <2>5, <2>6
<1>9. \A q \in Commands : QueryFits(q)'
  BY <1>0, <1>1, <1>7 DEF QueryFits, Absent
<1>10. \A u \in Callers : AtFits(u)'
  <2>1. AtFits(t)'
    BY <1>0, <1>2, <1>5 DEF AtFits, Sending
  <2>2. ASSUME NEW u \in Callers \ {t}
        PROVE  AtFits(u)'
    <3>1. AtFits(u) /\ at'[u] = at[u]
      BY <1>0, <1>1, <1>4
    <3>2. at[u].step = "complete" => at[u].conn \in PgConns
      BY <1>0, QueryOf
    <3>3. Sending(u) => at[u].conn \in PgConns
      BY <1>0, <3>1 DEF AtFits, Sending
    <3> QED
      BY <1>0, <1>7, <3>1, <3>2, <3>3 DEF AtFits, Sending
  <2> QED
    BY <1>0, <2>1, <2>2
<1>11. DistinctCommands'
  <2>1. \A p, q \in 1 .. next_query - 1 : queries[p].command = queries[q].command => p = q
    BY <1>0, <1>1 DEF DistinctCommands
  <2>2. \A q \in Commands : queries[q].command # next_command
    BY <1>0, CommandsSent
  <2>3. \A u \in Callers : at[u].command # next_command
    BY <1>0, CommandsSent
  <2>4. ASSUME NEW u \in Callers, Sending(u)'
        PROVE  /\ \A q \in Commands : queries[q].command # at'[u].command
               /\ \A w \in Callers : Sending(w)' /\ at'[w].command = at'[u].command => w = u
    <3>1. CASE u = t
      BY <1>0, <1>2, <1>4, <2>2, <2>3, <3>1
    <3>2. CASE u # t
      <4>1. Sending(u) /\ at'[u] = at[u]
        BY <1>0, <1>4, <2>4, <3>2 DEF Sending
      <4>2. \A w \in Callers \ {t} : Sending(w)' => Sending(w) /\ at'[w] = at[w]
        BY <1>0, <1>4 DEF Sending
      <4> QED
        BY <1>0, <1>1, <1>2, <2>3, <4>1, <4>2 DEF DistinctCommands
    <3> QED
      BY <1>0, <3>1, <3>2
  <2> QED
    BY <1>0, <2>1, <2>4 DEF DistinctCommands
<1>12. Tracked'
  <2> SUFFICES ASSUME NEW d \in PgConns, lib'[d].open, lib'[d].sound, lib'[d].command # 0
               PROVE  \/ \E u \in Callers : at'[u].conn = d /\ at'[u].command = lib'[d].command
                      \/ \E q \in Commands : queries'[q].command = lib'[d].command
    BY <1>0 DEF Tracked
  <2>1. CASE d = c
    BY <1>0, <1>2, <2>1
  <2>2. CASE d # c
    <3>1. lib'[d] = lib[d]
      BY <1>0, <1>3, <2>2
    <3>2. \A u \in Callers : at[u].command = lib[d].command => u # t
      BY <1>0, <1>1, <3>1 DEF AtFits, Sending
    <3> QED
      BY <1>0, <1>1, <1>4, <3>1, <3>2 DEF Tracked
  <2> QED
    BY <1>0, <2>1, <2>2
<1>13. Recorded'
  BY <1>0, <1>1, <1>7 DEF Recorded
<1> QED
  BY <1>0, <1>6, <1>8, <1>9, <1>10, <1>11, <1>12, <1>13 DEF Frame

(* A step of t at connection c keeps the invariant if it does at c: the    *)
(* other connections do not change.                                        *)
LEMMA OtherConns ==
    ASSUME PgInv, Frame', NEW t, NEW c \in PgConns,
           overlapped \subseteq overlapped',
           \A d \in PgConns \ {c} : Commanded(d),
           \A u \in Callers \ {t} : at'[u] = at[u],
           t \in Callers => /\ at[t].step \in {"get", "complete", "fail", "drain", "flush", "record"}
                                 => at[t].conn = c
                            /\ at'[t].step \in {"complete", "fail", "drain", "flush", "record"}
                                 => at'[t].conn = c,
           \A q \in Commands : \/ /\ queries'[q] = queries[q]
                                  /\ \A r : <<q, r>> \in stored' => <<q, r>> \in stored
                               \/ queries[q].conn \in {c, NoCaller} /\ queries'[q].conn = c,
           \A r \in Results : \/ r \in results' <=> r \in results
                              \/ r[1] \in lib[c].commands,
           c \in overlapped' \/ (Single(c) /\ (Doomed(c) \/ Orderly(c)))'
    PROVE  PgInv'
<1>1. Frame
  BY DEF PgInv
<1>2. ASSUME NEW d \in PgConns \ {c}, d \notin overlapped'
      PROVE  Single(d)' /\ (Doomed(d) \/ Orderly(d))'
  <2>1. ASSUME NEW u \in Callers
        PROVE  /\ (u \in Polling(d)) <=> (u \in Polling(d)')
               /\ u \in Polling(d) => at'[u].step = at[u].step /\ at'[u].query = at[u].query
                                      /\ at'[u].result = at[u].result
               /\ (Sending(u) /\ at[u].conn = d)' =>
                    Sending(u) /\ at[u].conn = d /\ at'[u].command = at[u].command
               /\ at[u].step = "get" /\ at[u].conn = d => at'[u].step = "get" /\ at'[u].conn = d
    <3>1. CASE u = t
      BY <2>1, <3>1 DEF Polling, Sending
    <3>2. CASE u # t
      BY <2>1, <3>2 DEF Polling, Sending
    <3> QED
      BY <3>1, <3>2
  <2>2. \A r \in Results : r[1] \in lib[d].commands => (r \in results' <=> r \in results)
    BY <1>1, CommandsSent
  <2>3. \A q \in Commands : queries[q].conn = d \/ queries'[q].conn = d =>
          queries'[q] = queries[q] /\ \A r : <<q, r>> \in stored' => <<q, r>> \in stored
    BY <1>2, PgAssumption
  <2>4. Untouched(d)
    BY <1>2, <2>1, <2>2, <2>3 DEF Untouched
  <2> QED
    BY <1>2, <2>4, ElsewhereKeeps
<1> QED
  BY <1>2 DEF PgInv

(* PQsendQuery: libpq accepts a command only when the one before is over,  *)
(* so no answer of it is left to read.                                     *)
LEMMA SendInv ==
    ASSUME PgInv, NEW t \in Callers, Send(t)
    PROVE  PgInv'
<1>1. Frame /\ PgTyped /\ AtFits(t) /\ at[t] \in CallerRecs /\ at[t].step = "send"
      /\ at[t].conn \in PgConns
  BY DEF PgInv, Frame, PgTyped, Send, AtFits
<1>2. PICK c \in PgConns : c = at[t].conn
  BY <1>1
<1>3. lib[c] \in LibRecs /\ LibFits(c)
  BY <1>1 DEF PgTyped, Frame
<1>4. CASE at' = [at EXCEPT ![t] = Outside] /\ UNCHANGED <<lib, next_command>>
  BY <1>4, RefusedInv
<1>5. ASSUME CanSend(c), next_command <= MaxCommands, NEW a \in Answers,
             lib' = [lib EXCEPT ![c] = [@ EXCEPT !.command = next_command, !.answer = a,
                                                 !.sent = 0, !.read = 0,
                                                 !.commands = lib[c].commands \cup {next_command}]],
             next_command' = next_command + 1,
             at' = [at EXCEPT ![t].step = "flush", ![t].command = next_command],
             UNCHANGED <<connections, queries, next_query, queryLock, results, stored, overlapped>>
      PROVE  PgInv'
  <2>1. PICK l : l = [lib[c] EXCEPT !.command = next_command, !.answer = a, !.sent = 0, !.read = 0,
                                    !.commands = lib[c].commands \cup {next_command}]
    OBVIOUS
  <2>2. PICK r : r = [at[t] EXCEPT !.step = "flush", !.command = next_command]
    OBVIOUS
  <2>3. next_command \in Commands /\ a \in Seq({"ok", "error"})
    BY <1>1, <1>5, PgAssumption DEF PgTyped, Commands
  <2>4. /\ l \in LibRecs /\ l.command = next_command /\ l.answer = a /\ l.sent = 0 /\ l.read = 0
        /\ l.commands = lib[c].commands \cup {next_command}
    <3>1. lib[c].commands \cup {next_command} \in SUBSET Commands
      BY <1>3, <2>3 DEF LibRecs
    <3>2. l = [open |-> lib[c].open, sound |-> lib[c].sound, command |-> next_command, answer |-> a,
               sent |-> 0, read |-> 0, commands |-> lib[c].commands \cup {next_command}]
      BY <1>3, <2>1 DEF LibRecs
    <3>3. lib[c].open \in BOOLEAN /\ lib[c].sound \in BOOLEAN
      BY <1>3 DEF LibRecs
    <3> QED
      BY <2>3, <3>1, <3>2, <3>3 DEF LibRecs
  <2>5. r \in CallerRecs /\ r.step = "flush" /\ r.command = next_command /\ r.conn = c
    <3>1. PICK b : b = [at[t] EXCEPT !.step = "flush"]
      OBVIOUS
    <3>2. b \in CallerRecs /\ b.step = "flush" /\ b.conn = c
      BY <1>1, <1>2, <3>1 DEF CallerRecs, Steps
    <3>3. r = [b EXCEPT !.command = next_command]
      BY <1>1, <2>2, <3>1 DEF CallerRecs
    <3> QED
      BY <2>3, <3>2, <3>3 DEF CallerRecs
  <2>6. lib' = [lib EXCEPT ![c] = l] /\ at' = [at EXCEPT ![t] = r]
    <3>1. lib' = [lib EXCEPT ![c] = l]
      BY <1>5, <2>1
    <3>2. at' = [at EXCEPT ![t] = r]
      BY <1>1, <1>5, <2>2 DEF PgTyped
    <3> QED
      BY <3>1, <3>2
  <2>7. Frame'
    <3>1. SendStep(t, c, l, r)
      BY <1>1, <1>2, <1>5, <2>4, <2>5, <2>6 DEF SendStep
    <3> QED
      BY <1>1, <2>4, <2>5, <3>1, SentFrame
  <2>8. lib'[c] = l /\ at'[t] = r /\ (\A d \in PgConns \ {c} : lib'[d] = lib[d])
        /\ (\A u \in Callers \ {t} : at'[u] = at[u])
    BY <1>1, <2>6 DEF PgTyped
  <2>9. \A d \in PgConns \ {c} : Commanded(d)
    BY <2>8 DEF Commanded
  <2>10. ASSUME c \notin overlapped
         PROVE  (Single(c) /\ (Doomed(c) \/ Orderly(c)))'
    <3>1. Single(c) /\ (Doomed(c) \/ Orderly(c))
      BY <2>10 DEF PgInv
    <3>2. Polling(c)' = Polling(c) /\ \A u \in Polling(c) : at'[u] = at[u]
      BY <1>1, <2>5, <2>8 DEF Polling
    <3>3. Single(c)'
      <4>1. \A u \in Polling(c) : PollHolds(u)'
        BY <1>5, <3>1, <3>2 DEF Single, PollHolds
      <4>2. \A q \in Commands : queries[q].conn = c => EntryHolds(q)'
        BY <1>5, <3>1 DEF Single, EntryHolds
      <4>3. ASSUME NEW r1 \in results, r1[1] \in lib'[c].commands
            PROVE  ResultHolds(c, r1)'
        <5>1. r1[1] \in lib[c].commands
          BY <1>1, <2>4, <2>8, <4>3, CommandsSent
        <5>2. ResultHolds(c, r1)
          BY <3>1 DEF Single
        <5> QED
          BY <1>5, <3>2, <5>1, <5>2 DEF ResultHolds
      <4>4. \A r1 \in results : ResultHolds(c, r1)'
        BY <4>3 DEF ResultHolds
      <4> QED
        BY <1>5, <3>1, <3>2, <4>1, <4>2, <4>4 DEF Single
    <3>4. CASE Doomed(c)
      <4>1. PICK v \in Callers, u \in Polling(c) :
               at[v].step = "get" /\ at[v].conn = c /\ at[u].step \in {"complete", "fail"}
        BY <3>4 DEF Doomed
      <4>2. at'[v] = at[v]
        BY <1>1, <2>8, <4>1
      <4> QED
        BY <3>2, <3>3, <4>1, <4>2 DEF Doomed
    <3>5. CASE Orderly(c)
      <4>1. lib[c].command = 0
        BY <1>5 DEF CanSend
      <4>2. \A q \in Commands : queries[q].conn = c => queries[q].command # 0
        <5> SUFFICES ASSUME NEW q \in Commands, queries[q].conn = c
                     PROVE  queries[q].command # 0
          OBVIOUS
        <5>1. QueryFits(q)
          BY <1>1 DEF Frame
        <5>2. queries[q].command \in lib[c].commands
          BY <5>1, PgAssumption DEF QueryFits, Absent
        <5> QED
          BY <1>1, <5>2, CommandsSent
      <4>3. Polling(c) = {}
        <5> SUFFICES ASSUME NEW u \in Polling(c)
                     PROVE  FALSE
          OBVIOUS
        <5>1. u \in Callers /\ at[u].step \in {"complete", "fail", "drain"} /\ at[u].conn = c
          BY DEF Polling
        <5>2. at[u].query \in Commands /\ queries[at[u].query].conn = c
          BY <1>1, <5>1, QueryOf
        <5> QED
          BY <3>5, <4>1, <4>2, <5>2 DEF Orderly
      <4>4. \A q \in Commands : ~(queries[q].conn = c /\ queries[q].state = "pending")
        BY <3>5, <4>1, <4>2 DEF Orderly
      <4>5. \A u \in Callers : ~(Sending(u) /\ at[u].conn = c)
        <5> SUFFICES ASSUME NEW u \in Callers, Sending(u), at[u].conn = c
                     PROVE  FALSE
          OBVIOUS
        <5>1. AtFits(u)
          BY <1>1 DEF Frame
        <5>2. at[u].command # 0
          BY <1>1, <5>1, CommandsSent DEF AtFits
        <5> QED
          BY <3>5, <4>1, <5>2 DEF Orderly
      <4>6. \A u \in Callers : (Sending(u) /\ at[u].conn = c)' => u = t
        BY <2>8, <4>5 DEF Sending
      <4>7. \A q \in Commands : queries[q].command # next_command
        BY <1>1, CommandsSent
      <4>8. Polling(c)' = {}
        BY <3>2, <4>3
      <4>9. queries' = queries
        BY <1>5
      <4> QED
        BY <2>4, <2>5, <2>8, <3>3, <4>4, <4>6, <4>7, <4>8, <4>9 DEF Orderly
    <3> QED
      BY <3>1, <3>4, <3>5
  <2>11. PgInv'
    BY <1>1, <1>2, <1>5, <2>5, <2>7, <2>8, <2>9, <2>10, OtherConns
  <2> QED
    BY <2>11
<1> QED
  BY <1>2, <1>4, <1>5 DEF Send, Returns

(* There is room in the table for the query of every command that was      *)
(* sent: queries have different commands (by the pigeonhole principle).    *)
LEMMA RoomForQuery ==
    ASSUME Frame, NEW t \in Callers, Sending(t)
    PROVE  next_query < next_command /\ next_query \in Commands
<1>1. /\ PgTyped /\ DistinctCommands /\ next_query \in Nat /\ next_command \in Nat /\ MaxCommands \in Nat
      /\ 1 <= next_query /\ next_query <= next_command /\ next_command <= MaxCommands + 1
      /\ AtFits(t) /\ at[t].conn \in PgConns
  BY PgAssumption DEF Frame, PgTyped, AtFits, Sending
<1>2. \A i \in 1 .. next_query - 1 : i \in Commands
  BY <1>1 DEF Commands
<1>3. \A i \in 1 .. next_query - 1 : queries[i].command \in 1 .. next_command - 1
  <2> SUFFICES ASSUME NEW i \in 1 .. next_query - 1
               PROVE  queries[i].command \in 1 .. next_command - 1
    OBVIOUS
  <2>1. i \in Commands /\ i < next_query /\ QueryFits(i)
    BY <1>1, <1>2 DEF Frame
  <2>2. queries[i].conn \in PgConns /\ queries[i].command \in lib[queries[i].conn].commands
    BY <2>1 DEF QueryFits
  <2> QED
    BY <1>1, <2>2, CommandsSent DEF Commands
<1>4. at[t].command \in 1 .. next_command - 1
  <2>1. at[t].command \in lib[at[t].conn].commands
    BY <1>1 DEF AtFits
  <2> QED
    BY <1>1, <2>1, CommandsSent DEF Commands
<1>5. ASSUME next_command - 1 < next_query
      PROVE  FALSE
  <2> DEFINE f == [i \in 1 .. next_query |->
                     IF i = next_query THEN at[t].command ELSE queries[i].command]
  <2>1. \A i \in 1 .. next_query : i = next_query \/ i \in 1 .. next_query - 1
    BY <1>1
  <2>2. f \in [1 .. next_query -> 1 .. next_command - 1]
    BY <1>3, <1>4, <2>1
  <2>3. /\ IsFiniteSet(1 .. next_query) /\ IsFiniteSet(1 .. next_command - 1)
        /\ Cardinality(1 .. next_query) = next_query
        /\ Cardinality(1 .. next_command - 1) = next_command - 1
    <3>1. next_command - 1 \in Int /\ next_query \in Int /\ 1 \in Int
      BY <1>1
    <3>2. /\ IsFiniteSet(1 .. next_query)
          /\ Cardinality(1 .. next_query) = IF 1 > next_query THEN 0 ELSE next_query - 1 + 1
      BY <3>1, FS_Interval
    <3>3. /\ IsFiniteSet(1 .. next_command - 1)
          /\ Cardinality(1 .. next_command - 1)
               = IF 1 > next_command - 1 THEN 0 ELSE next_command - 1 - 1 + 1
      BY <3>1, FS_Interval
    <3> QED
      BY <1>1, <3>2, <3>3
  <2>4. \E x, y \in 1 .. next_query : x # y /\ f[x] = f[y]
    <3> HIDE DEF f
    <3> QED
      BY <1>5, <2>2, <2>3, FS_PigeonHole
  <2>5. PICK x, y \in 1 .. next_query : x # y /\ f[x] = f[y]
    BY <2>4
  <2>6. \A i \in 1 .. next_query - 1 : queries[i].command # at[t].command
    BY <1>1, <1>2 DEF DistinctCommands
  <2>7. \A i, j \in 1 .. next_query - 1 : queries[i].command = queries[j].command => i = j
    BY <1>1 DEF DistinctCommands
  <2> QED
    BY <2>1, <2>5, <2>6, <2>7
<1> QED
  BY <1>1, <1>5 DEF Commands

(* The entry of a command is new, and pending.                             *)
LEMMA RecordFacts ==
    ASSUME Frame, NEW t \in Callers, Record(t)
    PROVE  /\ next_query \in Commands /\ next_query < next_command /\ at'[t] = Outside
           /\ \A u \in Callers \ {t} : at'[u] = at[u]
           /\ \A q \in Commands \ {next_query} : queries'[q] = queries[q]
           /\ queries[next_query] = Absent /\ queries'[next_query] \in QueryRecs
           /\ queries'[next_query].state = "pending" /\ queries'[next_query].conn = at[t].conn
           /\ queries'[next_query].command = at[t].command
           /\ queries'[next_query].result = NoResult
           /\ at[t].conn \in PgConns /\ Sending(t) /\ AtFits(t)
<1>1. /\ PgTyped /\ Sending(t) /\ AtFits(t) /\ at[t] \in CallerRecs /\ at[t].step = "record"
      /\ at[t].conn \in PgConns
  BY DEF Frame, PgTyped, AtFits, Sending, Record
<1>2. next_query \in Commands /\ next_query < next_command /\ next_query \in Nat
  BY <1>1, RoomForQuery DEF Commands
<1>3. PICK c \in PgConns, k \in BOOLEAN, m \in Commands \cup {0} :
         c = at[t].conn /\ k = at[t].keeps /\ m = at[t].command
  BY <1>1 DEF CallerRecs
<1>4. PICK r : r = [state |-> "pending", conn |-> c, keeps |-> k, command |-> m,
                    result |-> NoResult]
  OBVIOUS
<1>5. /\ r \in QueryRecs /\ r.state = "pending" /\ r.conn = c /\ r.command = m
      /\ r.result = NoResult
  BY <1>4 DEF QueryRecs, QueryStates
<1>6. queries' = [queries EXCEPT ![next_query] = r] /\ at' = [at EXCEPT ![t] = Outside]
  BY <1>3, <1>4 DEF Record, Returns
<1>7. QueryFits(next_query)
  BY <1>2 DEF Frame
<1>8. queries[next_query] = Absent
  BY <1>2, <1>7 DEF QueryFits
<1> QED
  BY <1>1, <1>2, <1>3, <1>5, <1>6, <1>8 DEF PgTyped

(* Recording a query keeps what holds whatever threads do at the same      *)
(* time.                                                                   *)
LEMMA RecordFrame ==
    ASSUME Frame, NEW t \in Callers, Record(t)
    PROVE  Frame'
<1>1. /\ PgTyped /\ (\A d \in PgConns : LibFits(d)) /\ (\A q \in Commands : QueryFits(q))
      /\ (\A u \in Callers : AtFits(u)) /\ DistinctCommands /\ Recorded /\ Tracked
      /\ next_query \in Nat \ {0} /\ next_query' = next_query + 1
  BY PgAssumption DEF Frame, PgTyped, Record
<1>2. PICK n \in Commands : n = next_query
  BY RecordFacts
<1>3. /\ n < next_command /\ at'[t] = Outside
      /\ \A u \in Callers \ {t} : at'[u] = at[u]
      /\ \A q \in Commands \ {n} : queries'[q] = queries[q]
      /\ queries[n] = Absent /\ queries'[n] \in QueryRecs
      /\ queries'[n].state = "pending" /\ queries'[n].conn = at[t].conn
      /\ queries'[n].command = at[t].command /\ queries'[n].result = NoResult
      /\ at[t].conn \in PgConns /\ Sending(t) /\ AtFits(t)
  BY <1>2, RecordFacts
<1>4. UNCHANGED <<connections, lib, next_command, queryLock, results, stored, overlapped>>
      /\ queryLock = NoCaller
  BY DEF Record
<1>5. PgTyped'
  <2>1. queries' \in [Commands -> QueryRecs] /\ at' \in [Callers -> CallerRecs]
    <3>1. queries' \in [Commands -> QueryRecs]
      <4>1. PICK r \in QueryRecs : queries' = [queries EXCEPT ![n] = r]
        <5>1. PICK r : queries' = [queries EXCEPT ![n] = r]
          BY <1>2 DEF Record
        <5>2. queries'[n] = r
          BY <1>1, <5>1 DEF PgTyped
        <5> QED
          BY <1>3, <5>1, <5>2
      <4> QED
        BY <1>1, <4>1 DEF PgTyped
    <3>2. at' \in [Callers -> CallerRecs]
      BY <1>1, OutsideFields DEF PgTyped, Record, Returns
    <3> QED
      BY <3>1, <3>2
  <2>2. next_query' \in 1 .. next_command
    BY <1>1, <1>2, <1>3, PgAssumption DEF PgTyped
  <2> QED
    BY <1>1, <1>4, <2>1, <2>2 DEF PgTyped
<1>6. \A d \in PgConns : LibFits(d)'
  BY <1>1, <1>4 DEF LibFits
<1>7. \A q \in Commands : QueryFits(q)'
  <2>1. QueryFits(n)'
    BY <1>1, <1>2, <1>3, <1>4 DEF QueryFits, AtFits
  <2>2. ASSUME NEW q \in Commands \ {n}
        PROVE  QueryFits(q)'
    <3>1. QueryFits(q) /\ queries'[q] = queries[q] /\ (q < next_query' <=> q < next_query)
      BY <1>1, <1>2, <1>3, <2>2 DEF Commands
    <3> QED
      BY <1>4, <3>1 DEF QueryFits, Absent
  <2> QED
    BY <2>1, <2>2
<1>8. \A u \in Callers : AtFits(u)'
  <2>1. AtFits(t)'
    BY <1>3, OutsideFields DEF AtFits, Sending
  <2>2. ASSUME NEW u \in Callers \ {t}
        PROVE  AtFits(u)'
    <3>1. AtFits(u) /\ at'[u] = at[u]
      BY <1>1, <1>3
    <3>2. at[u].step \in {"busy", "get", "complete", "fail", "drain", "fetch"} =>
             /\ at[u].query \in Commands \ {n} /\ at[u].query \in 1 .. next_query' - 1
             /\ queries'[at[u].query] = queries[at[u].query]
      <4> SUFFICES ASSUME at[u].step \in {"busy", "get", "complete", "fail", "drain", "fetch"}
                   PROVE  /\ at[u].query \in Commands \ {n} /\ at[u].query \in 1 .. next_query' - 1
                          /\ queries'[at[u].query] = queries[at[u].query]
        OBVIOUS
      <4>1. at[u].query \in Commands /\ at[u].query \in 1 .. next_query - 1
        BY QueryOf
      <4> QED
        BY <1>1, <1>2, <1>3, <4>1
    <3> QED
      BY <1>4, <3>1, <3>2 DEF AtFits, Sending
  <2> QED
    BY <2>1, <2>2
<1>9. DistinctCommands'
  <2>1. \A p \in 1 .. next_query' - 1 : p = n \/ p \in 1 .. next_query - 1
    BY <1>1, <1>2
  <2>2. \A p \in 1 .. next_query - 1 : p \in Commands \ {n} /\ queries'[p] = queries[p]
                                       /\ queries[p].command # at[t].command
    <3>1. \A p \in 1 .. next_query - 1 : p \in Commands \ {n}
      BY <1>1, <1>2, PgAssumption DEF Commands
    <3>2. \A q \in Commands : queries[q].command # at[t].command
      BY <1>1, <1>3 DEF DistinctCommands
    <3> QED
      BY <1>3, <3>1, <3>2
  <2>3. \A p, q \in 1 .. next_query' - 1 : queries'[p].command = queries'[q].command => p = q
    <3>1. \A p, q \in 1 .. next_query - 1 : queries[p].command = queries[q].command => p = q
      BY <1>1 DEF DistinctCommands
    <3> QED
      BY <1>3, <2>1, <2>2, <3>1
  <2>4. ASSUME NEW u \in Callers, Sending(u)'
        PROVE  /\ \A q \in Commands : queries'[q].command # at'[u].command
               /\ \A w \in Callers : Sending(w)' /\ at'[w].command = at'[u].command => w = u
    <3>1. \A w \in Callers : Sending(w)' => w # t /\ Sending(w) /\ at'[w] = at[w]
      BY <1>3, OutsideFields DEF Sending
    <3>2. Sending(u) /\ at'[u] = at[u] /\ u # t
      BY <2>4, <3>1
    <3>3. /\ \A q \in Commands : queries[q].command # at[u].command
          /\ \A w \in Callers : Sending(w) /\ at[w].command = at[u].command => w = u
      BY <1>1, <3>2 DEF DistinctCommands
    <3>4. \A w \in Callers : Sending(w)' /\ at'[w].command = at'[u].command => w = u
      BY <3>1, <3>2, <3>3
    <3>5. at[t].command # at[u].command
      BY <1>3, <3>2, <3>3
    <3>6. ASSUME NEW q \in Commands
          PROVE  queries'[q].command # at'[u].command
      <4>1. CASE q = n
        BY <1>3, <3>2, <3>5, <4>1
      <4>2. CASE q # n
        BY <1>3, <3>2, <3>3, <4>2
      <4> QED
        BY <4>1, <4>2
    <3> QED
      BY <3>4, <3>6
  <2> QED
    BY <2>3, <2>4 DEF DistinctCommands
<1>10. Tracked'
  <2> SUFFICES ASSUME NEW d \in PgConns, lib'[d].open, lib'[d].sound, lib'[d].command # 0
               PROVE  \/ \E u \in Callers : at'[u].conn = d /\ at'[u].command = lib'[d].command
                      \/ \E q \in Commands : queries'[q].command = lib'[d].command
    BY DEF Tracked
  <2>1. \/ \E u \in Callers : at[u].conn = d /\ at[u].command = lib[d].command
        \/ \E q \in Commands : queries[q].command = lib[d].command
    BY <1>1, <1>4 DEF Tracked
  <2>2. CASE \E q \in Commands : queries[q].command = lib[d].command
    <3>1. PICK q \in Commands : queries[q].command = lib[d].command
      BY <2>2
    <3>2. q # n
      BY <1>3, <1>4, <3>1 DEF Absent
    <3> QED
      BY <1>3, <1>4, <3>1, <3>2
  <2>3. ASSUME NEW u \in Callers, at[u].conn = d, at[u].command = lib[d].command
        PROVE  \/ \E w \in Callers : at'[w].conn = d /\ at'[w].command = lib'[d].command
               \/ \E q \in Commands : queries'[q].command = lib'[d].command
    <3>1. CASE u = t
      BY <1>3, <1>4, <2>3, <3>1
    <3>2. CASE u # t
      BY <1>3, <1>4, <2>3, <3>2
    <3> QED
      BY <3>1, <3>2
  <2> QED
    BY <2>1, <2>2, <2>3
<1>11. Recorded'
  <2>1. \A s \in stored : s[1] < next_query /\ s[1] \in Commands
    BY <1>1 DEF Recorded, PgTyped
  <2> QED
    BY <1>1, <1>4, <2>1 DEF Recorded, Commands
<1> QED
  BY <1>5, <1>6, <1>7, <1>8, <1>9, <1>10, <1>11 DEF Frame

(* The query of a command that was sent is recorded: until then nobody has *)
(* read of its answer.                                                     *)
LEMMA RecordInv ==
    ASSUME PgInv, NEW t \in Callers, Record(t)
    PROVE  PgInv'
<1>1. /\ Frame /\ PgTyped /\ Recorded /\ Frame' /\ (\A q \in Commands : QueryFits(q))
  BY RecordFrame DEF PgInv, Frame
<1>2. PICK n \in Commands : n = next_query
  BY <1>1, RecordFacts
<1>3. PICK c \in PgConns : c = at[t].conn
  BY <1>1, RecordFacts
<1>4. /\ at'[t] = Outside /\ \A u \in Callers \ {t} : at'[u] = at[u]
      /\ \A q \in Commands \ {n} : queries'[q] = queries[q]
      /\ queries[n] = Absent
      /\ queries'[n].state = "pending" /\ queries'[n].conn = c
      /\ queries'[n].command = at[t].command /\ Sending(t)
      /\ at[t].step = "record"
  BY <1>1, <1>2, <1>3, RecordFacts DEF Record
<1>5. UNCHANGED <<connections, lib, next_command, queryLock, results, stored, overlapped>>
  BY DEF Record
<1>6. \A d \in PgConns : Commanded(d)
  BY <1>5 DEF Commanded
<1>7. ASSUME c \notin overlapped
      PROVE  (Single(c) /\ (Doomed(c) \/ Orderly(c)))'
  <2>1. Single(c) /\ (Doomed(c) \/ Orderly(c))
    BY <1>7 DEF PgInv
  <2>2. Polling(c)' = Polling(c) /\ (\A u \in Polling(c) : at'[u] = at[u] /\ u \in Callers)
    BY <1>4, OutsideFields DEF Polling
  <2>3. \A u \in Polling(c) : at[u].query \in Commands \ {n}
    <3> SUFFICES ASSUME NEW u \in Polling(c)
                 PROVE  at[u].query \in Commands \ {n}
      OBVIOUS
    <3>1. u \in Callers /\ at[u].step \in {"complete", "fail", "drain"}
      BY DEF Polling
    <3>2. at[u].query \in Commands /\ at[u].query < next_query
      BY <1>1, <3>1, QueryOf
    <3> QED
      BY <1>2, <3>2 DEF Commands
  <2>4. Single(c)'
    <3>1. \A u, v \in Polling(c)' : u = v
      BY <2>1, <2>2 DEF Single
    <3>2. ASSUME NEW u \in Polling(c)
          PROVE  PollHolds(u)'
      <4>1. PollHolds(u) /\ at'[u] = at[u] /\ queries'[at[u].query] = queries[at[u].query]
        BY <1>4, <2>1, <2>2, <2>3, <3>2 DEF Single
      <4> QED
        BY <1>5, <4>1 DEF PollHolds
    <3>3. ASSUME NEW q \in Commands, queries'[q].conn = c
          PROVE  EntryHolds(q)'
      <4>1. CASE q = n
        <5>1. \A r : <<n, r>> \notin stored
          BY <1>1, <1>2 DEF Recorded, Commands
        <5> QED
          BY <1>4, <1>5, <4>1, <5>1 DEF EntryHolds
      <4>2. CASE q # n
        <5>1. queries'[q] = queries[q] /\ EntryHolds(q)
          BY <1>4, <2>1, <3>3, <4>2 DEF Single
        <5> QED
          BY <1>5, <5>1 DEF EntryHolds
      <4> QED
        BY <4>1, <4>2
    <3>4. ASSUME NEW r \in results, r[1] \in lib[c].commands
          PROVE  ResultHolds(c, r)'
      <4>1. ResultHolds(c, r)
        BY <2>1 DEF Single
      <4>2. PICK q \in Commands :
               /\ queries[q].command = r[1]
               /\ \/ queries[q].state \in {"done", "cancelled"}
                  \/ \E u \in Polling(c) : at[u].step = "complete" /\ at[u].query = q
        BY <3>4, <4>1 DEF ResultHolds
      <4>3. q # n
        BY <1>4, <2>3, <4>2 DEF Absent
      <4>4. queries'[q] = queries[q]
        BY <1>4, <4>3
      <4> QED
        BY <1>5, <2>2, <3>4, <4>1, <4>2, <4>4 DEF ResultHolds
    <3>5. \A r \in results' : ResultHolds(c, r)'
      BY <1>5, <3>4 DEF ResultHolds
    <3> QED
      BY <2>2, <3>1, <3>2, <3>3, <3>5 DEF Single
  <2>5. CASE Doomed(c)
    <3>1. PICK v \in Callers, u \in Polling(c) :
             at[v].step = "get" /\ at[v].conn = c /\ at[u].step \in {"complete", "fail"}
      BY <2>5 DEF Doomed
    <3>2. at'[v] = at[v]
      BY <1>4, <3>1
    <3> QED
      BY <2>2, <2>4, <3>1, <3>2 DEF Doomed
  <2>6. CASE Orderly(c)
    <3>1. \A u \in Callers : Sending(u)' => u # t /\ Sending(u) /\ at'[u] = at[u]
      BY <1>4, OutsideFields DEF Sending
    <3>2. \A q \in Commands : Reads(c, q) => Reads(c, q)'
      BY <2>2 DEF Reads
    <3>3. \A u \in Polling(c)' : at'[u].query \in Commands \ {n} /\ u \in Polling(c)
                                /\ at'[u].query = at[u].query
      BY <2>2, <2>3
    <3>4. lib[c].command = at[t].command /\ lib[c].read = 0
      BY <1>3, <1>4, <2>6 DEF Orderly
    <3>5. \A u \in Polling(c)' : lib'[c].command = queries'[at'[u].query].command
      BY <1>4, <1>5, <2>6, <3>3 DEF Orderly
    <3>6. \A q \in Commands : queries'[q].conn = c /\ queries'[q].state = "pending" =>
             /\ lib'[c].command = queries'[q].command
             /\ lib'[c].read = 0 \/ Reads(c, q)'
      <4> SUFFICES ASSUME NEW q \in Commands, queries'[q].conn = c, queries'[q].state = "pending"
                   PROVE  /\ lib'[c].command = queries'[q].command
                          /\ lib'[c].read = 0 \/ Reads(c, q)'
        OBVIOUS
      <4>1. CASE q = n
        BY <1>4, <1>5, <3>4, <4>1
      <4>2. CASE q # n
        <5>1. queries'[q] = queries[q]
          BY <1>4, <4>2
        <5> QED
          BY <1>5, <2>6, <3>2, <5>1 DEF Orderly
      <4> QED
        BY <4>1, <4>2
    <3>7. \A u \in Callers : (Sending(u) /\ at[u].conn = c)' =>
             lib'[c].command = at'[u].command /\ lib'[c].read = 0
      BY <1>5, <2>6, <3>1 DEF Orderly
    <3>8. \A q \in Commands : queries'[q].conn = c /\ queries'[q].state \in {"done", "taken"}
             /\ queries'[q].command = lib'[c].command => Polling(c)' # {}
      BY <1>4, <1>5, <2>2, <2>6 DEF Orderly
    <3>9. Orderly(c)'
      BY <3>5, <3>6, <3>7, <3>8 DEF Orderly
    <3> QED
      BY <2>4, <3>9
  <2> QED
    BY <2>1, <2>5, <2>6
<1>8. \A q \in Commands : \/ queries'[q] = queries[q] /\ \A r : <<q, r>> \in stored' => <<q, r>> \in stored
                          \/ queries[q].conn \in {c, NoCaller} /\ queries'[q].conn = c
  BY <1>4, <1>5 DEF Absent
<1> QED
  BY <1>1, <1>3, <1>4, <1>5, <1>6, <1>7, <1>8, OtherConns, OutsideFields

(* While nobody holds the table of queries no polls are going to overlap.  *)
LEMMA LockFree ==
    ASSUME PgInv, queryLock = NoCaller
    PROVE  /\ \A u \in Callers : at[u].step \notin {"busy", "get"}
           /\ \A c \in PgConns \ overlapped : Single(c) /\ Orderly(c)
<1>1. ASSUME NEW u \in Callers
      PROVE  at[u].step \notin {"busy", "get"}
  BY PgAssumption DEF PgInv, Frame, AtFits
<1>2. \A c \in PgConns : ~Doomed(c)
  BY <1>1 DEF Doomed
<1>3. \A c \in PgConns \ overlapped : Single(c) /\ (Doomed(c) \/ Orderly(c))
  BY DEF PgInv
<1> QED
  BY <1>1, <1>2, <1>3

(* A command has one query, and the query and the command have the same    *)
(* connection.                                                             *)
LEMMA QueryOfCommand ==
    ASSUME Frame, NEW p \in Commands
    PROVE  /\ \A q \in Commands : queries[p].command = queries[q].command /\ queries[p].command # 0
                                    => p = q
           /\ \A t \in Callers : Sending(t) => queries[p].command # at[t].command
           /\ \A c \in PgConns : queries[p].conn = c => queries[p].command # 0
                                   /\ queries[p].command \in lib[c].commands
           /\ \A c \in PgConns : queries[p].command \in lib[c].commands => queries[p].conn = c
<1>1. /\ PgTyped /\ (\A q \in Commands : QueryFits(q)) /\ DistinctCommands
      /\ next_query \in Nat
  BY PgAssumption DEF Frame, PgTyped
<1>2. ASSUME NEW q \in Commands, queries[p].command = queries[q].command, queries[p].command # 0
      PROVE  p = q
  <2>1. p < next_query /\ q < next_query
    BY <1>2, CommandsSent
  <2>2. p \in 1 .. next_query - 1 /\ q \in 1 .. next_query - 1
    BY <1>1, <2>1 DEF Commands
  <2> QED
    BY <1>1, <1>2, <2>2 DEF DistinctCommands
<1>3. \A t \in Callers : Sending(t) => queries[p].command # at[t].command
  BY <1>1 DEF DistinctCommands
<1>4. ASSUME NEW c \in PgConns, queries[p].conn = c
      PROVE  queries[p].command # 0 /\ queries[p].command \in lib[c].commands
  <2>1. QueryFits(p)
    BY <1>1
  <2>2. queries[p].command \in lib[c].commands
    BY <1>4, <2>1, PgAssumption DEF QueryFits, Absent
  <2> QED
    BY <2>2, CommandsSent
<1>5. ASSUME NEW c \in PgConns, queries[p].command \in lib[c].commands
      PROVE  queries[p].conn = c
  <2>1. queries[p].command # 0
    BY <1>5, CommandsSent
  <2>2. queries[p].conn \in PgConns /\ queries[p].command \in lib[queries[p].conn].commands
    BY <2>1, CommandsSent
  <2> QED
    BY <1>5, <2>2, CommandsSent
<1>6. \A q \in Commands : queries[p].command = queries[q].command /\ queries[p].command # 0
                           => p = q
  BY <1>2
<1>7. \A c \in PgConns : queries[p].conn = c => queries[p].command # 0
                                               /\ queries[p].command \in lib[c].commands
  BY <1>4
<1>8. \A c \in PgConns : queries[p].command \in lib[c].commands => queries[p].conn = c
  BY <1>5
<1> QED
  BY <1>3, <1>6, <1>7, <1>8

(* What PQgetResult does to the connections, when it need not wait.        *)
LEMMA AfterFits ==
    ASSUME Frame, NEW c \in PgConns, lib[c].open => ~IsBusy(c), lib' = AfterResult(c),
           next_command' = next_command
    PROVE  /\ lib' \in [PgConns -> LibRecs] /\ \A d \in PgConns : LibFits(d)'
           /\ \A d \in PgConns : /\ lib'[d].commands = lib[d].commands
                                 /\ lib'[d].open = lib[d].open /\ lib'[d].sound = lib[d].sound
                                 /\ lib'[d].command # 0 => lib'[d].command = lib[d].command
           /\ \A d \in PgConns \ {c} : lib'[d] = lib[d]
           /\ NextResult(c) \in {"invalid", "none", "ok", "error"}
           /\ NextResult(c) = "ok" => lib[c].read + 1 \in {1, 2} /\ lib[c].command # 0
           /\ NextResult(c) \in {"ok", "error", "invalid"} => lib'[c].command = lib[c].command
           /\ NextResult(c) = "none" => lib'[c].command = 0
           /\ NextResult(c) = "none" /\ lib[c].command # 0 => lib[c].read > 0
<1>1. /\ PgTyped /\ (\A d \in PgConns : LibFits(d)) /\ lib[c] \in LibRecs
  BY DEF Frame, PgTyped
<1>2. PICK o, m, n, k, a : /\ o = lib[c].open /\ m = lib[c].read /\ n = lib[c].sent
                           /\ k = lib[c].command /\ a = lib[c].answer
  OBVIOUS
<1>3. /\ m \in 0 .. 3 /\ n \in 0 .. 4 /\ a \in Seq({"ok", "error"}) /\ Len(a) \in Nat
      /\ m <= Len(a) /\ m <= n /\ Len(a) <= 3 /\ (k # 0 => a # <<>>)
      /\ (Len(a) = 3 => a[3] = "error") /\ o \in BOOLEAN
  BY <1>1, <1>2 DEF LibRecs, LibFits
<1>4. CASE NextResult(c) = "invalid"
  <2>1. lib' = lib
    BY <1>4 DEF AfterResult
  <2> QED
    BY <1>1, <1>4, <2>1 DEF PgTyped, LibFits
<1>5. CASE NextResult(c) = "none"
  <2>1. PICK l : l = [lib[c] EXCEPT !.command = 0]
    OBVIOUS
  <2>2. /\ l \in LibRecs /\ l.command = 0 /\ l.commands = lib[c].commands
        /\ l.open = lib[c].open /\ l.sound = lib[c].sound
        /\ l.answer = lib[c].answer /\ l.read = lib[c].read /\ l.sent = lib[c].sent
    BY <1>1, <2>1 DEF LibRecs
  <2>3. lib' = [lib EXCEPT ![c] = l]
    BY <1>5, <2>1 DEF AfterResult, Ended
  <2>4. lib' \in [PgConns -> LibRecs] /\ lib'[c] = l /\ \A d \in PgConns \ {c} : lib'[d] = lib[d]
    BY <1>1, <2>2, <2>3 DEF PgTyped
  <2>5. \A d \in PgConns : lib'[d].commands = lib[d].commands
    BY <2>2, <2>4
  <2>6. LibFits(c)'
    BY <1>1, <2>2, <2>4, <2>5 DEF LibFits
  <2>7. \A d \in PgConns \ {c} : LibFits(d)'
    BY <1>1, <2>4, <2>5 DEF LibFits
  <2>8. lib[c].command # 0 => lib[c].read > 0
    <3> SUFFICES ASSUME lib[c].command # 0
                 PROVE  lib[c].read > 0
      OBVIOUS
    <3>1. ~lib[c].open \/ Answered(c) \/ lib[c].answer[lib[c].read + 1] = "none"
      BY <1>5 DEF NextResult
    <3>2. lib[c].open
      BY <1>5 DEF NextResult
    <3>3. ASSUME ~Answered(c)
          PROVE  FALSE
      <4>1. m + 1 \in 1 .. Len(a)
        BY <1>2, <1>3, <3>2, <3>3 DEF Answered, IsBusy
      <4>2. a[m + 1] \in {"ok", "error"}
        BY <1>3, <4>1
      <4> QED
        BY <1>2, <3>1, <3>2, <3>3, <4>2
    <3>4. m = Len(a) /\ Len(a) > 0
      BY <1>2, <1>3, <3>3 DEF Answered
    <3> QED
      BY <1>2, <3>4
  <2> QED
    BY <1>5, <2>2, <2>4, <2>6, <2>7, <2>8
<1>6. CASE NextResult(c) \notin {"invalid", "none"}
  <2>1. o /\ k # 0 /\ ~Answered(c) /\ NextResult(c) = a[m + 1]
    BY <1>2, <1>6 DEF NextResult
  <2>2. m + 1 \in 1 .. Len(a) /\ m < n
    BY <1>2, <1>3, <2>1 DEF Answered, IsBusy
  <2>3. a[m + 1] \in {"ok", "error"}
    BY <1>3, <2>2
  <2>4. a[m + 1] = "ok" => m + 1 \in {1, 2}
    <3>1. CASE m = 2
      <4>1. PICK p \in Nat : p = Len(a) /\ p <= 3 /\ m + 1 \in 1 .. p
        BY <1>3, <2>2
      <4>2. p = 3 /\ m + 1 = 3
        BY <3>1, <4>1
      <4>3. a[3] = "error"
        BY <1>3, <4>1, <4>2
      <4> QED
        BY <4>2, <4>3
    <3>2. CASE m # 2
      BY <1>3, <2>2, <3>2
    <3> QED
      BY <3>1, <3>2
  <2>5. PICK l : l = [lib[c] EXCEPT !.read = @ + 1]
    OBVIOUS
  <2>6. /\ l \in LibRecs /\ l.command = k /\ l.commands = lib[c].commands
        /\ l.open = lib[c].open /\ l.sound = lib[c].sound
        /\ l.answer = a /\ l.read = m + 1 /\ l.sent = n
    BY <1>1, <1>2, <1>3, <2>2, <2>5 DEF LibRecs
  <2>7. lib' = [lib EXCEPT ![c] = l]
    BY <1>6, <2>5 DEF AfterResult
  <2>8. lib' \in [PgConns -> LibRecs] /\ lib'[c] = l /\ \A d \in PgConns \ {c} : lib'[d] = lib[d]
    BY <1>1, <2>6, <2>7 DEF PgTyped
  <2>9. \A d \in PgConns : lib'[d].commands = lib[d].commands
    BY <2>6, <2>8
  <2>10. LibFits(c)'
    BY <1>1, <1>2, <1>3, <2>2, <2>6, <2>8, <2>9 DEF LibFits
  <2>11. \A d \in PgConns \ {c} : LibFits(d)'
    BY <1>1, <2>8, <2>9 DEF LibFits
  <2> QED
    BY <1>2, <1>6, <2>1, <2>3, <2>4, <2>6, <2>8, <2>9, <2>10, <2>11
<1> QED
  BY <1>4, <1>5, <1>6

(* Moving a caller to its next step changes nothing else of it.            *)
LEMMA StepChange ==
    ASSUME PgTyped, NEW t \in Callers, NEW s \in Steps, at' = [at EXCEPT ![t].step = s]
    PROVE  /\ at' \in [Callers -> CallerRecs] /\ at'[t].step = s
           /\ at'[t].conn = at[t].conn /\ at'[t].query = at[t].query /\ at'[t].keeps = at[t].keeps
           /\ at'[t].command = at[t].command /\ at'[t].result = at[t].result
           /\ \A u \in Callers \ {t} : at'[u] = at[u]
<1>1. PICK r : r = [at[t] EXCEPT !.step = s]
  OBVIOUS
<1>2. at[t] \in CallerRecs
  BY DEF PgTyped
<1>3. /\ r \in CallerRecs /\ r.step = s /\ r.conn = at[t].conn /\ r.query = at[t].query
      /\ r.keeps = at[t].keeps /\ r.command = at[t].command /\ r.result = at[t].result
  BY <1>1, <1>2 DEF CallerRecs
<1>4. at' = [at EXCEPT ![t] = r]
  BY <1>1
<1> QED
  BY <1>3, <1>4 DEF PgTyped

(* The thread that looks at a connection holds the table: nothing of a     *)
(* pending answer was read, or another thread is still reading and the     *)
(* polls are going to overlap.                                             *)
LEMMA ConsumeInv ==
    ASSUME PgInv, NEW t \in Callers, ConsumeAndCheck(t)
    PROVE  PgInv'
<1>1. Frame /\ PgTyped /\ AtFits(t) /\ at[t].step = "busy" /\ at[t].conn \in PgConns
  <2>1. Frame /\ PgTyped /\ AtFits(t) /\ at[t].step = "busy"
    BY DEF PgInv, Frame, ConsumeAndCheck
  <2> QED
    BY <2>1, QueryOf
<1>2. PICK c \in PgConns : c = at[t].conn
  BY <1>1
<1>3. CASE lib[c].open /\ (~lib[c].sound \/ IsBusy(c))
  <2>1. /\ at' = [at EXCEPT ![t] = Outside] /\ queryLock' = NoCaller
        /\ UNCHANGED <<lib, connections, queries, next_command, next_query, results, stored,
                       overlapped>>
    BY <1>2, <1>3 DEF ConsumeAndCheck, Returns
  <2> QED
    BY <1>1, <2>1, OverInv
<1>4. CASE ~(lib[c].open /\ (~lib[c].sound \/ IsBusy(c)))
  <2>1. /\ at' = [at EXCEPT ![t].step = "get"] /\ queryLock' = queryLock
        /\ lib' = IF Answered(c) THEN Ended(c) ELSE lib
        /\ UNCHANGED <<connections, queries, next_command, next_query, results, stored,
                       overlapped>>
    BY <1>2, <1>4 DEF ConsumeAndCheck
  <2>2. /\ at' \in [Callers -> CallerRecs] /\ at'[t].step = "get"
        /\ at'[t].conn = c /\ at'[t].query = at[t].query /\ at'[t].keeps = at[t].keeps
        /\ at'[t].command = at[t].command /\ at'[t].result = at[t].result
        /\ \A u \in Callers \ {t} : at'[u] = at[u]
    BY <1>1, <1>2, <2>1, StepChange DEF Steps
  <2>3. /\ lib' \in [PgConns -> LibRecs] /\ \A d \in PgConns : LibFits(d)'
        /\ \A d \in PgConns : /\ lib'[d].commands = lib[d].commands
                              /\ lib'[d].open = lib[d].open /\ lib'[d].sound = lib[d].sound
                              /\ lib'[d].command # 0 => lib'[d].command = lib[d].command
        /\ \A d \in PgConns \ {c} : lib'[d] = lib[d]
    <3>1. CASE ~Answered(c)
      BY <1>1, <2>1, <3>1 DEF Frame, PgTyped, LibFits
    <3>2. CASE Answered(c)
      <4>1. PICK l : l = [lib[c] EXCEPT !.command = 0]
        OBVIOUS
      <4>2. lib[c] \in LibRecs /\ \A d \in PgConns : LibFits(d)
        BY <1>1 DEF Frame, PgTyped
      <4>3. /\ l \in LibRecs /\ l.command = 0 /\ l.commands = lib[c].commands
            /\ l.open = lib[c].open /\ l.sound = lib[c].sound
            /\ l.answer = lib[c].answer /\ l.read = lib[c].read /\ l.sent = lib[c].sent
        BY <4>1, <4>2 DEF LibRecs
      <4>4. lib' = [lib EXCEPT ![c] = l]
        BY <2>1, <3>2, <4>1 DEF Ended
      <4>5. lib' \in [PgConns -> LibRecs] /\ lib'[c] = l /\ \A d \in PgConns \ {c} : lib'[d] = lib[d]
        BY <1>1, <4>3, <4>4 DEF PgTyped
      <4>6. \A d \in PgConns : lib'[d].commands = lib[d].commands
        BY <4>3, <4>5
      <4>7. LibFits(c)'
        BY <2>1, <4>2, <4>3, <4>5, <4>6 DEF LibFits
      <4>8. \A d \in PgConns \ {c} : LibFits(d)'
        BY <2>1, <4>2, <4>5, <4>6 DEF LibFits
      <4> QED
        BY <4>3, <4>5, <4>7, <4>8
    <3> QED
      BY <3>1, <3>2
  <2>4. AtFits(t)'
    BY <1>1, <1>2, <2>1, <2>2 DEF AtFits, Sending
  <2>5. queryLock = t /\ queries[at[t].query].state = "pending"
        /\ at[t].query \in Commands /\ queries[at[t].query].conn = c
    BY <1>1, <1>2, QueryOf DEF AtFits
  <2>6. Follows(t)
    BY <1>1, <2>1, <2>2, <2>3, <2>4, <2>5 DEF Follows, PgTyped, Sending, Frame, Recorded
  <2>7. Frame'
    BY <1>1, <2>6, FollowsKeeps
  <2>8. ASSUME c \notin overlapped
        PROVE  (Single(c) /\ (Doomed(c) \/ Orderly(c)))'
    <3>1. Single(c) /\ (Doomed(c) \/ Orderly(c))
      BY <2>8 DEF PgInv
    <3>2. Polling(c)' = Polling(c) /\ (\A u \in Polling(c) : at'[u] = at[u] /\ u \in Callers)
      BY <1>1, <2>2 DEF Polling
    <3>3. Single(c)'
      <4>1. \A u \in Polling(c) : PollHolds(u)'
        BY <2>1, <3>1, <3>2 DEF Single, PollHolds
      <4>2. \A q \in Commands : queries[q].conn = c => EntryHolds(q)'
        BY <2>1, <3>1 DEF Single, EntryHolds
      <4>3. ASSUME NEW r \in results, r[1] \in lib'[c].commands
            PROVE  ResultHolds(c, r)'
        <5>1. r[1] \in lib[c].commands /\ ResultHolds(c, r)
          BY <2>3, <3>1, <4>3 DEF Single
        <5> QED
          BY <2>1, <3>2, <5>1 DEF ResultHolds
      <4>4. \A r \in results : ResultHolds(c, r)'
        BY <4>3 DEF ResultHolds
      <4> QED
        BY <2>1, <3>1, <3>2, <4>1, <4>2, <4>4 DEF Single
    <3>4. CASE \E u \in Polling(c) : at[u].step \in {"complete", "fail"}
      <4>1. PICK u \in Polling(c) : at[u].step \in {"complete", "fail"}
        BY <3>4
      <4>2. Doomed(c)'
        BY <2>2, <3>2, <4>1 DEF Doomed
      <4> QED
        BY <3>3, <4>2
    <3>5. CASE ~\E u \in Polling(c) : at[u].step \in {"complete", "fail"}
      <4>1. ~Doomed(c)
        BY <3>5 DEF Doomed
      <4>2. Orderly(c)
        BY <3>1, <4>1
      <4>3. /\ lib[c].command = queries[at[t].query].command
            /\ lib[c].read = 0
        BY <2>5, <3>5, <4>2 DEF Orderly, Reads
      <4>4. lib[c].command # 0
        BY <1>1, <2>5, <4>3, QueryOfCommand
      <4>5. lib[c].answer # <<>> /\ lib[c].answer \in Seq({"ok", "error"})
        BY <1>1, <4>4 DEF Frame, LibFits, PgTyped, LibRecs
      <4>6. lib' = lib
        BY <2>1, <4>3, <4>5 DEF Answered
      <4>7. \A u \in Callers : (Sending(u) /\ at[u].conn = c)' =>
               Sending(u) /\ at[u].conn = c /\ at'[u].command = at[u].command
        BY <2>2 DEF Sending
      <4>8. \A q \in Commands : Reads(c, q) => Reads(c, q)'
        BY <3>2 DEF Reads
      <4>9. \A u \in Polling(c)' : at'[u].query = at[u].query
        BY <3>2
      <4>10. Orderly(c)'
        BY <2>1, <3>2, <4>2, <4>6, <4>7, <4>8, <4>9 DEF Orderly
      <4> QED
        BY <3>3, <4>10
    <3> QED
      BY <3>4, <3>5
  <2>9. \A d \in PgConns \ {c} : Commanded(d)
    BY <2>3 DEF Commanded
  <2> QED
    BY <1>1, <1>2, <2>1, <2>2, <2>7, <2>8, <2>9, OtherConns
<1> QED
  BY <1>3, <1>4

(* What reading the first result changes.                                  *)
LEMMA GetFacts ==
    ASSUME PgInv, NEW t \in Callers, NEW c \in PgConns, c = at[t].conn, GetResult(t)
    PROVE  /\ Frame' /\ Frame
           /\ at'[t].step = (IF NextResult(c) \in {"ok", "none"} THEN "complete" ELSE "fail")
           /\ at'[t].conn = c /\ at'[t].query = at[t].query
           /\ NextResult(c) = "ok" => at'[t].result = <<lib[c].command, lib[c].read + 1>>
           /\ NextResult(c) = "ok" => results' = results \cup {<<lib[c].command, lib[c].read + 1>>}
                                      /\ lib[c].command \in lib[c].commands
           /\ NextResult(c) # "ok" => results' = results
           /\ \A u \in Callers \ {t} : at'[u] = at[u]
           /\ at[t].query \in Commands /\ queries[at[t].query].conn = c
           /\ queries[at[t].query].state = "pending"
           /\ queryLock = t /\ lib' = AfterResult(c) /\ (lib[c].open => ~IsBusy(c))
<1>1. Frame /\ PgTyped /\ AtFits(t) /\ at[t].step = "get" /\ LibFits(c) /\ at[t] \in CallerRecs
      /\ lib[c] \in LibRecs
  BY DEF PgInv, Frame, GetResult, PgTyped
<1>2. /\ lib[c].open => ~IsBusy(c)
      /\ lib' = AfterResult(c) /\ queryLock' = NoCaller
      /\ UNCHANGED <<connections, queries, next_command, next_query, stored>>
      /\ overlapped' \subseteq PgConns
  BY <1>1 DEF GetResult, PgTyped
<1>3. /\ queryLock = t /\ queries[at[t].query].state = "pending"
      /\ at[t].query \in Commands /\ queries[at[t].query].conn = c
  BY <1>1, QueryOf DEF AtFits
<1>4. /\ lib' \in [PgConns -> LibRecs] /\ \A d \in PgConns : LibFits(d)'
      /\ \A d \in PgConns : /\ lib'[d].commands = lib[d].commands
                            /\ lib'[d].open = lib[d].open /\ lib'[d].sound = lib[d].sound
                            /\ lib'[d].command # 0 => lib'[d].command = lib[d].command
      /\ NextResult(c) \in {"invalid", "none", "ok", "error"}
      /\ NextResult(c) = "ok" => lib[c].read + 1 \in {1, 2} /\ lib[c].command # 0
  BY <1>1, <1>2, AfterFits
<1>5. /\ at' \in [Callers -> CallerRecs]
      /\ at'[t].step = (IF NextResult(c) \in {"ok", "none"} THEN "complete" ELSE "fail")
      /\ at'[t].conn = c /\ at'[t].query = at[t].query /\ at'[t].keeps = at[t].keeps
      /\ at'[t].command = at[t].command
      /\ NextResult(c) = "ok" => at'[t].result = <<lib[c].command, lib[c].read + 1>>
      /\ NextResult(c) # "ok" => at'[t].result = at[t].result
      /\ \A u \in Callers \ {t} : at'[u] = at[u]
  <2>1. CASE NextResult(c) = "ok"
    <3>1. PICK x \in Results : x = <<lib[c].command, lib[c].read + 1>>
      BY <1>1, <1>4, <2>1 DEF Results, LibRecs
    <3>2. PICK r : r = [at[t] EXCEPT !.step = "complete", !.result = x]
      OBVIOUS
    <3>3. PICK b : b = [at[t] EXCEPT !.step = "complete"]
      OBVIOUS
    <3>4. /\ b \in CallerRecs /\ b.step = "complete" /\ b.conn = c /\ b.query = at[t].query
          /\ b.keeps = at[t].keeps /\ b.command = at[t].command
      BY <1>1, <3>3 DEF CallerRecs, Steps
    <3>5. r = [b EXCEPT !.result = x]
      BY <1>1, <3>2, <3>3 DEF CallerRecs
    <3>6. /\ r \in CallerRecs /\ r.step = "complete" /\ r.conn = c /\ r.query = at[t].query
          /\ r.keeps = at[t].keeps /\ r.command = at[t].command /\ r.result = x
      BY <3>4, <3>5 DEF CallerRecs
    <3>7. at' = [at EXCEPT ![t].step = "complete", ![t].result = x]
      BY <2>1, <3>1 DEF GetResult
    <3>8. at' = [at EXCEPT ![t] = r]
      BY <1>1, <3>2, <3>7 DEF PgTyped
    <3> QED
      BY <1>1, <2>1, <3>1, <3>6, <3>8 DEF PgTyped
  <2>2. CASE NextResult(c) = "none"
    <3>1. at' = [at EXCEPT ![t].step = "complete"]
      BY <2>2 DEF GetResult
    <3> QED
      BY <1>1, <2>2, <3>1, StepChange DEF Steps
  <2>3. CASE NextResult(c) \in {"error", "invalid"}
    <3>1. at' = [at EXCEPT ![t].step = "fail"]
      BY <2>3 DEF GetResult
    <3> QED
      BY <1>1, <2>3, <3>1, StepChange DEF Steps
  <2> QED
    BY <1>4, <2>1, <2>2, <2>3
<1>6. /\ NextResult(c) = "ok" => results' = results \cup {<<lib[c].command, lib[c].read + 1>>}
      /\ NextResult(c) # "ok" => results' = results
  BY DEF GetResult
<1>7. NextResult(c) = "ok" => /\ lib[c].command \in lib[c].commands
                              /\ <<lib[c].command, lib[c].read + 1>> \in Results
  BY <1>1, <1>4 DEF LibFits, Results, LibRecs
<1>8. results' \subseteq Results /\ \A r \in results' : \E d \in PgConns : r[1] \in lib[d].commands
  <2>1. results \subseteq Results /\ \A r \in results : \E d \in PgConns : r[1] \in lib[d].commands
    BY <1>1 DEF Frame, PgTyped, Recorded
  <2> QED
    BY <1>6, <1>7, <2>1
<1>9. at[t].result = NoResult
  BY <1>1 DEF AtFits
<1>10. AtFits(t)'
  <2>1. at'[t].result = NoResult \/ at'[t].result[1] \in lib'[at'[t].conn].commands
    <3>1. CASE NextResult(c) = "ok"
      <4>1. at'[t].result[1] = lib[c].command
        BY <1>5, <3>1
      <4> QED
        BY <1>4, <1>5, <1>7, <3>1, <4>1
    <3>2. CASE NextResult(c) # "ok"
      BY <1>5, <1>9, <3>2
    <3> QED
      BY <3>1, <3>2
  <2>2. at[t].command = 0 /\ at[t].keeps = queries[at[t].query].keeps
        /\ at[t].query \in 1 .. next_query - 1
    BY <1>1 DEF AtFits, Sending
  <2>3. at'[t].step \in {"complete", "fail"}
    BY <1>5
  <2> QED
    BY <1>2, <1>3, <1>5, <2>1, <2>2, <2>3 DEF AtFits, Sending
<1>11. Follows(t)
  <2>1. at'[t].step \in {"complete", "fail"} /\ queryLock' # t
    BY <1>2, <1>5, PgAssumption
  <2>2. \A s \in stored : s[1] < next_query
    BY <1>1 DEF Frame, Recorded
  <2> QED
    BY <1>1, <1>2, <1>3, <1>4, <1>5, <1>8, <1>10, <2>1, <2>2 DEF Follows, PgTyped, Sending
<1> QED
  BY <1>1, <1>2, <1>3, <1>5, <1>6, <1>7, <1>11, FollowsKeeps

(* PQgetResult in is_ready: with no other thread at the connection it is   *)
(* the first result of the query's own command.                            *)
LEMMA GetInv ==
    ASSUME PgInv, NEW t \in Callers, GetResult(t)
    PROVE  PgInv'
<1>1. Frame /\ PgTyped /\ AtFits(t) /\ at[t].step = "get" /\ at[t].conn \in PgConns
  <2>1. Frame /\ PgTyped /\ AtFits(t) /\ at[t].step = "get"
    BY DEF PgInv, Frame, GetResult
  <2> QED
    BY <2>1, QueryOf
<1>2. PICK c \in PgConns : c = at[t].conn
  BY <1>1
<1>3. PICK q \in Commands : q = at[t].query /\ queries[q].conn = c /\ queries[q].state = "pending"
  BY <1>2, GetFacts
<1>4. /\ Frame'
      /\ at'[t].step = (IF NextResult(c) \in {"ok", "none"} THEN "complete" ELSE "fail")
      /\ at'[t].conn = c /\ at'[t].query = q
      /\ NextResult(c) = "ok" => at'[t].result = <<lib[c].command, lib[c].read + 1>>
      /\ NextResult(c) = "ok" => results' = results \cup {<<lib[c].command, lib[c].read + 1>>}
                                 /\ lib[c].command \in lib[c].commands
      /\ NextResult(c) # "ok" => results' = results
      /\ \A u \in Callers \ {t} : at'[u] = at[u]
      /\ lib' = AfterResult(c) /\ (lib[c].open => ~IsBusy(c))
  BY <1>2, <1>3, GetFacts
<1>5. UNCHANGED <<connections, queries, next_command, next_query, stored>>
      /\ overlapped' = (IF Polling(c) # {} THEN overlapped \cup {c} ELSE overlapped)
  BY <1>2 DEF GetResult
<1>6. /\ \A d \in PgConns : lib'[d].commands = lib[d].commands
      /\ \A d \in PgConns \ {c} : lib'[d] = lib[d]
      /\ NextResult(c) \in {"invalid", "none", "ok", "error"}
      /\ NextResult(c) = "ok" => lib[c].command # 0
      /\ NextResult(c) \in {"ok", "error", "invalid"} => lib'[c].command = lib[c].command
      /\ NextResult(c) = "none" /\ lib[c].command # 0 => lib[c].read > 0
  BY <1>1, <1>4, <1>5, AfterFits
<1>7. ASSUME c \notin overlapped'
      PROVE  (Single(c) /\ (Doomed(c) \/ Orderly(c)))'
  <2>1. Polling(c) = {} /\ c \notin overlapped
    BY <1>5, <1>7
  <2>2. Single(c) /\ Orderly(c)
    BY <2>1 DEF PgInv, Doomed
  <2>3. lib[c].command = queries[q].command /\ lib[c].read = 0
    BY <1>3, <2>1, <2>2 DEF Orderly, Reads
  <2>4. lib[c].command # 0
    BY <1>1, <1>3, <2>3, QueryOfCommand
  <2>5. NextResult(c) # "none"
    BY <1>6, <2>3, <2>4
  <2>6. PICK k : k = queries[q].command
    OBVIOUS
  <2>7. /\ lib[c].command = k /\ lib'[c].command = k
        /\ k # 0 /\ k \in lib[c].commands
    BY <1>1, <1>3, <1>6, <2>3, <2>4, <2>5, <2>6, QueryOfCommand
  <2>8. \A p \in Commands : queries[p].command = k => p = q
    BY <1>1, <2>6, <2>7, QueryOfCommand
  <2>9. Polling(c)' = {t}
    <3>1. t \in Polling(c)'
      BY <1>4 DEF Polling
    <3>2. \A u \in Callers \ {t} : u \notin Polling(c)'
      BY <1>4, <2>1 DEF Polling
    <3> QED
      BY <3>1, <3>2 DEF Polling
  <2>10. \A r \in results : r[1] # k
    <3> SUFFICES ASSUME NEW r \in results, r[1] = k
                 PROVE  FALSE
      OBVIOUS
    <3>1. ResultHolds(c, r) /\ r[1] \in lib[c].commands
      BY <2>2, <2>7 DEF Single
    <3>2. PICK p \in Commands : /\ queries[p].command = r[1]
                                /\ queries[p].state \in {"done", "cancelled"}
      BY <2>1, <3>1 DEF ResultHolds
    <3> QED
      BY <1>3, <2>8, <3>2
  <2>11. NextResult(c) = "ok" => at'[t].result = <<k, 1>> /\ results' = results \cup {<<k, 1>>}
                                 /\ at'[t].step = "complete"
    BY <1>4, <2>3, <2>7
  <2>12. NextResult(c) # "ok" => at'[t].step = "fail" /\ results' = results
    BY <1>4, <2>5
  <2>13. Single(c)'
    <3>1. \A u, v \in Polling(c)' : u = v
      BY <2>9
    <3>2. PollHolds(t)'
      BY <1>3, <1>4, <1>5, <2>6, <2>10, <2>11, <2>12 DEF PollHolds
    <3>3. ASSUME NEW p \in Commands, queries'[p].conn = c
          PROVE  EntryHolds(p)'
      <4>1. EntryHolds(p)
        BY <1>5, <2>2, <3>3 DEF Single
      <4>2. queries[p].state = "done" => queries[p].command # k
        BY <1>3, <2>8
      <4>3. queries[p].result = <<queries[p].command, 1>> /\ queries[p].command # k
              /\ queries[p].result \notin results => queries[p].result \notin results'
        BY <2>11, <2>12
      <4> QED
        BY <1>5, <4>1, <4>2, <4>3 DEF EntryHolds
    <3>4. ASSUME NEW r \in results', r[1] \in lib'[c].commands
          PROVE  ResultHolds(c, r)'
      <4>1. CASE r \in results
        <5>1. ResultHolds(c, r) /\ r[1] \in lib[c].commands
          BY <1>6, <2>2, <3>4, <4>1 DEF Single
        <5> QED
          BY <1>5, <2>1, <5>1 DEF ResultHolds
      <4>2. CASE r \notin results
        <5>1. NextResult(c) = "ok" /\ r = <<k, 1>>
          BY <2>11, <2>12, <3>4, <4>2
        <5>2. r[1] = k /\ r[2] = 1
          BY <5>1
        <5> QED
          BY <1>4, <1>5, <2>6, <2>9, <2>11, <5>1, <5>2 DEF ResultHolds
      <4> QED
        BY <4>1, <4>2
    <3>5. \A r \in results' : ResultHolds(c, r)'
      BY <3>4 DEF ResultHolds
    <3> QED
      BY <2>9, <3>1, <3>2, <3>3, <3>5 DEF Single
  <2>14. Orderly(c)'
    <3>1. \A u \in Polling(c)' : lib'[c].command = queries'[at'[u].query].command
      BY <1>4, <1>5, <2>6, <2>7, <2>9
    <3>2. Reads(c, q)'
      BY <1>4, <2>9, <2>11, <2>12 DEF Reads
    <3>3. \A p \in Commands : queries'[p].conn = c /\ queries'[p].state = "pending" =>
             /\ lib'[c].command = queries'[p].command
             /\ lib'[c].read = 0 \/ Reads(c, p)'
      <4> SUFFICES ASSUME NEW p \in Commands, queries[p].conn = c, queries[p].state = "pending"
                   PROVE  /\ lib'[c].command = queries[p].command
                          /\ lib'[c].read = 0 \/ Reads(c, p)'
        BY <1>5
      <4>1. queries[p].command = k
        BY <2>2, <2>7 DEF Orderly
      <4>2. p = q
        BY <2>8, <4>1
      <4> QED
        BY <2>7, <3>2, <4>1, <4>2
    <3>4. \A u \in Callers : ~(Sending(u) /\ at[u].conn = c)'
      <4> SUFFICES ASSUME NEW u \in Callers, (Sending(u) /\ at[u].conn = c)'
                   PROVE  FALSE
        OBVIOUS
      <4>1. u # t
        BY <1>4 DEF Sending
      <4>2. Sending(u) /\ at[u].conn = c
        BY <1>4, <4>1 DEF Sending
      <4>3. at[u].command = k
        BY <2>2, <2>7, <4>2 DEF Orderly
      <4> QED
        BY <1>1, <2>6, <4>2, <4>3, QueryOfCommand
    <3> QED
      BY <2>9, <3>1, <3>3, <3>4 DEF Orderly
  <2> QED
    BY <2>13, <2>14
<1>8. \A d \in PgConns \ {c} : Commanded(d)
  BY <1>6 DEF Commanded
<1>9. \A r \in Results : \/ r \in results' <=> r \in results
                         \/ r[1] \in lib[c].commands
  BY <1>4, <1>6
<1> QED
  BY <1>1, <1>2, <1>4, <1>5, <1>7, <1>8, <1>9, OtherConns

(* Changing the state of an entry changes nothing else of it.              *)
LEMMA StateChange ==
    ASSUME PgTyped, NEW q \in Commands, NEW s \in QueryStates,
           queries' = [queries EXCEPT ![q].state = s]
    PROVE  /\ queries' \in [Commands -> QueryRecs] /\ queries'[q].state = s
           /\ queries'[q].conn = queries[q].conn /\ queries'[q].keeps = queries[q].keeps
           /\ queries'[q].command = queries[q].command /\ queries'[q].result = queries[q].result
           /\ \A p \in Commands \ {q} : queries'[p] = queries[p]
<1>1. PICK r : r = [queries[q] EXCEPT !.state = s]
  OBVIOUS
<1>2. queries[q] \in QueryRecs
  BY DEF PgTyped
<1>3. /\ r \in QueryRecs /\ r.state = s /\ r.conn = queries[q].conn /\ r.keeps = queries[q].keeps
      /\ r.command = queries[q].command /\ r.result = queries[q].result
  BY <1>1, <1>2 DEF QueryRecs
<1>4. queries' = [queries EXCEPT ![q] = r]
  BY <1>1
<1> QED
  BY <1>3, <1>4 DEF PgTyped

(* complete_async_query_helper sets the state and the result of an entry.  *)
LEMMA Completed ==
    ASSUME PgTyped, NEW q \in Commands, NEW x \in Results \cup {NoResult},
           queries' = [queries EXCEPT ![q].state = "done", ![q].result = x]
    PROVE  /\ queries' \in [Commands -> QueryRecs] /\ queries'[q].state = "done"
           /\ queries'[q].conn = queries[q].conn /\ queries'[q].keeps = queries[q].keeps
           /\ queries'[q].command = queries[q].command /\ queries'[q].result = x
           /\ \A p \in Commands \ {q} : queries'[p] = queries[p]
<1>1. PICK r : r = [queries[q] EXCEPT !.state = "done", !.result = x]
  OBVIOUS
<1>2. queries[q] \in QueryRecs
  BY DEF PgTyped
<1>3. PICK b : b = [queries[q] EXCEPT !.state = "done"]
  OBVIOUS
<1>4. /\ b \in QueryRecs /\ b.state = "done" /\ b.conn = queries[q].conn
      /\ b.keeps = queries[q].keeps /\ b.command = queries[q].command
  BY <1>2, <1>3 DEF QueryRecs, QueryStates
<1>5. r = [b EXCEPT !.result = x]
  BY <1>1, <1>2, <1>3 DEF QueryRecs
<1>6. /\ r \in QueryRecs /\ r.state = "done" /\ r.conn = queries[q].conn
      /\ r.keeps = queries[q].keeps /\ r.command = queries[q].command /\ r.result = x
  BY <1>4, <1>5 DEF QueryRecs
<1>7. queries' = [queries EXCEPT ![q] = r]
  BY <1>1, <1>2 DEF PgTyped
<1> QED
  BY <1>6, <1>7 DEF PgTyped

(* is_ready returns true: the call is over, or goes on to fetch.           *)
LEMMA ReadyFields ==
    ASSUME PgTyped, NEW t \in Callers, Ready(t), at[t].command = 0
    PROVE  /\ at' \in [Callers -> CallerRecs] /\ at'[t].step \in {"fetch", "out"}
           /\ at'[t].command = 0
           /\ at'[t].step = "fetch" => at'[t].query = at[t].query
           /\ \A u \in Callers \ {t} : at'[u] = at[u]
<1>1. CASE ~at[t].fetch
  BY <1>1, OutsideFields DEF Ready, Returns, PgTyped
<1>2. CASE at[t].fetch
  <2>1. PICK b : b = [at[t] EXCEPT !.step = "fetch"]
    OBVIOUS
  <2>2. PICK r : r = [at[t] EXCEPT !.step = "fetch", !.result = NoResult]
    OBVIOUS
  <2>3. at[t] \in CallerRecs
    BY DEF PgTyped
  <2>4. b \in CallerRecs /\ b.step = "fetch" /\ b.command = 0 /\ b.query = at[t].query
    BY <2>1, <2>3 DEF CallerRecs, Steps
  <2>5. r = [b EXCEPT !.result = NoResult]
    BY <2>1, <2>2, <2>3 DEF CallerRecs
  <2>6. r \in CallerRecs /\ r.step = "fetch" /\ r.command = 0 /\ r.query = at[t].query
    BY <2>4, <2>5 DEF CallerRecs
  <2>7. at' = [at EXCEPT ![t].step = "fetch", ![t].result = NoResult]
    BY <1>2 DEF Ready
  <2>8. at' = [at EXCEPT ![t] = r]
    BY <2>2, <2>3, <2>7 DEF PgTyped
  <2> QED
    BY <2>6, <2>8 DEF PgTyped
<1> QED
  BY <1>1, <1>2

(* The thread that completed the entry reads the rest of the answer; when  *)
(* there is no more, the connection accepts the next command.              *)
LEMMA DrainInv ==
    ASSUME PgInv, NEW t \in Callers, Drain(t)
    PROVE  PgInv'
<1>1. Frame /\ PgTyped /\ AtFits(t) /\ at[t].step = "drain" /\ at[t].conn \in PgConns
  <2>1. Frame /\ PgTyped /\ AtFits(t) /\ at[t].step = "drain"
    BY DEF PgInv, Frame, Drain
  <2> QED
    BY <2>1, QueryOf
<1>2. PICK c \in PgConns : c = at[t].conn
  BY <1>1
<1>3. PICK q \in Commands : /\ q = at[t].query /\ queries[q].conn = c
                            /\ queries[q].state # "pending" /\ q \in 1 .. next_query - 1
  BY <1>1, <1>2, QueryOf DEF AtFits
<1>4. /\ ~IsBusy(c) /\ lib' = AfterResult(c)
      /\ UNCHANGED <<connections, queries, next_command, next_query, queryLock, results, stored,
                     overlapped>>
  BY <1>2 DEF Drain
<1>5. /\ lib' \in [PgConns -> LibRecs] /\ \A d \in PgConns : LibFits(d)'
      /\ \A d \in PgConns : /\ lib'[d].commands = lib[d].commands
                            /\ lib'[d].open = lib[d].open /\ lib'[d].sound = lib[d].sound
                            /\ lib'[d].command # 0 => lib'[d].command = lib[d].command
      /\ \A d \in PgConns \ {c} : lib'[d] = lib[d]
      /\ NextResult(c) \in {"invalid", "none", "ok", "error"}
      /\ NextResult(c) \in {"ok", "error", "invalid"} => lib'[c].command = lib[c].command
      /\ NextResult(c) = "none" => lib'[c].command = 0
  BY <1>1, <1>4, AfterFits
<1>6. /\ at' \in [Callers -> CallerRecs] /\ at'[t].command = 0
      /\ \A u \in Callers \ {t} : at'[u] = at[u]
      /\ \/ NextResult(c) = "none" /\ at'[t].step \in {"fetch", "out"}
         \/ NextResult(c) # "none" /\ at' = at
      /\ at'[t].step = "fetch" => at'[t].query = q
  <2>1. at[t].command = 0
    BY <1>1 DEF AtFits, Sending
  <2>2. CASE NextResult(c) = "none"
    <3>1. Ready(t)
      BY <1>2, <2>2 DEF Drain, Drained
    <3> QED
      BY <1>1, <1>3, <2>1, <2>2, <3>1, ReadyFields
  <2>3. CASE NextResult(c) # "none"
    <3>1. at' = at
      BY <1>2, <2>3 DEF Drain, Drained
    <3> QED
      BY <1>1, <2>1, <2>3, <3>1 DEF PgTyped
  <2> QED
    BY <2>2, <2>3
<1>7. AtFits(t)'
  BY <1>1, <1>3, <1>4, <1>6 DEF AtFits, Sending
<1>8. queryLock # t
  BY <1>1, PgAssumption DEF PgTyped
<1>9. at'[t].step \notin {"flush", "record", "complete", "fail"}
      /\ (at'[t].step = "drain" => at'[t].conn = c)
  BY <1>1, <1>2, <1>6
<1>10. Follows(t)
  BY <1>1, <1>4, <1>5, <1>6, <1>7, <1>8, <1>9 DEF Follows, PgTyped, Sending, Frame, Recorded
<1>11. Frame'
  BY <1>1, <1>10, FollowsKeeps
<1>12. ASSUME c \notin overlapped
       PROVE  (Single(c) /\ (Doomed(c) \/ Orderly(c)))'
  <2>1. t \in Polling(c)
    BY <1>1, <1>2 DEF Polling
  <2>2. Single(c) /\ Polling(c) = {t}
    BY <1>12, <2>1 DEF PgInv, Single
  <2>3. Orderly(c)
    BY <1>1, <1>12, <2>2 DEF PgInv, Doomed
  <2>4. PICK k : k = lib[c].command
    OBVIOUS
  <2>5. k = queries[q].command /\ k # 0
    BY <1>1, <1>3, <2>1, <2>3, <2>4, QueryOfCommand DEF Orderly
  <2>6. \A p \in Commands : queries[p].command = k => p = q
    BY <1>1, <2>5, QueryOfCommand
  <2>7. \A p \in Commands : ~(queries[p].conn = c /\ queries[p].state = "pending")
    BY <1>3, <2>3, <2>4, <2>6 DEF Orderly
  <2>8. \A u \in Callers : ~(Sending(u) /\ at[u].conn = c)
    BY <1>1, <2>3, <2>4, <2>5, QueryOfCommand DEF Orderly
  <2>9. \A u \in Callers : ~(Sending(u) /\ at[u].conn = c)'
    BY <1>6, <1>9, <2>8 DEF Sending
  <2>10. Polling(c)' = IF NextResult(c) = "none" THEN {} ELSE {t}
    <3>1. CASE NextResult(c) = "none"
      BY <1>6, <2>2, <3>1 DEF Polling
    <3>2. CASE NextResult(c) # "none"
      BY <1>6, <2>2, <3>2 DEF Polling
    <3> QED
      BY <3>1, <3>2
  <2>11. Single(c)'
    <3>1. \A u \in Polling(c)' : u = t /\ at'[t] = at[t]
      BY <1>6, <2>10
    <3>2. \A u \in Polling(c)' : PollHolds(u)'
      BY <1>1, <3>1 DEF PollHolds
    <3>3. \A p \in Commands : queries[p].conn = c => EntryHolds(p)'
      BY <1>4, <2>2 DEF Single, EntryHolds
    <3>4. ASSUME NEW r \in results, r[1] \in lib'[c].commands
          PROVE  ResultHolds(c, r)'
      <4>1. r[1] \in lib[c].commands /\ ResultHolds(c, r)
        BY <1>5, <2>2, <3>4 DEF Single
      <4>2. \A u \in Polling(c) : at[u].step # "complete"
        BY <1>1, <2>2
      <4> QED
        BY <1>4, <4>1, <4>2 DEF ResultHolds
    <3>5. \A r \in results : ResultHolds(c, r)'
      BY <3>4 DEF ResultHolds
    <3> QED
      BY <1>4, <3>1, <3>2, <3>3, <3>5 DEF Single
  <2>12. Orderly(c)'
    <3>1. CASE NextResult(c) = "none"
      <4>1. lib'[c].command = 0 /\ Polling(c)' = {}
        BY <1>5, <2>10, <3>1
      <4>2. \A p \in Commands : queries[p].conn = c => queries[p].command # 0
        BY <1>1, QueryOfCommand
      <4> QED
        BY <1>4, <2>7, <2>9, <4>1, <4>2 DEF Orderly
    <3>2. CASE NextResult(c) # "none"
      <4>1. lib'[c].command = k /\ Polling(c)' = {t} /\ at'[t] = at[t]
        BY <1>5, <1>6, <2>4, <2>10, <3>2
      <4> QED
        BY <1>3, <1>4, <2>5, <2>7, <2>9, <4>1 DEF Orderly
    <3> QED
      BY <3>1, <3>2
  <2> QED
    BY <2>11, <2>12
<1>13. \A d \in PgConns \ {c} : Commanded(d)
  BY <1>5 DEF Commanded
<1> QED
  BY <1>1, <1>2, <1>4, <1>6, <1>9, <1>11, <1>12, <1>13, OtherConns

\* A step of t, nobody holding the table, that changes only the entry of q, gives up
\* results and stores the result of q.
EntryStep(t, q) ==
    /\ queryLock = NoCaller /\ q < next_query
    /\ UNCHANGED <<connections, lib, next_command, next_query, queryLock, overlapped>>
    /\ queries' \in [Commands -> QueryRecs]
    /\ \A p \in Commands \ {q} : queries'[p] = queries[p]
    /\ queries'[q].conn = queries[q].conn /\ queries'[q].keeps = queries[q].keeps
    /\ queries'[q].command = queries[q].command
    /\ queries'[q] = queries[q] \/ queries'[q].state \notin {"none", "pending"}
    /\ \/ queries'[q].result \in {queries[q].result, NoResult}
       \/ queries'[q].result[1] \in lib[queries[q].conn].commands
    /\ at' \in [Callers -> CallerRecs]
    /\ \A u \in Callers \ {t} : at'[u] = at[u]
    /\ at[t].step \notin {"flush", "record", "busy", "get"}
    /\ at'[t].step \notin {"flush", "record", "busy", "get"}
    /\ at'[t].command = 0
    /\ at'[t].step \in {"complete", "fail", "drain", "fetch"} => at'[t].query = at[t].query
    /\ at'[t].step \in {"complete", "fail", "drain"} => /\ at'[t].conn = at[t].conn
                                                        /\ at'[t].keeps = at[t].keeps
    /\ at'[t].step \in {"drain", "fetch"} => queries'[at[t].query].state # "pending"
    /\ at'[t].step \in {"out", "drain", "fetch"}
    /\ at'[t].step = "out" \/ at[t].step \in {"complete", "fail", "fetch"}
    /\ at'[t].step = "drain" => at[t].step = "complete"
    /\ results' \subseteq results
    /\ stored' = stored \/ \E x \in Results \cup {NoResult} : stored' = stored \cup {<<q, x>>}

(* A step that changes one entry keeps what holds whatever threads do at   *)
(* the same time.                                                          *)
LEMMA EntryFrame ==
    ASSUME PgInv, NEW t \in Callers, NEW q \in Commands, EntryStep(t, q)
    PROVE  Frame'
<1>1. Frame /\ PgTyped /\ AtFits(t) /\ Recorded /\ (\A d \in PgConns : LibFits(d))
  BY DEF PgInv, Frame
<1>2. AtFits(t)'
  <2>1. CASE at'[t].step = "out"
    BY <2>1 DEF AtFits, Sending, EntryStep
  <2>2. CASE at'[t].step # "out"
    <3>0. at[t].step \in {"complete", "fail", "fetch"}
      BY <2>2 DEF EntryStep
    <3>1. /\ at[t].query \in Commands /\ at[t].query \in 1 .. next_query - 1
          /\ at[t].step # "fetch" => at[t].conn = queries[at[t].query].conn
      BY <1>1, <3>0, QueryOf
    <3>2. queries'[at[t].query].conn = queries[at[t].query].conn
          /\ queries'[at[t].query].keeps = queries[at[t].query].keeps
      BY <3>1 DEF EntryStep
    <3> QED
      BY <1>1, <2>2, <3>0, <3>1, <3>2 DEF AtFits, Sending, EntryStep
  <2> QED
    BY <2>1, <2>2
<1>3. \A d \in PgConns : LibFits(d)'
  BY <1>1 DEF LibFits, EntryStep
<1>4. stored' \subseteq Commands \X (Results \cup {NoResult}) /\ \A s \in stored' : s[1] < next_query
  BY <1>1 DEF PgTyped, Recorded, EntryStep
<1>5. queryLock' # t /\ \A u \in Callers : queryLock # u
  BY PgAssumption DEF EntryStep
<1>6. \A p \in Commands :
         /\ queries'[p].conn = queries[p].conn /\ queries'[p].keeps = queries[p].keeps
         /\ queries'[p].command = queries[p].command
         /\ queries'[p] = queries[p] \/ (p < next_query /\ queries'[p].state # "none")
         /\ queries'[p].state = "pending" => queries[p].state = "pending"
         /\ \/ queries'[p].result \in {queries[p].result, NoResult}
            \/ queries'[p].result[1] \in lib[queries[p].conn].commands
  <2> SUFFICES ASSUME NEW p \in Commands
               PROVE  /\ queries'[p].conn = queries[p].conn /\ queries'[p].keeps = queries[p].keeps
                      /\ queries'[p].command = queries[p].command
                      /\ queries'[p] = queries[p] \/ (p < next_query /\ queries'[p].state # "none")
                      /\ queries'[p].state = "pending" => queries[p].state = "pending"
                      /\ \/ queries'[p].result \in {queries[p].result, NoResult}
                         \/ queries'[p].result[1] \in lib[queries[p].conn].commands
    OBVIOUS
  <2>1. CASE p = q
    BY <2>1 DEF EntryStep
  <2>2. CASE p # q
    BY <2>2 DEF EntryStep
  <2> QED
    BY <2>1, <2>2
<1>7. ~Sending(t) /\ ~Sending(t)'
  BY DEF Sending, EntryStep
<1>8. \A d \in PgConns :
         /\ lib'[d].commands = lib[d].commands
         /\ lib'[d].open /\ lib'[d].sound /\ lib'[d].command # 0 =>
              lib[d].open /\ lib[d].sound /\ lib'[d].command = lib[d].command
  BY DEF EntryStep
<1>9. results' \subseteq Results /\ \A r \in results' : \E d \in PgConns : r[1] \in lib[d].commands
  BY <1>1 DEF PgTyped, Recorded, EntryStep
<1>10. /\ UNCHANGED <<connections, lib, next_command, next_query, queryLock, overlapped>>
       /\ queries' \in [Commands -> QueryRecs] /\ at' \in [Callers -> CallerRecs]
       /\ \A u \in Callers \ {t} : at'[u] = at[u]
  BY DEF EntryStep
<1>11. Follows(t)
  BY <1>1, <1>2, <1>3, <1>4, <1>5, <1>6, <1>7, <1>8, <1>9, <1>10 DEF Follows, PgTyped
<1> QED
  BY <1>1, <1>11, FollowsKeeps

(* Such a step keeps the invariant if it does at the connection of the     *)
(* entry.                                                                  *)
LEMMA EntryOthers ==
    ASSUME PgInv, NEW t \in Callers, NEW q \in Commands, EntryStep(t, q), Frame',
           NEW c \in PgConns, queries[q].conn = c,
           at[t].step \in {"complete", "fail", "drain"} => at[t].conn = c,
           \A r \in Results : r \in results /\ r \notin results' => r[1] \in lib[c].commands,
           c \notin overlapped => (Single(c) /\ Orderly(c))'
    PROVE  PgInv'
<1>1. \A d \in PgConns \ {c} : Commanded(d)
  BY DEF Commanded, EntryStep
<1>2. /\ overlapped' = overlapped /\ \A u \in Callers \ {t} : at'[u] = at[u]
      /\ at[t].step \in {"get", "complete", "fail", "drain", "flush", "record"} => at[t].conn = c
      /\ at'[t].step \in {"complete", "fail", "drain", "flush", "record"} => at'[t].conn = c
  BY DEF EntryStep
<1>3. \A p \in Commands : \/ queries'[p] = queries[p] /\ \A r : <<p, r>> \in stored' => <<p, r>> \in stored
                          \/ queries[p].conn \in {c, NoCaller} /\ queries'[p].conn = c
  BY DEF EntryStep
<1>4. \A r \in Results : \/ r \in results' <=> r \in results
                         \/ r[1] \in lib[c].commands
  BY DEF EntryStep
<1> QED
  BY <1>1, <1>2, <1>3, <1>4, OtherConns

(* The entry is completed with the result its thread has read.             *)
LEMMA CompleteInv ==
    ASSUME PgInv, NEW t \in Callers, Complete(t)
    PROVE  PgInv'
<1>1. Frame /\ PgTyped /\ AtFits(t) /\ at[t].step = "complete" /\ at[t].conn \in PgConns
      /\ at[t] \in CallerRecs
  <2>1. Frame /\ PgTyped /\ AtFits(t) /\ at[t].step = "complete"
    BY DEF PgInv, Frame, Complete
  <2> QED
    BY <2>1, QueryOf DEF PgTyped
<1>2. PICK c \in PgConns : c = at[t].conn
  BY <1>1
<1>3. PICK q \in Commands : /\ q = at[t].query /\ queries[q].conn = c /\ q < next_query
                            /\ at[t].keeps = queries[q].keeps
  BY <1>1, <1>2, QueryOf DEF AtFits
<1>4. PICK x \in Results \cup {NoResult} :
         x = at[t].result /\ (x = NoResult \/ x[1] \in lib[c].commands)
  BY <1>1, <1>2 DEF AtFits, CallerRecs
<1>5. /\ queryLock = NoCaller
      /\ UNCHANGED <<connections, lib, next_command, next_query, queryLock, stored, overlapped>>
      /\ results' = (IF at[t].keeps THEN results ELSE results \ {x})
      /\ queries' = [queries EXCEPT ![q].state = "done", ![q].result = x]
      /\ (IF x = NoResult THEN Ready(t) ELSE at' = [at EXCEPT ![t].step = "drain"])
  BY <1>3, <1>4 DEF Complete, ResultsAfter
<1>6. /\ queries' \in [Commands -> QueryRecs] /\ queries'[q].state = "done"
      /\ queries'[q].conn = queries[q].conn /\ queries'[q].keeps = queries[q].keeps
      /\ queries'[q].command = queries[q].command /\ queries'[q].result = x
      /\ \A p \in Commands \ {q} : queries'[p] = queries[p]
  BY <1>1, <1>5, Completed
<1>7. /\ at' \in [Callers -> CallerRecs] /\ at'[t].command = 0
      /\ \A u \in Callers \ {t} : at'[u] = at[u]
      /\ \/ x = NoResult /\ at'[t].step \in {"fetch", "out"}
         \/ /\ x # NoResult /\ at'[t].step = "drain"
            /\ at'[t].conn = c /\ at'[t].keeps = at[t].keeps
      /\ at'[t].step \in {"drain", "fetch"} => at'[t].query = q
  <2>1. at[t].command = 0
    BY <1>1 DEF AtFits, Sending
  <2>2. CASE x = NoResult
    BY <1>1, <1>3, <1>5, <2>1, <2>2, ReadyFields
  <2>3. CASE x # NoResult
    BY <1>1, <1>2, <1>3, <1>5, <2>1, <2>3, StepChange DEF Steps
  <2> QED
    BY <2>2, <2>3
<1>8. EntryStep(t, q)
  BY <1>1, <1>2, <1>3, <1>4, <1>5, <1>6, <1>7 DEF EntryStep
<1>9. ASSUME c \notin overlapped
      PROVE  (Single(c) /\ Orderly(c))'
  <2>1. t \in Polling(c)
    BY <1>1, <1>2 DEF Polling
  <2>2. Single(c) /\ Orderly(c)
    BY <1>5, <1>9, LockFree
  <2>3. Polling(c) = {t}
    BY <2>1, <2>2 DEF Single
  <2>4. PICK k : k = queries[q].command
    OBVIOUS
  <2>5. k # 0 /\ lib[c].command = k /\ \A p \in Commands : queries[p].command = k => p = q
    BY <1>1, <1>3, <2>1, <2>2, <2>4, QueryOfCommand DEF Orderly
  <2>6. PollHolds(t)
    BY <2>1, <2>2 DEF Single
  <2>7. x = <<k, 1>> /\ x # NoResult
    BY <1>1, <1>3, <1>4, <2>4, <2>5, <2>6 DEF PollHolds, NoResult
  <2>8. at'[t].step = "drain" /\ at'[t].conn = c /\ at'[t].query = q
    BY <1>7, <2>7
  <2>9. Polling(c)' = {t}
    BY <1>7, <2>3, <2>8 DEF Polling
  <2>10. \A p \in Commands \ {q} : queries[p].command # k
    BY <2>5
  <2>11. Single(c)'
    <3>1. \A u, v \in Polling(c)' : u = v
      BY <2>9
    <3>2. \A u \in Polling(c)' : PollHolds(u)'
      BY <2>8, <2>9 DEF PollHolds
    <3>3. ASSUME NEW p \in Commands, queries'[p].conn = c
          PROVE  EntryHolds(p)'
      <4>1. EntryHolds(p)
        BY <1>3, <1>6, <2>2, <3>3 DEF Single
      <4>2. CASE p = q
        <5>1. ~queries'[q].keeps => x \notin results'
          BY <1>3, <1>5, <1>6
        <5> QED
          BY <1>5, <1>6, <2>4, <2>7, <4>1, <4>2, <5>1 DEF EntryHolds
      <4>3. CASE p # q
        <5>1. queries'[p] = queries[p] /\ results' \subseteq results
          BY <1>5, <1>6, <4>3
        <5> QED
          BY <1>5, <4>1, <5>1 DEF EntryHolds
      <4> QED
        BY <4>2, <4>3
    <3>4. ASSUME NEW r \in results', r[1] \in lib'[c].commands
          PROVE  ResultHolds(c, r)'
      <4>1. r \in results /\ r[1] \in lib[c].commands
        BY <1>5, <3>4
      <4>2. ResultHolds(c, r)
        BY <2>2, <4>1 DEF Single
      <4>3. PICK p \in Commands :
               /\ queries[p].command = r[1]
               /\ queries[p].state \in {"done", "cancelled"} \/ p = q
        BY <1>3, <2>3, <4>1, <4>2 DEF ResultHolds
      <4>4. queries'[p].command = r[1] /\ queries'[p].state \in {"done", "cancelled"}
        BY <1>6, <4>3
      <4> QED
        BY <4>1, <4>2, <4>4 DEF ResultHolds
    <3>5. \A r \in results' : ResultHolds(c, r)'
      BY <3>4 DEF ResultHolds
    <3> QED
      BY <2>9, <3>1, <3>2, <3>3, <3>5 DEF Single
  <2>12. Orderly(c)'
    <3>1. \A p \in Commands : ~(queries'[p].conn = c /\ queries'[p].state = "pending")
      <4> SUFFICES ASSUME NEW p \in Commands, queries'[p].conn = c, queries'[p].state = "pending"
                   PROVE  FALSE
        OBVIOUS
      <4>1. p # q /\ queries'[p] = queries[p]
        BY <1>6
      <4> QED
        BY <2>2, <2>5, <4>1 DEF Orderly
    <3>2. \A u \in Callers : (Sending(u) /\ at[u].conn = c)' =>
             Sending(u) /\ at[u].conn = c /\ at'[u].command = at[u].command
      BY <1>7, <2>8 DEF Sending
    <3>3. lib'[c] = lib[c]
      BY <1>5
    <3>4. \A u \in Polling(c)' : lib'[c].command = queries'[at'[u].query].command
      BY <1>6, <2>4, <2>5, <2>8, <2>9, <3>3
    <3> QED
      BY <2>2, <2>9, <3>1, <3>2, <3>3, <3>4 DEF Orderly
  <2> QED
    BY <2>11, <2>12
<1>10. \A r \in Results : r \in results /\ r \notin results' => r[1] \in lib[c].commands
  BY <1>4, <1>5 DEF Results, Commands, NoResult
<1>11. Frame'
  BY <1>8, EntryFrame
<1> QED
  BY <1>2, <1>3, <1>8, <1>9, <1>10, <1>11, EntryOthers

(* The entry fails: the rest of the answer stays unread, and there is no   *)
(* result to clear.                                                        *)
LEMMA FailInv ==
    ASSUME PgInv, NEW t \in Callers, Fail(t)
    PROVE  PgInv'
<1>1. Frame /\ PgTyped /\ AtFits(t) /\ at[t].step = "fail" /\ at[t].conn \in PgConns
      /\ at[t] \in CallerRecs
  <2>1. Frame /\ PgTyped /\ AtFits(t) /\ at[t].step = "fail"
    BY DEF PgInv, Frame, Fail
  <2> QED
    BY <2>1, QueryOf DEF PgTyped
<1>2. PICK c \in PgConns : c = at[t].conn
  BY <1>1
<1>3. PICK q \in Commands : q = at[t].query /\ queries[q].conn = c /\ q < next_query
  BY <1>1, <1>2, QueryOf DEF AtFits
<1>4. /\ queryLock = NoCaller
      /\ UNCHANGED <<connections, lib, next_command, next_query, queryLock, results, stored, overlapped>>
      /\ queries' = [queries EXCEPT ![q].state = "failed"] /\ Ready(t)
  BY <1>3 DEF Fail
<1>5. /\ queries' \in [Commands -> QueryRecs] /\ queries'[q].state = "failed"
      /\ queries'[q].conn = queries[q].conn /\ queries'[q].keeps = queries[q].keeps
      /\ queries'[q].command = queries[q].command
      /\ \A p \in Commands \ {q} : queries'[p] = queries[p]
  BY <1>1, <1>4, StateChange DEF QueryStates
<1>6. /\ at' \in [Callers -> CallerRecs] /\ at'[t].command = 0
      /\ \A u \in Callers \ {t} : at'[u] = at[u]
      /\ at'[t].step \in {"fetch", "out"}
      /\ at'[t].step = "fetch" => at'[t].query = q
  <2>1. at[t].command = 0
    BY <1>1 DEF AtFits, Sending
  <2> QED
    BY <1>1, <1>3, <1>4, <2>1, ReadyFields
<1>7. EntryStep(t, q)
  BY <1>1, <1>2, <1>3, <1>4, <1>5, <1>6 DEF EntryStep
<1>8. ASSUME c \notin overlapped
      PROVE  (Single(c) /\ Orderly(c))'
  <2>1. t \in Polling(c)
    BY <1>1, <1>2 DEF Polling
  <2>2. Single(c) /\ Orderly(c)
    BY <1>4, <1>8, LockFree
  <2>3. Polling(c) = {t}
    BY <2>1, <2>2 DEF Single
  <2>4. PICK k : k = queries[q].command
    OBVIOUS
  <2>5. k # 0 /\ lib[c].command = k /\ \A p \in Commands : queries[p].command = k => p = q
    BY <1>1, <1>3, <2>1, <2>2, <2>4, QueryOfCommand DEF Orderly
  <2>6. PollHolds(t)
    BY <2>1, <2>2 DEF Single
  <2>7. \A r \in results : r[1] # k
    BY <1>1, <1>3, <2>4, <2>6 DEF PollHolds
  <2>8. Polling(c)' = {}
    BY <1>6, <2>3 DEF Polling
  <2>9. Single(c)'
    <3>1. ASSUME NEW p \in Commands, queries'[p].conn = c
          PROVE  EntryHolds(p)'
      <4>1. EntryHolds(p)
        BY <1>3, <1>5, <2>2, <3>1 DEF Single
      <4>2. CASE p = q
        BY <1>4, <1>5, <4>1, <4>2 DEF EntryHolds
      <4>3. CASE p # q
        <5>1. queries'[p] = queries[p]
          BY <1>5, <4>3
        <5> QED
          BY <1>4, <4>1, <5>1 DEF EntryHolds
      <4> QED
        BY <4>2, <4>3
    <3>2. ASSUME NEW r \in results', r[1] \in lib'[c].commands
          PROVE  ResultHolds(c, r)'
      <4>1. r \in results /\ r[1] \in lib[c].commands
        BY <1>4, <3>2
      <4>2. ResultHolds(c, r)
        BY <2>2, <4>1 DEF Single
      <4>3. PICK p \in Commands :
               queries[p].command = r[1] /\ queries[p].state \in {"done", "cancelled"}
        BY <1>1, <2>3, <4>1, <4>2 DEF ResultHolds
      <4>4. p # q
        BY <2>4, <2>7, <4>1, <4>3
      <4>5. queries'[p] = queries[p]
        BY <1>5, <4>4
      <4> QED
        BY <4>1, <4>2, <4>3, <4>5 DEF ResultHolds
    <3>3. \A r \in results' : ResultHolds(c, r)'
      BY <3>2 DEF ResultHolds
    <3> QED
      BY <2>8, <3>1, <3>3 DEF Single
  <2>10. Orderly(c)'
    <3>1. \A p \in Commands : ~(queries'[p].conn = c /\ queries'[p].state = "pending")
      <4> SUFFICES ASSUME NEW p \in Commands, queries'[p].conn = c, queries'[p].state = "pending"
                   PROVE  FALSE
        OBVIOUS
      <4>1. p # q /\ queries'[p] = queries[p]
        BY <1>5
      <4> QED
        BY <2>2, <2>5, <4>1 DEF Orderly
    <3>2. \A u \in Callers : (Sending(u) /\ at[u].conn = c)' =>
             Sending(u) /\ at[u].conn = c /\ at'[u].command = at[u].command
      BY <1>6 DEF Sending
    <3>3. lib'[c] = lib[c]
      BY <1>4
    <3>4. \A p \in Commands : queries'[p].command = lib'[c].command =>
             queries'[p].state \notin {"done", "taken"}
      <4> SUFFICES ASSUME NEW p \in Commands, queries'[p].command = k
                   PROVE  queries'[p].state \notin {"done", "taken"}
        BY <2>5, <3>3
      <4>1. p = q
        BY <1>5, <2>5
      <4> QED
        BY <1>5, <4>1
    <3> QED
      BY <2>2, <2>8, <3>1, <3>2, <3>3, <3>4 DEF Orderly
  <2> QED
    BY <2>9, <2>10
<1>9. Frame'
  BY <1>7, EntryFrame
<1>10. \A r \in Results : r \in results /\ r \notin results' => r[1] \in lib[c].commands
  BY <1>4
<1> QED
  BY <1>2, <1>3, <1>7, <1>8, <1>9, <1>10, EntryOthers

(* pg_get_async_result takes the entry and its result.                     *)
LEMMA FetchInv ==
    ASSUME PgInv, NEW t \in Callers, Fetch(t)
    PROVE  PgInv'
<1>1. Frame /\ PgTyped /\ AtFits(t) /\ at[t].step = "fetch"
  BY DEF PgInv, Frame, Fetch
<1>2. PICK q \in Commands : /\ q = at[t].query /\ queries[q].conn \in PgConns /\ q < next_query
                            /\ queries[q].state # "pending"
  BY <1>1, QueryOf DEF AtFits
<1>3. PICK c \in PgConns : queries[q].conn = c
  BY <1>2
<1>4. queries[q] \in QueryRecs
  BY <1>1 DEF PgTyped
<1>5. PICK x \in Results \cup {NoResult} : x = queries[q].result
  BY <1>4 DEF QueryRecs
<1>6. /\ queryLock = NoCaller /\ at' = [at EXCEPT ![t] = Outside]
      /\ UNCHANGED <<connections, lib, next_command, next_query, queryLock, overlapped>>
      /\ \/ /\ queries[q].state = "done" /\ stored' = stored \cup {<<q, x>>}
            /\ results' = (IF queries[q].keeps THEN results \ {x} ELSE results)
            /\ queries' = [queries EXCEPT ![q].state = "taken"]
         \/ /\ queries[q].state # "done" /\ UNCHANGED <<stored, results>>
            /\ queries' = [queries EXCEPT ![q].state = "reported"]
            /\ queries[q].state = "failed"
         \/ queries[q].state # "done" /\ UNCHANGED <<stored, results, queries>>
  BY <1>2, <1>5 DEF Fetch, Returns, InTable
<1>7. /\ queries' \in [Commands -> QueryRecs]
      /\ queries'[q].conn = queries[q].conn /\ queries'[q].keeps = queries[q].keeps
      /\ queries'[q].command = queries[q].command /\ queries'[q].result = queries[q].result
      /\ \/ queries[q].state = "done" /\ queries'[q].state = "taken"
         \/ queries[q].state = "failed" /\ queries'[q].state = "reported"
         \/ queries[q].state # "done" /\ queries'[q] = queries[q]
      /\ \A p \in Commands \ {q} : queries'[p] = queries[p]
  <2>1. CASE queries' = [queries EXCEPT ![q].state = "taken"] /\ queries[q].state = "done"
    BY <1>1, <2>1, StateChange DEF QueryStates
  <2>2. CASE queries' = [queries EXCEPT ![q].state = "reported"] /\ queries[q].state = "failed"
    BY <1>1, <2>2, StateChange DEF QueryStates
  <2>3. CASE queries' = queries /\ queries[q].state # "done"
    BY <1>1, <2>3 DEF PgTyped
  <2> QED
    BY <1>6, <2>1, <2>2, <2>3
<1>8. /\ at' \in [Callers -> CallerRecs] /\ at'[t] = Outside
      /\ \A u \in Callers \ {t} : at'[u] = at[u]
  BY <1>1, <1>6, OutsideFields DEF PgTyped
<1>9. results' \subseteq results
  BY <1>6
<1>10. stored' = stored \/ \E y \in Results \cup {NoResult} : stored' = stored \cup {<<q, y>>}
  BY <1>6
<1>11. EntryStep(t, q)
  BY <1>1, <1>2, <1>6, <1>7, <1>8, <1>9, <1>10, OutsideFields DEF EntryStep
<1>12. ASSUME c \notin overlapped
       PROVE  (Single(c) /\ Orderly(c))'
  <2>1. Single(c) /\ Orderly(c)
    BY <1>6, <1>12, LockFree
  <2>2. Polling(c)' = Polling(c) /\ \A u \in Polling(c) : at'[u] = at[u] /\ u \in Callers
    BY <1>1, <1>8, OutsideFields DEF Polling
  <2>3. PICK k : k = queries[q].command
    OBVIOUS
  <2>4. k # 0 /\ \A p \in Commands : queries[p].command = k => p = q
    BY <1>1, <1>3, <2>3, QueryOfCommand
  <2>5. EntryHolds(q)
    BY <1>3, <2>1 DEF Single
  <2>6. queries[q].state = "done" => x = <<k, 1>>
    BY <1>5, <2>3, <2>5 DEF EntryHolds
  <2>7. Single(c)'
    <3>1. ASSUME NEW u \in Polling(c)
          PROVE  PollHolds(u)'
      <4>1. PollHolds(u)
        BY <2>1, <3>1 DEF Single
      <4>2. at[u].query \in Commands /\ at'[u] = at[u]
        BY <1>1, <2>2, <3>1, QueryOf DEF Polling
      <4>3. /\ at[u].step \in {"complete", "fail"} => queries'[at[u].query].state \in {"pending", "cancelled"}
            /\ queries'[at[u].query].command = queries[at[u].query].command
        <5>1. CASE at[u].query = q
          BY <1>7, <4>1, <5>1 DEF PollHolds
        <5>2. CASE at[u].query # q
          BY <1>7, <4>1, <4>2, <5>2 DEF PollHolds
        <5> QED
          BY <5>1, <5>2
      <4> QED
        BY <1>9, <4>1, <4>2, <4>3 DEF PollHolds
    <3>2. ASSUME NEW p \in Commands, queries'[p].conn = c
          PROVE  EntryHolds(p)'
      <4>1. EntryHolds(p)
        BY <1>3, <1>7, <2>1, <3>2 DEF Single
      <4>2. CASE p = q
        <5>1. queries'[q].state = "done" => FALSE
          BY <1>7
        <5>2. \A r : <<q, r>> \in stored' => <<q, r>> \in stored \/ r = <<k, 1>>
          BY <1>6, <2>6
        <5> QED
          BY <1>7, <2>3, <2>5, <4>2, <5>1, <5>2 DEF EntryHolds
      <4>3. CASE p # q
        <5>1. queries'[p] = queries[p]
          BY <1>7, <4>3
        <5>2. \A r : <<p, r>> \in stored' => <<p, r>> \in stored
          BY <1>6, <4>3
        <5> QED
          BY <1>9, <4>1, <5>1, <5>2 DEF EntryHolds
      <4> QED
        BY <4>2, <4>3
    <3>3. ASSUME NEW r \in results', r[1] \in lib'[c].commands
          PROVE  ResultHolds(c, r)'
      <4>1. r \in results /\ r[1] \in lib[c].commands
        BY <1>6, <1>9, <3>3
      <4>2. ResultHolds(c, r)
        BY <2>1, <4>1 DEF Single
      <4>3. PICK p \in Commands :
               /\ queries[p].command = r[1]
               /\ \/ queries[p].state \in {"done", "cancelled"}
                  \/ \E u \in Polling(c) : at[u].step = "complete" /\ at[u].query = p
        BY <4>1, <4>2 DEF ResultHolds
      <4>4. ASSUME p = q, queries[q].state = "done"
            PROVE  FALSE
        <5>1. r \in Results /\ r[1] = k /\ r[2] = 1
          BY <1>1, <2>3, <4>1, <4>2, <4>3, <4>4 DEF PgTyped, ResultHolds
        <5>2. r = <<k, 1>>
          BY <5>1 DEF Results
        <5>3. ~queries[q].keeps => x \notin results
          BY <1>5, <2>5, <4>4 DEF EntryHolds
        <5> QED
          BY <1>6, <2>6, <3>3, <4>1, <4>4, <5>2, <5>3
      <4>5. /\ queries'[p].command = r[1]
            /\ \/ queries'[p].state \in {"done", "cancelled"}
               \/ \E u \in Polling(c) : at[u].step = "complete" /\ at[u].query = p
        <5>1. CASE p = q
          BY <1>7, <4>3, <4>4, <5>1
        <5>2. CASE p # q
          BY <1>7, <4>3, <5>2
        <5> QED
          BY <5>1, <5>2
      <4> QED
        BY <2>2, <4>1, <4>2, <4>5 DEF ResultHolds
    <3>4. \A r \in results' : ResultHolds(c, r)'
      BY <3>3 DEF ResultHolds
    <3> QED
      BY <2>1, <2>2, <3>1, <3>2, <3>4 DEF Single
  <2>8. Orderly(c)'
    <3>1. lib'[c] = lib[c]
      BY <1>6
    <3>2. \A p \in Commands : queries'[p].state = "pending" => queries'[p] = queries[p]
      BY <1>2, <1>7
    <3>3. \A p \in Commands : Reads(c, p) => Reads(c, p)'
      BY <2>2 DEF Reads
    <3>4. \A u \in Callers : (Sending(u) /\ at[u].conn = c)' =>
             Sending(u) /\ at[u].conn = c /\ at'[u].command = at[u].command
      BY <1>8, OutsideFields DEF Sending
    <3>5. \A p \in Commands : queries'[p].command = queries[p].command
      BY <1>7
    <3>6. \A u \in Polling(c)' : lib'[c].command = queries'[at'[u].query].command
      <4> SUFFICES ASSUME NEW u \in Polling(c)
                   PROVE  lib[c].command = queries'[at[u].query].command
        BY <2>2, <3>1
      <4>1. at[u].query \in Commands
        BY <1>1, QueryOf DEF Polling
      <4> QED
        BY <2>1, <3>5, <4>1 DEF Orderly
    <3>7. \A p \in Commands : queries'[p].conn = c /\ queries'[p].state \in {"done", "taken"} =>
             queries[p].conn = c /\ queries[p].state \in {"done", "taken"}
      <4> SUFFICES ASSUME NEW p \in Commands, queries'[p].conn = c,
                          queries'[p].state \in {"done", "taken"}
                   PROVE  queries[p].conn = c /\ queries[p].state \in {"done", "taken"}
        OBVIOUS
      <4>1. CASE p = q
        BY <1>7, <4>1
      <4>2. CASE p # q
        BY <1>7, <4>2
      <4> QED
        BY <4>1, <4>2
    <3> QED
      BY <2>1, <2>2, <3>1, <3>2, <3>3, <3>4, <3>5, <3>6, <3>7 DEF Orderly
  <2> QED
    BY <2>7, <2>8
<1>13. \A r \in Results : r \in results /\ r \notin results' => r[1] \in lib[c].commands
  <2> SUFFICES ASSUME NEW r \in Results, r \in results, r \notin results'
               PROVE  r[1] \in lib[c].commands
    OBVIOUS
  <2>1. r = queries[q].result
    BY <1>5, <1>6
  <2>2. QueryFits(q) /\ r # NoResult
    BY <1>1 DEF Frame, Results, Commands, NoResult
  <2> QED
    BY <1>2, <1>3, <2>1, <2>2 DEF QueryFits
<1>14. Frame'
  BY <1>11, EntryFrame
<1> QED
  BY <1>1, <1>3, <1>11, <1>12, <1>13, <1>14, EntryOthers

(* pg_cancel_async marks the entry; a thread that reads its answer goes    *)
(* on.                                                                     *)
LEMMA CancelInv ==
    ASSUME PgInv, NEW t \in Callers, NEW q \in Commands, CancelAsync(t, q)
    PROVE  PgInv'
<1>1. Frame /\ PgTyped /\ AtFits(t) /\ at[t].step = "out" /\ QueryFits(q)
  BY DEF PgInv, Frame, CancelAsync, IsOutside
<1>2. /\ queryLock = NoCaller /\ at' = at /\ InTable(q)
      /\ UNCHANGED <<connections, lib, next_command, next_query, queryLock, results, stored, overlapped>>
      /\ queries' = [queries EXCEPT ![q].state = "cancelled"]
  BY DEF CancelAsync
<1>3. q < next_query
  BY <1>1, <1>2 DEF QueryFits, InTable, Absent
<1>4. PICK c \in PgConns : queries[q].conn = c
  BY <1>1, <1>3 DEF QueryFits
<1>5. /\ queries' \in [Commands -> QueryRecs] /\ queries'[q].state = "cancelled"
      /\ queries'[q].conn = queries[q].conn /\ queries'[q].keeps = queries[q].keeps
      /\ queries'[q].command = queries[q].command /\ queries'[q].result = queries[q].result
      /\ \A p \in Commands \ {q} : queries'[p] = queries[p]
  BY <1>1, <1>2, StateChange DEF QueryStates
<1>6. /\ at' \in [Callers -> CallerRecs] /\ at'[t].command = 0
  BY <1>1, <1>2 DEF PgTyped, AtFits, Sending
<1>7. EntryStep(t, q)
  BY <1>1, <1>2, <1>3, <1>5, <1>6 DEF EntryStep
<1>8. ASSUME c \notin overlapped
      PROVE  (Single(c) /\ Orderly(c))'
  <2>1. Single(c) /\ Orderly(c)
    BY <1>2, <1>8, LockFree
  <2>2. Polling(c)' = Polling(c)
    BY <1>2 DEF Polling
  <2>3. \A u \in Polling(c) : at[u].query \in Commands
    BY <1>1, QueryOf DEF Polling
  <2>4. \A p \in Commands :
           /\ queries'[p].command = queries[p].command /\ queries'[p].conn = queries[p].conn
           /\ queries'[p] = queries[p] \/ (p = q /\ queries'[p].state = "cancelled")
    BY <1>5
  <2>5. Single(c)'
    <3>1. \A u \in Polling(c) : PollHolds(u)'
      BY <1>2, <2>1, <2>3, <2>4 DEF Single, PollHolds
    <3>2. \A p \in Commands : queries[p].conn = c => EntryHolds(p)'
      BY <1>2, <2>1, <2>4 DEF Single, EntryHolds
    <3>3. ASSUME NEW r \in results, r[1] \in lib[c].commands
          PROVE  ResultHolds(c, r)'
      <4>1. ResultHolds(c, r)
        BY <2>1 DEF Single
      <4>2. PICK p \in Commands :
               /\ queries[p].command = r[1]
               /\ \/ queries[p].state \in {"done", "cancelled"}
                  \/ \E u \in Polling(c) : at[u].step = "complete" /\ at[u].query = p
        BY <3>3, <4>1 DEF ResultHolds
      <4>3. /\ queries'[p].command = r[1]
            /\ \/ queries'[p].state \in {"done", "cancelled"}
               \/ \E u \in Polling(c) : at[u].step = "complete" /\ at[u].query = p
        BY <2>4, <4>2
      <4> QED
        BY <1>2, <2>2, <3>3, <4>1, <4>3 DEF ResultHolds
    <3>4. \A r \in results : ResultHolds(c, r)'
      BY <1>2, <3>3 DEF ResultHolds
    <3> QED
      BY <1>2, <2>1, <2>2, <2>4, <3>1, <3>2, <3>4 DEF Single
  <2>6. Orderly(c)'
    <3>1. \A p \in Commands : Reads(c, p)' <=> Reads(c, p)
      BY <1>2, <2>2 DEF Reads
    <3>2. \A p \in Commands : queries'[p].state \in {"pending", "done", "taken"} =>
             queries'[p] = queries[p]
      BY <2>4
    <3>3. \A u \in Callers : (Sending(u) /\ at[u].conn = c)' <=> (Sending(u) /\ at[u].conn = c)
      BY <1>2 DEF Sending
    <3>4. \A u \in Polling(c) : queries'[at[u].query].command = queries[at[u].query].command
      BY <2>3, <2>4
    <3> QED
      BY <1>2, <2>1, <2>2, <2>4, <3>1, <3>2, <3>3, <3>4 DEF Orderly
  <2> QED
    BY <2>5, <2>6
<1>9. Frame'
  BY <1>7, EntryFrame
<1>10. \A r \in Results : r \in results /\ r \notin results' => r[1] \in lib[c].commands
  BY <1>2
<1> QED
  BY <1>1, <1>4, <1>7, <1>8, <1>9, <1>10, EntryOthers

(* The invariant holds before the first call.                              *)
LEMMA PgInitInv == ASSUME PgInit PROVE PgInv
<1>1. Idle \in LibRecs /\ Idle.command = 0 /\ Idle.commands = {} /\ Idle.read = 0 /\ Idle.sent = 0
      /\ Idle.answer = <<>> /\ ~Idle.open /\ Len(Idle.answer) = 0
  BY DEF Idle, LibRecs
<1>2. Absent \in QueryRecs /\ Absent.state = "none" /\ Absent.command = 0
  BY DEF Absent, QueryRecs, QueryStates, NoResult
<1>3. PgTyped
  BY <1>1, <1>2, OutsideFields, PgAssumption DEF PgInit, PgTyped
<1>4. \A c \in PgConns : lib[c] = Idle
  BY DEF PgInit
<1>5. \A c \in PgConns : LibFits(c)
  BY <1>1, <1>4 DEF LibFits
<1>6. \A q \in Commands : QueryFits(q) /\ queries[q] = Absent
  BY DEF PgInit, QueryFits, Commands
<1>7. \A t \in Callers : at[t] = Outside /\ AtFits(t)
  BY OutsideFields DEF PgInit, AtFits, Sending
<1>8. DistinctCommands /\ Tracked /\ Recorded
  <2>1. DistinctCommands
    BY <1>7, OutsideFields DEF PgInit, DistinctCommands, Sending
  <2>2. Tracked
    BY <1>1, <1>4 DEF Tracked
  <2>3. Recorded
    BY DEF PgInit, Recorded
  <2> QED
    BY <2>1, <2>2, <2>3
<1>9. ASSUME NEW c \in PgConns
      PROVE  Single(c) /\ Orderly(c)
  <2>1. Polling(c) = {}
    BY <1>7, OutsideFields DEF Polling
  <2>2. Single(c)
    BY <1>2, <1>6, <2>1 DEF PgInit, Single, EntryHolds
  <2>3. \A q \in Commands : queries[q].state = "none"
    BY <1>2, <1>6
  <2>4. \A t \in Callers : ~Sending(t)
    BY <1>7, OutsideFields DEF Sending
  <2>5. Orderly(c)
    BY <2>1, <2>3, <2>4 DEF Orderly
  <2> QED
    BY <2>2, <2>5
<1> QED
  BY <1>3, <1>5, <1>6, <1>7, <1>8, <1>9 DEF PgInv, Frame

(* The invariant is about the variables of the module.                     *)
LEMMA PgStutter == ASSUME PgInv, UNCHANGED pgVars PROVE PgInv'
<1>1. Frame'
  BY DEF PgInv, Frame, pgVars, PgTyped, LibFits, QueryFits, AtFits, Sending, DistinctCommands,
         Tracked, Recorded
<1>2. \A c \in PgConns \ overlapped : Single(c)' /\ (Doomed(c) \/ Orderly(c))'
  BY DEF PgInv, pgVars, Single, Polling, PollHolds, EntryHolds, ResultHolds, Doomed, Orderly,
         Reads, Sending
<1> QED
  BY <1>1, <1>2 DEF PgInv, pgVars

(* Every step of a call, of the server and of the network keeps the        *)
(* invariant.                                                              *)
LEMMA PgNextInv == ASSUME PgInv, PgNext PROVE PgInv'
<1>1. ASSUME NEW t \in Callers, PgCall(t)
      PROVE  PgInv'
  <2>1. ASSUME NEW c \in PgConns, ConnectAsync(t, c) \/ DisconnectAsync(t, c)
        PROVE  PgInv'
    BY <2>1, ConnectInv, DisconnectInv
  <2>2. ASSUME NEW c \in PgConns, Begin(t, c, TRUE) \/ Begin(t, c, FALSE)
        PROVE  PgInv'
    <3>1. PICK keeps \in BOOLEAN : Begin(t, c, keeps)
      BY <2>2
    <3> QED
      BY <3>1, BeginInv
  <2>3. ASSUME NEW q \in Commands, Lookup(t, q, TRUE) \/ Lookup(t, q, FALSE)
        PROVE  PgInv'
    <3>1. PICK fetch \in BOOLEAN : Lookup(t, q, fetch)
      BY <2>3
    <3> QED
      BY <3>1, LookupInv
  <2>4. ASSUME NEW q \in Commands, CancelAsync(t, q)
        PROVE  PgInv'
    BY <2>4, CancelInv
  <2> QED
    BY <1>1, <2>1, <2>2, <2>3, <2>4 DEF PgCall, QueryAsync, ExecuteAsync, PrepareAsync,
       ExecutePreparedAsync, BeginAsync, CommitAsync, RollbackAsync, IsReady, GetAsyncResult
<1>2. ASSUME NEW t \in Callers, PgStep(t)
      PROVE  PgInv'
  BY <1>2, SendInv, FlushInv, RecordInv, FinishInv, ConsumeInv, GetInv, CompleteInv, FailInv,
     DrainInv, FetchInv DEF PgStep
<1>3. ASSUME NEW c \in PgConns, Answer(c) \/ Lose(c)
      PROVE  PgInv'
  BY <1>3, AnswerInv, LoseInv
<1> QED
  BY <1>1, <1>2, <1>3 DEF PgNext

(* The invariant implies what the runs check.                              *)
LEMMA PgInvSafe == ASSUME PgInv PROVE QueriesSafe
<1>1. /\ Frame /\ PgTyped /\ (\A c \in PgConns : LibFits(c)) /\ (\A q \in Commands : QueryFits(q))
      /\ Tracked /\ Recorded
  BY DEF PgInv, Frame
<1>2. PgTypeOK
  BY <1>1 DEF PgTypeOK, PgTyped, LibRecs, QueryRecs, QueryStates
<1>3. OwnResult
  BY DEF OwnResult, PgInv, Single, EntryHolds
<1>4. NotStuck
  <2> SUFFICES ASSUME NEW c \in PgConns \ overlapped, lib[c].open, lib[c].sound,
                      lib[c].command # 0, Polling(c) = {},
                      ~\E t \in Callers : at[t].conn = c /\ at[t].command = lib[c].command
               PROVE  \E q \in Commands : /\ queries[q].command = lib[c].command
                                          /\ queries[q].state \in
                                               {"pending", "failed", "reported", "cancelled"}
    BY DEF NotStuck, Attended
  <2>1. PICK q \in Commands : queries[q].command = lib[c].command
    BY <1>1 DEF Tracked
  <2>2. Orderly(c)
    BY DEF PgInv, Doomed
  <2>3. queries[q].conn = c
    <3>1. queries[q].command \in lib[c].commands
      BY <1>1, <2>1 DEF LibFits
    <3> QED
      BY <1>1, <3>1, QueryOfCommand
  <2>4. queries[q].state \notin {"done", "taken"}
    BY <2>1, <2>2, <2>3 DEF Orderly
  <2>5. queries[q].state # "none" /\ queries[q].state \in QueryStates
    <3>1. q < next_query
      BY <1>1, <2>1, CommandsSent
    <3> QED
      BY <1>1, <3>1 DEF QueryFits, PgTyped, QueryRecs
  <2> QED
    BY <2>1, <2>4, <2>5 DEF QueryStates
<1>5. NoResultLeaks
  <2> SUFFICES ASSUME NEW r \in results,
                      ~\E c \in overlapped : r[1] \in lib[c].commands
               PROVE  \/ \E t \in Callers : at[t].result = r /\ at[t].step = "complete"
                      \/ \E q \in Commands :
                            /\ queries[q].command = r[1]
                            /\ \/ queries[q].state = "cancelled"
                               \/ queries[q].state = "done" /\ queries[q].result = r
    BY DEF NoResultLeaks
  <2>1. PICK c \in PgConns \ overlapped : r[1] \in lib[c].commands
    BY <1>1 DEF Recorded
  <2>2. Single(c) /\ ResultHolds(c, r)
    BY <2>1 DEF PgInv, Single
  <2>3. r \in Results /\ r[2] = 1 /\ r = <<r[1], 1>>
    BY <1>1, <2>1, <2>2 DEF PgTyped, ResultHolds, Results
  <2>4. PICK q \in Commands :
           /\ queries[q].command = r[1]
           /\ \/ queries[q].state \in {"done", "cancelled"}
              \/ \E t \in Polling(c) : at[t].step = "complete" /\ at[t].query = q
    BY <2>1, <2>2 DEF ResultHolds
  <2>5. CASE queries[q].state = "done"
    <3>1. queries[q].conn = c
      BY <1>1, <2>1, <2>4, QueryOfCommand
    <3>2. EntryHolds(q)
      BY <2>2, <3>1 DEF Single
    <3> QED
      BY <2>3, <2>4, <2>5, <3>2 DEF EntryHolds
  <2>6. ASSUME NEW t \in Polling(c), at[t].step = "complete", at[t].query = q
        PROVE  at[t].result = r /\ t \in Callers
    BY <2>2, <2>3, <2>4, <2>6 DEF Single, PollHolds, Polling
  <2> QED
    BY <2>4, <2>5, <2>6
<1> QED
  BY <1>2, <1>3, <1>4, <1>5 DEF QueriesSafe

(* Asynchronous PostgreSQL queries, for any number of threads, connections *)
(* and commands and any answers: an entry is completed with the first      *)
(* result of its own command and that is what pg_get_async_result stores,  *)
(* a connection that refuses commands has its command tracked, and every   *)
(* result belongs to an entry or to a thread about to record it, except on *)
(* connections that two threads polled at the same time (pg_is_ready in    *)
(* host.rs drops the lock of the table before it completes the entry and   *)
(* drains the answer).                                                     *)
THEOREM QueriesAreSafe == PgSpec => []QueriesSafe
<1>1. PgInit => PgInv
  BY PgInitInv
<1>2. PgInv /\ [PgNext]_pgVars => PgInv'
  BY PgNextInv, PgStutter
<1>3. PgInv => QueriesSafe
  BY PgInvSafe
<1> QED
  BY <1>1, <1>2, <1>3, PTL DEF PgSpec

=============================================================================
