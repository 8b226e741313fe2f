------------------------------ MODULE PgAsync ------------------------------
(***************************************************************************)
(* The asynchronous PostgreSQL calls of the host, host.rs.  A command is   *)
(* sent on a connection and leaves an entry in the table of queries;       *)
(* is_ready polls the connection, completes the entry with the first       *)
(* result and then reads the remaining ones until the library says that    *)
(* there are no more; only then does libpq accept another command.  The    *)
(* table of queries is locked while is_ready looks at the connection, not  *)
(* while it completes the entry or reads the rest.                         *)
(*                                                                         *)
(* A call of arth_rt's postgres.rs is one step.  libpq is modelled by what *)
(* these calls see: the results of the command in flight, how many the     *)
(* server has sent and how many were read.  get_result waits for the       *)
(* server with the lock of all connections held; here it happens when the  *)
(* answer is there.  The names of prepared statements, which nothing       *)
(* reads, column names and error texts are left out.                       *)
(***************************************************************************)
EXTENDS Integers, Sequences

CONSTANTS
    Callers,       \* the threads that make the calls
    PgConns,       \* asynchronous connections
    MaxCommands,   \* bound on the commands that are sent
    Answers,       \* what a command may be answered: sequences of "ok" and "error"
    NoCaller

Commands == 1 .. MaxCommands
Results  == Commands \X {1, 2}     \* a result: its command, and its place in the answer
NoResult == <<0, 0>>

ASSUME PgAssumption ==
    /\ MaxCommands \in Nat
    /\ NoCaller \notin Callers \cup PgConns
    /\ \A a \in Answers : a \in Seq({"ok", "error"}) /\ a # <<>> /\ Len(a) <= 2

VARIABLES
    connections,   \* pg_async_connections: the handles in the table
    lib,           \* the connections of arth_rt and libpq
    queries,       \* pg_async_queries, by handle, and what became of removed entries
    next_command,  \* the next command, and how many were sent
    next_query,    \* the next query handle
    queryLock,     \* who has locked the table of queries
    at,            \* where each caller is
    results,       \* the results arth_rt holds
    stored,        \* pg_results: the query and the result it was made from
    overlapped     \* history: connections whose poll was entered while one was under way

pgVars == <<connections, lib, queries, next_command, next_query, queryLock, at, results,
            stored, overlapped>>

Outside == [step |-> "out", conn |-> NoCaller, query |-> 0, keeps |-> FALSE, fetch |-> FALSE,
            command |-> 0, result |-> NoResult]

\* A connection: the command in flight, and which ones were ever sent on it.
Idle == [open |-> FALSE, sound |-> TRUE, command |-> 0, answer |-> <<>>, sent |-> 0, read |-> 0,
         commands |-> {}]

Absent == [state |-> "none", conn |-> NoCaller, keeps |-> FALSE, command |-> 0,
           result |-> NoResult]

PgInit ==
    /\ connections = {}
    /\ lib = [c \in PgConns |-> Idle]
    /\ queries = [q \in Commands |-> Absent]
    /\ next_command = 1
    /\ next_query = 1
    /\ queryLock = NoCaller
    /\ at = [t \in Callers |-> Outside]
    /\ results = {}
    /\ stored = {}
    /\ overlapped = {}

-----------------------------------------------------------------------------
(* arth_rt and libpq.                                                      *)

\* Every result was read and the server is ready for the next command.
Answered(c) == lib[c].read = Len(lib[c].answer) /\ lib[c].sent > lib[c].read

\* PQisBusy: reading on would have to wait for the server.
IsBusy(c) == lib[c].command # 0 /\ lib[c].sent = lib[c].read

\* libpq accepts a command only when the previous one is over.
CanSend(c) == lib[c].open /\ lib[c].sound /\ lib[c].command = 0

Ended(c) == [lib EXCEPT ![c].command = 0]

\* PQgetResult: what it returns, and the connection after it.
NextResult(c) ==
    IF ~lib[c].open THEN "invalid"
    ELSE IF lib[c].command = 0 \/ Answered(c) THEN "none"
    ELSE lib[c].answer[lib[c].read + 1]

AfterResult(c) ==
    IF NextResult(c) = "invalid" THEN lib
    ELSE IF NextResult(c) = "none" THEN Ended(c)
    ELSE [lib EXCEPT ![c].read = @ + 1]

\* The server sends the next result, and at the end that it is ready.
Answer(c) ==
    /\ lib[c].open /\ lib[c].sound /\ lib[c].command # 0
    /\ lib[c].sent <= Len(lib[c].answer)
    /\ lib' = [lib EXCEPT ![c].sent = @ + 1]
    /\ UNCHANGED <<connections, queries, next_command, next_query, queryLock, at, results,
                   stored, overlapped>>

\* The connection breaks: libpq ends the command in flight with an error.
Lose(c) ==
    LET arrived == SubSeq(lib[c].answer, 1, lib[c].sent)
    IN  /\ lib[c].open /\ lib[c].sound
        /\ lib' = [lib EXCEPT ![c].sound = FALSE,
                              ![c].answer = IF lib[c].sent > Len(@) THEN @
                                            ELSE Append(arrived, "error"),
                              ![c].sent = IF @ > Len(lib[c].answer) THEN @ ELSE @ + 2]
        /\ UNCHANGED <<connections, queries, next_command, next_query, queryLock, at, results,
                       stored, overlapped>>

-----------------------------------------------------------------------------
(* Connections.                                                            *)

IsOutside(t) == at[t].step = "out"

Returns(t) == at' = [at EXCEPT ![t] = Outside]

ConnectAsync(t, c) ==
    /\ IsOutside(t) /\ lib[c] = Idle
    /\ lib' = [lib EXCEPT ![c].open = TRUE]
    /\ connections' = connections \cup {c}
    /\ UNCHANGED <<queries, next_command, next_query, queryLock, at, results, stored,
                   overlapped>>

\* Queries on the connection stay in their table.
DisconnectAsync(t, c) ==
    /\ IsOutside(t) /\ c \in connections
    /\ connections' = connections \ {c}
    /\ at' = [at EXCEPT ![t] = [Outside EXCEPT !.step = "finish", !.conn = c]]
    /\ UNCHANGED <<lib, queries, next_command, next_query, queryLock, results, stored,
                   overlapped>>

Finish(t) ==
    /\ at[t].step = "finish"
    /\ lib' = [lib EXCEPT ![at[t].conn].open = FALSE]
    /\ Returns(t)
    /\ UNCHANGED <<connections, queries, next_command, next_query, queryLock, results, stored,
                   overlapped>>

-----------------------------------------------------------------------------
(* Sending a command.                                                      *)

\* The connection is looked up; keeps: the rows of the result are kept.
Begin(t, c, keeps) ==
    /\ IsOutside(t) /\ c \in connections
    /\ at' = [at EXCEPT ![t] = [Outside EXCEPT !.step = "send", !.conn = c, !.keeps = keeps]]
    /\ UNCHANGED <<connections, lib, queries, next_command, next_query, queryLock, results,
                   stored, overlapped>>

QueryAsync(t, c) == Begin(t, c, TRUE)
ExecuteAsync(t, c) == Begin(t, c, FALSE)
PrepareAsync(t, c) == Begin(t, c, FALSE)
ExecutePreparedAsync(t, c) == Begin(t, c, TRUE)
BeginAsync(t, c) == Begin(t, c, FALSE)
CommitAsync(t, c) == Begin(t, c, FALSE)
RollbackAsync(t, c) == Begin(t, c, FALSE)

Send(t) ==
    LET c == at[t].conn
    IN  /\ at[t].step = "send"
        /\ \/ /\ CanSend(c)
              /\ next_command <= MaxCommands
              /\ \E a \in Answers :
                    lib' = [lib EXCEPT ![c] = [@ EXCEPT !.command = next_command, !.answer = a,
                                                        !.sent = 0, !.read = 0,
                                                        !.commands = lib[c].commands \cup {next_command}]]
              /\ next_command' = next_command + 1
              /\ at' = [at EXCEPT ![t].step = "flush", ![t].command = next_command]
           \/ /\ ~CanSend(c)
              /\ Returns(t)
              /\ UNCHANGED <<lib, next_command>>
        /\ UNCHANGED <<connections, queries, next_query, queryLock, results, stored, overlapped>>

Flush(t) ==
    LET c == at[t].conn
    IN  /\ at[t].step = "flush"
        /\ IF lib[c].open /\ lib[c].sound
           THEN at' = [at EXCEPT ![t].step = "record"]
           ELSE Returns(t)
        /\ UNCHANGED <<connections, lib, queries, next_command, next_query, queryLock, results,
                       stored, overlapped>>

Record(t) ==
    /\ at[t].step = "record" /\ queryLock = NoCaller
    /\ queries' = [queries EXCEPT ![next_query] =
                      [state |-> "pending", conn |-> at[t].conn, keeps |-> at[t].keeps,
                       command |-> at[t].command, result |-> NoResult]]
    /\ next_query' = next_query + 1
    /\ Returns(t)
    /\ UNCHANGED <<connections, lib, next_command, queryLock, results, stored, overlapped>>

-----------------------------------------------------------------------------
(* Polling.                                                                *)

InTable(q) == queries[q].state \in {"pending", "done", "failed"}

\* Mutant: an entry that is completed is polled again.
Mut_Polled(q) == InTable(q)

\* Only a pending entry is polled, the others are ready.
Polled(q) == queries[q].state = "pending"

\* is_ready returns true: a caller of get_async_result goes on.
Ready(t) ==
    IF at[t].fetch THEN at' = [at EXCEPT ![t].step = "fetch", ![t].result = NoResult]
    ELSE Returns(t)

\* is_ready looks the query and its connection up.
Lookup(t, q, fetch) ==
    LET entered == [Outside EXCEPT !.query = q, !.fetch = fetch]
    IN  /\ IsOutside(t) /\ InTable(q) /\ queryLock = NoCaller
        /\ IF Polled(q)
           THEN /\ queries[q].conn \in connections
                /\ queryLock' = t
                /\ at' = [at EXCEPT ![t] = [entered EXCEPT !.step = "busy",
                             !.conn = queries[q].conn, !.keeps = queries[q].keeps]]
           ELSE /\ fetch
                /\ UNCHANGED queryLock
                /\ at' = [at EXCEPT ![t] = [entered EXCEPT !.step = "fetch"]]
        /\ UNCHANGED <<connections, lib, queries, next_command, next_query, results, stored,
                       overlapped>>

IsReady(t, q) == Lookup(t, q, FALSE)

GetAsyncResult(t, q) == Lookup(t, q, TRUE)

\* consume_input fails on a broken connection; a closed one is neither broken nor busy.
ConsumeAndCheck(t) ==
    LET c == at[t].conn
    IN  /\ at[t].step = "busy"
        /\ IF lib[c].open /\ (~lib[c].sound \/ IsBusy(c))
           THEN queryLock' = NoCaller /\ Returns(t) /\ UNCHANGED lib
           ELSE /\ UNCHANGED queryLock
                /\ at' = [at EXCEPT ![t].step = "get"]
                /\ lib' = IF Answered(c) THEN Ended(c) ELSE lib
        /\ UNCHANGED <<connections, queries, next_command, next_query, results, stored,
                       overlapped>>

Polling(c) ==
    {t \in Callers : at[t].conn = c /\ at[t].step \in {"complete", "fail", "drain"}}

\* The first result is read with the table locked; then the lock is dropped.
GetResult(t) ==
    LET c == at[t].conn
        r == NextResult(c)
    IN  /\ at[t].step = "get"
        /\ lib[c].open => ~IsBusy(c)
        /\ lib' = AfterResult(c)
        /\ queryLock' = NoCaller
        /\ IF r = "ok"
           THEN LET result == <<lib[c].command, lib[c].read + 1>>
                IN  /\ results' = results \cup {result}
                    /\ at' = [at EXCEPT ![t].step = "complete", ![t].result = result]
           ELSE /\ UNCHANGED results
                /\ at' = [at EXCEPT ![t].step = IF r = "none" THEN "complete" ELSE "fail"]
        /\ overlapped' = IF Polling(c) # {} THEN overlapped \cup {c} ELSE overlapped
        /\ UNCHANGED <<connections, queries, next_command, next_query, stored>>

\* Results of commands that return no rows are cleared at once.
ResultsAfter(t) == IF at[t].keeps THEN results ELSE results \ {at[t].result}

\* complete_async_query_helper puts the entry back even if it was removed meanwhile.
Complete(t) ==
    LET q == at[t].query
    IN  /\ at[t].step = "complete" /\ queryLock = NoCaller
        /\ queries' = [queries EXCEPT ![q].state = "done", ![q].result = at[t].result]
        /\ results' = ResultsAfter(t)
        /\ IF at[t].result = NoResult THEN Ready(t)
           ELSE at' = [at EXCEPT ![t].step = "drain"]
        /\ UNCHANGED <<connections, lib, next_command, next_query, queryLock, stored, overlapped>>

\* fail_async_query_helper: what is left of the answer stays unread.
Fail(t) ==
    /\ at[t].step = "fail" /\ queryLock = NoCaller
    /\ queries' = [queries EXCEPT ![at[t].query].state = "failed"]
    /\ Ready(t)
    /\ UNCHANGED <<connections, lib, next_command, next_query, queryLock, results, stored,
                   overlapped>>

\* There are no more results.
Drained(c) == NextResult(c) = "none"

\* The loop that reads and clears the remaining results, errors included.  It
\* never ends on a connection that was closed meanwhile.
Drain(t) ==
    LET c == at[t].conn
    IN  /\ at[t].step = "drain"
        /\ lib[c].open /\ ~IsBusy(c)
        /\ lib' = AfterResult(c)
        /\ IF Drained(c) THEN Ready(t) ELSE UNCHANGED at
        /\ UNCHANGED <<connections, queries, next_command, next_query, queryLock, results,
                       stored, overlapped>>

\* The entry leaves the table; its result is cleared and a description is stored.
Fetch(t) ==
    LET q == at[t].query
    IN  /\ at[t].step = "fetch" /\ queryLock = NoCaller
        /\ IF queries[q].state = "done"
           THEN /\ stored' = stored \cup {<<q, queries[q].result>>}
                /\ results' = IF queries[q].keeps THEN results \ {queries[q].result} ELSE results
                /\ queries' = [queries EXCEPT ![q].state = "taken"]
           ELSE /\ UNCHANGED <<stored, results>>
                /\ queries' = IF InTable(q) THEN [queries EXCEPT ![q].state = "reported"]
                              ELSE queries
        /\ Returns(t)
        /\ UNCHANGED <<connections, lib, next_command, next_query, queryLock, overlapped>>

\* cancel forgets the entry: the command goes on and its result stays.
CancelAsync(t, q) ==
    /\ IsOutside(t) /\ InTable(q) /\ queryLock = NoCaller
    /\ queries' = [queries EXCEPT ![q].state = "cancelled"]
    /\ UNCHANGED <<connections, lib, next_command, next_query, queryLock, at, results, stored,
                   overlapped>>

-----------------------------------------------------------------------------

PgCall(t) ==
    \/ \E c \in PgConns :
          \/ ConnectAsync(t, c) \/ DisconnectAsync(t, c)
          \/ QueryAsync(t, c) \/ ExecutePreparedAsync(t, c)
          \/ ExecuteAsync(t, c) \/ PrepareAsync(t, c)
          \/ BeginAsync(t, c) \/ CommitAsync(t, c) \/ RollbackAsync(t, c)
    \/ \E q \in Commands : IsReady(t, q) \/ GetAsyncResult(t, q) \/ CancelAsync(t, q)

PgStep(t) ==
    \/ Send(t) \/ Flush(t) \/ Record(t) \/ Finish(t)
    \/ ConsumeAndCheck(t) \/ GetResult(t) \/ Complete(t) \/ Fail(t) \/ Drain(t) \/ Fetch(t)

PgNext ==
    \/ \E t \in Callers : PgCall(t) \/ PgStep(t)
    \/ \E c \in PgConns : Answer(c) \/ Lose(c)

PgSpec == PgInit /\ [][PgNext]_pgVars

-----------------------------------------------------------------------------
(* Properties.                                                             *)

PgTypeOK ==
    /\ connections \subseteq PgConns
    /\ lib \in [PgConns -> [open : BOOLEAN, sound : BOOLEAN, command : Commands \cup {0},
                            answer : Seq({"ok", "error"}), sent : 0 .. 4, read : 0 .. 3,
                            commands : SUBSET Commands]]
    /\ queries \in [Commands ->
          [state : {"none", "pending", "done", "failed", "taken", "reported", "cancelled"},
           conn : PgConns \cup {NoCaller}, keeps : BOOLEAN, command : Commands \cup {0},
           result : Results \cup {NoResult}]]
    /\ next_command \in 1 .. MaxCommands + 1
    /\ next_query \in 1 .. next_command
    /\ queryLock \in Callers \cup {NoCaller}
    /\ queryLock # NoCaller => at[queryLock].step \in {"busy", "get"}
    /\ results \subseteq Results
    /\ stored \subseteq Commands \X (Results \cup {NoResult})
    /\ overlapped \subseteq PgConns

(* A query is completed with the first result of its own command, and that  *)
(* is what get_async_result hands out, unless two threads polled the        *)
(* connection at the same time.                                             *)
OwnResult ==
    \A q \in Commands :
        queries[q].conn \in PgConns \ overlapped =>
            /\ queries[q].state = "done" => queries[q].result = <<queries[q].command, 1>>
            /\ \A r \in Results \cup {NoResult} :
                  <<q, r>> \in stored => r = <<queries[q].command, 1>>

\* The caller that has sent the command in flight, or reads its answer.
Attended(c) ==
    \/ \E t \in Callers : at[t].conn = c /\ at[t].command = lib[c].command
    \/ Polling(c) # {}
    \/ \E q \in Commands : /\ queries[q].command = lib[c].command
                           /\ queries[q].state \in {"pending", "failed", "reported", "cancelled"}

(* A connection refuses commands only while a command is being answered: its *)
(* query is pending or a thread is reading the answer.  It stays unusable    *)
(* after a command that failed or was cancelled, whose answer nobody reads.  *)
NotStuck ==
    \A c \in PgConns \ overlapped :
        lib[c].open /\ lib[c].sound /\ lib[c].command # 0 => Attended(c)

(* Every result that arth_rt holds will be cleared: it belongs to an entry   *)
(* or a thread is about to record it, unless its query was cancelled or two  *)
(* threads polled the connection it came from at the same time.              *)
NoResultLeaks ==
    \A r \in results :
        \/ \E t \in Callers : at[t].result = r /\ at[t].step = "complete"
        \/ \E q \in Commands : /\ queries[q].command = r[1]
                               /\ \/ queries[q].state = "cancelled"
                                  \/ queries[q].state = "done" /\ queries[q].result = r
        \/ \E c \in overlapped : r[1] \in lib[c].commands

(* Asynchronous queries (pg_query_async, pg_is_ready, pg_get_async_result): *)
(* each gets its own result, no connection is left busy by one, and no      *)
(* result is left behind, with the exceptions the parts name.               *)
QueriesSafe == PgTypeOK /\ OwnResult /\ NotStuck /\ NoResultLeaks

=============================================================================
