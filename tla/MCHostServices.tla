--------------------------- MODULE MCHostServices ---------------------------
(* Small instances of the host's database pools, asynchronous PostgreSQL     *)
(* calls, mail sessions and servers.  They share no state: a behaviour is    *)
(* one of them, chosen at the start.                                         *)
EXTENDS DbPool, PgAsync, MailSessions, WebServers

CONSTANT WsClient    \* the first client

VARIABLE part

serviceVars == <<part, vars, pgVars, mailVars, webVars>>

\* A pool that is contended, closed and misused, or used for transactions.
MCPrograms == {{"close"}, {"close", "timeout"}, {"fail"}, {"fail", "untested"},
               {"stray"}, {"tx"}}

\* A statement that fails, alone or after one that succeeds.
MCAnswers == {<<"ok", "error">>, <<"error">>}

\* A message needs four calls of a raw session before its text.
MCMaxCalls == [p \in Protocols |-> IF p = "raw" THEN 4 ELSE 2]

\* A WebSocket client alone, or an SSE and an HTTP client.
MCRoles ==
    {[c \in WebClients |-> IF c = WsClient THEN "ws" ELSE "none"],
     [c \in WebClients |-> IF c = WsClient THEN "sse" ELSE "http"]}

\* A request that is refused, and one that is not: a ping and a close follow it.
Request(r) == <<Piece(r, "request", 0)>>
Frame(op, n) == <<Piece(op, "head", n), Piece(op, "payload", n)>>

MCScripts ==
    [k \in ServerKinds \cup {"none"} |->
        CASE k = "none" -> {<<>>}
          [] k = "ws" -> {Request("bad"), Request("good") \o Frame("ping", 1) \o Frame("close", 2)}
          [] OTHER -> {Request("bad"), Request("good")}]

APool == kind = "sqlite" /\ ops = {"tx"} /\ Init
APost == protocol = "pop3" /\ MailInit
AWeb  == /\ role = [c \in WebClients |-> "none"] /\ script = [c \in WebClients |-> <<>>]
         /\ WebIdle

PoolPart == part = "pool" /\ UNCHANGED <<part, pgVars, mailVars, webVars>>
WebPart  == part = "web" /\ UNCHANGED <<part, vars, pgVars, mailVars>>
MailPart == part = "mail" /\ UNCHANGED <<part, vars, pgVars, webVars>>

\* A connection breaks, or is closed, or its first query of two is cancelled.
Cancelled == {q \in Commands : queries[q].state = "cancelled"}

PgParts == {"broken", "closed", "cancelled"}

PgPart(A) ==
    /\ part \in PgParts
    /\ A
    /\ part # "broken" => \A c \in PgConns : lib'[c].sound
    /\ part # "closed" => connections \subseteq connections'
    /\ IF part = "cancelled" THEN Cancelled' \subseteq {1}
                             ELSE Cancelled' = {} /\ next_command' <= 2
    /\ UNCHANGED <<part, vars, mailVars, webVars>>

ServiceInit ==
    \/ part = "pool" /\ Init /\ PgInit /\ APost /\ AWeb
    \/ part \in PgParts /\ APool /\ PgInit /\ APost /\ AWeb
    \/ part = "mail" /\ APool /\ PgInit /\ MailInit /\ AWeb
    \/ part = "web" /\ APool /\ PgInit /\ APost /\ WebInit

ServiceNext ==
    \/ PoolPart /\ Next
    \/ PgPart(PgNext)
    \/ MailPart /\ MailNext
    \/ WebPart /\ WebNext

ServiceSpec == ServiceInit /\ [][ServiceNext]_serviceVars
=============================================================================
