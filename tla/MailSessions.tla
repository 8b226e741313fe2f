---------------------------- MODULE MailSessions ----------------------------
(***************************************************************************)
(* The mail clients of the host, host.rs: SMTP, IMAP and POP3 sessions.    *)
(* The connections of a protocol are in one table; a call locks the table, *)
(* writes a line, reads the reply and returns, and some calls do this      *)
(* several times.  smtp_send_message is a sequence of other calls and      *)
(* holds the lock only inside each.  A reader is created for every reply:  *)
(* whatever else it has taken from the socket is dropped with it.          *)
(*                                                                         *)
(* One connection of one protocol, and a server that follows the protocol  *)
(* and accepts or refuses what it likes.  A line is sent and arrives as a  *)
(* whole and a multi-line SMTP reply is one line.  What the lines say is   *)
(* left out, with what only describes the server to the program (capabi-   *)
(* lities, folders, the last response).                                    *)
(***************************************************************************)
EXTENDS Integers, Sequences

CONSTANTS
    MailCallers,   \* the threads that use the connection
    Protocols,     \* the sessions considered: "smtp", "raw", "imap" and "pop3"
    MaxCalls,      \* bound on the calls that are made, for each protocol
    Nobody

ASSUME MailAssumption ==
    /\ Protocols \subseteq {"smtp", "raw", "imap", "pop3"}
    /\ MaxCalls \in [Protocols -> Nat] /\ Nobody \notin MailCallers

VARIABLES
    protocol,
    inTable,      \* the connection is in its table
    tableLock,    \* who has locked the table
    caller,       \* the steps that are left of each thread's call, and where it is
    toServer,     \* lines the server has not read
    toClient,     \* lines that have not arrived
    inbox,        \* lines that have arrived and were not read
    server,       \* the server's side of the session
    ended,        \* the server has closed the connection
    lines,        \* how many lines were written: their names
    calls,        \* how many calls were made
    delivered,    \* the mail the server has accepted
    odd,          \* history: what happened that upsets a session
    mistaken      \* history: a caller took the reply to another line for its own

mailVars == <<protocol, inTable, tableLock, caller, toServer, toClient, inbox, server, ended,
              lines, calls, delivered, odd, mistaken>>
clientVars == <<inTable, tableLock, caller, lines, calls, mistaken>>
wireVars   == <<toServer, toClient, inbox>>

\* One exchange of a call: the line, and the reply it goes on with.  The codes
\* SMTP distinguishes: 2xx "ok", 235 "granted", 334 "more" and 354 "input".
Step(verb, want) == [verb |-> verb, want |-> want]

NoCall == [todo |-> <<>>, holds |-> FALSE, phase |-> "out", line |-> 0]

NoMail == [from |-> Nobody, to |-> <<>>, text |-> {}]

MailInit ==
    /\ protocol \in Protocols
    /\ inTable = FALSE
    /\ tableLock = Nobody
    /\ caller = [t \in MailCallers |-> NoCall]
    /\ toServer = <<>> /\ toClient = <<>> /\ inbox = <<>>
    /\ server = [mode |-> "greeting", asks |-> 0, line |-> 0, mail |-> NoMail]
    /\ ended = FALSE
    /\ lines = 0
    /\ calls = 0
    /\ delivered = {}
    /\ odd = {}
    /\ mistaken = FALSE

-----------------------------------------------------------------------------
(* The server.                                                             *)

Reply(kind, line) == [kind |-> kind, line |-> line]

Verdicts == {"ok", "no"}

\* What the server may answer to a line it reads as a command, and its state then.
SmtpAnswers(h) ==
    LET mail   == server.mail
        stay(k) == [reply |-> <<k>>, next |-> server]
        keep(m) == [reply |-> <<"ok">>, next |-> [server EXCEPT !.mail = m]]
        ask(n)  == [reply |-> <<"more">>,
                    next |-> [server EXCEPT !.mode = "auth", !.asks = n, !.line = h.line]]
    IN  CASE h.verb = "MAIL" -> {stay("no")} \cup
                (IF mail = NoMail THEN {keep([NoMail EXCEPT !.from = h.by])} ELSE {})
          [] h.verb = "RCPT" -> {stay("no")} \cup
                (IF mail = NoMail THEN {} ELSE {keep([mail EXCEPT !.to = Append(@, h.by)])})
          [] h.verb = "DATA" -> {stay("no")} \cup
                (IF mail.to = <<>> THEN {}
                 ELSE {[reply |-> <<"input">>, next |-> [server EXCEPT !.mode = "data"]]})
          [] h.verb = "RSET" -> {keep(NoMail)}
          [] h.verb \in {"BODY", "END", "RESPONSE"} -> {stay("no")}
          [] h.verb = "AUTH LOGIN" -> {stay("no"), ask(2)}
          [] h.verb = "AUTH PLAIN" -> {stay("granted"), stay("no"), ask(1)}
          [] OTHER -> {stay("ok"), stay("no")}

ImapAnswers(h) ==
    LET stay(r) == [reply |-> r, next |-> server]
        enter(m) == [reply |-> <<"more">>, next |-> [server EXCEPT !.mode = m, !.asks = 1,
                                                                 !.line = h.line]]
    IN  {stay(<<"ok">>), stay(<<"no">>)} \cup
        (CASE h.verb = "AUTHENTICATE" -> {enter("auth")}
           [] h.verb = "IDLE" -> {enter("idle")}
           [] h.verb = "FETCH" -> {stay(<<"literal", "ok">>)}
           [] OTHER -> {})

Pop3Answers(h) ==
    {[reply |-> r, next |-> server] :
        r \in IF h.verb = "LIST" THEN {<<"ok", "listed">>, <<"no">>}
              ELSE {<<"ok">>, <<"no">>}}

ServerAnswers(h) ==
    CASE server.mode = "data" /\ h.verb = "END" ->
            {[reply |-> <<k>>, next |-> [server EXCEPT !.mode = "command", !.mail = NoMail]] :
                k \in Verdicts}
      [] server.mode = "data" ->
            {[reply |-> <<>>, next |-> [server EXCEPT !.mail.text = @ \cup {<<h.verb, h.by>>}]]}
      [] server.mode = "auth" /\ server.asks > 1 ->
            {[reply |-> <<"more">>, next |-> [server EXCEPT !.asks = @ - 1]]}
      [] server.mode \in {"auth", "idle"} ->
            {[reply |-> <<k>>, next |-> [server EXCEPT !.mode = "command"]] :
                k \in IF protocol = "imap" THEN Verdicts ELSE {"granted", "no"}}
      [] OTHER -> CASE protocol = "imap" -> ImapAnswers(h)
                    [] protocol = "pop3" -> Pop3Answers(h)
                    [] OTHER -> SmtpAnswers(h)

\* An IMAP reply carries the tag of the command, the others carry nothing.
Serve ==
    LET h == Head(toServer)
        tag == IF protocol = "imap" /\ server.mode \in {"auth", "idle"} THEN server.line
               ELSE h.line
    IN  /\ toServer # <<>> /\ ~ended
        /\ toServer' = Tail(toServer)
        /\ \E a \in ServerAnswers(h) :
              /\ server' = a.next
              /\ toClient' = toClient \o [i \in DOMAIN a.reply |-> Reply(a.reply[i], tag)]
              /\ ended' = (/\ server.mode = "command" /\ h.verb = "QUIT"
                           /\ a.reply = <<"ok">>)
              /\ delivered' = IF server.mode = "data" /\ h.verb = "END" /\ a.reply = <<"ok">>
                              THEN delivered \cup {server.mail} ELSE delivered
        /\ UNCHANGED <<protocol, clientVars, inbox, odd>>

Arrive ==
    /\ toClient # <<>>
    /\ inbox' = Append(inbox, Head(toClient))
    /\ toClient' = Tail(toClient)
    /\ UNCHANGED <<protocol, clientVars, toServer, server, ended, delivered, odd>>

\* An IMAP server tells of new mail when it likes.
Event ==
    /\ protocol = "imap" /\ inTable /\ ~ended /\ "event" \notin odd
    /\ odd' = odd \cup {"event"}
    /\ toClient' = Append(toClient, Reply("event", 0))
    /\ UNCHANGED <<protocol, clientVars, toServer, inbox, server, ended, delivered>>

HangUp ==
    /\ inTable /\ ~ended
    /\ ended' = TRUE
    /\ UNCHANGED <<protocol, clientVars, wireVars, server, delivered, odd>>

-----------------------------------------------------------------------------
(* Calls.                                                                  *)

\* The socket is connected and the greeting accepted, or nothing remains of it.
Connected(t, p) ==
    /\ protocol \in p
    /\ caller[t] = NoCall /\ server.mode = "greeting"
    /\ inTable' = TRUE
    /\ server' = [server EXCEPT !.mode = "command"]
    /\ UNCHANGED <<protocol, tableLock, caller, wireVars, ended, lines, calls, delivered, odd,
                   mistaken>>

SmtpConnect(t) == Connected(t, {"smtp", "raw"})
ImapConnect(t) == Connected(t, {"imap"})
Pop3Connect(t) == Connected(t, {"pop3"})

\* holds: the table stays locked from the first step to the last.
Call(t, p, steps, holds) ==
    /\ protocol \in p /\ inTable
    /\ caller[t] = NoCall /\ calls < MaxCalls[protocol]
    /\ calls' = calls + 1
    /\ caller' = [caller EXCEPT ![t] = [todo |-> steps, holds |-> holds, phase |-> "lock",
                                        line |-> 0]]
    /\ UNCHANGED <<protocol, inTable, tableLock, wireVars, server, ended, lines, delivered, odd,
                   mistaken>>

Smtp == {"smtp", "raw"}

SmtpStartTls(t) == Call(t, {"smtp"}, <<Step("STARTTLS", "ok")>>, TRUE)
SmtpAuth(t) ==
    \/ Call(t, {"smtp"}, <<Step("AUTH PLAIN", "granted")>>, TRUE)
    \/ Call(t, {"smtp"}, <<Step("AUTH LOGIN", "more"), Step("RESPONSE", "more"),
                           Step("RESPONSE", "granted")>>, TRUE)
SmtpEhlo(t) == Call(t, {"smtp"}, <<Step("EHLO", "ok or next"), Step("HELO", "ok")>>, TRUE)
SmtpQuit(t) == Call(t, {"smtp"}, <<Step("QUIT", "ok")>>, TRUE)
SmtpNoop(t) == Call(t, Smtp, <<Step("NOOP", "ok")>>, TRUE)
SmtpReset(t) == Call(t, {"smtp"}, <<Step("RSET", "ok")>>, TRUE)

MailFrom == Step("MAIL", "ok")
RcptTo   == Step("RCPT", "ok")
Data     == Step("DATA", "input")
SendData == Step("BODY", "nothing")
EndData  == Step("END", "ok")

\* The steps of a message as calls of their own: a session of this kind is "raw".
SmtpMailFrom(t) == Call(t, {"raw"}, <<MailFrom>>, TRUE)
SmtpRcptTo(t) == Call(t, {"raw"}, <<RcptTo>>, TRUE)
SmtpData(t) == Call(t, {"raw"}, <<Data>>, TRUE)
SmtpSendData(t) == Call(t, {"raw"}, <<SendData>>, TRUE)
SmtpEndData(t) == Call(t, {"raw"}, <<EndData>>, TRUE)
SmtpReadResponse(t) == Call(t, {"raw"}, <<Step("", "ok")>>, TRUE)

\* Two recipients.
SmtpSendMessage(t) ==
    Call(t, {"smtp"}, <<MailFrom, RcptTo, RcptTo, Data, SendData, EndData>>, FALSE)

\* A command that is one line and one reply, and changes nothing else here.
Plain(t, p) == Call(t, {p}, <<Step("PLAIN", "ok")>>, TRUE)

ImapStartTls(t) == Call(t, {"imap"}, <<Step("STARTTLS", "ok")>>, TRUE)
ImapAuth(t) == Call(t, {"imap"}, <<Step("LOGIN", "ok")>>, TRUE)
ImapAuthOauth(t) == Call(t, {"imap"}, <<Step("AUTHENTICATE", "ok")>>, TRUE)
ImapLogout(t) == Call(t, {"imap"}, <<Step("QUIT", "ok")>>, TRUE)
ImapNoop(t) == Plain(t, "imap")
ImapCapability(t) == Plain(t, "imap")
ImapSelect(t) == Plain(t, "imap")
ImapExamine(t) == Plain(t, "imap")
ImapList(t) == Plain(t, "imap")
ImapSearch(t) == Plain(t, "imap")
ImapStore(t) == Plain(t, "imap")
ImapExpunge(t) == Plain(t, "imap")
ImapFetch(t) == Call(t, {"imap"}, <<Step("FETCH", "ok")>>, TRUE)
ImapIdle(t) == Call(t, {"imap"}, <<Step("IDLE", "more"), Step("DONE", "ok")>>, TRUE)

Pop3StartTls(t) == Call(t, {"pop3"}, <<Step("STARTTLS", "ok")>>, TRUE)
Pop3Auth(t) == Call(t, {"pop3"}, <<Step("USER", "ok"), Step("PASS", "ok")>>, TRUE)
Pop3Quit(t) == Call(t, {"pop3"}, <<Step("QUIT", "ok")>>, TRUE)
Pop3Stat(t) == Plain(t, "pop3")
Pop3Dele(t) == Plain(t, "pop3")
Pop3Reset(t) == Plain(t, "pop3")
\* The listing is read with a reader of its own.
Listing(t) == Call(t, {"pop3"}, <<Step("LIST", "ok"), Step("", "listed")>>, TRUE)
Pop3List(t) == Listing(t)
Pop3Uidl(t) == Listing(t)
Pop3Retr(t) == Listing(t)

-----------------------------------------------------------------------------
(* The steps of a call.                                                    *)

Current(t) == Head(caller[t].todo)

Return(t) == caller' = [caller EXCEPT ![t] = NoCall]

\* A call of several steps that stops in the middle says nothing to the server.
Abort(t) == Return(t) /\ tableLock' = Nobody

\* On to the next step; only a call that holds the table keeps it locked.
Proceed(t, rest) ==
    IF rest = <<>> THEN Return(t) /\ tableLock' = Nobody
    ELSE /\ caller' = [caller EXCEPT ![t].todo = rest,
                                     ![t].phase = IF caller[t].holds THEN "send" ELSE "lock"]
         /\ tableLock' = IF caller[t].holds THEN t ELSE Nobody

LockTable(t) ==
    /\ caller[t].phase = "lock" /\ tableLock = Nobody
    /\ IF inTable
       THEN tableLock' = t /\ caller' = [caller EXCEPT ![t].phase = "send"]
       ELSE Return(t) /\ UNCHANGED tableLock
    /\ UNCHANGED <<protocol, inTable, wireVars, server, ended, lines, calls, delivered, odd,
                   mistaken>>

\* Another thread is between two steps of its message.
Intrudes(t) == \E u \in MailCallers \ {t} : /\ caller[u].todo # <<>> /\ ~caller[u].holds
                                             /\ caller[u].todo[1].verb # "MAIL"

\* DONE goes without a tag of its own.
WriteLine(t) ==
    LET s == Current(t)
        line == IF s.verb = "DONE" THEN caller[t].line ELSE lines + 1
    IN  /\ caller[t].phase = "send"
        /\ IF s.verb # "" /\ ended
           THEN Abort(t) /\ UNCHANGED <<toServer, lines, odd>>
           ELSE /\ IF s.verb = "" THEN UNCHANGED <<toServer, lines>>
                   ELSE /\ toServer' = Append(toServer, [verb |-> s.verb, line |-> line,
                                                         by |-> t])
                        /\ lines' = lines + 1
                /\ IF s.want = "nothing" THEN Proceed(t, Tail(caller[t].todo))
                   ELSE /\ caller' = [caller EXCEPT ![t].phase = "read",
                                         ![t].line = IF s.verb = "" THEN @ ELSE line]
                        /\ UNCHANGED tableLock
                /\ odd' = IF Intrudes(t) THEN odd \cup {"shared"} ELSE odd
        /\ UNCHANGED <<protocol, inTable, toClient, inbox, server, ended, calls, delivered,
                       mistaken>>

\* How much of the inbox read_response looks at: IMAP skips untagged lines, a
\* listing goes on to its end.
ReplyEnd(t) ==
    {n \in 1 .. Len(inbox) :
        CASE protocol = "imap" -> /\ inbox[n].kind # "event"
                                  /\ \A k \in 1 .. n - 1 : inbox[k].kind = "event"
          [] Current(t).want = "listed" -> /\ inbox[n].kind = "listed"
                                           /\ \A k \in 1 .. n - 1 : inbox[k].kind # "listed"
          [] OTHER -> n = 1}

\* IMAP compares the tag, and takes a continuation request from anyone.
Accepted(t, r) ==
    \/ protocol # "imap"
    \/ r.kind = "more"
    \/ r.kind \in Verdicts /\ r.line = caller[t].line

\* Mutant: a refusal does not stop the call.
Mut_GoesOn(t, r) == Accepted(t, r) /\ r.kind \in {Current(t).want, "no"}

\* The reply is the one the step needs; any other ends the call.
GoesOn(t, r) == Accepted(t, r) /\ r.kind = Current(t).want

\* How the reader drops what it has taken beyond the reply.
Dropped(n) == {SubSeq(inbox, n + 1, m) : m \in n .. Len(inbox)}

Upsets(t, r, dropped) ==
    {o \in {"lost", "halfway", "asked", "literal"} :
        CASE o = "lost" -> \E i \in DOMAIN dropped : dropped[i].kind # "event"
          [] o = "halfway" -> ~caller[t].holds /\ r.kind # Current(t).want
          [] o = "asked" -> r.kind = "more" /\ Current(t).want # "more"
          [] o = "literal" -> r.kind = "literal"}

\* SMTP keeps the connection when QUIT is refused, IMAP and POP3 do not.
Removes(t, r) ==
    /\ Current(t).verb = "QUIT" /\ Accepted(t, r)
    /\ protocol \in Smtp => r.kind = "ok"

ReadReply(t) ==
    LET s == Current(t) rest == Tail(caller[t].todo)
    IN  /\ caller[t].phase = "read"
        /\ \E n \in ReplyEnd(t) : \E dropped \in Dropped(n) :
              LET r == inbox[n]
              IN  /\ inbox' = SubSeq(inbox, n + Len(dropped) + 1, Len(inbox))
                  /\ odd' = odd \cup Upsets(t, r, dropped)
                  /\ mistaken' = (mistaken \/ (Accepted(t, r) /\ r.line # caller[t].line))
                  /\ inTable' = (inTable /\ ~Removes(t, r))
                  /\ \/ /\ GoesOn(t, r)
                        /\ Proceed(t, rest) /\ UNCHANGED ended
                     \/ /\ s.want = "ok or next"
                        /\ IF r.kind = "ok" THEN Abort(t) ELSE Proceed(t, rest)
                        /\ UNCHANGED ended
                     \/ /\ ~GoesOn(t, r) /\ s.want # "ok or next"
                        /\ Abort(t) /\ UNCHANGED ended
                     \/ /\ s.verb = "STARTTLS" /\ Accepted(t, r) /\ r.kind = "ok"
                        /\ Abort(t) /\ ended' = TRUE    \* the handshake fails
        /\ UNCHANGED <<protocol, toServer, toClient, server, lines, calls, delivered>>

\* The end of the connection is an error, except inside a POP3 listing, whose
\* loop takes it for an empty line and goes on.
ReadEnd(t) ==
    /\ caller[t].phase = "read" /\ ended /\ toClient = <<>>
    /\ ReplyEnd(t) = {} /\ Current(t).want # "listed"
    /\ inbox' = <<>>
    /\ odd' = IF caller[t].holds THEN odd ELSE odd \cup {"halfway"}
    /\ Abort(t)
    /\ UNCHANGED <<protocol, inTable, toServer, toClient, server, ended, lines, calls, delivered,
                   mistaken>>

-----------------------------------------------------------------------------

MailCall(t) ==
    \/ SmtpConnect(t) \/ ImapConnect(t) \/ Pop3Connect(t)
    \/ SmtpStartTls(t) \/ SmtpAuth(t) \/ SmtpEhlo(t) \/ SmtpQuit(t) \/ SmtpNoop(t)
    \/ SmtpReset(t) \/ SmtpMailFrom(t) \/ SmtpRcptTo(t) \/ SmtpData(t) \/ SmtpSendData(t)
    \/ SmtpEndData(t) \/ SmtpReadResponse(t) \/ SmtpSendMessage(t)
    \/ ImapStartTls(t) \/ ImapAuth(t) \/ ImapAuthOauth(t) \/ ImapLogout(t) \/ ImapNoop(t)
    \/ ImapCapability(t) \/ ImapSelect(t) \/ ImapExamine(t) \/ ImapList(t) \/ ImapSearch(t)
    \/ ImapStore(t) \/ ImapExpunge(t) \/ ImapFetch(t) \/ ImapIdle(t)
    \/ Pop3StartTls(t) \/ Pop3Auth(t) \/ Pop3Quit(t) \/ Pop3Stat(t) \/ Pop3Dele(t)
    \/ Pop3Reset(t) \/ Pop3List(t) \/ Pop3Uidl(t) \/ Pop3Retr(t)

MailNext ==
    \/ \E t \in MailCallers : MailCall(t) \/ LockTable(t) \/ WriteLine(t) \/ ReadReply(t) \/ ReadEnd(t)
    \/ Serve \/ Arrive \/ Event \/ HangUp

-----------------------------------------------------------------------------
(* Properties.                                                             *)

MailTypeOK ==
    /\ protocol \in Protocols
    /\ {inTable, ended, mistaken} \subseteq BOOLEAN
    /\ tableLock \in MailCallers \cup {Nobody}
    /\ \A t \in MailCallers :
          /\ caller[t].phase \in {"out", "lock", "send", "read"}
          /\ (caller[t].phase \in {"send", "read"}) = (tableLock = t)
    /\ server.mode \in {"greeting", "command", "data", "auth", "idle"}
    /\ odd \subseteq {"event", "shared", "lost", "halfway", "asked", "literal"}
    /\ calls \in 0 .. MaxCalls[protocol]

(* No caller takes the reply to another line for its own.  An IMAP message   *)
(* with a literal upsets this for good: its remaining lines are read as the  *)
(* replies to later commands, and a continuation request has no tag.  So     *)
(* does a program that sends data the server does not expect.                *)
RepliesMatch == mistaken => protocol = "raw" \/ "literal" \in odd

Reading(t) == caller[t].phase = "read"

(* A caller that waits for a reply, with its table locked for everyone, is    *)
(* owed one.  The exceptions: an SMTP line sent while the server reads a      *)
(* message is text and gets no reply, and neither does smtp_read_response;    *)
(* the reader of a POP3 status line may have dropped the end of the listing;  *)
(* and a listing never ends when the server hangs up.                         *)
AnswerOwed ==
    \A t \in MailCallers :
        Reading(t) =>
            \/ ended /\ Current(t).want # "listed"
            \/ toServer # <<>> \/ toClient # <<>> \/ ReplyEnd(t) # {}
            \/ server.mode = "data" /\ ("shared" \in odd \/ protocol = "raw")
            \/ protocol = "raw" /\ Current(t).verb = ""
            \/ Current(t).want = "listed" /\ ("lost" \in odd \/ ended)

(* Mail that smtp_send_message gets accepted has the recipients and the text  *)
(* of one call, unless another thread used the connection between its steps.  *)
MailIntact ==
    protocol = "smtp" /\ "shared" \notin odd =>
        \A m \in delivered : m.to = <<m.from, m.from>> /\ m.text = {<<"BODY", m.from>>}

(* Between calls the session is at rest: no transaction is open, the server    *)
(* expects a command and no reply is unread, unless a message was given up     *)
(* halfway, a request for credentials was not answered, or lines were left.    *)
AtRest ==
    /\ (\A t \in MailCallers : caller[t] = NoCall)
    /\ toServer = <<>> /\ toClient = <<>> /\ inTable /\ ~ended
    /\ odd \subseteq {"event"} /\ protocol # "raw"
    => /\ server.mode = "command" /\ server.mail = NoMail
       /\ \A i \in DOMAIN inbox : inbox[i].kind = "event"

(* A session of SMTP, IMAP or POP3 stays in step with its server, and what  *)
(* it delivers is whole, with the exceptions the parts name.                *)
MailSafe == MailTypeOK /\ RepliesMatch /\ AnswerOwed /\ MailIntact /\ AtRest

=============================================================================
