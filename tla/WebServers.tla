----------------------------- MODULE WebServers -----------------------------
(***************************************************************************)
(* The servers of the host, host.rs: HTTP, WebSocket and SSE, over the     *)
(* sockets of arth_rt, net.rs.  Each kind has a table of servers, locked   *)
(* while accept waits for a client, and a table of what was accepted:      *)
(* http_requests, ws_connections, sse_emitters.  A call takes a socket     *)
(* from its table under the lock and uses it after.  SOCKETS, the table of *)
(* all sockets of the process, is locked while send or recv is blocked.    *)
(*                                                                         *)
(* One server of each kind and clients that connect once.  A client sends  *)
(* a script piece by piece: a request, and for a WebSocket frames of a     *)
(* head and a payload.  What the server writes is a message of two parts,  *)
(* which one send may write whole or not, or of one part, a short answer.  *)
(* A call begins when the lock it needs first is free.                     *)
(***************************************************************************)
EXTENDS Integers, Sequences, FiniteSets

CONSTANTS
    WebThreads,
    WebClients,
    Roles,          \* what each client speaks, if it takes part: the choices
    Scripts,        \* what a client may send
    MaxWebCalls,    \* bound on the calls that are made
    NoOne

ServerKinds == {"http", "ws", "sse"}

\* A piece of what a client sends: a request, or a part of its n-th frame.
Piece(op, part, n) == [op |-> op, part |-> part, n |-> n]
Opcodes == {"text", "close", "ping", "pong"}
Pieces == [op : Opcodes \cup {"good", "bad", ""}, part : {"request", "head", "payload", ""}, n : Nat]

\* Whole frames, the last of which may be cut off.
Frames(s) ==
    \A i \in DOMAIN s : IF i % 2 = 1 THEN s[i].part = "head"
                        ELSE s[i].part = "payload" /\ s[i].n = s[i - 1].n

ASSUME WebAssumption ==
    /\ NoOne \notin WebThreads \cup WebClients /\ MaxWebCalls \in Nat
    /\ Roles \subseteq [WebClients -> ServerKinds \cup {"none"}]
    /\ \A k \in ServerKinds \cup {"none"} : Scripts[k] \subseteq Seq(Pieces)
    /\ \A s \in Scripts["ws"] : s # <<>> => Frames(Tail(s))

VARIABLES
    role,           \* what each client speaks
    peer,           \* "away", "waiting" in the backlog, "up", "deaf": reads nothing more, "gone"
    script,         \* what each client has still to send
    fromPeer,       \* what was sent and not read
    toPeer,         \* the last parts that were written to each client
    sockets,        \* SOCKETS: the clients whose socket is open
    socketsLock,
    serversLock,    \* by kind
    entry,          \* of each client: "none", "request", "open" or "closed"
    entriesLock,    \* by kind
    web,            \* the call of each thread
    webCalls,       \* how many calls were made, and how many messages written
    webOdd          \* history: what happened on a connection

clientSide == <<role, peer, script>>
tables     == <<serversLock, entry, entriesLock>>
wires      == <<fromPeer, toPeer>>
webVars    == <<clientSide, wires, sockets, socketsLock, tables, web, webCalls, webOdd>>

NoPiece == Piece("", "", 0)

NoWeb == [for |-> "nothing", conn |-> NoOne, phase |-> "out", left |-> <<>>, head |-> NoPiece]

WebIdle ==
    /\ peer = [c \in WebClients |-> "away"]
    /\ fromPeer = [c \in WebClients |-> <<>>] /\ toPeer = [c \in WebClients |-> <<>>]
    /\ sockets = {}
    /\ socketsLock = NoOne
    /\ serversLock = [k \in ServerKinds |-> NoOne]
    /\ entry = [c \in WebClients |-> "none"]
    /\ entriesLock = [k \in ServerKinds |-> NoOne]
    /\ web = [t \in WebThreads |-> NoWeb]
    /\ webCalls = 0
    /\ webOdd = {}

WebInit ==
    /\ role \in Roles
    /\ script \in {s \in [WebClients -> UNION {Scripts[k] : k \in DOMAIN Scripts}] :
                     \A c \in WebClients : s[c] \in Scripts[role[c]]}
    /\ WebIdle

-----------------------------------------------------------------------------
(* The clients.                                                            *)

Present(c) == peer[c] \in {"up", "deaf"}

ClientConnect(c) ==
    /\ peer[c] = "away" /\ role[c] # "none"
    /\ peer' = [peer EXCEPT ![c] = "waiting"]
    /\ UNCHANGED <<role, script, wires, sockets, socketsLock, tables, web, webCalls, webOdd>>

\* A read takes one piece and no more: what comes after a piece may as well be
\* sent when it has been read.
ClientSend(c) ==
    /\ Present(c) /\ script[c] # <<>> /\ fromPeer[c] = <<>>
    /\ fromPeer' = [fromPeer EXCEPT ![c] = Append(@, Head(script[c]))]
    /\ script' = [script EXCEPT ![c] = Tail(@)]
    /\ UNCHANGED <<role, peer, toPeer, sockets, socketsLock, tables, web, webCalls, webOdd>>

-----------------------------------------------------------------------------
(* What a call goes through.                                               *)

EndCall(t) == web' = [web EXCEPT ![t] = NoWeb]

GoTo(t, phase) == web' = [web EXCEPT ![t].phase = phase]

\* ws_recv looks for the next frame, or for the connection to send a pong.
Listens(t, aim) == web' = [web EXCEPT ![t] = [@ EXCEPT !.for = aim, !.phase = "check",
                                                       !.left = <<>>, !.head = NoPiece]]

\* A late message is one begun after a call has returned the client's close frame.
Message(t, c) == [p \in 1 .. 2 |-> [by |-> t, part |-> p, late |-> <<"over", c>> \in webOdd]]
Short(t) == <<[by |-> t, part |-> 0, late |-> FALSE]>>

Using(c, phases) == {t \in WebThreads : web[t].conn = c /\ web[t].phase \in phases}
Writers(c) == Using(c, {"write", "sending"})
Readers(c) == Using(c, {"read", "receiving"})

\* A client reads no more, or hangs up.  It makes no difference before a call
\* waits for the client, in send or for its next piece.
ClientLeave(c) ==
    /\ Present(c)
    /\ \/ Using(c, {"sending"}) # {}
       \/ Using(c, {"receiving"}) # {} /\ fromPeer[c] = <<>>
    /\ \E p \in {"deaf", "gone"} : peer[c] # p /\ peer' = [peer EXCEPT ![c] = p]
    /\ UNCHANGED <<role, script, wires, sockets, socketsLock, tables, web, webCalls, webOdd>>

EnterCall(t, c, aim, phase, left) ==
    /\ web[t] = NoWeb /\ webCalls < MaxWebCalls
    /\ web' = [web EXCEPT ![t] = [NoWeb EXCEPT !.for = aim, !.conn = c, !.phase = phase,
                                               !.left = left]]
    /\ webCalls' = webCalls + 1

-----------------------------------------------------------------------------
(* Accepting.                                                              *)

\* The table of servers stays locked while accept waits.
AcceptCall(t, k) ==
    /\ \E c \in WebClients : role[c] = k
    /\ serversLock[k] = NoOne
    /\ serversLock' = [serversLock EXCEPT ![k] = t]
    /\ EnterCall(t, NoOne, "accept", "accept", <<>>)
    /\ UNCHANGED <<clientSide, wires, sockets, socketsLock, entry, entriesLock, webOdd>>

HttpAccept(t) == AcceptCall(t, "http")
WsAccept(t) == AcceptCall(t, "ws")
SseAccept(t) == AcceptCall(t, "sse")

AcceptClient(t, c) ==
    /\ peer[c] = "waiting" /\ socketsLock = NoOne
    /\ web[t].phase = "accept" /\ serversLock[role[c]] = t
    /\ peer' = [peer EXCEPT ![c] = "up"]
    /\ sockets' = sockets \cup {c}
    /\ serversLock' = [serversLock EXCEPT ![role[c]] = NoOne]
    /\ web' = [web EXCEPT ![t].conn = c, ![t].phase = "read"]
    /\ UNCHANGED <<role, script, wires, socketsLock, entry, entriesLock, webCalls, webOdd>>

AcceptFails(t) ==
    /\ web[t].phase = "accept" /\ socketsLock = NoOne
    /\ serversLock' = [k \in ServerKinds |-> IF serversLock[k] = t THEN NoOne ELSE serversLock[k]]
    /\ EndCall(t)
    /\ UNCHANGED <<clientSide, wires, sockets, socketsLock, entry, entriesLock, webCalls, webOdd>>

\* The request was read.  A bad one is not answered by http_accept, and refused by the others.
Parsed(t, c, request) ==
    web' = [web EXCEPT
        ![t].for = IF request = "bad" THEN "refuse" ELSE @,
        ![t].phase = IF role[c] # "http" THEN "write"
                     ELSE IF request = "bad" THEN "close" ELSE "insert",
        ![t].left = IF role[c] = "http" THEN <<>> ELSE Short(t)]

InsertEntry(t) ==
    LET c == web[t].conn
    IN  /\ web[t].phase = "insert" /\ entriesLock[role[c]] = NoOne
        /\ entry' = [entry EXCEPT ![c] = IF role[c] = "http" THEN "request" ELSE "open"]
        /\ EndCall(t)
        /\ UNCHANGED <<clientSide, wires, sockets, socketsLock, serversLock, entriesLock,
                       webCalls, webOdd>>

-----------------------------------------------------------------------------
(* The calls on what was accepted.  A call with a handle that is in no     *)
(* table fails and changes nothing.                                        *)

\* The status and the body are two writes; that the second fails is not reported.
\* The request leaves the table, which stays locked until the client is served.
HttpRespond(t, c) ==
    /\ role[c] = "http" /\ entry[c] = "request" /\ entriesLock["http"] = NoOne
    /\ entriesLock' = [entriesLock EXCEPT !["http"] = t]
    /\ entry' = [entry EXCEPT ![c] = "none"]
    /\ EnterCall(t, c, "respond", "write", Message(t, c))
    /\ UNCHANGED <<clientSide, wires, sockets, socketsLock, serversLock, webOdd>>

CallOn(t, c, k, aim, phase) ==
    /\ role[c] = k /\ entry[c] # "none"
    /\ EnterCall(t, c, aim, phase, <<>>)
    /\ UNCHANGED <<clientSide, wires, sockets, socketsLock, tables, webOdd>>

WsSend(t, c) == CallOn(t, c, "ws", "send", "check")
WsRecv(t, c) == CallOn(t, c, "ws", "recv", "check")
WsClose(t, c) == CallOn(t, c, "ws", "close", "check")
SseSend(t, c) == CallOn(t, c, "sse", "send", "check")
SseClose(t, c) == CallOn(t, c, "sse", "close", "remove")

\* The socket is looked up under the lock.  A failure ends the call, but
\* ws_close removes the connection anyway and ws_recv goes on without the pong.
Check(t) ==
    LET c == web[t].conn
        aim == web[t].for
        phase == IF aim = "recv" THEN "read" ELSE "write"
        others == IF phase = "read" THEN Readers(c) ELSE Writers(c)
    IN  /\ web[t].phase = "check" /\ entriesLock[role[c]] = NoOne
        /\ IF entry[c] = "open"
           THEN /\ web' = [web EXCEPT ![t].phase = phase,
                                      ![t].left = IF phase = "read" THEN <<>> ELSE Message(t, c)]
                /\ webOdd' = IF others = {} THEN webOdd ELSE webOdd \cup {<<phase, c>>}
           ELSE /\ \/ aim = "close" /\ GoTo(t, "remove")
                   \/ aim = "pong" /\ Listens(t, "recv")
                   \/ aim \in {"send", "recv"} /\ EndCall(t)
                /\ UNCHANGED webOdd
        /\ UNCHANGED <<clientSide, wires, sockets, socketsLock, tables, webCalls>>

\* sse_send has failed, or ws_recv has read a close frame: the entry is marked if it is there.
MarkClosed(t) ==
    LET c == web[t].conn
    IN  /\ web[t].phase = "mark" /\ entriesLock[role[c]] = NoOne
        /\ entry' = [entry EXCEPT ![c] = IF @ = "open" THEN "closed" ELSE @]
        /\ webOdd' = IF web[t].for = "recv" THEN webOdd \cup {<<"over", c>>} ELSE webOdd
        /\ EndCall(t)
        /\ UNCHANGED <<clientSide, wires, sockets, socketsLock, serversLock, entriesLock,
                       webCalls>>

\* The table is locked until the socket is closed.
Remove(t) ==
    LET c == web[t].conn
    IN  /\ web[t].phase = "remove" /\ entriesLock[role[c]] = NoOne
        /\ IF entry[c] = "none" THEN EndCall(t) /\ UNCHANGED <<entry, entriesLock>>
           ELSE /\ entry' = [entry EXCEPT ![c] = "none"]
                /\ entriesLock' = [entriesLock EXCEPT ![role[c]] = t]
                /\ GoTo(t, "close")
        /\ UNCHANGED <<clientSide, wires, sockets, socketsLock, serversLock, webCalls, webOdd>>

CloseClient(t) ==
    LET c == web[t].conn
    IN  /\ web[t].phase = "close" /\ socketsLock = NoOne
        /\ sockets' = sockets \ {c}
        /\ entriesLock' = [k \in ServerKinds |-> IF entriesLock[k] = t THEN NoOne
                                                 ELSE entriesLock[k]]
        /\ EndCall(t)
        /\ UNCHANGED <<clientSide, wires, socketsLock, serversLock, entry, webCalls, webOdd>>

-----------------------------------------------------------------------------
(* Writing.                                                                *)

\* Mutant: the socket of a refused client stays open.
Mut_Written(t, ok) ==
    \/ web[t].for = "accept" /\ GoTo(t, IF ok THEN "insert" ELSE "close")
    \/ web[t].for = "refuse" /\ EndCall(t)
    \/ web[t].for = "respond" /\ GoTo(t, "close")
    \/ web[t].for = "close" /\ GoTo(t, "remove")
    \/ web[t].for = "pong" /\ Listens(t, "recv")
    \/ web[t].for = "send" /\ IF ~ok /\ role[web[t].conn] = "sse" THEN GoTo(t, "mark")
                              ELSE EndCall(t)

\* write_all has returned.
Written(t, ok) ==
    \/ web[t].for = "accept" /\ GoTo(t, IF ok THEN "insert" ELSE "close")
    \/ web[t].for \in {"refuse", "respond"} /\ GoTo(t, "close")
    \/ web[t].for = "close" /\ GoTo(t, "remove")
    \/ web[t].for = "pong" /\ Listens(t, "recv")
    \/ web[t].for = "send" /\ IF ~ok /\ role[web[t].conn] = "sse" THEN GoTo(t, "mark")
                              ELSE EndCall(t)

\* SOCKETS is locked and the handle looked up; another call may have closed it.
BeginSend(t) ==
    /\ web[t].phase = "write" /\ socketsLock = NoOne
    /\ IF web[t].conn \in sockets THEN socketsLock' = t /\ GoTo(t, "sending")
       ELSE Written(t, FALSE) /\ UNCHANGED socketsLock
    /\ UNCHANGED <<clientSide, wires, sockets, tables, webCalls, webOdd>>

Unsent(left, n) == SubSeq(left, n + 1, Len(left))

\* What the properties look at.
Recent(s) == SubSeq(s, IF Len(s) > 3 THEN Len(s) - 2 ELSE 1, Len(s))

\* The client takes some of the message, or is gone; a deaf one takes nothing.
SocketSend(t) ==
    LET c == web[t].conn
    IN  /\ web[t].phase = "sending"
        /\ \/ /\ peer[c] = "up"
              /\ \E n \in 1 .. Len(web[t].left) :
                    LET rest == Unsent(web[t].left, n)
                    IN  /\ toPeer' = [toPeer EXCEPT ![c] = Recent(@ \o SubSeq(web[t].left, 1, n))]
                        /\ IF rest = <<>> THEN Written(t, TRUE) /\ UNCHANGED webOdd
                           ELSE /\ web' = [web EXCEPT ![t].phase = "write", ![t].left = rest]
                                /\ webOdd' = webOdd \cup {<<"short", c>>}
           \/ /\ peer[c] = "gone"
              /\ Written(t, FALSE) /\ UNCHANGED <<toPeer, webOdd>>
        /\ socketsLock' = NoOne
        /\ UNCHANGED <<clientSide, fromPeer, sockets, tables, webCalls>>

-----------------------------------------------------------------------------
(* Reading.                                                                *)

\* A request that ends early and a frame that ends early are errors.
ReadFails(t) == IF web[t].for = "accept" THEN GoTo(t, "close") ELSE EndCall(t)

\* The frame is complete; a ping is answered, and after it the next frame is read.
FrameRead(t, op) ==
    \/ op = "close" /\ GoTo(t, "mark")
    \/ op = "ping" /\ Listens(t, "pong")
    \/ op = "pong" /\ Listens(t, "recv")
    \/ op \notin {"close", "ping", "pong"} /\ EndCall(t)

HeadRead(t, head) == web' = [web EXCEPT ![t].phase = "read", ![t].head = head]

\* A payload that is taken for a head says anything, also that nothing follows.
\* An unknown opcode ends the call like a text.
Misread(t) ==
    \E op \in Opcodes :
        FrameRead(t, op) \/ HeadRead(t, Piece(op, "head", 0))

BeginRecv(t) ==
    /\ web[t].phase = "read" /\ socketsLock = NoOne
    /\ IF web[t].conn \in sockets THEN socketsLock' = t /\ GoTo(t, "receiving")
       ELSE ReadFails(t) /\ UNCHANGED socketsLock
    /\ UNCHANGED <<clientSide, wires, sockets, tables, webCalls, webOdd>>

\* The client has sent something, or has hung up.
SocketRecv(t) ==
    LET c == web[t].conn
        piece == Head(fromPeer[c])
        mixed == webOdd \cup {<<"mixed", c>>}
    IN  /\ web[t].phase = "receiving"
        /\ IF fromPeer[c] # <<>>
           THEN /\ fromPeer' = [fromPeer EXCEPT ![c] = Tail(@)]
                /\ \/ /\ web[t].for = "accept"
                      /\ Parsed(t, c, piece.op) /\ UNCHANGED webOdd
                   \/ /\ web[t].for = "recv" /\ web[t].head = NoPiece
                      /\ IF piece.part = "head" THEN HeadRead(t, piece) /\ UNCHANGED webOdd
                         ELSE Misread(t) /\ webOdd' = mixed
                   \/ /\ web[t].for = "recv" /\ web[t].head # NoPiece
                      /\ FrameRead(t, web[t].head.op)
                      /\ webOdd' = IF piece.part = "payload" /\ piece.n = web[t].head.n
                                   THEN webOdd ELSE mixed
           ELSE /\ peer[c] = "gone"
                /\ ReadFails(t) /\ UNCHANGED <<fromPeer, webOdd>>
        /\ socketsLock' = NoOne
        /\ UNCHANGED <<clientSide, toPeer, sockets, tables, webCalls>>

-----------------------------------------------------------------------------

\* The steps of the call a thread is in.
WebStep(t) ==
    \/ \E c \in WebClients : AcceptClient(t, c)
    \/ InsertEntry(t) \/ Check(t) \/ MarkClosed(t) \/ Remove(t) \/ CloseClient(t)
    \/ BeginSend(t) \/ SocketSend(t) \/ BeginRecv(t) \/ SocketRecv(t)

WebNext ==
    \/ \E t \in WebThreads :
          \/ HttpAccept(t) \/ WsAccept(t) \/ SseAccept(t)
          \/ \E c \in WebClients :
                \/ HttpRespond(t, c) \/ WsSend(t, c) \/ WsRecv(t, c) \/ WsClose(t, c)
                \/ SseSend(t, c) \/ SseClose(t, c)
          \/ AcceptFails(t) \/ WebStep(t)
    \/ \E c \in WebClients : ClientConnect(c) \/ ClientSend(c) \/ ClientLeave(c)

WebSpec == WebInit /\ [][WebNext]_webVars

-----------------------------------------------------------------------------
(* Properties.                                                             *)

WebTypeOK ==
    /\ peer \in [WebClients -> {"away", "waiting", "up", "deaf", "gone"}]
    /\ entry \in [WebClients -> {"none", "request", "open", "closed"}]
    /\ sockets \subseteq WebClients
    /\ \A t \in WebThreads :
          /\ web[t].conn \in WebClients \cup {NoOne}
          /\ (socketsLock = t) = (web[t].phase \in {"sending", "receiving"})
          /\ (\E k \in ServerKinds : serversLock[k] = t) = (web[t].phase = "accept")
          /\ \A k \in ServerKinds : entriesLock[k] = t =>
                web[t].phase \in {"write", "sending", "close"} /\ role[web[t].conn] = k

\* The calls that have a client's socket to themselves.
Holders(c) ==
    {t \in WebThreads : /\ web[t].conn = c
                        /\ \/ web[t].for \in {"accept", "refuse", "respond"}
                           \/ web[t].phase = "close"}

(* Every open socket belongs to one call that is accepting, answering or      *)
(* closing it, or to one entry of a table, and the socket of an entry is      *)
(* open: no order of calls, refused request or client that hangs up leaks a   *)
(* socket, answers a request twice or closes a socket that is still listed.   *)
SocketsOwned ==
    \A c \in WebClients :
        Cardinality(Holders(c)) + (IF entry[c] = "none" THEN 0 ELSE 1) =
            (IF c \in sockets THEN 1 ELSE 0)

\* Each message is followed by nothing before its second part.
Whole(s) ==
    \A i \in DOMAIN s :
        /\ s[i].part = 1 /\ i < Len(s) => s[i + 1].by = s[i].by /\ s[i + 1].part = 2
        /\ s[i].part = 2 /\ i > 1 => s[i - 1].by = s[i].by /\ s[i - 1].part = 1

(* What a client receives is a sequence of whole messages, although the       *)
(* lookup of the socket and the write are separate and any thread may send    *)
(* (ws_send_frame, sse_send, http_respond).  SOCKETS is locked over a send;   *)
(* so it takes two calls that write to one client at once, the pong that      *)
(* ws_recv sends by itself is one, and a send that writes only a part.        *)
MessagesWhole ==
    \A c \in WebClients : Whole(toPeer[c]) \/ {<<"write", c>>, <<"short", c>>} \subseteq webOdd

(* ws_recv returns frames as the client sent them, over pings and pongs,      *)
(* unless two threads receive from one connection: then one takes the head    *)
(* of a frame and the other its payload.                                      *)
FramesMatch ==
    \A c \in WebClients : <<"mixed", c>> \in webOdd => <<"read", c>> \in webOdd

(* After ws_recv has returned a client's close frame no message to that       *)
(* client is begun by any thread; one that was begun may still be written.    *)
NoLateMessage ==
    \A c \in WebClients : \A i \in DOMAIN toPeer[c] : ~toPeer[c][i].late

(* Servers of HTTP, WebSocket and SSE clients: every socket has one owner,    *)
(* and what is sent and received over it is whole and in time.                *)
WebSafe == WebTypeOK /\ SocketsOwned /\ MessagesWhole /\ FramesMatch /\ NoLateMessage

=============================================================================
