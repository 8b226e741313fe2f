---------------------------- MODULE NetRequests ----------------------------
(***************************************************************************)
(* Asynchronous requests of the VM's runtime to the network, ffi.inc.rs:   *)
(* TCP (accept, connect, read), the HTTP client (get) and the HTTP server  *)
(* (serve, which accepts, and send).  Each of the three keeps a table of   *)
(* requests and tables of what they return.  A request is tried when it is *)
(* made and whenever it is checked or polled for: its kind is read under   *)
(* the lock if it is pending, the attempt is made without the lock, and    *)
(* the outcome is written if the request is still there.                   *)
(*                                                                         *)
(* What comes from outside is an item: a connection that waits, a piece of *)
(* a stream, the answer of a server.  An item has one taker.  A socket is  *)
(* duplicated for an attempt and the duplicates share its mode: a blocking *)
(* call sets it and nothing sets it back, except the attempts of serve.    *)
(* The HTTP server reads the request from the connection it has accepted,  *)
(* in an attempt and in a blocking call alike, and waits for it up to a    *)
(* timeout; a connection without a request is dropped.                     *)
(*                                                                         *)
(* A TCP write differs from a read in what it moves only, a post from a    *)
(* get; both are left out.                                                 *)
(***************************************************************************)
EXTENDS Naturals, Sequences, FiniteSets

CONSTANTS
    NetThreads,
    Purposes,       \* the operations of one program: the choices
    MaxRequests,    \* bound on the requests in the tables
    MaxItems,       \* bound on what comes from outside
    MaxNetCalls     \* bound on the calls that are made

ASSUME NetAssumption == MaxRequests \in Nat /\ MaxItems \in Nat /\ MaxNetCalls \in Nat

Listening == {"accept", "serve"}
Waiting == Listening \cup {"read"}      \* operations on a socket, which names it here
Dialling == {"connect", "get"}          \* operations the system ends
Tcp == {"accept", "connect", "read"}
Operations == Waiting \cup Dialling \cup {"send"}
NoItem == 0

VARIABLES
    purpose,    \* the operations the program uses
    requests,   \* [id |-> [kind, conn, state, result]]: the tables of requests
    sock,       \* [opened, nonblocking: sets of sockets, inbound: what waits at each, items]
    held,       \* [handles: of connections and responses, streams: HTTP connections that have
                \*  theirs, answers: how often each was answered]
    thread,     \* what each thread does
    seen,       \* history: [known: items the program was given, refused: items dropped with an
                \*  error, blocked: sockets of blocking calls, takenFor: the request an item was
                \*  taken for, 0 in a blocking call, raced: requests that two attempts at once
                \*  were made at, or that were removed during one]
    netCalls

netVars == <<purpose, requests, sock, held, thread, seen, netCalls>>

AtRest == [at |-> "idle", id |-> 0, kind |-> "none", conn |-> NoItem, item |-> NoItem,
           poll |-> FALSE, todo |-> {}]

NetStart ==
    /\ requests = <<>>
    /\ sock = [opened |-> Waiting, nonblocking |-> Waiting, inbound |-> [s \in Waiting |-> <<>>],
               items |-> 0]
    /\ held = [handles |-> {}, streams |-> {}, answers |-> [i \in 1 .. MaxItems |-> 0]]
    /\ thread = [t \in NetThreads |-> AtRest]
    /\ seen = [known |-> {}, refused |-> {}, blocked |-> {}, raced |-> {},
               takenFor |-> [i \in 1 .. MaxItems |-> 0]]
    /\ netCalls = 0

NetInit == purpose \in Purposes /\ NetStart

Becomes(t, r) == thread' = [thread EXCEPT ![t] = r]
NetCall(t) == thread[t].at = "idle" /\ netCalls < MaxNetCalls /\ netCalls' = netCalls + 1
IsPending(id) == id \in DOMAIN requests /\ requests[id].state = "pending"
Attempting(t) == thread[t].at \in {"act", "parse", "write", "finish"}
AttemptsAt(id) == {t \in NetThreads : Attempting(t) /\ thread[t].id = id}

\* A connection, a piece of the stream or a request arrives.
Arrive(s) ==
    /\ s \in purpose \cap Waiting /\ sock.items < MaxItems
    /\ sock' = [sock EXCEPT !.items = @ + 1, !.inbound[s] = Append(@, sock.items + 1)]
    /\ UNCHANGED <<purpose, requests, held, thread, seen, netCalls>>

-----------------------------------------------------------------------------
(* Making a request, and asking for it.                                     *)

\* The socket or connection must exist; the request is in its table before it is tried.
StartRequest(t, kind, conn) ==
    LET id == netCalls + 1
        request == [kind |-> kind, conn |-> conn, state |-> "pending", result |-> NoItem]
    IN  /\ NetCall(t) /\ kind \in purpose /\ Cardinality(DOMAIN requests) < MaxRequests
        /\ kind \in Waiting => kind \in sock.opened
        /\ IF kind = "send" THEN conn \in held.handles ELSE conn = NoItem
        /\ requests' = [i \in DOMAIN requests \cup {id} |-> IF i = id THEN request ELSE requests[i]]
        /\ Becomes(t, [AtRest EXCEPT !.at = "try", !.id = id])
        /\ UNCHANGED <<purpose, sock, held, seen>>

CheckReady(t, id) ==
    /\ NetCall(t) /\ id \in DOMAIN requests
    /\ Becomes(t, [AtRest EXCEPT !.at = "try", !.id = id])
    /\ UNCHANGED <<purpose, requests, sock, held, seen>>

\* The ids are collected first: TCP takes the pending ones, HTTP all.
PollReady(t) ==
    /\ NetCall(t) /\ requests # <<>>
    /\ Becomes(t, [AtRest EXCEPT !.at = "next", !.poll = TRUE,
                     !.todo = {id \in DOMAIN requests : requests[id].kind \in Tcp => IsPending(id)}])
    /\ UNCHANGED <<purpose, requests, sock, held, seen>>

PollNext(t) ==
    LET d == thread[t]
    IN  /\ d.at = "next"
        /\ \/ \E id \in d.todo : Becomes(t, [d EXCEPT !.at = "try", !.id = id, !.todo = @ \ {id}])
           \/ d.todo = {} /\ Becomes(t, AtRest)
        /\ UNCHANGED <<purpose, requests, sock, held, seen, netCalls>>

\* The end of an attempt.  HTTP stops polling at a request that is done.
Attempted(t) ==
    LET d == thread[t]
        stop == d.id \in DOMAIN requests /\ requests[d.id].kind \notin Tcp /\ ~IsPending(d.id)
    IN  /\ d.at = "tell"
        /\ Becomes(t, IF d.poll /\ ~stop THEN [AtRest EXCEPT !.at = "next", !.poll = TRUE, !.todo = d.todo]
                      ELSE AtRest)
        /\ UNCHANGED <<purpose, requests, sock, held, seen, netCalls>>

\* The result of a request that is ready.
GetResult(t, id) ==
    /\ thread[t].at = "idle"
    /\ id \in DOMAIN requests /\ requests[id].state = "ready" /\ requests[id].result \notin seen.known
    /\ seen' = [seen EXCEPT !.known = @ \cup {requests[id].result}]
    /\ UNCHANGED <<purpose, requests, sock, held, thread, netCalls>>

\* The program removes a request it has no result of to expect.
RemoveRequest(t, id) ==
    /\ thread[t].at = "idle" /\ id \in DOMAIN requests
    /\ requests[id].state = "ready" => requests[id].result \in seen.known
    /\ requests' = [i \in DOMAIN requests \ {id} |-> requests[i]]
    /\ seen' = [seen EXCEPT !.raced = IF AttemptsAt(id) = {} THEN @ ELSE @ \cup {id}]
    /\ UNCHANGED <<purpose, sock, held, thread, netCalls>>

\* tcp_listener_close, tcp_stream_close and http_server_close.
CloseSocket(t, s) ==
    /\ NetCall(t) /\ s \in sock.opened \cap purpose
    /\ sock' = [sock EXCEPT !.opened = @ \ {s}]
    /\ UNCHANGED <<purpose, requests, held, thread, seen>>

\* tcp_stream_close and http_response_close of something a request returned.
CloseHandle(t, h) ==
    /\ NetCall(t) /\ h \in held.handles \cap seen.known /\ "serve" \notin purpose
    /\ held' = [held EXCEPT !.handles = @ \ {h}]
    /\ UNCHANGED <<purpose, requests, sock, thread, seen>>

-----------------------------------------------------------------------------
(* An attempt.                                                              *)

\* Mutant: a request that is done is tried again.
Mut_TryComplete(t) ==
    LET d == thread[t]
        r == requests[d.id]
    IN  /\ d.at = "try"
        /\ IF d.id \in DOMAIN requests
           THEN Becomes(t, [d EXCEPT !.at = "act", !.kind = r.kind, !.conn = r.conn])
           ELSE Becomes(t, [d EXCEPT !.at = "tell"])
        /\ seen' = [seen EXCEPT !.raced = IF IsPending(d.id) /\ AttemptsAt(d.id) # {}
                                          THEN @ \cup {d.id} ELSE @]
        /\ UNCHANGED <<purpose, requests, sock, held, netCalls>>

\* The kind is read if the request is pending, and the socket is duplicated if it is open.
TryComplete(t) ==
    LET d == thread[t]
        r == requests[d.id]
    IN  /\ d.at = "try"
        /\ IF IsPending(d.id) /\ (r.kind \in Waiting => r.kind \in sock.opened)
           THEN Becomes(t, [d EXCEPT !.at = "act", !.kind = r.kind, !.conn = r.conn])
           ELSE Becomes(t, [d EXCEPT !.at = "tell"])
        /\ seen' = [seen EXCEPT !.raced = IF IsPending(d.id) /\ AttemptsAt(d.id) # {}
                                          THEN @ \cup {d.id} ELSE @]
        /\ UNCHANGED <<purpose, requests, sock, held, netCalls>>

\* serve sets the mode before it looks.
Looked(s) == IF s = "serve" THEN [sock EXCEPT !.nonblocking = @ \cup {s}] ELSE sock
DoesNotBlock(s) == s \in Looked(s).nonblocking

\* What has arrived is taken.  A connection gets a handle; serve reads its request first.
TakeItem(t) ==
    LET d == thread[t]
        s == d.kind
        item == Head(sock.inbound[s])
    IN  /\ d.at = "act" /\ s \in Waiting /\ sock.inbound[s] # <<>>
        /\ sock' = [Looked(s) EXCEPT !.inbound[s] = Tail(@)]
        /\ Becomes(t, [d EXCEPT !.at = IF s = "serve" THEN "parse" ELSE "finish", !.item = item])
        /\ held' = [held EXCEPT !.handles = IF s = "accept" THEN @ \cup {item} ELSE @]
        /\ seen' = [seen EXCEPT !.takenFor[item] = d.id]
        /\ UNCHANGED <<purpose, requests, netCalls>>

\* The request of the connection is read, and it gets a handle and its stream.
ReadRequest(t) ==
    LET d == thread[t]
    IN  /\ d.at \in {"parse", "receive"}
        /\ held' = [held EXCEPT !.handles = @ \cup {d.item}, !.streams = @ \cup {d.item}]
        /\ IF d.at = "parse"
           THEN Becomes(t, [d EXCEPT !.at = "finish"]) /\ UNCHANGED seen
           ELSE Becomes(t, AtRest) /\ seen' = [seen EXCEPT !.known = @ \cup {d.item}]
        /\ UNCHANGED <<purpose, requests, sock, netCalls>>

\* The request does not come in time, or is none: the connection is dropped.
NoRequest(t) ==
    LET d == thread[t]
    IN  /\ d.at \in {"parse", "receive"}
        /\ Becomes(t, IF d.at = "parse" THEN [d EXCEPT !.at = "finish", !.item = NoItem] ELSE AtRest)
        /\ seen' = [seen EXCEPT !.refused = @ \cup {d.item}]
        /\ UNCHANGED <<purpose, requests, sock, held, netCalls>>

\* Nothing has arrived.  The attempt ends, unless the socket blocks: then it waits.
WouldBlock(t) ==
    LET d == thread[t]
    IN  /\ d.at = "act" /\ d.kind \in Waiting
        /\ sock.inbound[d.kind] = <<>> /\ DoesNotBlock(d.kind)
        /\ sock' = Looked(d.kind)
        /\ Becomes(t, [d EXCEPT !.at = "tell"])
        /\ UNCHANGED <<purpose, requests, held, seen, netCalls>>

\* The socket has an error.
SocketFails(t) ==
    LET d == thread[t]
    IN  /\ d.at = "act" /\ d.kind \in Waiting
        /\ sock' = Looked(d.kind)
        /\ Becomes(t, [d EXCEPT !.at = "finish"])
        /\ UNCHANGED <<purpose, requests, held, seen, netCalls>>

\* The server answers, or there is an error.
Dial(t) ==
    LET d == thread[t]
    IN  /\ d.at = "act" /\ d.kind \in Dialling
        /\ \/ /\ sock.items < MaxItems
              /\ sock' = [sock EXCEPT !.items = @ + 1]
              /\ held' = [held EXCEPT !.handles = @ \cup {sock.items + 1}]
              /\ seen' = [seen EXCEPT !.takenFor[sock.items + 1] = d.id]
              /\ Becomes(t, [d EXCEPT !.at = "finish", !.item = sock.items + 1])
           \/ /\ Becomes(t, [d EXCEPT !.at = "finish"])
              /\ UNCHANGED <<sock, held, seen>>
        /\ UNCHANGED <<purpose, requests, netCalls>>

\* Mutant: the stream is shared, not taken.
Mut_TakeStream(t) ==
    LET d == thread[t]
    IN  /\ d.at = "act" /\ d.kind = "send"
        /\ Becomes(t, [d EXCEPT !.at = IF d.conn \in held.handles THEN "write" ELSE "finish"])
        /\ UNCHANGED <<purpose, requests, sock, held, seen, netCalls>>

\* The stream of the connection is taken under the lock; one attempt finds it.
TakeStream(t) ==
    LET d == thread[t]
    IN  /\ d.at = "act" /\ d.kind = "send"
        /\ Becomes(t, [d EXCEPT !.at = IF d.conn \in held.handles \cap held.streams THEN "write" ELSE "finish"])
        /\ held' = [held EXCEPT !.streams = @ \ {d.conn}]
        /\ UNCHANGED <<purpose, requests, sock, seen, netCalls>>

\* The response is written, and the connection removed; an error leaves it without a stream.
WriteResponse(t) ==
    LET d == thread[t]
    IN  /\ d.at = "write"
        /\ \/ /\ held' = [held EXCEPT !.answers[d.conn] = @ + 1, !.handles = @ \ {d.conn}]
              /\ Becomes(t, [d EXCEPT !.at = "finish", !.item = d.conn])
           \/ Becomes(t, [d EXCEPT !.at = "finish"]) /\ UNCHANGED held
        /\ UNCHANGED <<purpose, requests, sock, seen, netCalls>>

\* The outcome is written, if the request is still in its table.
FinishRequest(t) ==
    LET d == thread[t]
        outcome == [state |-> IF d.item = NoItem THEN "error" ELSE "ready", result |-> d.item]
    IN  /\ d.at = "finish"
        /\ requests' = IF d.id \in DOMAIN requests
                       THEN [requests EXCEPT ![d.id].state = outcome.state, ![d.id].result = outcome.result]
                       ELSE requests
        /\ Becomes(t, [d EXCEPT !.at = "tell"])
        /\ UNCHANGED <<purpose, sock, held, seen, netCalls>>

-----------------------------------------------------------------------------
(* Blocking calls.                                                          *)

\* tcp_listener_accept, tcp_stream_read and http_server_accept: the socket is made to block.
BlockingCall(t, s) ==
    /\ NetCall(t) /\ "blocking" \in purpose /\ s \in purpose \cap sock.opened
    /\ sock' = [sock EXCEPT !.nonblocking = @ \ {s}]
    /\ seen' = [seen EXCEPT !.blocked = @ \cup {s}]
    /\ Becomes(t, [AtRest EXCEPT !.at = "block", !.kind = s])
    /\ UNCHANGED <<purpose, requests, held>>

\* It takes what comes and returns it; serve reads the request first.
BlockingTake(t) ==
    LET d == thread[t]
        item == Head(sock.inbound[d.kind])
    IN  /\ d.at = "block" /\ sock.inbound[d.kind] # <<>>
        /\ sock' = [sock EXCEPT !.inbound[d.kind] = Tail(@)]
        /\ IF d.kind = "serve"
           THEN /\ Becomes(t, [d EXCEPT !.at = "receive", !.item = item]) /\ UNCHANGED held
                /\ seen' = [seen EXCEPT !.takenFor[item] = d.id]
           ELSE /\ Becomes(t, AtRest)
                /\ held' = [held EXCEPT !.handles = IF d.kind = "accept" THEN @ \cup {item} ELSE @]
                /\ seen' = [seen EXCEPT !.known = @ \cup {item}]
        /\ UNCHANGED <<purpose, requests, netCalls>>

\* It returns -1: there is an error, or serve has reset the mode and it finds nothing.
BlockingFails(t) ==
    /\ thread[t].at = "block"
    /\ Becomes(t, AtRest)
    /\ UNCHANGED <<purpose, requests, sock, held, seen, netCalls>>

-----------------------------------------------------------------------------

Attempt(t) ==
    \/ TryComplete(t) \/ TakeItem(t) \/ ReadRequest(t) \/ NoRequest(t)
    \/ WouldBlock(t) \/ SocketFails(t) \/ Dial(t) \/ TakeStream(t) \/ WriteResponse(t)
    \/ FinishRequest(t) \/ Attempted(t) \/ PollNext(t) \/ BlockingTake(t) \/ BlockingFails(t)

NetNext ==
    \/ \E s \in Waiting : Arrive(s)
    \/ \E t \in NetThreads :
          \/ \E k \in purpose \cap Operations, c \in held.handles \cup {NoItem} : StartRequest(t, k, c)
          \/ \E id \in DOMAIN requests : CheckReady(t, id) \/ GetResult(t, id) \/ RemoveRequest(t, id)
          \/ PollReady(t) \/ Attempt(t)
          \/ \E s \in Waiting : CloseSocket(t, s) \/ BlockingCall(t, s)
          \/ \E h \in held.handles : CloseHandle(t, h)

-----------------------------------------------------------------------------
(* Properties.                                                              *)

\* What waits at a socket.
Inbound(s) == {sock.inbound[s][n] : n \in DOMAIN sock.inbound[s]}

\* try_complete_request of the three tables: what came from outside waits, is in the hands of
\* the thread that took it, is the result of the request it was taken for, is known to the
\* program or was dropped with an error.  It is lost only by an overlap of attempts at that
\* very request, or if that was removed during an attempt.
NothingIsLost ==
    \A i \in 1 .. sock.items :
        \/ i \in seen.known \cup seen.refused
        \/ \E s \in Waiting : i \in Inbound(s)
        \/ \E t \in NetThreads : thread[t].item = i /\ thread[t].id = seen.takenFor[i]
        \/ \E id \in DOMAIN requests : requests[id].result = i /\ id = seen.takenFor[i]
        \/ seen.takenFor[i] \in seen.raced

\* do_http_server_send: a connection is answered once, however many sends are made and tried,
\* by whichever threads, at the same time or after an error.
AnsweredOnce == \A i \in 1 .. MaxItems : held.answers[i] <= 1

\* An attempt that waits for a peer: its socket blocks and has nothing, or the request of the
\* connection it accepted has not come.
AttemptWaits(t) ==
    LET d == thread[t]
    IN  \/ d.at = "act" /\ d.kind \in Waiting /\ sock.inbound[d.kind] = <<>> /\ ~DoesNotBlock(d.kind)
        \/ d.at = "parse"

\* A connection is with this thread and nowhere else: no program can name it, nobody answers
\* it, no other call reads from it.
HoldsAlone(t) ==
    LET i == thread[t].item
    IN  /\ i \notin held.handles \cup held.streams /\ \A s \in Waiting : i \notin Inbound(s)
        /\ \A u \in NetThreads \ {t} :
              ~(thread[u].at \in {"parse", "receive"} /\ thread[u].item = i)
              /\ ~(thread[u].at = "write" /\ thread[u].conn = i)

\* An attempt at accept, read or serve waits where a blocking call has left the mode, never so
\* in serve, which sets it back; or in serve, for the request of a connection that it has for
\* itself (try_complete_request, http_server_accept, parse_http_request).
WaitsForItsOwn ==
    \A t \in NetThreads :
        /\ AttemptWaits(t) => \/ thread[t].at = "act" /\ thread[t].kind \in seen.blocked \ {"serve"}
                              \/ thread[t].kind = "serve" /\ HoldsAlone(t)
        /\ thread[t].at = "receive" => HoldsAlone(t)

\* The attempts of the three tables (try_complete_request): what they lose, and what they wait
\* for.  Not that an accept never waits, as "Try to accept immediately (non-blocking)" says
\* (accept_async): the mode a blocking call has set stays.
AttemptsSafe == NothingIsLost /\ WaitsForItsOwn

-----------------------------------------------------------------------------
(* The inductive invariant.                                                 *)

NetSpec == NetInit /\ [][NetNext]_netVars

Items == 1 .. sock.items

Request == [kind : Operations, conn : Nat, result : Nat, state : {"pending", "ready", "error"}]

\* What a thread does after n calls.
ThreadState(n) ==
    [at : {"idle", "try", "act", "parse", "write", "finish", "tell", "next", "block", "receive"},
     id : 0 .. n,
     kind : Operations \cup {"none"}, conn : Nat, item : Nat, poll : BOOLEAN,
     todo : SUBSET (1 .. n)]

\* A blocking call is at a socket and has no request; a request is read from HTTP connections.
PlaceOK(d) ==
    /\ d.at = "block" => d.kind \in Waiting
    /\ d.at \in {"block", "receive"} => d.id = 0
    /\ d.at \in {"parse", "receive"} => d.kind = "serve"

SockState == [opened : SUBSET Waiting, nonblocking : SUBSET Waiting,
              inbound : [Waiting -> Seq(Nat)], items : 0 .. MaxItems]

SeenState == [known : SUBSET Nat, refused : SUBSET Nat, blocked : SUBSET Waiting,
              raced : SUBSET Nat, takenFor : [1 .. MaxItems -> Nat]]

\* The state has its fields, and requests are numbered by the calls.
NetTypeOK ==
    /\ netCalls \in Nat
    /\ requests \in [DOMAIN requests -> Request]
    /\ DOMAIN requests \subseteq 1 .. netCalls
    /\ sock \in SockState
    /\ held \in [handles : SUBSET Items, streams : SUBSET Items, answers : [1 .. MaxItems -> Nat]]
    /\ thread \in [NetThreads -> ThreadState(netCalls)]
    /\ seen \in SeenState
    /\ \A t \in NetThreads : PlaceOK(thread[t])

\* The request of a connection is awaited.
Reading(t) == thread[t].at \in {"parse", "receive"}

\* What has come and was not taken waits at one place, and was not answered; nothing is
\* answered twice.
ItemsOK ==
    /\ \A s \in Waiting : \A m \in DOMAIN sock.inbound[s] :
          /\ sock.inbound[s][m] \in Items \ (held.handles \cup held.streams)
          /\ \A r \in Waiting : \A n \in DOMAIN sock.inbound[r] :
                sock.inbound[s][m] = sock.inbound[r][n] => s = r /\ m = n
          /\ \A t \in NetThreads :
                /\ thread[t].at = "write" => thread[t].conn # sock.inbound[s][m]
                /\ Reading(t) => thread[t].item # sock.inbound[s][m]
    /\ \A i \in 1 .. MaxItems :
          i \in held.streams \/ i \notin Items \/ (\E s \in Waiting : i \in Inbound(s))
          => held.answers[i] = 0
    /\ AnsweredOnce

\* A stream has one owner: the call that reads the request, the table or the attempt that
\* writes to it.
StreamsOK ==
    /\ \A t \in NetThreads : Reading(t) =>
          /\ thread[t].item \in Items \ (held.handles \cup held.streams)
          /\ held.answers[thread[t].item] = 0
    /\ \A t, u \in NetThreads : Reading(t) =>
          /\ Reading(u) /\ thread[t].item = thread[u].item => t = u
          /\ thread[u].at = "write" => thread[u].conn # thread[t].item
    /\ \A t \in NetThreads : thread[t].at = "write" =>
          /\ thread[t].conn \in Items \ held.streams
          /\ held.answers[thread[t].conn] = 0
    /\ \A t, u \in NetThreads :
          thread[t].at = "write" /\ thread[u].at = "write" /\ thread[t].conn = thread[u].conn
          => t = u

\* Attempts that did not overlap find their request pending; the outcome is in the table
\* before the attempt lets it go.
AttemptsOK ==
    /\ \A t \in NetThreads :
          thread[t].at \in {"idle", "try", "act", "write", "next", "block"} => thread[t].item = NoItem
    /\ \A id \in DOMAIN requests : requests[id].state # "ready" => requests[id].result = NoItem
    /\ \A t, u \in NetThreads :
          Attempting(t) /\ Attempting(u) /\ thread[t].id = thread[u].id
          => t = u \/ thread[t].id \in seen.raced
    /\ \A t \in NetThreads :
          /\ Attempting(t) => IsPending(thread[t].id) \/ thread[t].id \in seen.raced
          /\ thread[t].at = "tell" /\ thread[t].item # NoItem =>
                \/ thread[t].item \in seen.known
                \/ thread[t].id \in seen.raced
                \/ /\ thread[t].id \in DOMAIN requests
                   /\ requests[thread[t].id].result = thread[t].item

NetInv ==
    /\ NetTypeOK
    /\ ItemsOK
    /\ StreamsOK
    /\ AttemptsOK
    /\ NothingIsLost
    /\ \A s \in Waiting : s \in sock.nonblocking \cup seen.blocked

=============================================================================
