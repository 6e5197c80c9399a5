--------------------------- MODULE ServerSessions ---------------------------
(***************************************************************************)
(* The listening servers, the io_service thread pool that runs them and    *)
(* the life of a session object: Server (server.cc), HttpServer            *)
(* (http_server.cc), Session (session.cc) and HttpSession                  *)
(* (http_session.cc), started by main (server_main.cc).                    *)
(*                                                                         *)
(* A session is a heap object that lives on callbacks: every handler ends  *)
(* by starting the next asynchronous operation on its socket or by         *)
(* "delete this".  No strand orders the handlers; several threads run the  *)
(* same io_service.  A handler is one action, except where another thread  *)
(* can act on the same session in the middle of it:                        *)
(*   - handle_read blocks in a synchronous read while a request is         *)
(*     incomplete (pc "read_loop");                                        *)
(*   - handle_read and handle_final_read start the write and only then     *)
(*     clear data_ (pc "clear").                                           *)
(* What a request says is abstracted to its kind; what parse_data makes of *)
(* a request with a body or in several segments is left open here.         *)
(***************************************************************************)
EXTENDS Naturals

CONSTANTS
    Sessions,   \* session objects, each allocated at most once (the bound on
                \* the number of connections)
    Servers,    \* Server and HttpServer objects, one per listen statement
    Https,      \* the servers that are Server objects; the others HttpServer
    ServerOf,   \* the server that allocates a session
    Workers,    \* the threads the servers' constructors create
    StartedBy,  \* the server that creates a worker
    Main,       \* the thread that runs main()
    NoSession,  \* where a thread that runs no handler stands
    Requests,   \* the kinds of requests the peer of a session sends
    Leaving,    \* sessions whose peer may close its side
    Resettable, \* sessions whose connection may be reset
    MaxSends    \* bound on the segments a peer sends

Threads == Workers \cup {Main}

ASSUME SessionsAssumption ==
    /\ Https \subseteq Servers
    /\ ServerOf \in [Sessions -> Servers]
    /\ StartedBy \in [Workers -> Servers]
    /\ Main \notin Workers
    /\ NoSession \notin Sessions
    /\ Requests \in [Sessions -> SUBSET {"get", "getclose", "bad", "post", "partial"}]
    /\ Leaving \subseteq Sessions /\ Resettable \subseteq Sessions
    /\ MaxSends \in Nat

VARIABLES
    up,         \* the process runs
    listening,  \* the servers main() has constructed
    pc,         \* where each thread stands
    cur,        \* the session whose handler a thread is inside of
    heap,       \* each session object: none, live, freed or double (deleted twice)
    conn,       \* its connection: none, up, eof, reset or closed
    ops,        \* its asynchronous operations: <<operation, stage>>
    data,       \* what its data_ buffer holds
    resp,       \* what its response_generator_ holds
    closing,    \* its request_ carries "Connection: close"
    inbox,      \* the segment waiting in its socket
    peer,       \* what its peer is doing
    asked,      \* the kind of request its peer sent last
    sent        \* how many segments its peer has sent

serverVars  == <<up, listening, pc, cur>>
objectVars  == <<heap, conn, ops>>
requestVars == <<data, resp, closing>>
peerVars    == <<inbox, peer, asked, sent>>
vars == <<serverVars, objectVars, requestVars, peerVars>>

Operation == {"accept", "handshake", "read", "final_read", "write", "shutdown"}
Stage     == {"started", "ok", "error"}   \* "ok" and "error": handler queued

\* Requests without a body, in one segment: parse_data's answer is known.
Plain   == {"get", "getclose", "bad"}
Segment == Plain \cup {"post", "body", "partial", "rest"}

\* Sessions whose peer may send bodies or split its requests.
Segmented == {s \in Sessions : Requests[s] \ Plain # {}}

TypeOK ==
    /\ up \in BOOLEAN
    /\ listening \subseteq Servers
    /\ pc \in [Threads -> {"none", "init", "run", "read_loop", "clear", "join"}]
    /\ cur \in [Threads -> Sessions \cup {NoSession}]
    /\ \A t \in Threads : cur[t] \in Sessions <=> pc[t] \in {"read_loop", "clear"}
    /\ heap \in [Sessions -> {"none", "live", "freed", "double"}]
    /\ conn \in [Sessions -> {"none", "up", "eof", "reset", "closed"}]
    /\ ops \in [Sessions -> SUBSET (Operation \X Stage)]
    /\ data \in [Sessions -> Segment \cup {"zero"}]
    /\ resp \in [Sessions -> {"none", "handled", "bad_request"}]
    /\ closing \in [Sessions -> BOOLEAN]
    /\ inbox \in [Sessions -> Segment \cup {"none"}]
    /\ peer \in [Sessions -> {"idle", "unfinished", "waiting"}]
    /\ asked \in [Sessions -> Segment \cup {"none"}]
    /\ sent \in [Sessions -> 0..MaxSends]

(***************************************************************************)
(* main() before it constructs the first server.                           *)
(***************************************************************************)
Init ==
    /\ up = TRUE
    /\ listening = {}
    /\ pc = [t \in Threads |-> IF t = Main THEN "init" ELSE "none"]
    /\ cur = [t \in Threads |-> NoSession]
    /\ heap = [s \in Sessions |-> "none"]
    /\ conn = [s \in Sessions |-> "none"]
    /\ ops = [s \in Sessions |-> {}]
    /\ data = [s \in Sessions |-> "zero"]
    /\ resp = [s \in Sessions |-> "none"]
    /\ closing = [s \in Sessions |-> FALSE]
    /\ inbox = [s \in Sessions |-> "none"]
    /\ peer = [s \in Sessions |-> "idle"]
    /\ asked = [s \in Sessions |-> "none"]
    /\ sent = [s \in Sessions |-> 0]

-----------------------------------------------------------------------------
(* Helpers *)

Started(op) == <<op, "started">>

\* The handler of s consumed operation o and started the operations in new.
Continue(s, o, new) == ops' = [ops EXCEPT ![s] = (@ \ {o}) \cup new]

\* "delete this": the destructor of the socket closes the connection.
Delete(s) ==
    /\ heap' = [heap EXCEPT ![s] = IF @ = "live" THEN "freed" ELSE "double"]
    /\ conn' = [conn EXCEPT ![s] = "closed"]

\* A thread returns to io_service::run.
Return(t) ==
    /\ pc' = [pc EXCEPT ![t] = "run"]
    /\ cur' = [cur EXCEPT ![t] = NoSession]
    /\ UNCHANGED <<up, listening>>

\* An exception leaves a handler.  In a worker nothing catches it and the
\* runtime terminates the process; main catches it, but first destroys the
\* servers, whose destructors join threads that never end.
Throw(t) ==
    /\ IF t = Main /\ \E w \in Workers : pc[w] # "none"
       THEN /\ pc' = [pc EXCEPT ![t] = "join"]
            /\ up' = up
       ELSE /\ pc' = [pc EXCEPT ![t] = "none"]
            /\ up' = FALSE
    /\ cur' = [cur EXCEPT ![t] = NoSession]
    /\ UNCHANGED listening

\* remote_endpoint() asks the kernel for the peer of a connection it reset.
EndpointGone(s) == conn[s] = "reset"

\* start_accept: a new session is allocated and waits for a connection.
Fresh(srv) == {s \in Sessions : heap[s] = "none" /\ ServerOf[s] = srv}

\* What parse_data can answer for the contents of data_.
Parse(d) ==
    CASE d \in {"get", "getclose"}     -> {"good"}
      [] d \in {"bad", "body", "zero"} -> {"bad"}
      [] d = "partial"                 -> {"indeterminate"}
      [] d = "post" -> {"good", "missing_data", "throw"}
      [] d = "rest" -> {"good", "bad", "missing_data", "indeterminate", "throw"}

\* The values request_.headers_["Connection"] == "close" can take after it.
Closes(d) == IF d \in {"get", "zero"} THEN {FALSE}
             ELSE IF d = "getclose" THEN {TRUE} ELSE BOOLEAN

Idle(t) == up /\ pc[t] = "run"

\* The reactor runs inside io_service::run of some thread.
ReactorRuns == \E t \in Threads : Idle(t)

Queued(s, op) == {o \in ops[s] : o[1] = op /\ o[2] # "started"}

\* Reads and writes can fail once the connection is over.
MayFail(s) == conn[s] # "up"

-----------------------------------------------------------------------------
(* main() and the process *)

\* Mutant of ConstructServer: the constructor's loop starts no thread.
ConstructServerAlone(srv) ==
    /\ up /\ pc[Main] = "init" /\ srv \notin listening
    /\ \E s \in Fresh(srv) :
          /\ heap' = [heap EXCEPT ![s] = "live"]
          /\ ops' = [ops EXCEPT ![s] = {Started("accept")}]
    /\ listening' = listening \cup {srv}
    /\ pc' = [pc EXCEPT ![Main] = IF listening' = Servers THEN "run" ELSE "init"]
    /\ UNCHANGED <<up, cur, conn, requestVars, peerVars>>

\* One turn of main's loop: the constructor arms the acceptor and starts the
\* server's threads; after the last server main itself runs the io_service.
ConstructServer(srv) ==
    /\ up /\ pc[Main] = "init" /\ srv \notin listening
    /\ \E s \in Fresh(srv) :
          /\ heap' = [heap EXCEPT ![s] = "live"]
          /\ ops' = [ops EXCEPT ![s] = {Started("accept")}]
    /\ listening' = listening \cup {srv}
    /\ pc' = [t \in Threads |->
                IF t = Main THEN IF listening' = Servers THEN "run" ELSE "init"
                ELSE IF StartedBy[t] = srv THEN "run" ELSE pc[t]]
    /\ UNCHANGED <<up, cur, conn, requestVars, peerVars>>

\* The port is in use, or a certificate is missing.
ConstructServerFails ==
    /\ up /\ pc[Main] = "init"
    /\ Throw(Main)
    /\ UNCHANGED <<objectVars, requestVars, peerVars>>

\* SIGTERM or SIGINT: exit(0), and nothing is left of the process.
signal_handler ==
    /\ up /\ up' = FALSE
    /\ listening' = {}
    /\ pc' = [t \in Threads |-> IF t = Main THEN "init" ELSE "none"]
    /\ cur' = [t \in Threads |-> NoSession]
    /\ heap' = [s \in Sessions |-> "none"]
    /\ conn' = [s \in Sessions |-> "none"]
    /\ ops' = [s \in Sessions |-> {}]
    /\ data' = [s \in Sessions |-> "zero"]
    /\ resp' = [s \in Sessions |-> "none"]
    /\ closing' = [s \in Sessions |-> FALSE]
    /\ inbox' = [s \in Sessions |-> "none"]
    /\ peer' = [s \in Sessions |-> "idle"]
    /\ asked' = [s \in Sessions |-> "none"]
    /\ sent' = [s \in Sessions |-> 0]

-----------------------------------------------------------------------------
(* The reactor: an asynchronous operation completes and its handler is queued *)

Complete(s, op, stage) ==
    /\ ReactorRuns
    /\ Started(op) \in ops[s]
    /\ Continue(s, Started(op), {<<op, stage>>})
    /\ UNCHANGED <<serverVars, heap>>

CompleteAccept(s) ==
    /\ \/ Complete(s, "accept", "ok") /\ conn' = [conn EXCEPT ![s] = "up"]
       \/ Complete(s, "accept", "error") /\ conn' = conn
    /\ UNCHANGED <<requestVars, peerVars>>

CompleteHandshake(s) ==
    /\ \/ Complete(s, "handshake", "ok") /\ conn[s] = "up"
       \/ Complete(s, "handshake", "error")
    /\ UNCHANGED <<conn, requestVars, peerVars>>

\* async_read_some into data_ (handle_read) or buffer_ (handle_final_read).
CompleteRead(s) ==
    /\ \E op \in {"read", "final_read"} :
          \/ /\ inbox[s] # "none"
             /\ Complete(s, op, "ok")
             /\ inbox' = [inbox EXCEPT ![s] = "none"]
             /\ data' = IF op = "read" THEN [data EXCEPT ![s] = inbox[s]] ELSE data
          \/ /\ inbox[s] = "none" /\ MayFail(s)
             /\ Complete(s, op, "error")
             /\ UNCHANGED <<inbox, data>>
    /\ UNCHANGED <<conn, resp, closing, peer, asked, sent>>

\* The whole response went out, or the write failed.
CompleteWrite(s) ==
    /\ \/ /\ conn[s] \in {"up", "eof"}
          /\ Complete(s, "write", "ok")
          /\ peer' = [peer EXCEPT ![s] = IF @ = "waiting" THEN "idle" ELSE @]
       \/ MayFail(s) /\ Complete(s, "write", "error") /\ peer' = peer
    /\ UNCHANGED <<conn, requestVars, inbox, asked, sent>>

\* The TLS shutdown waits for the peer's own, or for the end of the connection.
CompleteShutdown(s) ==
    /\ conn[s] # "up"
    /\ Complete(s, "shutdown", "ok")
    /\ UNCHANGED <<conn, requestVars, peerVars>>

-----------------------------------------------------------------------------
(* Handlers *)

\* Mutant of handle_accept: start_accept moved into the branch of success.
handle_acceptIfOk(t, s) ==
    /\ Idle(t)
    /\ \E o \in Queued(s, "accept"), f \in Fresh(ServerOf[s]) :
          IF o[2] = "ok"
          THEN /\ heap' = [heap EXCEPT ![f] = "live"]
               /\ ops' = [ops EXCEPT ![f] = {Started("accept")},
                           ![s] = {Started(IF ServerOf[s] \in Https THEN "handshake" ELSE "read")}]
               /\ conn' = conn
          ELSE Continue(s, o, {}) /\ Delete(s)
    /\ UNCHANGED <<serverVars, requestVars, peerVars>>

\* start() on the accepted session, or delete; then start_accept().
handle_accept(t, s) ==
    /\ Idle(t)
    /\ \E o \in Queued(s, "accept"), f \in Fresh(ServerOf[s]) :
          LET next == IF o[2] = "error" THEN {}
                      ELSE {Started(IF ServerOf[s] \in Https THEN "handshake" ELSE "read")}
          IN  /\ heap' = [heap EXCEPT ![f] = "live",
                                      ![s] = IF o[2] = "error" THEN "freed" ELSE @]
              /\ conn' = [conn EXCEPT ![s] = IF o[2] = "error" THEN "closed" ELSE @]
              /\ ops' = [ops EXCEPT ![f] = {Started("accept")},
                                    ![s] = (@ \ {o}) \cup next]
    /\ UNCHANGED <<serverVars, requestVars, peerVars>>

handle_handshake(t, s) ==
    /\ Idle(t)
    /\ \E o \in Queued(s, "handshake") :
          IF o[2] = "ok"
          THEN Continue(s, o, {Started("read")}) /\ UNCHANGED <<heap, conn>>
          ELSE Continue(s, o, {}) /\ Delete(s)
    /\ UNCHANGED <<serverVars, requestVars, peerVars>>

\* handle_read, handle_final_read and handle_write begin by asking for the
\* remote endpoint, outside of any try.
RemoteEndpointThrows(t, s) ==
    /\ Idle(t) /\ EndpointGone(s)
    /\ \E op \in {"read", "final_read", "write"} :
          \E o \in Queued(s, op) : Continue(s, o, {})
    /\ Throw(t)
    /\ UNCHANGED <<heap, conn, requestVars, peerVars>>

\* The handler fills response_generator_, starts the write and is left with
\* its trailing memset.
Respond(t, s, r) ==
    /\ resp' = [resp EXCEPT ![s] = r]
    /\ pc' = [pc EXCEPT ![t] = "clear"]
    /\ cur' = [cur EXCEPT ![t] = s]
    /\ UNCHANGED <<up, listening>>

\* Mutants of Starts: the next read starts with the write; missing data is
\* not read.
StartsReadToo(result) ==
    CASE result \in {"good", "bad"} -> {Started("write"), Started("read")}
      [] result = "missing_data"    -> {Started("final_read")}
      [] OTHER                      -> {}

StartsNoFinalRead(result) ==
    IF result \in {"good", "bad"} THEN {Started("write")} ELSE {}

\* The operation handle_read starts on each result of parse_data.
Starts(result) ==
    CASE result \in {"good", "bad"} -> {Started("write")}
      [] result = "missing_data"    -> {Started("final_read")}
      [] OTHER                      -> {}

\* What handle_read does with the answer of parse_data on d; done is the
\* operation it consumed, if this is the first parse.
Parsed(t, s, d, done) ==
    /\ \E result \in Parse(d) :
          /\ ops' = [ops EXCEPT ![s] = (@ \ done) \cup Starts(result)]
          /\ \/ result = "good" /\ Respond(t, s, "handled")
             \/ result = "bad"  /\ Respond(t, s, "bad_request")
             \/ result = "missing_data" /\ Return(t) /\ UNCHANGED resp
             \/ /\ result = "indeterminate"
                /\ pc' = [pc EXCEPT ![t] = "read_loop"]
                /\ cur' = [cur EXCEPT ![t] = s]
                /\ UNCHANGED <<up, listening, resp>>
             \/ result = "throw" /\ Throw(t) /\ UNCHANGED resp
    /\ \E c \in Closes(d) : closing' = [closing EXCEPT ![s] = c]
    /\ UNCHANGED <<heap, conn>>

\* Mutant of handle_read: the session is not deleted after an error.
handle_readKeeps(t, s) ==
    /\ Idle(t) /\ ~EndpointGone(s)
    /\ \E o \in Queued(s, "read") :
          \/ o[2] = "ok" /\ Parsed(t, s, data[s], {o}) /\ UNCHANGED data
          \/ /\ o[2] = "error" /\ Continue(s, o, {})
             /\ UNCHANGED <<serverVars, heap, conn, requestVars>>
    /\ UNCHANGED peerVars

handle_read(t, s) ==
    /\ Idle(t) /\ ~EndpointGone(s)
    /\ \E o \in Queued(s, "read") :
          \/ /\ o[2] = "ok"
             /\ Parsed(t, s, data[s], {o})
             /\ UNCHANGED data
          \/ /\ o[2] = "error"
             /\ Continue(s, o, {}) /\ Delete(s)
             /\ UNCHANGED <<serverVars, requestVars>>
    /\ UNCHANGED peerVars

\* The synchronous read of the loop, and the parse after it.  When it fails the
\* parse sees what data_ held before, and handle_read returns: the session is
\* left with no operation.
ReadLoop(t) ==
    /\ up /\ pc[t] = "read_loop"
    /\ LET s == cur[t] IN
          \/ /\ inbox[s] # "none"
             /\ data' = [data EXCEPT ![s] = inbox[s]]
             /\ inbox' = [inbox EXCEPT ![s] = "none"]
             /\ Parsed(t, s, inbox[s], {})
          \/ /\ inbox[s] = "none" /\ MayFail(s)
             /\ \/ Return(t)
                \/ "throw" \in Parse(data[s]) /\ Throw(t)
             /\ UNCHANGED <<objectVars, requestVars, inbox>>
    /\ UNCHANGED <<peer, asked, sent>>

\* The error of the additional read is not looked at.
handle_final_read(t, s) ==
    /\ Idle(t) /\ ~EndpointGone(s)
    /\ \E o \in Queued(s, "final_read") : Continue(s, o, {Started("write")})
    /\ Respond(t, s, "handled")
    /\ UNCHANGED <<heap, conn, data, closing, peerVars>>

\* Mutant of Clear: the thread keeps the session.
ClearKeeps(t) ==
    /\ up /\ pc[t] = "clear"
    /\ data' = [data EXCEPT ![cur[t]] = "zero"]
    /\ pc' = [pc EXCEPT ![t] = "run"]
    /\ UNCHANGED <<up, listening, cur, objectVars, resp, closing, peerVars>>

\* memset(data_, 0, ...) at the end of handle_read and handle_final_read.  The
\* session may have been deleted since the write was started.
Clear(t) ==
    /\ up /\ pc[t] = "clear"
    /\ data' = [data EXCEPT ![cur[t]] = "zero"]
    /\ pc' = [pc EXCEPT ![t] = "run"]
    /\ cur' = [cur EXCEPT ![t] = NoSession]
    /\ up' \in BOOLEAN /\ (heap[cur[t]] = "live" => up')
    /\ UNCHANGED <<listening, objectVars, resp, closing, peerVars>>

\* Mutant of handle_write: the else before the next read is missing.
handle_writeNoElse(t, s) ==
    /\ Idle(t) /\ ~EndpointGone(s)
    /\ \E o \in Queued(s, "write") :
          LET ends == o[2] = "error" \/ closing[s]
              tls  == ServerOf[s] \in Https
          IN  /\ Continue(s, o, (IF o[2] = "ok" THEN {Started("read")} ELSE {})
                                \cup (IF ends /\ tls THEN {Started("shutdown")} ELSE {}))
              /\ IF ends /\ (tls => o[2] = "error")
                 THEN Delete(s) ELSE UNCHANGED <<heap, conn>>
    /\ UNCHANGED <<serverVars, requestVars, peerVars>>

\* Session ends a connection with an asynchronous TLS shutdown (close_socket),
\* which it does not wait for after an error; HttpSession closes at once.
handle_write(t, s) ==
    /\ Idle(t) /\ ~EndpointGone(s)
    /\ \E o \in Queued(s, "write") :
          LET ends == o[2] = "error" \/ closing[s]
              tls  == ServerOf[s] \in Https
          IN  /\ Continue(s, o, IF ~ends THEN {Started("read")}
                                ELSE IF tls THEN {Started("shutdown")} ELSE {})
              /\ IF ends /\ (tls => o[2] = "error")
                 THEN Delete(s) ELSE UNCHANGED <<heap, conn>>
    /\ UNCHANGED <<serverVars, requestVars, peerVars>>

\* The lambda of close_socket: close the socket and delete the session, which
\* handle_write may have deleted before.
ShutdownDone(t, s) ==
    /\ Idle(t)
    /\ \E o \in Queued(s, "shutdown") : Continue(s, o, {})
    /\ Delete(s)
    /\ up' \in BOOLEAN /\ (heap[s] = "live" => up')
    /\ UNCHANGED <<listening, pc, cur, requestVars, peerVars>>

-----------------------------------------------------------------------------
(* Peers *)

\* The peer of s can send: connected and, over TLS, past the handshake.
CanSend(s) ==
    /\ up /\ conn[s] = "up" /\ inbox[s] = "none" /\ sent[s] < MaxSends
    /\ ServerOf[s] \in Https =>
          \A o \in ops[s] : o[1] # "accept" /\ (o[1] = "handshake" => o[2] = "ok")

Deliver(s, seg, to) ==
    /\ inbox' = [inbox EXCEPT ![s] = seg]
    /\ peer' = [peer EXCEPT ![s] = to]
    /\ sent' = [sent EXCEPT ![s] = @ + 1]
    /\ UNCHANGED <<serverVars, objectVars, requestVars>>

\* A request, whole or begun; a peer that asked to close sends no other.
PeerRequest(s) ==
    /\ CanSend(s) /\ peer[s] = "idle" /\ asked[s] # "getclose"
    /\ \E seg \in Requests[s] :
          /\ asked' = [asked EXCEPT ![s] = seg]
          /\ Deliver(s, seg, IF seg \in Plain THEN "waiting" ELSE "unfinished")

\* The rest of a request begun.
PeerContinues(s) ==
    /\ CanSend(s) /\ peer[s] = "unfinished"
    /\ asked' = asked
    /\ Deliver(s, IF asked[s] = "post" THEN "body" ELSE "rest", "waiting")

\* The peer closes its side, or the TLS stream breaks: what was received can
\* still be read, and the kernel still knows the endpoint.
PeerClose(s) ==
    /\ up /\ s \in Leaving /\ conn[s] = "up"
    /\ conn' = [conn EXCEPT ![s] = "eof"]
    /\ UNCHANGED <<serverVars, heap, ops, requestVars, peerVars>>

\* The connection is reset: what was not yet read is lost.
PeerReset(s) ==
    /\ up /\ s \in Resettable /\ conn[s] \in {"up", "eof"}
    /\ conn' = [conn EXCEPT ![s] = "reset"]
    /\ inbox' = [inbox EXCEPT ![s] = "none"]
    /\ UNCHANGED <<serverVars, heap, ops, requestVars, peer, asked, sent>>

-----------------------------------------------------------------------------

Handle(t, s) ==
    \/ handle_accept(t, s)     \/ handle_handshake(t, s)
    \/ handle_read(t, s)       \/ handle_final_read(t, s)
    \/ handle_write(t, s)      \/ ShutdownDone(t, s)
    \/ RemoteEndpointThrows(t, s)

React(s) ==
    \/ CompleteAccept(s)       \/ CompleteHandshake(s)
    \/ CompleteRead(s)         \/ CompleteWrite(s)
    \/ CompleteShutdown(s)

Next ==
    \/ \E srv \in Servers : ConstructServer(srv)
    \/ ConstructServerFails
    \/ signal_handler
    \/ \E s \in Sessions : React(s)
    \/ \E t \in Threads, s \in Sessions : Handle(t, s)
    \/ \E t \in Threads : ReadLoop(t) \/ Clear(t)
    \/ \E s \in Sessions : PeerRequest(s) \/ PeerContinues(s)
    \/ \E s \in Sessions : PeerClose(s) \/ PeerReset(s)

Spec == Init /\ [][Next]_vars

-----------------------------------------------------------------------------
(* Fairness.  Threads that run the io_service keep running it, handlers are   *)
(* queued in FIFO order, and the kernel reports what happened to a            *)
(* connection.  A handler or a completion is enabled only while a thread is   *)
(* idle, hence the strong fairness; it is needed only for the sessions that   *)
(* send whole requests.  Nothing makes a peer send, finish a request, answer  *)
(* a handshake or go away, and accept completes only when somebody connects.  *)
Fairness ==
    /\ \A srv \in Servers : WF_vars(ConstructServer(srv))
    /\ \A t \in Threads : WF_vars(ReadLoop(t) \/ Clear(t))
    /\ \A s \in Sessions \ Segmented :
          SF_vars(\/ \E t \in Threads : Handle(t, s)
                  \/ CompleteRead(s) \/ CompleteWrite(s) \/ CompleteShutdown(s)
                  \/ conn[s] # "up" /\ CompleteHandshake(s))

FairSpec == Spec /\ Fairness

-----------------------------------------------------------------------------
(* Safety *)

\* A live session is driven by one operation or by one handler blocked in the
\* read loop, never by two: what orders the handlers of a session is only that
\* each one starts the next operation as its last step on the session.
Drivers(s) == ops[s] \cup {<<"read_loop", t>> : t \in {u \in Threads :
                                   pc[u] = "read_loop" /\ cur[u] = s}}
OneDriver == \A s \in Sessions : \A x, y \in Drivers(s) : x = y

\* Every server that listens has exactly one accept under way, whatever its
\* sessions do and however they end (start_accept in handle_accept).
Accepting(srv) == {s \in Sessions : ServerOf[s] = srv /\ \E o \in ops[s] : o[1] = "accept"}
AcceptorArmed ==
    \A srv \in listening : \E s \in Accepting(srv) : Accepting(srv) = {s}

\* No handler forgets its session: an open connection always has an operation
\* or a reading thread, so the next bytes of its peer, or its end, are seen.
\* It is lost only when an exception takes main out of the io_service.
ConnectedIsServed ==
    up /\ pc[Main] # "join" =>
        \A s \in Sessions : heap[s] = "live" /\ conn[s] = "up" => Drivers(s) # {}

\* A deleted session is referred to by no operation other than the TLS
\* shutdown that handle_write started before it deleted the session.
DeletedOnlyAwaitsShutdown ==
    \A s \in Sessions : heap[s] \in {"freed", "double"} =>
        \A x \in Drivers(s) : x[1] = "shutdown" /\ ServerOf[s] \in Https

\* The response a session sends is not replaced while its buffers are being
\* written (to_buffers does not own what it points to).
ResponseStableInFlight ==
    [][up' => \A s \in Sessions : Started("write") \in ops[s] =>
            resp'[s] = resp[s]]_vars

\* A 400 is sent only for a request that is bad, as the comment before the
\* branch of handle_read says.
RefusedOnlyIfBad ==
    \A s \in Sessions \ Segmented : resp[s] = "bad_request" /\ Started("write") \in ops[s] =>
        asked[s] \notin {"get", "getclose"}

\* A session is deleted once: by handle_write or by the callback of the
\* shutdown that logs "Socket closed.", not by both.
DeletedOnce == \A s \in Sessions : heap[s] # "double"

-----------------------------------------------------------------------------
(* Liveness *)

\* The process is lost, or the connection waits for the session that the
\* bound on allocations does not let start_accept create.
Lost(s) ==
    \/ ~up \/ pc[Main] = "join"
    \/ Fresh(ServerOf[s]) = {} /\ \E o \in ops[s] : o[1] = "accept"

\* Every thread of the pool is blocked in the synchronous read of handle_read, each
\* by a peer that has not finished its request.
Starved == \A t \in Threads : pc[t] = "read_loop"

\* A request sent whole is answered, or its connection is over: other sessions do
\* not keep it from that, as long as some thread is left.  Peers that leave their
\* requests unfinished, as many as there are threads, can stop the server for all
\* others for as long as they like, as handle_read waits for them in the pool.
WholeRequestsAreAnswered ==
    \A s \in Sessions \ Segmented :
        peer[s] = "waiting" ~> \/ peer[s] = "idle" \/ conn[s] # "up" \/ Lost(s)
                              \/ []Starved

\* A session whose peer is gone is deleted and not leaked, as long as some thread is
\* left to do it.
LeftSessionsAreDeleted ==
    \A s \in Sessions \ Segmented :
        conn[s] = "eof" ~> \/ heap[s] # "live" \/ conn[s] = "reset" \/ Lost(s)
                          \/ []Starved
=============================================================================
