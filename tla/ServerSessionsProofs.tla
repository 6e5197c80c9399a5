------------------------ MODULE ServerSessionsProofs ------------------------
(* What holds of ServerSessions for any number of sessions, servers and     *)
(* threads, any peers and any bound on what they send: first the strand of  *)
(* a session, then what rests on it, that its response stays, an open       *)
(* connection is served, and a deleted session is left alone.               *)
EXTENDS ServerSessions, TLAPS

\* The threads of a server run only once it is constructed.
Unstarted == \A w \in Workers : StartedBy[w] \notin listening => pc[w] = "none"

\* A thread leaves its handler, by an exception or by going back to run.
LEMMA ThrowType ==
    ASSUME TypeOK, NEW t \in Threads, Throw(t)
    PROVE  /\ up' \in BOOLEAN
           /\ pc' \in [Threads -> {"none", "init", "run", "read_loop", "clear", "join"}]
           /\ cur' \in [Threads -> Sessions \cup {NoSession}]
           /\ \A u \in Threads : cur'[u] \in Sessions <=> pc'[u] \in {"read_loop", "clear"}
           /\ listening' \subseteq Servers
<1>1. CASE t = Main /\ \E w \in Workers : pc[w] # "none"
  <2>1. /\ pc' = [pc EXCEPT ![t] = "join"] /\ up' = up
        /\ cur' = [cur EXCEPT ![t] = NoSession] /\ listening' = listening
    BY <1>1 DEF Throw
  <2> QED
    BY <2>1, SessionsAssumption DEF TypeOK
<1>2. CASE ~(t = Main /\ \E w \in Workers : pc[w] # "none")
  <2>1. pc' = [pc EXCEPT ![t] = "none"]
    BY <1>2 DEF Throw
  <2>2. cur' = [cur EXCEPT ![t] = NoSession] /\ listening' = listening
    BY DEF Throw
  <2>3. up' \in BOOLEAN
    BY <1>2 DEF Throw
  <2> QED
    BY <2>1, <2>2, <2>3, SessionsAssumption DEF TypeOK
<1> QED
  BY <1>1, <1>2

LEMMA ReturnType ==
    ASSUME TypeOK, NEW t \in Threads, Return(t)
    PROVE  /\ up' \in BOOLEAN
           /\ pc' \in [Threads -> {"none", "init", "run", "read_loop", "clear", "join"}]
           /\ cur' \in [Threads -> Sessions \cup {NoSession}]
           /\ \A u \in Threads : cur'[u] \in Sessions <=> pc'[u] \in {"read_loop", "clear"}
           /\ listening' \subseteq Servers
  BY SessionsAssumption DEF Return, TypeOK

LEMMA ParsedType ==
    ASSUME TypeOK, NEW t \in Threads, NEW s \in Sessions, NEW d, NEW done, Parsed(t, s, d, done)
    PROVE  /\ up' \in BOOLEAN
           /\ pc' \in [Threads -> {"none", "init", "run", "read_loop", "clear", "join"}]
           /\ cur' \in [Threads -> Sessions \cup {NoSession}]
           /\ \A u \in Threads : cur'[u] \in Sessions <=> pc'[u] \in {"read_loop", "clear"}
           /\ listening' \subseteq Servers
           /\ ops' \in [Sessions -> SUBSET (Operation \X Stage)]
           /\ resp' \in [Sessions -> {"none", "handled", "bad_request"}]
           /\ closing' \in [Sessions -> BOOLEAN]
           /\ UNCHANGED <<heap, conn>>
<1>1. PICK result \in Parse(d) :
          /\ ops' = [ops EXCEPT ![s] = (@ \ done) \cup Starts(result)]
          /\ \/ result = "good" /\ Respond(t, s, "handled")
             \/ result = "bad"  /\ Respond(t, s, "bad_request")
             \/ result = "missing_data" /\ Return(t) /\ UNCHANGED resp
             \/ /\ result = "indeterminate"
                /\ pc' = [pc EXCEPT ![t] = "read_loop"]
                /\ cur' = [cur EXCEPT ![t] = s]
                /\ UNCHANGED <<up, listening, resp>>
             \/ result = "throw" /\ Throw(t) /\ UNCHANGED resp
  BY DEF Parsed
<1>2. Starts(result) \subseteq Operation \X Stage
  BY DEF Starts, Started, Operation, Stage
<1>3. ops' \in [Sessions -> SUBSET (Operation \X Stage)]
  BY <1>1, <1>2 DEF TypeOK
<1>4. closing' \in [Sessions -> BOOLEAN]
  <2>1. PICK c \in Closes(d) : closing' = [closing EXCEPT ![s] = c]
    BY DEF Parsed
  <2>2. Closes(d) \subseteq BOOLEAN
    BY DEF Closes
  <2> QED BY <2>1, <2>2 DEF TypeOK
<1>5. UNCHANGED <<heap, conn>>
  BY DEF Parsed
<1>6. CASE Throw(t) /\ UNCHANGED resp
  BY <1>6, <1>3, <1>4, <1>5, ThrowType DEF TypeOK
<1>7. CASE Return(t) /\ UNCHANGED resp
  BY <1>7, <1>3, <1>4, <1>5, ReturnType DEF TypeOK
<1>8. ASSUME NEW r \in {"handled", "bad_request"}, Respond(t, s, r)
      PROVE  /\ up' \in BOOLEAN
             /\ pc' \in [Threads -> {"none", "init", "run", "read_loop", "clear", "join"}]
             /\ cur' \in [Threads -> Sessions \cup {NoSession}]
             /\ \A u \in Threads : cur'[u] \in Sessions <=> pc'[u] \in {"read_loop", "clear"}
             /\ listening' \subseteq Servers
             /\ resp' \in [Sessions -> {"none", "handled", "bad_request"}]
  BY <1>8, SessionsAssumption DEF Respond, TypeOK
<1>9. CASE /\ pc' = [pc EXCEPT ![t] = "read_loop"]
           /\ cur' = [cur EXCEPT ![t] = s]
           /\ UNCHANGED <<up, listening, resp>>
  BY <1>9, <1>3, <1>4, <1>5, SessionsAssumption DEF TypeOK
<1> QED
  BY <1>1, <1>3, <1>4, <1>5, <1>6, <1>7, <1>8, <1>9

\* TypeOK: what every variable can hold, and that a thread stands inside of a
\* session's handler exactly when it is in the read loop or before the memset.
LEMMA TypeStep == TypeOK /\ Unstarted /\ [Next]_vars => TypeOK'
<1> SUFFICES ASSUME TypeOK, Unstarted, [Next]_vars PROVE TypeOK'
  OBVIOUS
<1> USE SessionsAssumption
<1> USE DEF TypeOK, Threads, Operation, Stage, Segment, Plain, serverVars, objectVars,
            requestVars, peerVars
<1>1. ASSUME NEW srv \in Servers, ConstructServer(srv) PROVE TypeOK'
  <2>1. /\ up' \in BOOLEAN /\ listening' \subseteq Servers
        /\ heap' \in [Sessions -> {"none", "live", "freed", "double"}]
        /\ ops' \in [Sessions -> SUBSET (Operation \X Stage)]
    BY <1>1 DEF ConstructServer, Fresh, Started
  <2>2. pc' \in [Threads -> {"none", "init", "run", "read_loop", "clear", "join"}]
    BY <1>1 DEF ConstructServer
  <2>3. ASSUME NEW t \in Threads
        PROVE  cur'[t] \in Sessions <=> pc'[t] \in {"read_loop", "clear"}
    <3>1. pc[t] \notin {"read_loop", "clear"} => cur'[t] \notin Sessions
      BY <1>1, <2>3 DEF ConstructServer
    <3>2. CASE t = Main
      BY <1>1, <2>3, <3>1, <3>2 DEF ConstructServer
    <3>3. CASE t \in Workers /\ StartedBy[t] = srv
      BY <1>1, <2>3, <3>1, <3>3 DEF ConstructServer, Unstarted
    <3>4. CASE t \in Workers /\ StartedBy[t] # srv
      BY <1>1, <2>3, <3>4 DEF ConstructServer
    <3> QED BY <3>2, <3>3, <3>4
  <2> QED
    BY <1>1, <2>1, <2>2, <2>3 DEF ConstructServer
<1>2. CASE ConstructServerFails
  BY <1>2, ThrowType DEF ConstructServerFails
<1>3. CASE signal_handler
  <2>1. \A t \in Threads : cur'[t] \notin Sessions /\ pc'[t] \notin {"read_loop", "clear"}
    BY <1>3 DEF signal_handler
  <2>2. up' \in BOOLEAN
    BY <1>3 DEF signal_handler
  <2> QED BY <1>3, <2>1, <2>2 DEF signal_handler
<1>4. ASSUME NEW s \in Sessions, React(s) PROVE TypeOK'
  <2>1. CASE CompleteAccept(s)
    BY <2>1 DEF CompleteAccept, Complete, Continue, Started
  <2>2. CASE CompleteHandshake(s)
    BY <2>2 DEF CompleteHandshake, Complete, Continue, Started
  <2>3. CASE CompleteRead(s)
    BY <2>3 DEF CompleteRead, Complete, Continue, Started
  <2>4. CASE CompleteWrite(s)
    BY <2>4 DEF CompleteWrite, Complete, Continue, Started
  <2>5. CASE CompleteShutdown(s)
    BY <2>5 DEF CompleteShutdown, Complete, Continue, Started
  <2> QED BY <1>4, <2>1, <2>2, <2>3, <2>4, <2>5 DEF React
<1>5. ASSUME NEW t \in Threads, NEW s \in Sessions, Handle(t, s) PROVE TypeOK'
  <2>1. CASE handle_accept(t, s)
    BY <2>1 DEF handle_accept, Queued, Fresh, Started, Idle
  <2>2. CASE handle_handshake(t, s)
    BY <2>2 DEF handle_handshake, Queued, Continue, Delete, Started, Idle
  <2>3. CASE handle_read(t, s)
    <3>1. PICK o \in Queued(s, "read") :
              \/ o[2] = "ok" /\ Parsed(t, s, data[s], {o}) /\ UNCHANGED data
              \/ /\ o[2] = "error" /\ Continue(s, o, {}) /\ Delete(s)
                 /\ UNCHANGED <<serverVars, requestVars>>
      BY <2>3 DEF handle_read
    <3>2. UNCHANGED peerVars
      BY <2>3 DEF handle_read
    <3>3. CASE Parsed(t, s, data[s], {o}) /\ UNCHANGED data
      BY <3>2, <3>3, ParsedType
    <3>4. CASE Continue(s, o, {}) /\ Delete(s) /\ UNCHANGED <<serverVars, requestVars>>
      BY <3>2, <3>4 DEF Continue, Delete
    <3> QED BY <3>1, <3>3, <3>4
  <2>4. CASE handle_final_read(t, s)
    BY <2>4 DEF handle_final_read, Queued, Continue, Respond, Started, Idle
  <2>5. CASE handle_write(t, s)
    BY <2>5 DEF handle_write, Queued, Continue, Delete, Started, Idle
  <2>6. CASE ShutdownDone(t, s)
    BY <2>6 DEF ShutdownDone, Queued, Continue, Delete, Idle
  <2>7. CASE RemoteEndpointThrows(t, s)
    BY <2>7, ThrowType DEF RemoteEndpointThrows, Queued, Continue
  <2> QED BY <1>5, <2>1, <2>2, <2>3, <2>4, <2>5, <2>6, <2>7 DEF Handle
<1>6. ASSUME NEW t \in Threads, ReadLoop(t) PROVE TypeOK'
  <2> DEFINE s == cur[t]
  <2>1. s \in Sessions /\ UNCHANGED <<peer, asked, sent>>
    BY <1>6 DEF ReadLoop
  <2>2. CASE /\ data' = [data EXCEPT ![s] = inbox[s]] /\ inbox[s] # "none"
             /\ inbox' = [inbox EXCEPT ![s] = "none"]
             /\ Parsed(t, s, inbox[s], {})
    BY <2>1, <2>2, ParsedType
  <2>3. CASE Return(t) /\ UNCHANGED <<objectVars, requestVars, inbox>>
    BY <2>1, <2>3, ReturnType
  <2>4. CASE Throw(t) /\ UNCHANGED <<objectVars, requestVars, inbox>>
    BY <2>1, <2>4, ThrowType
  <2> QED
    BY <1>6, <2>2, <2>3, <2>4 DEF ReadLoop
<1>7. ASSUME NEW t \in Threads, Clear(t) PROVE TypeOK'
  BY <1>7 DEF Clear
<1>8. ASSUME NEW s \in Sessions, PeerRequest(s) PROVE TypeOK'
  BY <1>8 DEF PeerRequest, CanSend, Deliver
<1>9. ASSUME NEW s \in Sessions, PeerContinues(s) PROVE TypeOK'
  BY <1>9 DEF PeerContinues, CanSend, Deliver
<1>10. ASSUME NEW s \in Sessions, PeerClose(s) PROVE TypeOK'
  BY <1>10 DEF PeerClose
<1>11. ASSUME NEW s \in Sessions, PeerReset(s) PROVE TypeOK'
  BY <1>11 DEF PeerReset
<1>12. CASE UNCHANGED vars
  BY <1>12 DEF vars
<1> QED
  BY <1>1, <1>2, <1>3, <1>4, <1>5, <1>6, <1>7, <1>8, <1>9, <1>10, <1>11, <1>12 DEF Next

-----------------------------------------------------------------------------
(* What a thread does when it runs a handler, seen from the operations.      *)

\* The operations a handler can start: at most one, and never an accept.
NewOps == {{}} \cup {{Started(op)} : op \in Operation \ {"accept"}}

\* Only t moves; if it ends up in the read loop it is that of s, and it has
\* started nothing.  No object is forgotten.
OnlyMoves(t, s, new) ==
    /\ listening' = listening
    /\ \A u \in Threads : u # t => pc'[u] = pc[u] /\ cur'[u] = cur[u]
    /\ pc'[t] = "read_loop" => cur'[t] = s /\ new = {}
    /\ \A r \in Sessions : heap'[r] = "none" => heap[r] = "none"

\* t runs the handler of o, which starts the operations in new.
Serves(t, s, o, new) ==
    /\ pc[t] = "run"
    /\ o \in ops[s] /\ o[1] # "accept"
    /\ ops' = [ops EXCEPT ![s] = (@ \ {o}) \cup new]
    /\ OnlyMoves(t, s, new)

LEMMA ThrowMoves ==
    ASSUME TypeOK, NEW t \in Threads, NEW s, Throw(t), heap' = heap
    PROVE  OnlyMoves(t, s, {})
  BY DEF Throw, OnlyMoves, TypeOK

LEMMA RespondMoves ==
    ASSUME TypeOK, NEW t \in Threads, NEW s, NEW r, NEW new, Respond(t, s, r), heap' = heap
    PROVE  OnlyMoves(t, s, new)
  BY DEF Respond, OnlyMoves, TypeOK

LEMMA ParsedMoves ==
    ASSUME TypeOK, NEW t \in Threads, NEW s \in Sessions, NEW d, NEW done,
           Parsed(t, s, d, done)
    PROVE  \E new \in NewOps : /\ ops' = [ops EXCEPT ![s] = (@ \ done) \cup new]
                               /\ OnlyMoves(t, s, new)
<1>1. PICK result \in Parse(d) :
          /\ ops' = [ops EXCEPT ![s] = (@ \ done) \cup Starts(result)]
          /\ \/ result = "good" /\ Respond(t, s, "handled")
             \/ result = "bad"  /\ Respond(t, s, "bad_request")
             \/ result = "missing_data" /\ Return(t) /\ UNCHANGED resp
             \/ /\ result = "indeterminate"
                /\ pc' = [pc EXCEPT ![t] = "read_loop"]
                /\ cur' = [cur EXCEPT ![t] = s]
                /\ UNCHANGED <<up, listening, resp>>
             \/ result = "throw" /\ Throw(t) /\ UNCHANGED resp
  BY DEF Parsed
<1>2. Starts(result) \in NewOps
  BY DEF Starts, NewOps, Operation
<1>3. heap' = heap
  BY DEF Parsed
<1>4. CASE Respond(t, s, "handled") \/ Respond(t, s, "bad_request")
  BY <1>1, <1>2, <1>3, <1>4, RespondMoves
<1>5. CASE Return(t)
  <2>1. OnlyMoves(t, s, Starts(result))
    BY <1>3, <1>5 DEF Return, OnlyMoves, TypeOK
  <2> QED BY <1>1, <1>2, <2>1
<1>6. CASE result = "throw" /\ Throw(t)
  BY <1>1, <1>2, <1>3, <1>6, ThrowMoves DEF Starts
<1>7. CASE /\ result = "indeterminate"
           /\ pc' = [pc EXCEPT ![t] = "read_loop"]
           /\ cur' = [cur EXCEPT ![t] = s]
           /\ UNCHANGED <<up, listening, resp>>
  <2>1. OnlyMoves(t, s, {}) /\ Starts(result) = {}
    BY <1>3, <1>7 DEF OnlyMoves, TypeOK, Starts
  <2> QED BY <1>1, <1>2, <2>1
<1> QED
  BY <1>1, <1>4, <1>5, <1>6, <1>7

\* Every handler but handle_accept serves one operation of one session.
LEMMA HandleServes ==
    ASSUME TypeOK, NEW t \in Threads, NEW s \in Sessions, Handle(t, s), ~handle_accept(t, s)
    PROVE  \E o \in ops[s], new \in NewOps : Serves(t, s, o, new)
<1>1. CASE handle_handshake(t, s)
  <2>1. PICK o \in Queued(s, "handshake") :
            IF o[2] = "ok"
            THEN Continue(s, o, {Started("read")}) /\ UNCHANGED <<heap, conn>>
            ELSE Continue(s, o, {}) /\ Delete(s)
    BY <1>1 DEF handle_handshake
  <2>2. PICK new \in {{}, {Started("read")}} : Continue(s, o, new)
    BY <2>1
  <2>3. OnlyMoves(t, s, new)
    BY <1>1, <2>1 DEF handle_handshake, OnlyMoves, Delete, Idle, serverVars, TypeOK
  <2> QED
    BY <1>1, <2>1, <2>2, <2>3
       DEF handle_handshake, Queued, Continue, Serves, NewOps, Operation, Idle
<1>2. CASE handle_read(t, s)
  <2>1. PICK o \in Queued(s, "read") :
            \/ o[2] = "ok" /\ Parsed(t, s, data[s], {o}) /\ UNCHANGED data
            \/ /\ o[2] = "error" /\ Continue(s, o, {}) /\ Delete(s)
               /\ UNCHANGED <<serverVars, requestVars>>
    BY <1>2 DEF handle_read
  <2>2. pc[t] = "run" /\ o \in ops[s] /\ o[1] # "accept"
    BY <1>2, <2>1 DEF handle_read, Idle, Queued
  <2>3. CASE Parsed(t, s, data[s], {o})
    BY <2>2, <2>3, ParsedMoves DEF Serves
  <2>4. CASE Continue(s, o, {}) /\ Delete(s) /\ UNCHANGED serverVars
    <3>1. OnlyMoves(t, s, {})
      BY <2>2, <2>4 DEF OnlyMoves, Delete, serverVars, TypeOK
    <3> QED BY <2>2, <2>4, <3>1 DEF Serves, Continue, NewOps
  <2> QED BY <2>1, <2>3, <2>4
<1>3. CASE handle_final_read(t, s)
  <2>1. PICK o \in Queued(s, "final_read") : Continue(s, o, {Started("write")})
    BY <1>3 DEF handle_final_read
  <2>2. OnlyMoves(t, s, {Started("write")})
    BY <1>3, RespondMoves DEF handle_final_read
  <2> QED
    BY <1>3, <2>1, <2>2
       DEF handle_final_read, Queued, Continue, Serves, NewOps, Operation, Idle
<1>4. CASE handle_write(t, s)
  <2> DEFINE ends(o) == o[2] = "error" \/ closing[s]
             tls == ServerOf[s] \in Https
             new(o) == IF ~ends(o) THEN {Started("read")}
                       ELSE IF tls THEN {Started("shutdown")} ELSE {}
  <2>1. PICK o \in Queued(s, "write") :
            /\ Continue(s, o, new(o))
            /\ IF ends(o) /\ (tls => o[2] = "error")
               THEN Delete(s) ELSE UNCHANGED <<heap, conn>>
    BY <1>4 DEF handle_write
  <2>2. OnlyMoves(t, s, new(o))
    BY <1>4, <2>1 DEF handle_write, OnlyMoves, Delete, Idle, serverVars, TypeOK
  <2>3. new(o) \in NewOps
    BY DEF NewOps, Operation
  <2> QED
    BY <1>4, <2>1, <2>2, <2>3 DEF handle_write, Queued, Continue, Serves, Idle
<1>5. CASE ShutdownDone(t, s)
  <2>1. PICK o \in Queued(s, "shutdown") : Continue(s, o, {})
    BY <1>5 DEF ShutdownDone
  <2>2. OnlyMoves(t, s, {})
    BY <1>5 DEF ShutdownDone, OnlyMoves, Delete, Idle, TypeOK
  <2> QED
    BY <1>5, <2>1, <2>2 DEF ShutdownDone, Queued, Continue, Serves, NewOps, Idle
<1>6. CASE RemoteEndpointThrows(t, s)
  <2>1. PICK op \in {"read", "final_read", "write"} :
            \E o \in Queued(s, op) : Continue(s, o, {})
    BY <1>6 DEF RemoteEndpointThrows
  <2>2. PICK o \in Queued(s, op) : Continue(s, o, {})
    BY <2>1
  <2>3. OnlyMoves(t, s, {})
    BY <1>6, ThrowMoves DEF RemoteEndpointThrows
  <2> QED
    BY <1>6, <2>1, <2>2, <2>3 DEF RemoteEndpointThrows, Queued, Continue, Serves, NewOps, Idle
<1> QED
  BY <1>1, <1>2, <1>3, <1>4, <1>5, <1>6 DEF Handle

\* The read loop ends, or goes round, having started at most one operation.
LEMMA ReadLoopServes ==
    ASSUME TypeOK, NEW t \in Threads, ReadLoop(t)
    PROVE  /\ pc[t] = "read_loop" /\ cur[t] \in Sessions
           /\ \E new \in NewOps : /\ ops' = [ops EXCEPT ![cur[t]] = @ \cup new]
                                  /\ OnlyMoves(t, cur[t], new)
<1> DEFINE s == cur[t]
<1>1. pc[t] = "read_loop" /\ s \in Sessions
  BY DEF ReadLoop, TypeOK
<1>2. CASE Parsed(t, s, inbox[s], {})
  <2>1. PICK new \in NewOps : /\ ops' = [ops EXCEPT ![s] = (@ \ {}) \cup new]
                              /\ OnlyMoves(t, s, new)
    BY <1>1, <1>2, ParsedMoves
  <2>2. ops' = [ops EXCEPT ![s] = @ \cup new]
    BY <2>1
  <2> QED BY <1>1, <2>1, <2>2
<1>3. CASE (Return(t) \/ Throw(t)) /\ UNCHANGED objectVars
  <2>1. heap' = heap /\ ops' = [ops EXCEPT ![s] = @ \cup {}]
    BY <1>1, <1>3 DEF objectVars, TypeOK
  <2>2. OnlyMoves(t, s, {})
    <3>1. CASE Throw(t)
      BY <2>1, <3>1, ThrowMoves
    <3>2. CASE Return(t)
      BY <2>1, <3>2 DEF Return, OnlyMoves, TypeOK
    <3> QED BY <1>3, <3>1, <3>2
  <2> QED BY <1>1, <2>1, <2>2 DEF NewOps
<1> QED
  BY <1>1, <1>2, <1>3 DEF ReadLoop

\* The reactor replaces an operation by its queued handler.
LEMMA ReactCompletes ==
    ASSUME NEW s \in Sessions, React(s)
    PROVE  /\ UNCHANGED <<serverVars, heap>>
           /\ \E op \in Operation, stage \in Stage :
                 /\ Started(op) \in ops[s]
                 /\ ops' = [ops EXCEPT ![s] = (@ \ {Started(op)}) \cup {<<op, stage>>}]
  BY DEF React, CompleteAccept, CompleteHandshake, CompleteRead, CompleteWrite,
         CompleteShutdown, Complete, Continue, Operation, Stage

LEMMA UnstartedStep == TypeOK /\ Unstarted /\ [Next]_vars => Unstarted'
<1> SUFFICES ASSUME TypeOK, Unstarted, [Next]_vars PROVE Unstarted'
  OBVIOUS
<1> SUFFICES ASSUME NEW w \in Workers, StartedBy[w] \notin listening'
             PROVE  pc'[w] = "none"
  BY DEF Unstarted
<1>a. w \in Threads /\ w # Main
  BY SessionsAssumption DEF Threads
<1>1. ASSUME NEW srv \in Servers, ConstructServer(srv) PROVE pc'[w] = "none"
  BY <1>1, <1>a, SessionsAssumption DEF ConstructServer, Unstarted
<1>2. CASE ConstructServerFails
  <2>1. Throw(Main) /\ UNCHANGED objectVars
    BY <1>2 DEF ConstructServerFails
  <2>2. Main \in Threads /\ heap' = heap
    BY <2>1 DEF Threads, objectVars
  <2>3. PICK s \in {NoSession} : OnlyMoves(Main, s, {})
    BY <2>1, <2>2, ThrowMoves
  <2> QED BY <1>a, <2>3 DEF OnlyMoves, Unstarted
<1>3. CASE signal_handler
  BY <1>3, <1>a DEF signal_handler
<1>4. ASSUME NEW s \in Sessions, React(s) PROVE pc'[w] = "none"
  BY <1>4 DEF React, CompleteAccept, CompleteHandshake, CompleteRead, CompleteWrite,
              CompleteShutdown, Complete, serverVars, Unstarted
<1>5. ASSUME NEW t \in Threads, NEW s \in Sessions, Handle(t, s) PROVE pc'[w] = "none"
  <2>1. CASE handle_accept(t, s)
    BY <2>1 DEF handle_accept, serverVars, Unstarted
  <2>2. CASE ~handle_accept(t, s)
    <3>1. pc[t] = "run" /\ \E new \in NewOps : OnlyMoves(t, s, new)
      BY <1>5, <2>2, HandleServes DEF Serves
    <3> QED BY <1>a, <3>1 DEF OnlyMoves, Unstarted
  <2> QED BY <2>1, <2>2
<1>6. ASSUME NEW t \in Threads, ReadLoop(t) \/ Clear(t) PROVE pc'[w] = "none"
  <2>1. CASE ReadLoop(t)
    <3>1. pc[t] = "read_loop" /\ \E new \in NewOps : OnlyMoves(t, cur[t], new)
      BY <2>1, ReadLoopServes
    <3> QED BY <1>a, <3>1 DEF OnlyMoves, Unstarted
  <2>2. CASE Clear(t)
    BY <1>a, <2>2 DEF Clear, Unstarted, TypeOK
  <2> QED BY <1>6, <2>1, <2>2
<1>7. ASSUME NEW s \in Sessions,
             PeerRequest(s) \/ PeerContinues(s) \/ PeerClose(s) \/ PeerReset(s)
      PROVE  pc'[w] = "none"
  BY <1>7 DEF PeerRequest, PeerContinues, PeerClose, PeerReset, Deliver, serverVars, Unstarted
<1>8. CASE UNCHANGED vars
  BY <1>8 DEF vars, serverVars, Unstarted
<1> QED
  BY <1>1, <1>2, <1>3, <1>4, <1>5, <1>6, <1>7, <1>8 DEF Next

-----------------------------------------------------------------------------
(* The strand a session's callbacks form.                                    *)

\* Objects not allocated have no operation; a session has one operation or one
\* reader and not both.
Strand ==
    /\ \A s \in Sessions : heap[s] = "none" => ops[s] = {}
    /\ \A s \in Sessions : \A x, y \in ops[s] : x = y
    /\ \A t \in Threads : pc[t] = "read_loop" =>
          cur[t] \in Sessions /\ ops[cur[t]] = {} /\ heap[cur[t]] # "none"
    /\ \A t, u \in Threads :
          pc[t] = "read_loop" /\ pc[u] = "read_loop" /\ cur[t] = cur[u] => t = u

\* Steps that leave operations, objects and readers alone.
LEMMA StrandSame ==
    ASSUME Strand, ops' = ops, \A r \in Sessions : heap'[r] = "none" => heap[r] = "none",
           \A t \in Threads : pc'[t] = "read_loop" => pc[t] = "read_loop" /\ cur'[t] = cur[t]
    PROVE  Strand'
  BY DEF Strand

\* A handler hands its session on to the operation it starts or to itself.
LEMMA StrandServes ==
    ASSUME TypeOK, Strand, NEW t \in Threads, NEW s \in Sessions, NEW o, NEW new \in NewOps,
           Serves(t, s, o, new)
    PROVE  Strand'
<1>1. ops[s] = {o} /\ heap[s] # "none"
  BY DEF Serves, Strand
<1>2. ops'[s] = new /\ \A r \in Sessions : r # s => ops'[r] = ops[r]
  BY <1>1 DEF Serves, TypeOK
<1>3. \A x, y \in new : x = y
  BY DEF NewOps
<1>4. \A u \in Threads : u # t /\ pc'[u] = "read_loop" =>
          /\ pc[u] = "read_loop" /\ cur'[u] = cur[u]
          /\ cur[u] \in Sessions /\ cur[u] # s
          /\ ops[cur[u]] = {} /\ heap[cur[u]] # "none"
  BY <1>1 DEF Serves, OnlyMoves, Strand
<1>5. pc'[t] = "read_loop" => cur'[t] = s /\ new = {}
  BY DEF Serves, OnlyMoves
<1>6. \A r \in Sessions : heap'[r] = "none" => heap[r] = "none"
  BY DEF Serves, OnlyMoves
<1> QED
  BY <1>1, <1>2, <1>3, <1>4, <1>5, <1>6 DEF Strand

LEMMA StrandReadLoop ==
    ASSUME TypeOK, Strand, NEW t \in Threads, ReadLoop(t)
    PROVE  Strand'
<1> DEFINE s == cur[t]
<1>1. PICK new \in NewOps : ops' = [ops EXCEPT ![s] = @ \cup new] /\ OnlyMoves(t, s, new)
  BY ReadLoopServes
<1>2. pc[t] = "read_loop" /\ s \in Sessions /\ ops[s] = {} /\ heap[s] # "none"
  BY ReadLoopServes DEF Strand
<1>3. ops'[s] = new /\ \A r \in Sessions : r # s => ops'[r] = ops[r]
  BY <1>1, <1>2 DEF TypeOK
<1>4. \A x, y \in new : x = y
  BY DEF NewOps
<1>5. \A u \in Threads : u # t /\ pc'[u] = "read_loop" =>
          /\ pc[u] = "read_loop" /\ cur'[u] = cur[u]
          /\ cur[u] \in Sessions /\ cur[u] # s
          /\ ops[cur[u]] = {} /\ heap[cur[u]] # "none"
  BY <1>1, <1>2 DEF OnlyMoves, Strand
<1>6. pc'[t] = "read_loop" => cur'[t] = s /\ new = {}
  BY <1>1 DEF OnlyMoves
<1>7. \A r \in Sessions : heap'[r] = "none" => heap[r] = "none"
  BY <1>1 DEF OnlyMoves
<1> QED
  BY <1>2, <1>3, <1>4, <1>5, <1>6, <1>7 DEF Strand

LEMMA StrandReact ==
    ASSUME TypeOK, Strand, NEW s \in Sessions, React(s)
    PROVE  Strand'
<1>1. UNCHANGED <<pc, cur, heap>>
  BY ReactCompletes DEF serverVars
<1>2. PICK op \in Operation, stage \in Stage :
          /\ Started(op) \in ops[s]
          /\ ops' = [ops EXCEPT ![s] = (@ \ {Started(op)}) \cup {<<op, stage>>}]
  BY ReactCompletes
<1>3. ops'[s] = {<<op, stage>>} /\ \A r \in Sessions : r # s => ops'[r] = ops[r]
  BY <1>2 DEF Strand, TypeOK
<1> QED
  BY <1>1, <1>2, <1>3 DEF Strand

\* Another session is allocated where s, if it is one, loses its accept.
LEMMA StrandAccept ==
    ASSUME TypeOK, Strand, NEW t \in Threads, NEW s \in Sessions, handle_accept(t, s)
    PROVE  Strand'
<1>1. PICK o \in Queued(s, "accept"), f \in Fresh(ServerOf[s]) :
          LET next == IF o[2] = "error" THEN {}
                      ELSE {Started(IF ServerOf[s] \in Https THEN "handshake" ELSE "read")}
          IN  /\ heap' = [heap EXCEPT ![f] = "live",
                                      ![s] = IF o[2] = "error" THEN "freed" ELSE @]
              /\ ops' = [ops EXCEPT ![f] = {Started("accept")},
                                    ![s] = (@ \ {o}) \cup next]
  BY DEF handle_accept
<1>2. PICK next \in NewOps : /\ ops' = [ops EXCEPT ![f] = {Started("accept")},
                                                ![s] = (@ \ {o}) \cup next]
  BY <1>1 DEF NewOps, Operation
<1>3. o \in ops[s] /\ f \in Sessions /\ heap[f] = "none" /\ ops[f] = {} /\ f # s
  BY DEF Queued, Fresh, Strand
<1>4. /\ ops'[s] = next /\ ops'[f] = {Started("accept")}
      /\ \A r \in Sessions \ {s, f} : ops'[r] = ops[r]
  BY <1>2, <1>3 DEF Strand, TypeOK
<1>5. \A x, y \in next : x = y
  BY DEF NewOps
<1>6. heap'[f] # "none" /\ \A r \in Sessions : heap'[r] = "none" => heap[r] = "none"
  BY <1>1, <1>3 DEF TypeOK
<1>7. UNCHANGED <<pc, cur>>
  BY DEF handle_accept, serverVars
<1>8. heap[s] # "none"
  BY <1>3 DEF Strand
<1>9. \A u \in Threads : pc[u] = "read_loop" => cur[u] # s /\ cur[u] # f
  BY <1>3 DEF Strand
<1> QED
  BY <1>3, <1>4, <1>5, <1>6, <1>7, <1>8, <1>9 DEF Strand

LEMMA StrandStep ==
    TypeOK /\ Unstarted /\ Strand /\ [Next]_vars => Strand'
<1> SUFFICES ASSUME TypeOK, Unstarted, Strand, [Next]_vars PROVE Strand'
  OBVIOUS
<1>1. ASSUME NEW srv \in Servers, ConstructServer(srv) PROVE Strand'
  <2>1. PICK s \in Fresh(srv) : /\ heap' = [heap EXCEPT ![s] = "live"]
                                /\ ops' = [ops EXCEPT ![s] = {Started("accept")}]
    BY <1>1 DEF ConstructServer
  <2>2. s \in Sessions /\ heap[s] = "none"
    BY DEF Fresh
  <2>3. cur' = cur /\ \A t \in Threads : pc'[t] = "read_loop" => pc[t] = "read_loop"
    BY <1>1 DEF ConstructServer
  <2>4. /\ ops'[s] = {Started("accept")} /\ heap'[s] = "live"
        /\ \A r \in Sessions : r # s => ops'[r] = ops[r] /\ heap'[r] = heap[r]
    BY <2>1, <2>2 DEF TypeOK
  <2>5. \A t \in Threads : pc[t] = "read_loop" => cur[t] # s
    BY <2>2 DEF Strand
  <2> QED BY <2>2, <2>3, <2>4, <2>5 DEF Strand
<1>2. CASE ConstructServerFails
  <2>1. Throw(Main) /\ ops' = ops /\ heap' = heap
    BY <1>2 DEF ConstructServerFails, objectVars
  <2>2. \A t \in Threads : pc'[t] = "read_loop" => pc[t] = "read_loop" /\ cur'[t] = cur[t]
    BY <2>1 DEF Throw, TypeOK, Threads
  <2> QED BY <2>1, <2>2, StrandSame
<1>3. CASE signal_handler
  BY <1>3 DEF signal_handler, Strand
<1>4. ASSUME NEW s \in Sessions, React(s) PROVE Strand'
  BY <1>4, StrandReact
<1>5. ASSUME NEW t \in Threads, NEW s \in Sessions, Handle(t, s) PROVE Strand'
  BY <1>5, StrandAccept, HandleServes, StrandServes
<1>6. ASSUME NEW t \in Threads, ReadLoop(t) PROVE Strand'
  BY <1>6, StrandReadLoop
<1>7. ASSUME NEW t \in Threads, Clear(t) PROVE Strand'
  <2>1. ops' = ops /\ heap' = heap
    BY <1>7 DEF Clear, objectVars
  <2>2. \A u \in Threads : pc'[u] = "read_loop" => pc[u] = "read_loop" /\ cur'[u] = cur[u]
    BY <1>7 DEF Clear, TypeOK
  <2> QED BY <2>1, <2>2, StrandSame
<1>8. ASSUME NEW s \in Sessions,
             PeerRequest(s) \/ PeerContinues(s) \/ PeerClose(s) \/ PeerReset(s)
      PROVE  Strand'
  <2>1. UNCHANGED <<pc, cur, heap, ops>>
    BY <1>8 DEF PeerRequest, PeerContinues, PeerClose, PeerReset, Deliver, serverVars, objectVars
  <2> QED BY <2>1, StrandSame
<1>9. CASE UNCHANGED vars
  BY <1>9, StrandSame DEF vars, serverVars, objectVars
<1> QED
  BY <1>1, <1>2, <1>3, <1>4, <1>5, <1>6, <1>7, <1>8, <1>9 DEF Next

-----------------------------------------------------------------------------
(* The acceptors.                                                             *)

HasAccept(s) == \E o \in ops[s] : o[1] = "accept"

\* A listening server has one accept under way, a server not yet constructed none.
Armed ==
    /\ AcceptorArmed
    /\ \A s \in Sessions : HasAccept(s) => ServerOf[s] \in listening

LEMMA ArmedSame ==
    ASSUME Armed, listening' = listening, \A s \in Sessions : HasAccept(s)' <=> HasAccept(s)
    PROVE  Armed'
<1>1. \A srv \in Servers : Accepting(srv)' = Accepting(srv)
  BY DEF Accepting, HasAccept
<1>2. AcceptorArmed'
  <2> SUFFICES ASSUME NEW srv \in listening'
               PROVE  \E s \in Accepting(srv)' : Accepting(srv)' = {s}
    BY DEF AcceptorArmed
  <2>1. PICK s \in Accepting(srv) : Accepting(srv) = {s}
    BY DEF Armed, AcceptorArmed
  <2>2. Accepting(srv)' = Accepting(srv)
    BY DEF Accepting, HasAccept
  <2> QED BY <2>1, <2>2
<1> QED BY <1>2 DEF Armed

\* Handlers other than handle_accept neither end an accept nor start one.
LEMMA ArmedServes ==
    ASSUME TypeOK, Armed, NEW t \in Threads, NEW s \in Sessions, NEW done, NEW new \in NewOps,
           ops' = [ops EXCEPT ![s] = (@ \ done) \cup new], listening' = listening,
           \A o \in done : o[1] # "accept"
    PROVE  Armed'
<1>1. \A o \in new : o[1] # "accept"
  BY DEF NewOps, Started, Operation
<1>2. ops'[s] = (ops[s] \ done) \cup new /\ \A r \in Sessions : r # s => ops'[r] = ops[r]
  BY DEF TypeOK
<1>3. \A r \in Sessions : HasAccept(r)' <=> HasAccept(r)
  BY <1>1, <1>2 DEF HasAccept
<1> QED BY <1>3, ArmedSame

LEMMA ArmedStep ==
    TypeOK /\ Strand /\ Armed /\ [Next]_vars => Armed'
<1> SUFFICES ASSUME TypeOK, Strand, Armed, [Next]_vars PROVE Armed'
  OBVIOUS
<1>1. ASSUME NEW srv \in Servers, ConstructServer(srv) PROVE Armed'
  <2>1. PICK f \in Fresh(srv) : ops' = [ops EXCEPT ![f] = {Started("accept")}]
    BY <1>1 DEF ConstructServer
  <2>2. f \in Sessions /\ ServerOf[f] = srv
    BY DEF Fresh
  <2>3. listening' = listening \cup {srv} /\ srv \notin listening
    BY <1>1 DEF ConstructServer
  <2>4. HasAccept(f)' /\ \A r \in Sessions : r # f => (HasAccept(r)' <=> HasAccept(r))
    <3>1. ops'[f] = {<<"accept", "started">>} /\ \A r \in Sessions : r # f => ops'[r] = ops[r]
      BY <2>1, <2>2 DEF Started, TypeOK
    <3> QED BY <3>1 DEF HasAccept
  <2>5. Accepting(srv)' = {f}
    BY <2>2, <2>3, <2>4 DEF Armed, Accepting, HasAccept
  <2>6. ASSUME NEW x \in listening PROVE \E s \in Accepting(x)' : Accepting(x)' = {s}
    <3>1. x # srv
      BY <2>3
    <3>2. Accepting(x)' = Accepting(x)
      BY <2>2, <2>4, <3>1 DEF Accepting, HasAccept
    <3> QED BY <3>2 DEF Armed, AcceptorArmed
  <2> QED BY <2>2, <2>3, <2>4, <2>5, <2>6 DEF Armed, AcceptorArmed
<1>2. CASE ConstructServerFails
  <2>1. ops' = ops /\ listening' = listening
    BY <1>2 DEF ConstructServerFails, objectVars, Throw
  <2> QED BY <2>1, ArmedSame DEF HasAccept
<1>3. CASE signal_handler
  BY <1>3 DEF signal_handler, Armed, AcceptorArmed, HasAccept
<1>4. ASSUME NEW s \in Sessions, React(s) PROVE Armed'
  <2>1. PICK op \in Operation, stage \in Stage :
            /\ Started(op) \in ops[s]
            /\ ops' = [ops EXCEPT ![s] = (@ \ {Started(op)}) \cup {<<op, stage>>}]
    BY <1>4, ReactCompletes
  <2>2. /\ ops[s] = {Started(op)} /\ ops'[s] = {<<op, stage>>}
        /\ \A r \in Sessions : r # s => ops'[r] = ops[r]
    BY <2>1 DEF Strand, TypeOK
  <2>3. \A r \in Sessions : HasAccept(r)' <=> HasAccept(r)
    <3>1. <<op, "started">>[1] = op /\ <<op, stage>>[1] = op
      OBVIOUS
    <3>2. (HasAccept(s) <=> op = "accept") /\ (HasAccept(s)' <=> op = "accept")
      BY <2>2, <3>1 DEF HasAccept, Started
    <3> QED BY <2>2, <3>2 DEF HasAccept
  <2>4. listening' = listening
    BY <1>4, ReactCompletes DEF serverVars
  <2> QED BY <2>3, <2>4, ArmedSame
<1>5. ASSUME NEW t \in Threads, NEW s \in Sessions, Handle(t, s) PROVE Armed'
  <2>1. CASE ~handle_accept(t, s)
    <3>1. PICK o \in ops[s], new \in NewOps : Serves(t, s, o, new)
      BY <1>5, <2>1, HandleServes
    <3>2. /\ ops' = [ops EXCEPT ![s] = (@ \ {o}) \cup new]
          /\ listening' = listening /\ \A x \in {o} : x[1] # "accept"
      BY <3>1 DEF Serves, OnlyMoves
    <3> QED BY <3>2, ArmedServes
  <2>2. CASE handle_accept(t, s)
    <3>1. PICK o \in Queued(s, "accept"), f \in Fresh(ServerOf[s]), next \in NewOps :
              ops' = [ops EXCEPT ![f] = {Started("accept")}, ![s] = (@ \ {o}) \cup next]
      <4>1. PICK o \in Queued(s, "accept"), f \in Fresh(ServerOf[s]) :
                LET next == IF o[2] = "error" THEN {}
                            ELSE {Started(IF ServerOf[s] \in Https THEN "handshake" ELSE "read")}
                IN  ops' = [ops EXCEPT ![f] = {Started("accept")},
                                       ![s] = (@ \ {o}) \cup next]
        BY <2>2 DEF handle_accept
      <4>2. /\ {} \in NewOps
            /\ {Started(IF ServerOf[s] \in Https THEN "handshake" ELSE "read")} \in NewOps
        BY DEF NewOps, Operation
      <4> QED BY <4>1, <4>2
    <3>2. /\ o \in ops[s] /\ o[1] = "accept" /\ HasAccept(s)
          /\ f \in Sessions /\ ServerOf[f] = ServerOf[s] /\ ops[f] = {} /\ f # s
      BY DEF Queued, Fresh, Strand, HasAccept
    <3>3. /\ ops'[s] = next /\ ops'[f] = {Started("accept")}
          /\ \A r \in Sessions \ {s, f} : ops'[r] = ops[r]
      BY <3>1, <3>2 DEF Strand, TypeOK
    <3>4. /\ ~HasAccept(s)' /\ HasAccept(f)' /\ ~HasAccept(f)
          /\ \A r \in Sessions \ {s, f} : HasAccept(r)' <=> HasAccept(r)
      BY <3>2, <3>3 DEF HasAccept, NewOps, Started, Operation
    <3>5. listening' = listening /\ ServerOf[s] \in listening
      BY <2>2, <3>2 DEF handle_accept, serverVars, Armed
    <3>6. Accepting(ServerOf[s]) = {s}
      BY <3>2, <3>5 DEF Armed, AcceptorArmed, Accepting, HasAccept
    <3>7. Accepting(ServerOf[s])' = {f}
      BY <3>2, <3>4, <3>6 DEF Accepting, HasAccept
    <3>8. ASSUME NEW x \in listening, x # ServerOf[s]
          PROVE  \E r \in Accepting(x)' : Accepting(x)' = {r}
      <4>1. Accepting(x)' = Accepting(x)
        BY <3>2, <3>4, <3>8 DEF Accepting, HasAccept
      <4> QED BY <4>1 DEF Armed, AcceptorArmed
    <3> QED BY <3>2, <3>4, <3>5, <3>7, <3>8 DEF Armed, AcceptorArmed
  <2> QED BY <2>1, <2>2
<1>6. ASSUME NEW t \in Threads, ReadLoop(t) PROVE Armed'
  <2>1. PICK new \in NewOps : ops' = [ops EXCEPT ![cur[t]] = @ \cup new] /\ OnlyMoves(t, cur[t], new)
    BY <1>6, ReadLoopServes
  <2>2. listening' = listening /\ cur[t] \in Sessions
    BY <1>6, <2>1, ReadLoopServes DEF OnlyMoves
  <2>3. \A o \in new : o[1] # "accept"
    BY DEF NewOps, Started, Operation
  <2>4. ops'[cur[t]] = ops[cur[t]] \cup new /\ \A r \in Sessions : r # cur[t] => ops'[r] = ops[r]
    BY <2>1, <2>2 DEF TypeOK
  <2>5. \A r \in Sessions : HasAccept(r)' <=> HasAccept(r)
    BY <2>3, <2>4 DEF HasAccept
  <2> QED BY <2>2, <2>5, ArmedSame
<1>7. ASSUME NEW t \in Threads, Clear(t) PROVE Armed'
  BY <1>7, ArmedSame DEF Clear, objectVars, HasAccept
<1>8. ASSUME NEW s \in Sessions,
             PeerRequest(s) \/ PeerContinues(s) \/ PeerClose(s) \/ PeerReset(s)
      PROVE  Armed'
  <2>1. UNCHANGED <<listening, ops>>
    BY <1>8 DEF PeerRequest, PeerContinues, PeerClose, PeerReset, Deliver, serverVars, objectVars
  <2> QED BY <2>1, ArmedSame DEF HasAccept
<1>9. CASE UNCHANGED vars
  BY <1>9, ArmedSame DEF vars, serverVars, objectVars, HasAccept
<1> QED
  BY <1>1, <1>2, <1>3, <1>4, <1>5, <1>6, <1>7, <1>8, <1>9 DEF Next

-----------------------------------------------------------------------------

IInv == TypeOK /\ Unstarted /\ Strand

LEMMA IInvInit == Init => IInv
<1> SUFFICES ASSUME Init PROVE IInv
  OBVIOUS
<1>1. TypeOK
  <2>1. up \in BOOLEAN
    BY DEF Init
  <2>2. \A t \in Threads : cur[t] \notin Sessions /\ pc[t] \notin {"read_loop", "clear"}
    BY SessionsAssumption DEF Init
  <2> QED BY <2>1, <2>2, SessionsAssumption DEF Init, TypeOK
<1>2. Unstarted
  BY SessionsAssumption DEF Init, Unstarted, Threads
<1>3. Strand
  BY DEF Init, Strand
<1> QED BY <1>1, <1>2, <1>3 DEF IInv

LEMMA IInvStep == IInv /\ [Next]_vars => IInv'
  BY TypeStep, UnstartedStep, StrandStep DEF IInv

\* The state of the servers, their threads and sessions is always well formed;
\* in particular a thread remembers a session exactly while it is in the middle
\* of that session's handler.
THEOREM TypeCorrect == Spec => []TypeOK
<1>1. IInv => TypeOK
  BY DEF IInv
<1> QED BY IInvInit, IInvStep, <1>1, PTL DEF Spec

\* However many threads run the io_service, and although no strand orders the
\* handlers, a session is never driven by two operations, by two blocked
\* readers, or by one of each.
THEOREM SessionsAreStrands == Spec => []OneDriver
<1>1. IInv => OneDriver
  <2> SUFFICES ASSUME IInv, NEW s \in Sessions, NEW x \in Drivers(s), NEW y \in Drivers(s)
               PROVE  x = y
    BY DEF OneDriver
  <2>1. CASE x \in ops[s] /\ y \in ops[s]
    BY <2>1 DEF IInv, Strand
  <2>2. CASE x \notin ops[s] /\ y \notin ops[s]
    BY <2>2 DEF IInv, Strand, Drivers
  <2>3. CASE x \in ops[s] /\ y \notin ops[s]
    BY <2>3 DEF IInv, Strand, Drivers
  <2>4. CASE x \notin ops[s] /\ y \in ops[s]
    BY <2>4 DEF IInv, Strand, Drivers
  <2> QED BY <2>1, <2>2, <2>3, <2>4
<1> QED BY IInvInit, IInvStep, <1>1, PTL DEF Spec

\* Sessions and their peers can do what they like: a server that listens always
\* has exactly one accept under way, so it neither stops taking connections nor
\* takes them twice.
THEOREM ServersStayArmed == Spec => []AcceptorArmed
<1>1. Init => Armed
  BY DEF Init, Armed, AcceptorArmed, HasAccept
<1>2. IInv /\ Armed /\ [Next]_vars => Armed'
  BY ArmedStep DEF IInv
<1>3. Armed => AcceptorArmed
  BY DEF Armed
<1> QED BY IInvInit, IInvStep, <1>1, <1>2, <1>3, PTL DEF Spec

-----------------------------------------------------------------------------
(* The response.                                                             *)

\* Only the handler of a read fills response_generator_.
LEMMA HandleResponds ==
    ASSUME TypeOK, Strand, NEW t \in Threads, NEW s \in Sessions, Handle(t, s)
    PROVE  \/ resp' = resp
           \/ /\ \A r \in Sessions : r # s => resp'[r] = resp[r]
              /\ Started("write") \notin ops[s]
<1>1. CASE handle_accept(t, s) \/ handle_handshake(t, s) \/ handle_write(t, s)
  BY <1>1 DEF handle_accept, handle_handshake, handle_write, requestVars
<1>2. CASE ShutdownDone(t, s) \/ RemoteEndpointThrows(t, s)
  BY <1>2 DEF ShutdownDone, RemoteEndpointThrows, requestVars
<1>3. ASSUME NEW o \in Queued(s, "read") \cup Queued(s, "final_read")
      PROVE  Started("write") \notin ops[s]
  <2>1. o \in ops[s] /\ o[1] # "write"
    BY DEF Queued
  <2>2. Started("write") # o
    BY <2>1 DEF Started
  <2> QED BY <2>1, <2>2 DEF Strand
<1>4. CASE handle_read(t, s)
  <2>1. PICK o \in Queued(s, "read") :
            Parsed(t, s, data[s], {o}) \/ UNCHANGED requestVars
    BY <1>4 DEF handle_read
  <2>2. \A r \in Sessions : r # s => resp'[r] = resp[r]
    BY <2>1 DEF Parsed, Respond, requestVars, TypeOK
  <2> QED BY <1>3, <2>1, <2>2
<1>5. CASE handle_final_read(t, s)
  <2>1. PICK o \in Queued(s, "final_read") : Continue(s, o, {Started("write")})
    BY <1>5 DEF handle_final_read
  <2>2. \A r \in Sessions : r # s => resp'[r] = resp[r]
    BY <1>5 DEF handle_final_read, Respond, TypeOK
  <2> QED BY <1>3, <2>1, <2>2
<1> QED BY <1>1, <1>2, <1>4, <1>5 DEF Handle

LEMMA ReadLoopResponds ==
    ASSUME TypeOK, Strand, NEW t \in Threads, ReadLoop(t)
    PROVE  \A s \in Sessions : Started("write") \in ops[s] => resp'[s] = resp[s]
<1>1. cur[t] \in Sessions /\ ops[cur[t]] = {}
  BY DEF ReadLoop, Strand
<1>2. Parsed(t, cur[t], inbox[cur[t]], {}) \/ UNCHANGED requestVars
  BY DEF ReadLoop
<1>3. \A s \in Sessions : s # cur[t] => resp'[s] = resp[s]
  BY <1>1, <1>2 DEF Parsed, Respond, requestVars, TypeOK
<1> QED BY <1>1, <1>3

LEMMA ResponseStep ==
    ASSUME TypeOK, Strand, [Next]_vars, up',
           NEW s \in Sessions, Started("write") \in ops[s]
    PROVE  resp'[s] = resp[s]
<1>1. ASSUME NEW srv \in Servers, ConstructServer(srv) PROVE resp'[s] = resp[s]
  BY <1>1 DEF ConstructServer, requestVars
<1>2. CASE ConstructServerFails
  BY <1>2 DEF ConstructServerFails, requestVars
<1>3. CASE signal_handler
  BY <1>3 DEF signal_handler
<1>4. ASSUME NEW r \in Sessions, React(r) PROVE resp'[s] = resp[s]
  BY <1>4 DEF React, CompleteAccept, CompleteHandshake, CompleteRead, CompleteWrite,
              CompleteShutdown, requestVars
<1>5. ASSUME NEW t \in Threads, NEW r \in Sessions, Handle(t, r) PROVE resp'[s] = resp[s]
  BY <1>5, HandleResponds
<1>6. ASSUME NEW t \in Threads, ReadLoop(t) PROVE resp'[s] = resp[s]
  BY <1>6, ReadLoopResponds
<1>7. ASSUME NEW t \in Threads, Clear(t) PROVE resp'[s] = resp[s]
  BY <1>7 DEF Clear
<1>8. ASSUME NEW r \in Sessions,
             PeerRequest(r) \/ PeerContinues(r) \/ PeerClose(r) \/ PeerReset(r)
      PROVE  resp'[s] = resp[s]
  BY <1>8 DEF PeerRequest, PeerContinues, PeerClose, PeerReset, Deliver, requestVars
<1>9. CASE UNCHANGED vars
  BY <1>9 DEF vars, requestVars
<1> QED
  BY <1>1, <1>2, <1>3, <1>4, <1>5, <1>6, <1>7, <1>8, <1>9 DEF Next

-----------------------------------------------------------------------------
(* Deleted sessions.                                                         *)

Dead(s) == heap[s] \in {"freed", "double"}

\* Nobody refers to a deleted session but a TLS shutdown.
Quiet ==
    \A s \in Sessions : Dead(s) =>
        /\ \A o \in ops[s] : o[1] = "shutdown" /\ ServerOf[s] \in Https
        /\ \A t \in Threads : pc[t] = "read_loop" => cur[t] # s

\* Steps that delete nothing and neither start operations nor reads.
LEMMA QuietSame ==
    ASSUME Quiet, \A r \in Sessions : Dead(r)' => Dead(r) /\ ops'[r] = ops[r],
           \A t \in Threads : pc'[t] = "read_loop" => pc[t] = "read_loop" /\ cur'[t] = cur[t]
    PROVE  Quiet'
  BY DEF Quiet

\* A handler that leaves its session alive, or deletes it and leaves it at most
\* a shutdown.
LEMMA QuietServes ==
    ASSUME TypeOK, Strand, Quiet, NEW t \in Threads, NEW s \in Sessions, NEW o, NEW new \in NewOps,
           Serves(t, s, o, new),
           \A r \in Sessions : r # s => heap'[r] = heap[r],
           Dead(s)' => /\ new = {} \/ (new = {Started("shutdown")} /\ ServerOf[s] \in Https)
                       /\ pc'[t] # "read_loop"
    PROVE  Quiet'
<1>1. ops[s] = {o}
  BY DEF Serves, Strand
<1>2. ops'[s] = new /\ \A r \in Sessions : r # s => ops'[r] = ops[r]
  BY <1>1 DEF Serves, TypeOK
<1>3. \A u \in Threads : u # t => pc'[u] = pc[u] /\ cur'[u] = cur[u]
  BY DEF Serves, OnlyMoves
<1>4. pc'[t] = "read_loop" => cur'[t] = s
  BY DEF Serves, OnlyMoves
<1>5. \A u \in Threads : pc[u] = "read_loop" => cur[u] # s
  BY <1>1 DEF Strand
<1>6. ASSUME NEW r \in Sessions, r # s, Dead(r)'
      PROVE  /\ \A x \in ops'[r] : x[1] = "shutdown" /\ ServerOf[r] \in Https
             /\ \A u \in Threads : pc'[u] = "read_loop" => cur'[u] # r
  <2>1. Dead(r)
    BY <1>6 DEF Dead
  <2> QED BY <1>2, <1>3, <1>4, <1>6, <2>1 DEF Quiet
<1>7. ASSUME Dead(s)'
      PROVE  /\ \A x \in ops'[s] : x[1] = "shutdown" /\ ServerOf[s] \in Https
             /\ \A u \in Threads : pc'[u] = "read_loop" => cur'[u] # s
  BY <1>2, <1>3, <1>5, <1>7 DEF Started
<1> QED BY <1>6, <1>7 DEF Quiet

\* What a handler leaves behind when it ends its session.
LEMMA HandleEnds ==
    ASSUME TypeOK, Strand, Quiet, NEW t \in Threads, NEW s \in Sessions, Handle(t, s),
           ~handle_accept(t, s)
    PROVE  /\ \A r \in Sessions : r # s => heap'[r] = heap[r]
           /\ Dead(s)' => /\ \/ ops'[s] = {}
                             \/ ops'[s] = {Started("shutdown")} /\ ServerOf[s] \in Https
                          /\ pc'[t] # "read_loop"
<1>1. ASSUME NEW op \in Operation \ {"shutdown"}, NEW o \in Queued(s, op)
      PROVE  o \in ops[s] /\ ops[s] = {o} /\ ~Dead(s)
  BY <1>1 DEF Queued, Strand, Quiet
<1>2. CASE handle_handshake(t, s)
  <2>1. PICK o \in Queued(s, "handshake") :
            \/ UNCHANGED heap
            \/ Continue(s, o, {}) /\ Delete(s)
    BY <1>2 DEF handle_handshake
  <2>2. ops[s] = {o} /\ ~Dead(s)
    BY <1>1 DEF Operation
  <2>3. pc'[t] # "read_loop"
    BY <1>2 DEF handle_handshake, serverVars, Idle
  <2>4. CASE UNCHANGED heap
    BY <2>2, <2>4 DEF Dead
  <2>5. CASE Continue(s, o, {}) /\ Delete(s)
    BY <2>2, <2>3, <2>5 DEF Continue, Delete, TypeOK
  <2> QED BY <2>1, <2>4, <2>5
<1>3. CASE handle_read(t, s)
  <2>1. PICK o \in Queued(s, "read") :
            \/ UNCHANGED heap
            \/ Continue(s, o, {}) /\ Delete(s) /\ UNCHANGED serverVars
    BY <1>3 DEF handle_read, Parsed
  <2>2. ops[s] = {o} /\ ~Dead(s)
    BY <1>1 DEF Operation
  <2>3. pc[t] # "read_loop"
    BY <1>3 DEF handle_read, Idle
  <2>4. CASE UNCHANGED heap
    BY <2>2, <2>4 DEF Dead
  <2>5. CASE Continue(s, o, {}) /\ Delete(s) /\ UNCHANGED serverVars
    BY <2>2, <2>3, <2>5 DEF Continue, Delete, TypeOK, serverVars
  <2> QED BY <2>1, <2>4, <2>5
<1>4. CASE handle_final_read(t, s)
  <2>1. PICK o \in Queued(s, "final_read") : UNCHANGED heap
    BY <1>4 DEF handle_final_read
  <2>2. ~Dead(s)
    BY <1>1 DEF Operation
  <2> QED BY <2>1, <2>2 DEF Dead
<1>5. CASE handle_write(t, s)
  <2> DEFINE ends(o) == o[2] = "error" \/ closing[s]
             tls == ServerOf[s] \in Https
  <2>1. PICK o \in Queued(s, "write") :
            /\ Continue(s, o, IF ~ends(o) THEN {Started("read")}
                              ELSE IF tls THEN {Started("shutdown")} ELSE {})
            /\ IF ends(o) /\ (tls => o[2] = "error")
               THEN Delete(s) ELSE UNCHANGED <<heap, conn>>
    BY <1>5 DEF handle_write
  <2>2. ops[s] = {o} /\ ~Dead(s)
    BY <1>1 DEF Operation
  <2>3. pc'[t] # "read_loop"
    BY <1>5 DEF handle_write, serverVars, Idle
  <2>4. CASE UNCHANGED heap
    BY <2>2, <2>4 DEF Dead
  <2>5. CASE ends(o) /\ Delete(s)
    <3>1. ops'[s] = IF tls THEN {Started("shutdown")} ELSE {}
      BY <2>1, <2>2, <2>5 DEF Continue, TypeOK
    <3> QED BY <2>3, <2>5, <3>1 DEF Delete, TypeOK
  <2> QED BY <2>1, <2>4, <2>5
<1>6. CASE ShutdownDone(t, s)
  <2>1. PICK o \in Queued(s, "shutdown") : Continue(s, o, {})
    BY <1>6 DEF ShutdownDone
  <2>2. ops[s] = {o}
    BY DEF Queued, Strand
  <2>3. ops'[s] = {}
    BY <2>1, <2>2 DEF Continue, TypeOK
  <2> QED BY <1>6, <2>3 DEF ShutdownDone, Delete, Idle, TypeOK
<1>7. CASE RemoteEndpointThrows(t, s)
  <2>1. PICK op \in {"read", "final_read", "write"} :
            \E o \in Queued(s, op) : Continue(s, o, {})
    BY <1>7 DEF RemoteEndpointThrows
  <2>2. ~Dead(s) /\ heap' = heap
    BY <1>1, <1>7, <2>1 DEF RemoteEndpointThrows, Operation
  <2> QED BY <2>2 DEF Dead
<1> QED BY <1>2, <1>3, <1>4, <1>5, <1>6, <1>7 DEF Handle

LEMMA QuietHandle ==
    ASSUME TypeOK, Strand, Quiet, NEW t \in Threads, NEW s \in Sessions, Handle(t, s),
           ~handle_accept(t, s)
    PROVE  Quiet'
<1>1. PICK o \in ops[s], new \in NewOps : Serves(t, s, o, new)
  BY HandleServes
<1>2. ops'[s] = new
  BY <1>1 DEF Serves, Strand, TypeOK
<1> QED BY <1>1, <1>2, HandleEnds, QuietServes

\* A refused connection's session is deleted with nothing under way; the fresh
\* one is alive.
LEMMA QuietAccept ==
    ASSUME TypeOK, Strand, Quiet, NEW t \in Threads, NEW s \in Sessions, handle_accept(t, s)
    PROVE  Quiet'
<1> DEFINE next(o) == IF o[2] = "error" THEN {}
                      ELSE {Started(IF ServerOf[s] \in Https THEN "handshake" ELSE "read")}
<1>1. PICK o \in Queued(s, "accept"), f \in Fresh(ServerOf[s]) :
          /\ heap' = [heap EXCEPT ![f] = "live", ![s] = IF o[2] = "error" THEN "freed" ELSE @]
          /\ ops' = [ops EXCEPT ![f] = {Started("accept")}, ![s] = (@ \ {o}) \cup next(o)]
  BY DEF handle_accept
<1>2. o \in ops[s] /\ o[1] = "accept" /\ ops[s] = {o} /\ f \in Sessions /\ f # s
  BY DEF Queued, Fresh, Strand
<1>3. ~Dead(s) /\ \A u \in Threads : pc[u] = "read_loop" => cur[u] # s
  BY <1>2 DEF Quiet, Strand
<1>4. heap'[f] = "live" /\ heap'[s] = (IF o[2] = "error" THEN "freed" ELSE heap[s])
  BY <1>1, <1>2 DEF TypeOK
<1>5. \A r \in Sessions \ {s, f} : heap'[r] = heap[r] /\ ops'[r] = ops[r]
  BY <1>1, <1>2 DEF TypeOK
<1>6. o[2] = "error" => ops'[s] = {}
  BY <1>1, <1>2 DEF TypeOK
<1>7. UNCHANGED <<pc, cur>>
  BY DEF handle_accept, serverVars
<1> QED BY <1>3, <1>4, <1>5, <1>6, <1>7 DEF Quiet, Dead

LEMMA QuietReadLoop ==
    ASSUME TypeOK, Strand, Quiet, NEW t \in Threads, ReadLoop(t)
    PROVE  Quiet'
<1>1. PICK new \in NewOps : ops' = [ops EXCEPT ![cur[t]] = @ \cup new] /\ OnlyMoves(t, cur[t], new)
  BY ReadLoopServes
<1>2. pc[t] = "read_loop" /\ cur[t] \in Sessions
  BY ReadLoopServes
<1>3. heap' = heap
  BY DEF ReadLoop, Parsed, objectVars
<1>4. ~Dead(cur[t])
  BY <1>2 DEF Quiet
<1>5. \A r \in Sessions : r # cur[t] => ops'[r] = ops[r]
  BY <1>1, <1>2 DEF TypeOK
<1>6. ASSUME NEW r \in Sessions, Dead(r)', NEW u \in Threads, pc'[u] = "read_loop"
      PROVE  cur'[u] # r
  <2>1. Dead(r) /\ r # cur[t]
    BY <1>3, <1>4, <1>6 DEF Dead
  <2> QED BY <1>1, <1>6, <2>1 DEF OnlyMoves, Quiet
<1> QED BY <1>3, <1>4, <1>5, <1>6 DEF Quiet, Dead

LEMMA QuietStep ==
    ASSUME TypeOK, Strand, Quiet, [Next]_vars
    PROVE  Quiet'
<1>1. ASSUME NEW srv \in Servers, ConstructServer(srv) PROVE Quiet'
  <2>1. PICK f \in Fresh(srv) : /\ heap' = [heap EXCEPT ![f] = "live"]
                                /\ ops' = [ops EXCEPT ![f] = {Started("accept")}]
    BY <1>1 DEF ConstructServer
  <2>2. f \in Sessions
    BY DEF Fresh
  <2>3. \A t \in Threads : pc'[t] = "read_loop" => pc[t] = "read_loop" /\ cur'[t] = cur[t]
    BY <1>1 DEF ConstructServer
  <2>4. \A r \in Sessions : Dead(r)' => Dead(r) /\ ops'[r] = ops[r]
    BY <2>1, <2>2 DEF Dead, TypeOK
  <2> QED BY <2>3, <2>4, QuietSame
<1>2. CASE ConstructServerFails
  <2>1. Throw(Main) /\ UNCHANGED <<heap, ops>>
    BY <1>2 DEF ConstructServerFails, objectVars
  <2>2. \A t \in Threads : pc'[t] = "read_loop" => pc[t] = "read_loop" /\ cur'[t] = cur[t]
    BY <2>1 DEF Throw, TypeOK, Threads
  <2> QED BY <2>1, <2>2, QuietSame DEF Dead
<1>3. CASE signal_handler
  BY <1>3 DEF signal_handler, Quiet, Dead
<1>4. ASSUME NEW s \in Sessions, React(s) PROVE Quiet'
  <2>1. UNCHANGED <<pc, cur, heap>>
    BY <1>4, ReactCompletes DEF serverVars
  <2>2. PICK op \in Operation, stage \in Stage :
            /\ Started(op) \in ops[s]
            /\ ops' = [ops EXCEPT ![s] = (@ \ {Started(op)}) \cup {<<op, stage>>}]
    BY <1>4, ReactCompletes
  <2>3. ops'[s] = {<<op, stage>>} /\ \A r \in Sessions : r # s => ops'[r] = ops[r]
    BY <2>2 DEF Strand, TypeOK
  <2>4. Dead(s) => op = "shutdown" /\ ServerOf[s] \in Https
    BY <2>2 DEF Quiet, Started
  <2>5. \A x \in ops'[s] : x[1] = op
    BY <2>3
  <2> QED BY <2>1, <2>3, <2>4, <2>5 DEF Quiet, Dead
<1>5. ASSUME NEW t \in Threads, NEW s \in Sessions, Handle(t, s) PROVE Quiet'
  BY <1>5, QuietAccept, QuietHandle
<1>6. ASSUME NEW t \in Threads, ReadLoop(t) PROVE Quiet'
  BY <1>6, QuietReadLoop
<1>7. ASSUME NEW t \in Threads, Clear(t) PROVE Quiet'
  <2>1. ops' = ops /\ heap' = heap
    BY <1>7 DEF Clear, objectVars
  <2>2. \A u \in Threads : pc'[u] = "read_loop" => pc[u] = "read_loop" /\ cur'[u] = cur[u]
    BY <1>7 DEF Clear, TypeOK
  <2> QED BY <2>1, <2>2, QuietSame DEF Dead
<1>8. ASSUME NEW s \in Sessions,
             PeerRequest(s) \/ PeerContinues(s) \/ PeerClose(s) \/ PeerReset(s)
      PROVE  Quiet'
  <2>1. UNCHANGED <<pc, cur, heap, ops>>
    BY <1>8 DEF PeerRequest, PeerContinues, PeerClose, PeerReset, Deliver, serverVars, objectVars
  <2> QED BY <2>1, QuietSame DEF Dead
<1>9. CASE UNCHANGED vars
  BY <1>9, QuietSame DEF vars, serverVars, objectVars, Dead
<1> QED
  BY <1>1, <1>2, <1>3, <1>4, <1>5, <1>6, <1>7, <1>8, <1>9 DEF Next

-----------------------------------------------------------------------------
(* Open connections.                                                         *)

Open(s) == heap[s] = "live" /\ conn[s] = "up"

\* Main is outside of the io_service, for good.
Gone == ~up \/ pc[Main] = "join"

\* A session is waited on by an operation or by a thread that reads.
Waited(s) == ops[s] # {} \/ \E t \in Threads : pc[t] = "read_loop" /\ cur[t] = s

LEMMA DriversWait == ASSUME NEW s \in Sessions PROVE Waited(s) <=> Drivers(s) # {}
<1>1. ASSUME Waited(s) PROVE Drivers(s) # {}
  <2>1. CASE ops[s] # {}
    BY <2>1 DEF Drivers
  <2>2. ASSUME NEW t \in Threads, pc[t] = "read_loop", cur[t] = s PROVE Drivers(s) # {}
    <3>1. <<"read_loop", t>> \in Drivers(s)
      BY <2>2 DEF Drivers
    <3> QED BY <3>1
  <2> QED BY <1>1, <2>1, <2>2 DEF Waited
<1>2. ASSUME NEW x \in Drivers(s) PROVE Waited(s)
  BY <1>2 DEF Drivers, Waited
<1> QED BY <1>1, <1>2

\* ConnectedIsServed, in these words.
Served == ~Gone => \A s \in Sessions : Open(s) => Waited(s)

LEMMA ThrowGoes == ASSUME TypeOK, NEW t \in Threads, Throw(t) PROVE Gone'
<1>1. CASE t = Main /\ \E w \in Workers : pc[w] # "none"
  BY <1>1 DEF Throw, Gone, TypeOK
<1>2. CASE ~(t = Main /\ \E w \in Workers : pc[w] # "none")
  BY <1>2 DEF Throw, Gone
<1> QED BY <1>1, <1>2

\* parse_data is followed by a write, a read, the loop, or an exception.
LEMMA ParsedWaits ==
    ASSUME TypeOK, NEW t \in Threads, NEW s \in Sessions, NEW d, NEW done,
           Parsed(t, s, d, done)
    PROVE  /\ UNCHANGED <<heap, conn>>
           /\ Gone' \/ ops'[s] # {} \/ (pc'[t] = "read_loop" /\ cur'[t] = s)
<1>1. PICK result \in Parse(d) :
          /\ ops' = [ops EXCEPT ![s] = (@ \ done) \cup Starts(result)]
          /\ \/ result \in {"good", "bad", "missing_data"}
             \/ pc' = [pc EXCEPT ![t] = "read_loop"] /\ cur' = [cur EXCEPT ![t] = s]
             \/ Throw(t)
  BY DEF Parsed
<1>2. CASE result \in {"good", "bad", "missing_data"}
  <2>1. Starts(result) # {}
    BY <1>2 DEF Starts
  <2>2. ops'[s] # {}
    BY <1>1, <2>1 DEF TypeOK
  <2> QED BY <2>2 DEF Parsed
<1>3. CASE pc' = [pc EXCEPT ![t] = "read_loop"] /\ cur' = [cur EXCEPT ![t] = s]
  BY <1>3 DEF Parsed, TypeOK
<1>4. CASE Throw(t)
  BY <1>4, ThrowGoes DEF Parsed
<1> QED BY <1>1, <1>2, <1>3, <1>4

\* A handler ends its session, or sees that it is waited on again.
LEMMA HandleWaits ==
    ASSUME TypeOK, NEW t \in Threads, NEW s \in Sessions, Handle(t, s), ~handle_accept(t, s)
    PROVE  /\ \A r \in Sessions : r # s => heap'[r] = heap[r] /\ conn'[r] = conn[r]
           /\ \/ Gone' \/ ~Open(s)' \/ ops'[s] # {}
              \/ pc'[t] = "read_loop" /\ cur'[t] = s
<1>1. ASSUME Delete(s)
      PROVE  /\ \A r \in Sessions : r # s => heap'[r] = heap[r] /\ conn'[r] = conn[r]
             /\ ~Open(s)'
  BY <1>1 DEF Delete, Open, TypeOK
<1>2. ASSUME NEW o, NEW new, Continue(s, o, new), new # {} PROVE ops'[s] # {}
  BY <1>2 DEF Continue, TypeOK
<1>3. CASE handle_handshake(t, s)
  BY <1>1, <1>2, <1>3 DEF handle_handshake
<1>4. CASE handle_read(t, s)
  <2>1. CASE Delete(s)
    BY <1>1, <2>1
  <2>2. ASSUME NEW o, Parsed(t, s, data[s], {o})
        PROVE  /\ UNCHANGED <<heap, conn>>
               /\ Gone' \/ ops'[s] # {} \/ (pc'[t] = "read_loop" /\ cur'[t] = s)
    BY <2>2, ParsedWaits
  <2> QED BY <1>4, <2>1, <2>2 DEF handle_read
<1>5. CASE handle_final_read(t, s)
  BY <1>2, <1>5 DEF handle_final_read
<1>6. CASE handle_write(t, s)
  <2> DEFINE ends(o) == o[2] = "error" \/ closing[s]
             tls == ServerOf[s] \in Https
  <2>1. PICK o \in Queued(s, "write") :
            /\ Continue(s, o, IF ~ends(o) THEN {Started("read")}
                              ELSE IF tls THEN {Started("shutdown")} ELSE {})
            /\ IF ends(o) /\ (tls => o[2] = "error")
               THEN Delete(s) ELSE UNCHANGED <<heap, conn>>
    BY <1>6 DEF handle_write
  <2>2. CASE Delete(s)
    BY <1>1, <2>2
  <2>3. CASE UNCHANGED <<heap, conn>> /\ ~(ends(o) /\ (tls => o[2] = "error"))
    <3>1. ops'[s] # {}
      BY <1>2, <2>1, <2>3
    <3> QED BY <2>3, <3>1
  <2> QED BY <2>1, <2>2, <2>3
<1>7. CASE ShutdownDone(t, s)
  BY <1>1, <1>7 DEF ShutdownDone
<1>8. CASE RemoteEndpointThrows(t, s)
  BY <1>8, ThrowGoes DEF RemoteEndpointThrows
<1> QED BY <1>3, <1>4, <1>5, <1>6, <1>7, <1>8 DEF Handle

\* A process that ended is over, and main does not come back from its joins.
LEMMA GoneStays == ASSUME TypeOK, [Next]_vars, Gone PROVE Gone'
<1>a. Main \in Threads
  BY DEF Threads
<1>1. CASE ~up
  <2>1. CASE UNCHANGED vars
    BY <1>1, <2>1 DEF vars, serverVars, Gone
  <2>2. ~(\E srv \in Servers : ConstructServer(srv)) /\ ~ConstructServerFails /\ ~signal_handler
    BY <1>1 DEF ConstructServer, ConstructServerFails, signal_handler
  <2>3. ~(\E s \in Sessions : React(s))
    BY <1>1 DEF React, CompleteAccept, CompleteHandshake, CompleteRead, CompleteWrite,
                CompleteShutdown, Complete, ReactorRuns, Idle
  <2>4. ~(\E t \in Threads, s \in Sessions : Handle(t, s))
    BY <1>1 DEF Handle, handle_accept, handle_handshake, handle_read, handle_final_read,
                handle_write, ShutdownDone, RemoteEndpointThrows, Idle
  <2>5. ~(\E t \in Threads : ReadLoop(t) \/ Clear(t))
    BY <1>1 DEF ReadLoop, Clear
  <2>6. ~(\E s \in Sessions : PeerRequest(s) \/ PeerContinues(s) \/ PeerClose(s) \/ PeerReset(s))
    BY <1>1 DEF PeerRequest, PeerContinues, PeerClose, PeerReset, CanSend
  <2> QED BY <2>1, <2>2, <2>3, <2>4, <2>5, <2>6 DEF Next
<1>2. CASE pc[Main] = "join"
  <2>1. ~(\E srv \in Servers : ConstructServer(srv)) /\ ~ConstructServerFails
    BY <1>2 DEF ConstructServer, ConstructServerFails
  <2>2. CASE signal_handler
    BY <2>2 DEF signal_handler, Gone
  <2>3. ASSUME NEW s \in Sessions, React(s) PROVE Gone'
    BY <1>2, <2>3, ReactCompletes DEF serverVars, Gone
  <2>4. ASSUME NEW t \in Threads, NEW s \in Sessions, Handle(t, s) PROVE Gone'
    <3>1. CASE handle_accept(t, s)
      BY <1>2, <3>1 DEF handle_accept, serverVars, Gone
    <3>2. CASE ~handle_accept(t, s)
      <4>1. pc[t] = "run" /\ \E new \in NewOps : OnlyMoves(t, s, new)
        BY <2>4, <3>2, HandleServes DEF Serves
      <4> QED BY <1>a, <1>2, <4>1 DEF OnlyMoves, Gone
    <3> QED BY <3>1, <3>2
  <2>5. ASSUME NEW t \in Threads, ReadLoop(t) PROVE Gone'
    <3>1. pc[t] = "read_loop" /\ \E new \in NewOps : OnlyMoves(t, cur[t], new)
      BY <2>5, ReadLoopServes
    <3> QED BY <1>a, <1>2, <3>1 DEF OnlyMoves, Gone
  <2>6. ASSUME NEW t \in Threads, Clear(t) PROVE Gone'
    BY <1>a, <1>2, <2>6 DEF Clear, Gone, TypeOK
  <2>7. ASSUME NEW s \in Sessions,
               PeerRequest(s) \/ PeerContinues(s) \/ PeerClose(s) \/ PeerReset(s)
        PROVE  Gone'
    BY <1>2, <2>7 DEF PeerRequest, PeerContinues, PeerClose, PeerReset, Deliver, serverVars, Gone
  <2>8. CASE UNCHANGED vars
    BY <1>2, <2>8 DEF vars, serverVars, Gone
  <2> QED BY <2>1, <2>2, <2>3, <2>4, <2>5, <2>6, <2>7, <2>8 DEF Next
<1> QED BY <1>1, <1>2 DEF Gone

\* Steps that open nothing and take nobody from a session.
LEMMA ServedSame ==
    ASSUME Served, Gone => Gone', \A s \in Sessions : Open(s)' => Open(s) /\ ops'[s] = ops[s],
           \A t \in Threads : pc[t] = "read_loop" => pc'[t] = "read_loop" /\ cur'[t] = cur[t]
    PROVE  Served'
  BY DEF Served, Waited

LEMMA ServedHandle ==
    ASSUME TypeOK, Strand, Served, Gone => Gone',
           NEW t \in Threads, NEW s \in Sessions, Handle(t, s), ~handle_accept(t, s)
    PROVE  Served'
<1>1. PICK o \in ops[s], new \in NewOps : Serves(t, s, o, new)
  BY HandleServes
<1>2. \A r \in Sessions : r # s => ops'[r] = ops[r]
  BY <1>1 DEF Serves, TypeOK
<1>3. \A u \in Threads : pc[u] = "read_loop" => pc'[u] = "read_loop" /\ cur'[u] = cur[u]
  BY <1>1 DEF Serves, OnlyMoves
<1>4. \A r \in Sessions : r # s => heap'[r] = heap[r] /\ conn'[r] = conn[r]
  BY HandleWaits
<1>5. Gone' \/ ~Open(s)' \/ Waited(s)'
  BY HandleWaits DEF Waited
<1>6. ASSUME NEW r \in Sessions, r # s, Open(r)', ~Gone PROVE Waited(r)'
  <2>1. Waited(r)
    BY <1>4, <1>6 DEF Served, Open
  <2> QED BY <1>2, <1>3, <1>6, <2>1 DEF Waited
<1> QED BY <1>5, <1>6 DEF Served

LEMMA ServedAccept ==
    ASSUME TypeOK, Strand, Served, Gone => Gone',
           NEW t \in Threads, NEW s \in Sessions, handle_accept(t, s)
    PROVE  Served'
<1> DEFINE next(o) == IF o[2] = "error" THEN {}
                      ELSE {Started(IF ServerOf[s] \in Https THEN "handshake" ELSE "read")}
<1>1. PICK o \in Queued(s, "accept"), f \in Fresh(ServerOf[s]) :
          /\ heap' = [heap EXCEPT ![f] = "live", ![s] = IF o[2] = "error" THEN "freed" ELSE @]
          /\ conn' = [conn EXCEPT ![s] = IF o[2] = "error" THEN "closed" ELSE @]
          /\ ops' = [ops EXCEPT ![f] = {Started("accept")}, ![s] = (@ \ {o}) \cup next(o)]
  BY DEF handle_accept
<1>2. f \in Sessions /\ f # s
  BY DEF Queued, Fresh, Strand
<1>3. ops'[f] # {} /\ (Open(s)' => ops'[s] # {})
  BY <1>1, <1>2 DEF Open, TypeOK
<1>4. \A r \in Sessions \ {s, f} : heap'[r] = heap[r] /\ conn'[r] = conn[r] /\ ops'[r] = ops[r]
  BY <1>1, <1>2 DEF TypeOK
<1>5. UNCHANGED <<pc, cur>>
  BY DEF handle_accept, serverVars
<1> QED BY <1>3, <1>4, <1>5 DEF Served, Open, Waited

\* The loop goes on, ends with a write or a read, or because the connection is over.
LEMMA ServedReadLoop ==
    ASSUME TypeOK, Strand, Served, Gone => Gone', NEW t \in Threads, ReadLoop(t)
    PROVE  Served'
<1>1. PICK s \in Sessions : s = cur[t] /\ pc[t] = "read_loop"
  BY ReadLoopServes
<1>2. PICK new \in NewOps : ops' = [ops EXCEPT ![s] = @ \cup new] /\ OnlyMoves(t, s, new)
  BY <1>1, ReadLoopServes
<1>3. UNCHANGED <<heap, conn>>
  BY DEF ReadLoop, Parsed, objectVars
<1>4. Gone' \/ ~Open(s)' \/ Waited(s)'
  <2>1. CASE Parsed(t, s, inbox[s], {})
    BY <2>1, ParsedWaits DEF Waited
  <2>2. CASE MayFail(s)
    BY <1>3, <2>2 DEF MayFail, Open
  <2> QED BY <1>1, <2>1, <2>2 DEF ReadLoop
<1>5. ASSUME NEW r \in Sessions, r # s, Open(r)', ~Gone PROVE Waited(r)'
  <2>1. Waited(r)
    BY <1>3, <1>5 DEF Served, Open
  <2>2. ops'[r] = ops[r]
    BY <1>2, <1>5 DEF TypeOK
  <2>3. ASSUME NEW u \in Threads, pc[u] = "read_loop", cur[u] = r
        PROVE  pc'[u] = "read_loop" /\ cur'[u] = r
    BY <1>1, <1>2, <1>5, <2>3 DEF OnlyMoves
  <2> QED BY <2>1, <2>2, <2>3 DEF Waited
<1> QED BY <1>4, <1>5 DEF Served

LEMMA ServedStep ==
    ASSUME TypeOK, Unstarted, Strand, Served, [Next]_vars
    PROVE  Served'
<1>a. Gone => Gone'
  BY GoneStays
<1>1. ASSUME NEW srv \in Servers, ConstructServer(srv) PROVE Served'
  <2>1. PICK f \in Fresh(srv) : /\ heap' = [heap EXCEPT ![f] = "live"]
                                /\ ops' = [ops EXCEPT ![f] = {Started("accept")}]
    BY <1>1 DEF ConstructServer
  <2>2. f \in Sessions
    BY DEF Fresh
  <2>3. /\ ops'[f] # {}
        /\ \A r \in Sessions : r # f => heap'[r] = heap[r] /\ ops'[r] = ops[r]
    BY <2>1, <2>2 DEF TypeOK
  <2>4. cur' = cur /\ conn' = conn
    BY <1>1 DEF ConstructServer
  <2>5. ASSUME NEW r \in Sessions, r # f, Open(r)', ~Gone PROVE Waited(r)'
    <3>1. Waited(r)
      BY <2>3, <2>4, <2>5 DEF Served, Open
    <3>2. ASSUME NEW u \in Threads, pc[u] = "read_loop" PROVE pc'[u] = "read_loop"
      <4>1. CASE u = Main
        BY <1>1, <3>2, <4>1 DEF ConstructServer
      <4>2. CASE u \in Workers
        <5>1. StartedBy[u] # srv
          BY <1>1, <3>2, <4>2 DEF ConstructServer, Unstarted
        <5> QED BY <1>1, <3>2, <4>2, <5>1, SessionsAssumption DEF ConstructServer
      <4> QED BY <4>1, <4>2 DEF Threads
    <3> QED BY <2>3, <2>4, <2>5, <3>1, <3>2 DEF Waited
  <2> QED BY <1>a, <2>2, <2>3, <2>5 DEF Served, Waited
<1>2. CASE ConstructServerFails
  <2>1. Gone'
    BY <1>2, ThrowGoes DEF ConstructServerFails, Threads
  <2> QED BY <2>1 DEF Served
<1>3. CASE signal_handler
  BY <1>3 DEF signal_handler, Served, Gone
<1>4. ASSUME NEW s \in Sessions, React(s) PROVE Served'
  <2>1. UNCHANGED <<pc, cur, heap>>
    BY <1>4, ReactCompletes DEF serverVars
  <2>2. /\ ops'[s] # {}
        /\ \A r \in Sessions : r # s => ops'[r] = ops[r]
    <3>1. PICK op \in Operation, stage \in Stage :
              ops' = [ops EXCEPT ![s] = (@ \ {Started(op)}) \cup {<<op, stage>>}]
      BY <1>4, ReactCompletes
    <3> QED BY <3>1 DEF TypeOK
  <2>3. \A r \in Sessions : r # s => conn'[r] = conn[r]
    BY <1>4 DEF React, CompleteAccept, CompleteHandshake, CompleteRead, CompleteWrite,
                CompleteShutdown, TypeOK
  <2> QED BY <1>a, <2>1, <2>2, <2>3 DEF Served, Open, Waited
<1>5. ASSUME NEW t \in Threads, NEW s \in Sessions, Handle(t, s) PROVE Served'
  BY <1>5, <1>a, ServedAccept, ServedHandle
<1>6. ASSUME NEW t \in Threads, ReadLoop(t) PROVE Served'
  BY <1>6, <1>a, ServedReadLoop
<1>7. ASSUME NEW t \in Threads, Clear(t) PROVE Served'
  <2>1. UNCHANGED <<heap, conn, ops>>
    BY <1>7 DEF Clear, objectVars
  <2>2. \A u \in Threads : pc[u] = "read_loop" => pc'[u] = "read_loop" /\ cur'[u] = cur[u]
    BY <1>7 DEF Clear, TypeOK
  <2> QED BY <1>a, <2>1, <2>2, ServedSame DEF Open
<1>8. ASSUME NEW s \in Sessions, PeerRequest(s) \/ PeerContinues(s) PROVE Served'
  BY <1>8, <1>a, ServedSame DEF PeerRequest, PeerContinues, Deliver, serverVars, objectVars, Open
<1>9. ASSUME NEW s \in Sessions, PeerClose(s) \/ PeerReset(s) PROVE Served'
  <2>1. UNCHANGED <<pc, cur, heap, ops>>
    BY <1>9 DEF PeerClose, PeerReset, serverVars
  <2>2. \A r \in Sessions : conn'[r] = "up" => conn[r] = "up"
    BY <1>9 DEF PeerClose, PeerReset, TypeOK
  <2> QED BY <1>a, <2>1, <2>2, ServedSame DEF Open
<1>10. CASE UNCHANGED vars
  BY <1>10, <1>a, ServedSame DEF vars, serverVars, objectVars, Open
<1> QED
  BY <1>1, <1>2, <1>3, <1>4, <1>5, <1>6, <1>7, <1>8, <1>9, <1>10 DEF Next

-----------------------------------------------------------------------------

\* Whatever threads handle a session after each other, its response is not
\* replaced while the operating system still reads its buffers (to_buffers).
THEOREM ResponsesStay == Spec => ResponseStableInFlight
<1>1. IInv /\ [Next]_vars =>
          [up' => \A s \in Sessions : Started("write") \in ops[s] => resp'[s] = resp[s]]_vars
  BY ResponseStep DEF IInv
<1> QED BY IInvInit, IInvStep, <1>1, PTL DEF Spec, ResponseStableInFlight

\* Once a session is deleted no operation and no reader refers to it, but the
\* TLS shutdown that handle_write started before it deleted the session.
THEOREM DeletedAreLeft == Spec => []DeletedOnlyAwaitsShutdown
<1>1. Init => Quiet
  BY DEF Init, Quiet, Dead
<1>2. IInv /\ Quiet /\ [Next]_vars => Quiet'
  BY QuietStep DEF IInv
<1>3. Quiet => DeletedOnlyAwaitsShutdown
  BY DEF Quiet, Dead, DeletedOnlyAwaitsShutdown, Drivers
<1> QED BY IInvInit, IInvStep, <1>1, <1>2, <1>3, PTL DEF Spec

\* While main runs the io_service an open connection is waited on, by an
\* operation or by a thread in the read loop: no handler forgets its session.
THEOREM ConnectedAreServed == Spec => []ConnectedIsServed
<1>1. Init => Served
  BY DEF Init, Served, Open
<1>2. IInv /\ Served /\ [Next]_vars => Served'
  BY ServedStep DEF IInv
<1>3. Served => ConnectedIsServed
  BY DriversWait DEF Served, Gone, Open, ConnectedIsServed
<1> QED BY IInvInit, IInvStep, <1>1, <1>2, <1>3, PTL DEF Spec
=============================================================================
