-------------------------- MODULE MCServerSessions --------------------------
(* Instances of ServerSessions for TLC. *)
EXTENDS ServerSessions, TLC

CONSTANTS h1, h2, h3, h4, p1, p2, https, http

\* h1, h2, ... are sessions of the Server, p1, p2, ... of the HttpServer.
MCServerOf == [s \in Sessions |-> IF s \in {h1, h2, h3, h4} THEN https ELSE http]

MCStartedBy == [w \in Workers |-> IF https \in Servers THEN https ELSE http]

\* The peer of h1 sends anything, the others whole requests.
MCMixed == [s \in Sessions |-> IF s = h1 THEN Plain \cup {"post", "partial"} ELSE Plain]

MCWhole == [s \in Sessions |-> Plain]

\* The peer of h3 sends a whole request, the others begin one.
MCUnfinished == [s \in Sessions |-> IF s = h3 THEN {"getclose"} ELSE {"partial"}]
=============================================================================
