--------------------------- MODULE ProxyRequests ---------------------------
(***************************************************************************)
(* ProxyRequestHandler (proxy_request_handler.cc): the exchange with the   *)
(* upstream server, its redirects and failures, and the links of its pages *)
(* (clean_html).  Everything happens in one call of handle_request, on one *)
(* thread; what varies is what the upstream does.                          *)
(*                                                                         *)
(* A URI is a sequence of character codes, a page one of tokens: "href",   *)
(* "src", a quote, a slash and other text.                                 *)
(***************************************************************************)
EXTENDS Naturals, Sequences, SequencesExt

CONSTANTS
    path_,      \* the path of the location, with a final slash
    Pages,      \* the upstream's pages: sequences of pieces
    Locations,  \* where it redirects to: [host, uri]
    MaxLost,    \* bound on what is lost of a page that breaks off
    None        \* no header, no host

Slash == 47

\* The hops that are made at most.
Limit == 5

Headers == [location : Locations \cup {None}, length : Nat \cup {None},
            type : {"html", "other", None}]

NoHeaders == [location |-> None, length |-> None, type |-> None]

VARIABLES
    pc,         \* where handle_request stands; "idle" between requests
    uri, host,  \* of the client's request; the host without its port
    target,     \* the URI in raw_req
    loop_count,
    code, headers, body, \* return_response
    page,       \* history: the page read last
    failed,     \* history: the upstream broke off
    sends       \* history: how often a request was written to the upstream, Limit + 1
                \* if more often

proxyVars == <<pc, uri, host, target, loop_count, code, headers, body, page, failed, sends>>

Codes == {"200", "301", "302", "400", "404", "500", "other"}

ProxyInit ==
    /\ pc = "idle" /\ uri = <<>> /\ host = None /\ target = <<>> /\ loop_count = 0
    /\ code = "404" /\ headers = NoHeaders /\ body = <<>>
    /\ page = <<>> /\ failed = FALSE /\ sends = 0

-----------------------------------------------------------------------------

\* Mutant of Stripped: the slash before the rest is taken for the path's.
StrippedOne(u) == SubSeq(u, Len(path_) + 1, Len(u))

\* convert_to_rawbody: the URI without the location's path, with a slash.
Stripped(u) ==
    LET s == SubSeq(u, Len(path_), Len(u))
    IN  IF s = <<>> \/ Head(s) # Slash THEN <<Slash>> \o s ELSE s

\* A URI that is shorter than the path makes substr throw, outside of the try.
Begin(u, h) ==
    /\ pc = "idle"
    /\ uri' = u /\ host' = h
    /\ IF Len(u) < Len(path_) - 1 THEN pc' = "threw" /\ UNCHANGED target
       ELSE pc' = "connect" /\ target' = Stripped(u)
    /\ UNCHANGED <<loop_count, code, headers, body, page, failed, sends>>

\* stock_response with the status c.
Stock(c) ==
    /\ code' = c
    /\ headers' = [location |-> None, length |-> 1, type |-> "html"]
    /\ body' = <<"text">>
    /\ pc' = "answer"
    /\ UNCHANGED <<uri, host, target, loop_count, page, failed>>

\* An exception: what has been gathered so far is the response.
Broken ==
    /\ pc' = "answer" /\ failed' = TRUE
    /\ UNCHANGED <<uri, host, target, loop_count, code, headers, body, page>>

\* One more request was written; beyond the limit they are no longer counted.
Written == IF sends > Limit THEN sends ELSE sends + 1

\* The host cannot be resolved or reached, or the connection is lost before the
\* blank line.  A response without any header line has no blank line: the end of
\* the status line, which would begin it, has been read.
Fail ==
    /\ \/ pc = "connect" /\ sends' \in {sends, Written}
       \/ pc = "headers" /\ UNCHANGED sends
    /\ Broken

\* resolve, connect, write and the status line.
StatusLine(c) ==
    /\ pc = "connect" /\ sends' = Written
    /\ \/ c \notin {"200", "301", "302"} /\ Stock(c)
       \/ /\ c \in {"200", "301", "302"}
          /\ code' = c /\ pc' = "headers"
          /\ UNCHANGED <<uri, host, target, loop_count, headers, body, page, failed>>

\* What arrived replaces what an earlier hop has left.
Merged(f) == [k \in DOMAIN headers |-> IF f[k] # None THEN f[k] ELSE headers[k]]

\* The location names the client's own host; without a Host every one does.
Follows(l) == host = None \/ (l # None /\ l.host = host)

\* redirect_request: the location from its first slash on.
redirect_request(l) == IF l = None THEN <<>> ELSE l.uri

\* Mutant of Redirect: the hop is not counted.
RedirectUncounted(l) ==
    /\ target' = redirect_request(l)
    /\ UNCHANGED loop_count
    /\ pc' = IF loop_count < Limit THEN "connect" ELSE "answer"

\* Mutant of Redirect: no limit.
RedirectUnlimited(l) ==
    /\ target' = redirect_request(l)
    /\ loop_count' = loop_count + 1
    /\ pc' = "connect"

Redirect(l) ==
    /\ target' = redirect_request(l)
    /\ loop_count' = loop_count + 1
    /\ pc' = IF loop_count' < Limit THEN "connect" ELSE "answer"

\* The header lines; f is what they say of the three that matter here, nothing
\* perhaps.
HeaderLines(f) ==
    /\ pc = "headers"
    /\ headers' = Merged(f)
    /\ IF code \in {"301", "302"} /\ Follows(headers'.location)
       THEN Redirect(headers'.location)
       ELSE pc' = "body" /\ UNCHANGED <<target, loop_count>>
    /\ UNCHANGED <<uri, host, code, body, page, failed, sends>>

\* parse_header on a line without a colon, and on one that ends with its colon:
\* pop_back of an empty value.
BadHeaderLine ==
    /\ pc = "headers" /\ UNCHANGED sends
    /\ \/ Stock("500")
       \/ pc' = "undefined"
          /\ UNCHANGED <<uri, host, target, loop_count, code, headers, body, page, failed>>

-----------------------------------------------------------------------------

Links == {"href", "src"}

\* What is put before a link that begins with c.
Prefixed(c) == IF c = "slash" THEN <<"path">> ELSE <<>>

\* The next keyword and the next quote after it; a quote at the end of the page,
\* or none, appends the rest of the page twice.
clean_html(b) ==
    LET Next(i, S) == SelectInSubSeq(b, i, Len(b), LAMBDA t : t \in S)
        Rest(i)    == SubSeq(b, i, Len(b))
        cleaned[i \in 1..(Len(b) + 1)] ==
            LET k == Next(i, Links)
                j == Next(k + 1, {"quote"})
            IN  IF k = 0 THEN Rest(i)
                ELSE IF j = 0 \/ j = Len(b) THEN Rest(i) \o Rest(i)
                ELSE SubSeq(b, i, j) \o Prefixed(b[j + 1]) \o cleaned[j + 1]
    IN  cleaned[1]

\* Mutant of SetLength: the upstream's Content-Length is kept.
SetLengthOnce(b) ==
    headers' = [headers EXCEPT !.length = IF @ = None THEN Len(b) ELSE @]

SetLength(b) == headers' = [headers EXCEPT !.length = Len(b)]

\* The body, as much of it as comes before the connection is closed or lost.
Body(p, n) ==
    /\ pc = "body"
    /\ page' = p
    /\ failed' = (n < Len(FlattenSeq(p)))
    /\ body' = LET b == SubSeq(FlattenSeq(p), 1, n)
               IN  IF headers.type = "html" THEN clean_html(b) ELSE b
    /\ SetLength(body')
    /\ pc' = "answer"
    /\ UNCHANGED <<uri, host, target, loop_count, code, sends>>

\* What the upstream may send as header lines.
Sent == [location : Locations \cup {None}, length : {9, None}, type : {"html", "other", None}]

Exchange ==
    \/ \E c \in {"200", "302", "404", "500"} : StatusLine(c)
    \/ \E f \in Sent : HeaderLines(f)
    \/ BadHeaderLine
    \/ \E p \in Pages : \E n \in 0..Len(FlattenSeq(p)) :
          Len(FlattenSeq(p)) - n <= MaxLost /\ Body(p, n)
    \/ Fail

-----------------------------------------------------------------------------

\* A link: "href" quote url quote.
IsLink(piece) ==
    /\ Len(piece) > 2 /\ Head(piece) \in Links /\ piece[2] = "quote" /\ Last(piece) = "quote"
    /\ \A i \in 3..Len(piece) : piece[i] \notin Links

\* No piece of the page but its links has a keyword.
Plain(p) == \A i \in DOMAIN p : ~IsLink(p[i]) => ToSet(p[i]) \cap Links = {}

\* The link with the location's path before an absolute url.
Rewritten(piece) ==
    IF IsLink(piece) /\ piece[3] = "slash" THEN InsertAt(piece, 3, "path") ELSE piece

\* A page that arrived completely is answered with its own length, whatever the
\* redirects before it said, and with each absolute link below the location
\* (handle_request, clean_html).
PageIsWhole ==
    pc = "answer" /\ page # <<>> /\ ~failed /\ Plain(page) =>
        /\ body = FlattenSeq(IF headers.type = "html"
                             THEN [i \in DOMAIN page |-> Rewritten(page[i])] ELSE page)
        /\ headers.length = Len(body)
=============================================================================
