---------------------------- MODULE EchoRequests ----------------------------
(***************************************************************************)
(* EchoRequestHandler (echo_request_handler.cc) and the parser: a client   *)
(* sends what it was answered as its next request.  The body of a request, *)
(* which follows unchanged, is left out.                                   *)
(***************************************************************************)
EXTENDS RequestParser

CONSTANTS
    Unknown, \* the word for other methods
    None     \* no request

\* The words can be read, and are told apart.
ASSUME EchoRequestsAssumption ==
    /\ {"CR", "LF", "SP", ":", "/", "H", "T", "P"} \subseteq Chars
    /\ \A w \in {Get, Post, Put, Unknown} :
          w \in Seq(Chars) /\ w # <<>> /\ \A i \in DOMAIN w : Token(w[i])
    /\ Cardinality({Get, Post, Put, Unknown}) = 4

VARIABLE echoed \* history: the request of which text is the echo

echoVars == <<vars, echoed>>

EchoInit == Init /\ echoed = None

NewLine == <<"CR", "LF">>

Word(method) ==
    CASE method = "GET"  -> Get
      [] method = "POST" -> Post
      [] method = "PUT"  -> Put
      [] OTHER           -> Unknown

\* The headers with a value: looking one up enters it with none.
Filled(headers) == Restrict(headers, {n \in DOMAIN headers : headers[n] # <<>>})

\* Mutant of HeaderLines: no space after the colon.
HeaderLinesTight(headers) ==
    FlattenSeq([i \in 1..Cardinality(DOMAIN headers) |->
        LET n == SetToSeq(DOMAIN headers)[i] IN n \o <<":">> \o headers[n] \o NewLine])

\* The order is the map's, on which nothing here depends.
HeaderLines(headers) ==
    FlattenSeq([i \in 1..Cardinality(DOMAIN headers) |->
        LET n == SetToSeq(DOMAIN headers)[i] IN n \o <<":", "SP">> \o headers[n] \o NewLine])

convert_to_rawbody(r) ==
    Word(r.method_) \o <<"SP">> \o r.uri_ \o <<"SP", "H", "T", "T", "P", "/">> \o r.http_version_
    \o NewLine \o HeaderLines(Filled(r.headers_)) \o NewLine

handle_request ==
    /\ result = "good" /\ requests < MaxRequests
    /\ reset
    /\ echoed' = req /\ text' = convert_to_rawbody(req)
    /\ pos' = 0 /\ result' = "indeterminate" /\ req' = Fresh
    /\ requests' = requests + 1

EchoNext ==
    \/ consume /\ UNCHANGED echoed
    \/ NextRequest /\ echoed' = None
    \/ handle_request

EchoSpec == EchoInit /\ [][EchoNext]_echoVars

-----------------------------------------------------------------------------

\* The echo of a request is a request that says the same: the parser accepts all
\* of it and reads the same method, URI, version and headers, whatever spaces,
\* colons and separators they hold (convert_to_rawbody, consume).  A name that a
\* folded line has made of a separator is not read again.
EchoIsTheRequest ==
    /\ echoed # None
    /\ \A n \in DOMAIN echoed.headers_ : \A i \in DOMAIN n : Token(n[i])
    => /\ result = "good" <=> pos = Len(text)
       /\ result # "bad"
       /\ result = "good" => req = [echoed EXCEPT !.headers_ = Filled(@)]
=============================================================================
