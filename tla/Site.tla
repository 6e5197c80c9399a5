-------------------------------- MODULE Site --------------------------------
(***************************************************************************)
(* A request and the handler that serves it: dispatch_handler              *)
(* (RequestDispatch) chooses a location, and its StaticRequestHandler      *)
(* (StaticFiles) or ProxyRequestHandler (ProxyRequests) takes the URI      *)
(* apart once more, each in its own way: by segments, by decoded           *)
(* characters, by length.                                                  *)
(***************************************************************************)
EXTENDS ProxyRequests, FiniteSets

CONSTANTS
    StaticRoots,  \* the static locations: path to root, both with a final slash
    Asked,        \* what clients ask for: [path, parts, uri], the path they mean, what
                  \* they encode each of its characters by, and the uri these parts
                  \* make; no path if the uri is no such encoding
    Hosts,        \* the hosts they name, None for none
    Order         \* the place of a location's path in the order of std::map

Static == INSTANCE StaticFiles

\* The handler of the location p.
StaticHandler(p) == [path_ |-> p, root_ |-> StaticRoots[p]]

SiteLocations == {path_} \cup DOMAIN StaticRoots

Strings == Seq(0..255)

HexDigits == {d \in 0..255 : Static!IsHex(d)}

\* The encodings of the character c.
Encodes(part, c) ==
    \/ part = <<c>> /\ c \notin {Static!Plus, Static!Percent}
    \/ part = <<Static!Plus>> /\ c = Static!Space
    \/ \E d, e \in HexDigits :
          part = <<Static!Percent, d, e>> /\ c = 16 * Static!Digit(d) + Static!Digit(e)

EncodesPath(parts, path) ==
    /\ parts \in Seq(Strings) /\ Len(parts) = Len(path)
    /\ \A i \in DOMAIN path : Encodes(parts[i], path[i])

ASSUME SiteAssumption ==
    /\ \A p \in SiteLocations \cup {StaticRoots[q] : q \in DOMAIN StaticRoots} :
          p \in Strings /\ p # <<>> /\ Last(p) = Slash
    /\ <<Slash>> \in DOMAIN StaticRoots /\ path_ \notin DOMAIN StaticRoots
    /\ None \in Hosts
    /\ \A l \in Locations : l.uri \in Strings /\ (l.uri = <<>> \/ Head(l.uri) = Slash)
    /\ \A a \in Asked :
          /\ a.path \in Strings /\ a.uri \in Strings
          /\ a.path # <<>> => Head(a.path) = Slash /\ EncodesPath(a.parts, a.path)
                              /\ a.uri = FlattenSeq(a.parts)
    /\ Pages \subseteq Seq(Seq({"href", "src", "quote", "slash", "text"}))

VARIABLES
    location, \* the path of the location that serves the request
    asked,    \* the path the client means
    file,     \* the file a static handler tries to open
    extension

vars == <<proxyVars, location, asked, file, extension>>

\* The non-empty names between slashes, as common_prefix_length splits them: the
\* k-th begins where k of them have begun.
SegmentsOf(s) ==
    LET starts == {i \in DOMAIN s : s[i] # Slash /\ (i = 1 \/ s[i - 1] = Slash)}
        at(k)   == {i \in starts : Cardinality({j \in starts : j <= i}) = k}
        stop(i) == SelectInSubSeq(s, i, Len(s), LAMBDA c : c = Slash)
        from(i) == SubSeq(s, i, IF stop(i) = 0 THEN Len(s) ELSE stop(i) - 1)
    IN  [k \in 1..Cardinality(starts) |-> from(CHOOSE i \in at(k) : TRUE)]

SegmentPaths == {SegmentsOf(p) : p \in SiteLocations}

PathOf(segments) == CHOOSE p \in SiteLocations : SegmentsOf(p) = segments

Dispatch == INSTANCE RequestDispatch WITH
    Segments <- Strings, Paths <- SegmentPaths, Uris <- {}, Methods <- {}, NoHandler <- None,
    MaxStatements <- 0,
    Length <- [p \in SegmentPaths |-> Len(PathOf(p))],
    Order  <- [p \in SegmentPaths |-> Order[PathOf(p)]],
    statements <- <<>>, phase <- "serving", served <- <<>>,
    map_ <- [p \in SegmentPaths |-> PathOf(p)],
    uri_request_handler_ <- [p \in SegmentPaths |-> PathOf(p)]

\* As in RequestDispatch, locations are told apart by their names.
ASSUME LocationsAssumption ==
    /\ \A p, q \in SiteLocations :
          Dispatch!Extends(SegmentsOf(q), SegmentsOf(p)) /\ p # q => Len(p) < Len(q)
    /\ Order \in [SiteLocations -> Nat]
    /\ \A p, q \in SiteLocations : Order[p] = Order[q] => p = q
    /\ IsFiniteSet(SiteLocations) /\ None \notin SiteLocations

\* dispatch_handler; there is a handler for "/".
LocationFor(u) ==
    LET longest == Dispatch!Longest(SegmentsOf(u))
    IN  IF longest = {} THEN <<Slash>> ELSE PathOf(CHOOSE p \in longest : TRUE)

Init ==
    /\ ProxyInit
    /\ location = None /\ asked = <<>> /\ file = <<>> /\ extension = <<>>

\* A static handler answers at once, with what it finds in its directory.
Serve(u, h) ==
    /\ \E found \in BOOLEAN :
          LET r == Static!handle_request(StaticHandler(LocationFor(u)), u, found)
          IN  file' = r.file /\ extension' = r.extension /\ code' = r.code
    /\ pc' = "answer" /\ uri' = u /\ host' = h
    /\ UNCHANGED <<target, loop_count, headers, body, page, failed, sends>>

Request(a, h) ==
    /\ pc = "idle"
    /\ location' = LocationFor(a.uri) /\ asked' = a.path
    /\ \/ location' # path_ /\ h = None /\ Serve(a.uri, h)
       \/ location' = path_ /\ Begin(a.uri, h) /\ UNCHANGED <<file, extension>>

\* The response is sent, or the exception leaves the handler.
Return ==
    /\ pc \in {"answer", "threw"}
    /\ pc' = "idle" /\ uri' = <<>> /\ host' = None /\ target' = <<>> /\ loop_count' = 0
    /\ code' = "404" /\ headers' = NoHeaders /\ body' = <<>>
    /\ page' = <<>> /\ failed' = FALSE /\ sends' = 0
    /\ location' = None /\ asked' = <<>> /\ file' = <<>> /\ extension' = <<>>

Step == Return \/ (Exchange /\ UNCHANGED <<location, asked, file, extension>>)

Next ==
    \/ \E a \in Asked : \E h \in Hosts : Request(a, h)
    \/ Step

\* The upstream answers or breaks off: a handler that has begun goes on.
Spec == Init /\ [][Next]_vars /\ WF_vars(Step)

-----------------------------------------------------------------------------
(* Properties                                                              *)

TypeOK ==
    /\ pc \in {"idle", "connect", "headers", "body", "answer", "threw", "undefined"}
    /\ \A s \in {uri, asked, target, file, extension} : s \in Strings
    /\ host \in Hosts \cup {None}
    /\ loop_count \in 0..Limit /\ sends \in 0..Limit
    /\ code \in Codes /\ headers \in Headers
    /\ page \in Pages \cup {<<>>} /\ failed \in BOOLEAN
    /\ body \in Seq({"href", "src", "quote", "slash", "text", "path"})
    /\ location \in SiteLocations \cup {None}

\* The URI lies below the location that serves it, and no location shares names
\* with it elsewhere.
Below(u, p) == IsPrefix(p, u)

Clear(u) ==
    LET s == SegmentsOf(u)
    IN  \A q \in SegmentPaths :
            Dispatch!Extends(s, q) \/ Dispatch!common_prefix_length(s, q) = 0

Deepest(u, p) ==
    /\ Below(u, p)
    /\ \A q \in SiteLocations :
          Dispatch!Extends(SegmentsOf(u), SegmentsOf(q)) => Len(q) <= Len(p)

\* A location's path that url_decode does not change.
Literal(p) == \A i \in DOMAIN p : p[i] \notin {Static!Plus, Static!Percent}

\* No character of it ends a C string.
Whole(s) == 0 \notin ToSet(s)

\* A client means a path, encodes it somehow, and dispatch_handler, which does not
\* decode, sends it to the deepest location whose names begin the URI as it is
\* written (so "/%70/x" goes to "/" and not to "/p/").  There the path that was
\* meant is looked for in that location's directory, as index.html if it is a
\* directory, and is refused exactly if it goes upwards, plainly or encoded; if it
\* is not found the answer is 404.  (url_decode, check_request_path, replace_path.
\* Of a path with a NUL only what is before it is opened, which is not claimed here.)
AskedIsOpened ==
    \A p \in DOMAIN StaticRoots :
        pc = "answer" /\ asked # <<>> /\ Clear(uri) /\ Deepest(uri, p) /\ Literal(p)
        /\ Whole(asked) /\ Whole(StaticRoots[p]) =>
            /\ location = p
            /\ code = "400" <=> (\E i \in 1..(Len(asked) - 1) : asked[i] = 46 /\ asked[i + 1] = 46)
            /\ code # "400" =>
                  /\ code \in {"200", "404"}
                  /\ IsPrefix(StaticRoots[p], file)
                  /\ LET rest == SubSeq(asked, Len(p) + 1, Len(asked))
                         index == Static!Index
                     IN  SubSeq(file, Len(StaticRoots[p]) + 1, Len(file)) =
                            rest \o (IF Last(asked) = Slash THEN index ELSE <<>>)
                  /\ Slash \notin ToSet(extension)

\* The upstream is first asked for what the URI says below the location, with
\* its slash, and for "/" if the location is asked for without its own
\* (convert_to_rawbody).
RestIsForwarded ==
    /\ pc = "connect" /\ loop_count = 0 /\ Clear(uri)
    /\ Below(uri, path_) \/ uri = Front(path_)
    => Front(path_) \o target \in {uri, Append(uri, Slash)}

\* Every request comes to its end if the upstream does not leave it waiting: an
\* upstream that redirects without end does not (the comment at handle_request:
\* "looping limit is set to 5 for now (to prevent inf. loop)").
RequestsEnd == pc # "idle" ~> pc \in {"idle", "undefined"}
=============================================================================
