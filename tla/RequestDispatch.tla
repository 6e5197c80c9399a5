-------------------------- MODULE RequestDispatch --------------------------
(***************************************************************************)
(* Which handler serves which URI: the path to handler map that get_map    *)
(* builds from the location statements of the configuration, the list of   *)
(* handlers the data collector shows, and dispatch_handler                 *)
(* (request_handler_generator.cc, data_collector.cc).                      *)
(*                                                                         *)
(* A path or URI is the sequence of its non-empty segments, what           *)
(* common_prefix_length makes of it; is_quoted gives every path a final    *)
(* slash, so a path and its segments determine each other here.            *)
(***************************************************************************)
EXTENDS Naturals, Sequences, FiniteSets

CONSTANTS
    Segments,      \* names between slashes
    Paths,         \* the paths of locations; Root is the path "/"
    Uris,          \* the URIs requested
    Length,        \* the length of a path as a string
    Order,         \* the place of a path in the order of std::map
    Methods,       \* the handlers createHandler knows
    NoHandler,     \* no entry, or a null pointer
    MaxStatements  \* bound on the location statements

Root == <<>>

Extends(q, p) == Len(p) <= Len(q) /\ \A i \in 1..Len(p) : q[i] = p[i]

ASSUME RequestDispatchAssumption ==
    /\ Paths \subseteq Seq(Segments) /\ IsFiniteSet(Paths)
    /\ Uris \subseteq Seq(Segments)
    /\ Length \in [Paths -> Nat] /\ Order \in [Paths -> Nat]
    /\ \A p, q \in Paths : Extends(q, p) /\ p # q => Length[p] < Length[q]
    /\ \A p, q \in Paths : Order[p] = Order[q] => p = q
    /\ NoHandler \notin Methods
    /\ MaxStatements \in Nat

\* What becomes of a location statement: "invalid" if it has no block of its own
\* arity, an unquoted path or an unknown handler; "refused" if Init returns null.
Statement == [path : Paths, method : Methods, form : {"valid", "invalid", "refused"}]

VARIABLES
    statements,            \* the location statements yet to be read
    phase,                 \* "get_map", "failed", "serving" or "crashed"
    map_,                  \* path to handler
    uri_request_handler_,  \* path to the handler's name, in the data collector
    served                 \* the last dispatch: the URI and the path chosen

vars == <<statements, phase, map_, uri_request_handler_, served>>

Nothing == [uri |-> <<>>, path |-> <<>>]

Handlers == Methods \cup {NoHandler}

TypeOK ==
    /\ statements \in Seq(Statement)
    /\ phase \in {"get_map", "failed", "serving", "crashed"}
    /\ map_ \in [Paths -> Handlers]
    /\ uri_request_handler_ \in [Paths -> Handlers]
    /\ served \in [uri : Uris \cup {<<>>}, path : Paths \cup {<<>>}]

Init ==
    /\ \E n \in 0..MaxStatements : statements \in [1..n -> Statement]
    /\ phase = "get_map"
    /\ map_ = [p \in Paths |-> NoHandler]
    /\ uri_request_handler_ = map_
    /\ served = Nothing

-----------------------------------------------------------------------------

\* DataCollector::add_handler: the last handler of a path stays.
add_handler(p, method) ==
    uri_request_handler_' = [uri_request_handler_ EXCEPT ![p] = method]

\* The body of get_map's loop for a valid location; insert keeps the first
\* handler of a path.
Location(s) ==
    /\ s.form = "valid"
    /\ add_handler(s.path, s.method)
    /\ map_' = IF map_[s.path] = NoHandler THEN [map_ EXCEPT ![s.path] = s.method] ELSE map_
    /\ UNCHANGED phase

\* The returns of false; a handler whose Init fails has been listed already.
Failure(s) ==
    /\ s.form # "valid"
    /\ phase' = "failed"
    /\ IF s.form = "refused" THEN add_handler(s.path, s.method)
       ELSE UNCHANGED uri_request_handler_
    /\ UNCHANGED map_

\* Mutant of get_map: a statement that fails is skipped.
get_mapSkips ==
    /\ phase = "get_map" /\ statements # <<>>
    /\ LET s == Head(statements)
       IN  \/ Location(s)
          \/ /\ s.form = "refused" /\ add_handler(s.path, s.method)
             /\ UNCHANGED <<phase, map_>>
    /\ statements' = Tail(statements)
    /\ UNCHANGED served

get_map ==
    /\ phase = "get_map" /\ statements # <<>>
    /\ Location(Head(statements)) \/ Failure(Head(statements))
    /\ statements' = Tail(statements)
    /\ UNCHANGED served

get_map_returns ==
    /\ phase = "get_map" /\ statements = <<>>
    /\ phase' = "serving"
    /\ UNCHANGED <<statements, map_, uri_request_handler_, served>>

-----------------------------------------------------------------------------

\* The positions at which two sequences agree; not all of them need lie before
\* the first difference.
Agree(a, b) == {i \in 1..Len(a) : i <= Len(b) /\ a[i] = b[i]}

common_prefix_length(a, b) == Cardinality(Agree(a, b))

Mapped == {p \in Paths : map_[p] # NoHandler}

\* Mutant of Better: of equal matches the longer path is preferred.
BetterLonger(u, q, p) ==
    LET m == common_prefix_length(u, q)
        n == common_prefix_length(u, p)
    IN  \/ m > n
        \/ m = n /\ Length[q] > Length[p]
        \/ m = n /\ Length[q] = Length[p] /\ Order[q] < Order[p]

\* q replaces p in the loop of dispatch_handler, or precedes it.
Better(u, q, p) ==
    LET m == common_prefix_length(u, q)
        n == common_prefix_length(u, p)
    IN  \/ m > n
        \/ m = n /\ Length[q] < Length[p]
        \/ m = n /\ Length[q] = Length[p] /\ Order[q] < Order[p]

\* The longest path of dispatch_handler: none if no segment agrees.
Longest(u) ==
    {p \in Mapped :
        /\ common_prefix_length(u, p) > 0
        /\ \A q \in Mapped : ~Better(u, q, p)}

\* Mutant of dispatch_handler: without a match the entry of the URI is returned.
dispatch_handlerByUri(u) ==
    /\ phase = "serving"
    /\ \/ \E p \in Longest(u) : served' = [uri |-> u, path |-> p]
       \/ Longest(u) = {} /\ served' = [uri |-> u, path |-> u]
    /\ UNCHANGED <<statements, phase, map_, uri_request_handler_>>

\* Without a match the handler is the one of "/", or null, which is then called.
dispatch_handler(u) ==
    /\ phase = "serving"
    /\ \/ \E p \in Longest(u) : served' = [uri |-> u, path |-> p] /\ UNCHANGED phase
       \/ /\ Longest(u) = {} /\ Root \in Mapped
          /\ served' = [uri |-> u, path |-> Root] /\ UNCHANGED phase
       \/ /\ Longest(u) = {} /\ Root \notin Mapped
          /\ phase' = "crashed" /\ UNCHANGED served
    /\ UNCHANGED <<statements, map_, uri_request_handler_>>

Next == get_map \/ get_map_returns \/ \E u \in Uris : dispatch_handler(u)

Spec == Init /\ [][Next]_vars

-----------------------------------------------------------------------------

Serves == phase = "serving" /\ served # Nothing

\* A URI that is a location's path is served by that location, whatever others
\* there are (dispatch_handler prefers the shorter path among equal matches).
ExactRoute ==
    Serves /\ served.uri \in Mapped => served.path = served.uri

\* No location agrees with u beyond a difference.
NoSkew(u) == \A q \in Mapped : \A i \in Agree(u, q) : \A j \in 1..i : j \in Agree(u, q)

\* If no location agrees with the URI beyond a difference, and none goes along
\* with it further than the deepest location it lies under, that location serves it.
NestedRoute ==
    Serves /\ NoSkew(served.uri) =>
        \A p \in Mapped :
            /\ Extends(served.uri, p)
            /\ \A q \in Mapped : common_prefix_length(served.uri, q) <= Len(p)
            => served.path = p

\* Once get_map has succeeded the status page lists exactly the paths that are
\* served, although a handler is listed before its Init may still fail.
ListedAreServing ==
    phase = "serving" =>
        \A p \in Paths : (map_[p] = NoHandler) = (uri_request_handler_[p] = NoHandler)
=============================================================================
