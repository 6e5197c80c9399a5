----------------------- MODULE RequestDispatchProofs -----------------------
(***************************************************************************)
(* For any set of locations and any URIs: a URI that is a location's path  *)
(* is served by that location, and where locations are nested the deepest  *)
(* one serves.  Both follow from one fact about the loop of                *)
(* dispatch_handler: of the paths that agree with the URI most often, one  *)
(* that the others extend is the shortest, and is chosen.                  *)
(***************************************************************************)
EXTENDS RequestDispatch, FiniteSetTheorems, TLAPS

\* What dispatch_handler chose is still the longest path, as the map does not
\* change while requests are served.
Chosen ==
    Serves => /\ served.uri \in Uris
              /\ \/ served.path \in Longest(served.uri)
                 \/ Longest(served.uri) = {} /\ served.path = Root

Idle == phase \in {"get_map", "failed"} => served = Nothing

IInv == Chosen /\ Idle

-----------------------------------------------------------------------------
\* common_prefix_length counts at most the segments of either sequence, and all of
\* those of the first only if the second extends it.
LEMMA CountBound ==
    ASSUME NEW S, NEW a \in Seq(S), NEW b \in Seq(S)
    PROVE  /\ IsFiniteSet(Agree(a, b))
           /\ common_prefix_length(a, b) \in Nat
           /\ common_prefix_length(a, b) <= Len(a)
<1>1. IsFiniteSet(1..Len(a)) /\ Cardinality(1..Len(a)) = Len(a)
  BY FS_Interval
<1>2. Agree(a, b) \subseteq 1..Len(a)
  BY DEF Agree
<1>3. IsFiniteSet(Agree(a, b)) /\ Cardinality(Agree(a, b)) <= Cardinality(1..Len(a))
  BY <1>1, <1>2, FS_Subset
<1> QED BY <1>1, <1>3, FS_CardinalityType DEF common_prefix_length

\* A path the URI extends agrees with it in all its segments and in no others.
LEMMA AgreeWithPrefix ==
    ASSUME NEW S, NEW a \in Seq(S), NEW p \in Seq(S), Extends(a, p)
    PROVE  Agree(a, p) = 1..Len(p) /\ common_prefix_length(a, p) = Len(p)
<1>1. Agree(a, p) = 1..Len(p)
  BY DEF Agree, Extends
<1>2. Len(p) \in Nat
  OBVIOUS
<1>3. \A n \in Nat : Cardinality(1..n) = n
  BY FS_Interval
<1> QED BY <1>1, <1>2, <1>3 DEF common_prefix_length

\* Without agreement beyond a difference, n agreements are the first n positions.
LEMMA AgreeIsInitial ==
    ASSUME NEW S, NEW a \in Seq(S), NEW b \in Seq(S),
           \A i \in Agree(a, b) : \A j \in 1..i : j \in Agree(a, b)
    PROVE  Agree(a, b) = 1..common_prefix_length(a, b)
<1> DEFINE n == common_prefix_length(a, b)
<1>1. IsFiniteSet(Agree(a, b)) /\ n \in Nat
  BY CountBound
<1>2. ASSUME NEW i \in Agree(a, b) PROVE i \in 1..n
  <2>1. i \in Nat /\ i >= 1
    BY DEF Agree
  <2>2. 1..i \subseteq Agree(a, b)
    OBVIOUS
  <2>3. Cardinality(1..i) = i
    BY <2>1, FS_Interval
  <2>4. Cardinality(1..i) <= n
    BY <1>1, <2>2, FS_Subset DEF common_prefix_length
  <2> QED BY <2>1, <2>3, <2>4, <1>1
<1>3. IsFiniteSet(1..n) /\ Cardinality(1..n) = n
  BY <1>1, FS_Interval
<1> QED BY <1>1, <1>2, <1>3, FS_Subset DEF common_prefix_length

\* If no mapped path agrees with u more often than p, and those that agree as often
\* extend p, then p is the one longest path.
LEMMA LongestIsUnique ==
    ASSUME NEW u \in Uris, NEW p \in Mapped, common_prefix_length(u, p) > 0,
           \A q \in Mapped : /\ common_prefix_length(u, q) <= common_prefix_length(u, p)
                             /\ common_prefix_length(u, q) = common_prefix_length(u, p)
                                => Extends(q, p)
    PROVE  Longest(u) = {p}
<1>1. Mapped \subseteq Paths /\ u \in Seq(Segments) /\ Paths \subseteq Seq(Segments)
  BY RequestDispatchAssumption DEF Mapped
<1>2. \A q \in Mapped : common_prefix_length(u, q) \in Nat
  BY <1>1, CountBound
<1>3. \A q \in Mapped : Length[q] \in Nat /\ Order[q] \in Nat
  BY <1>1, RequestDispatchAssumption
<1>4. \A q \in Mapped :
        common_prefix_length(u, q) = common_prefix_length(u, p) /\ q # p => Length[p] < Length[q]
  BY <1>1, RequestDispatchAssumption
<1>5. \A q \in Mapped : ~Better(u, q, p)
  <2> SUFFICES ASSUME NEW q \in Mapped PROVE ~Better(u, q, p)
    OBVIOUS
  <2> QED BY <1>2, <1>3, <1>4 DEF Better
<1>6. \A q \in Mapped : q # p => Better(u, p, q)
  <2> SUFFICES ASSUME NEW q \in Mapped, q # p PROVE Better(u, p, q)
    OBVIOUS
  <2>1. CASE common_prefix_length(u, q) = common_prefix_length(u, p)
    BY <2>1, <1>4 DEF Better
  <2>2. CASE common_prefix_length(u, q) < common_prefix_length(u, p)
    BY <2>2, <1>2 DEF Better
  <2> QED BY <2>1, <2>2, <1>2
<1> QED BY <1>5, <1>6 DEF Longest

\* If nothing agrees with u, no path is longest.
LEMMA NoneIsLongest ==
    ASSUME NEW u \in Uris, \A q \in Mapped : common_prefix_length(u, q) <= 0
    PROVE  Longest(u) = {}
<1>1. Mapped \subseteq Paths /\ u \in Seq(Segments) /\ Paths \subseteq Seq(Segments)
  BY RequestDispatchAssumption DEF Mapped
<1>2. \A q \in Mapped : common_prefix_length(u, q) \in Nat
  BY <1>1, CountBound
<1> QED BY <1>2 DEF Longest

-----------------------------------------------------------------------------
LEMMA ChosenNested == Chosen => NestedRoute
<1> SUFFICES ASSUME Chosen, Serves, NoSkew(served.uri),
                    NEW p \in Mapped, Extends(served.uri, p),
                    \A q \in Mapped : common_prefix_length(served.uri, q) <= Len(p)
             PROVE  served.path = p
  BY DEF NestedRoute
<1> DEFINE u == served.uri
<1>1. u \in Uris /\ u \in Seq(Segments) /\ p \in Seq(Segments) /\ Mapped \subseteq Seq(Segments)
  BY RequestDispatchAssumption DEF Chosen, Mapped
<1>2. common_prefix_length(u, p) = Len(p) /\ Len(p) \in Nat
  BY <1>1, AgreeWithPrefix
<1>3. CASE p = Root
  <2>1. Len(p) = 0
    BY <1>3 DEF Root
  <2>2. Longest(u) = {}
    BY <2>1, <1>1, NoneIsLongest
  <2> QED BY <2>2, <1>3 DEF Chosen
<1>4. CASE p # Root
  <2>1. Len(p) > 0
    BY <1>4, <1>1 DEF Root
  <2>2. ASSUME NEW q \in Mapped, common_prefix_length(u, q) = Len(p) PROVE Extends(q, p)
    <3>1. Agree(u, q) = 1..Len(p)
      BY <2>2, <1>1, AgreeIsInitial DEF NoSkew
    <3>2. \A i \in 1..Len(p) : i <= Len(q) /\ u[i] = q[i] /\ u[i] = p[i]
      BY <3>1 DEF Agree, Extends
    <3>3. Len(p) <= Len(q)
      BY <3>2, <2>1, <1>2
    <3> QED BY <3>2, <3>3 DEF Extends
  <2>3. Longest(u) = {p}
    BY <2>1, <2>2, <1>1, <1>2, LongestIsUnique
  <2> QED BY <2>3 DEF Chosen
<1> QED BY <1>3, <1>4

LEMMA ChosenExact == Chosen => ExactRoute
<1> SUFFICES ASSUME Chosen, Serves, served.uri \in Mapped
             PROVE  served.path = served.uri
  BY DEF ExactRoute
<1> DEFINE u == served.uri
<1>1. u \in Uris /\ u \in Seq(Segments) /\ Mapped \subseteq Seq(Segments)
  BY RequestDispatchAssumption DEF Chosen, Mapped
<1>2. Extends(u, u)
  BY <1>1 DEF Extends
<1>3. common_prefix_length(u, u) = Len(u) /\ Len(u) \in Nat
  BY <1>1, <1>2, AgreeWithPrefix
<1>4. \A q \in Mapped : common_prefix_length(u, q) <= Len(u)
  BY <1>1, CountBound
<1>5. CASE u = Root
  <2>1. Longest(u) = {}
    BY <1>5, <1>1, <1>4, NoneIsLongest DEF Root
  <2> QED BY <2>1, <1>5 DEF Chosen
<1>6. CASE u # Root
  <2>1. Len(u) > 0
    BY <1>6, <1>1 DEF Root
  <2>2. ASSUME NEW q \in Mapped, common_prefix_length(u, q) = Len(u) PROVE Extends(q, u)
    <3>1. IsFiniteSet(1..Len(u)) /\ Cardinality(1..Len(u)) = Len(u)
      BY <1>3, FS_Interval
    <3>2. Agree(u, q) \subseteq 1..Len(u)
      BY DEF Agree
    <3>3. Agree(u, q) = 1..Len(u)
      BY <3>1, <3>2, <2>2, FS_Subset DEF common_prefix_length
    <3>4. \A i \in 1..Len(u) : i <= Len(q) /\ u[i] = q[i]
      BY <3>3 DEF Agree
    <3>5. Len(u) <= Len(q)
      BY <3>4, <2>1, <1>3
    <3> QED BY <3>4, <3>5 DEF Extends
  <2>3. Longest(u) = {u}
    BY <2>1, <2>2, <1>1, <1>3, <1>4, LongestIsUnique
  <2> QED BY <2>3 DEF Chosen
<1> QED BY <1>5, <1>6

-----------------------------------------------------------------------------
LEMMA IInvStep == IInv /\ [Next]_vars => IInv'
<1> SUFFICES ASSUME IInv, [Next]_vars PROVE IInv'
  OBVIOUS
<1> USE DEF IInv, Chosen, Idle, Serves
<1>1. CASE get_map
  BY <1>1 DEF get_map, Location, Failure, Nothing
<1>2. CASE get_map_returns
  BY <1>2 DEF get_map_returns, Nothing
<1>3. ASSUME NEW u \in Uris, dispatch_handler(u) PROVE IInv'
  <2>1. \A v : Longest(v)' = Longest(v)
    BY <1>3 DEF dispatch_handler, Longest, Mapped, Better
  <2> QED BY <1>3, <2>1 DEF dispatch_handler
<1>4. CASE UNCHANGED vars
  <2>1. \A v : Longest(v)' = Longest(v)
    BY <1>4 DEF vars, Longest, Mapped, Better
  <2> QED BY <1>4, <2>1 DEF vars
<1> QED BY <1>1, <1>2, <1>3, <1>4 DEF Next

LEMMA IInvInit == Init => IInv
BY DEF Init, IInv, Chosen, Idle, Serves

\* dispatch_handler serves a location's own path with that location, however the
\* other locations share their segments with it.
THEOREM PathsAreServed == Spec => []ExactRoute
<1>1. IInv => ExactRoute
  BY ChosenExact DEF IInv
<1> QED BY <1>1, IInvInit, IInvStep, PTL DEF Spec

\* dispatch_handler serves a URI with the deepest location it lies under when none
\* goes along with it further.
THEOREM NestedAreServed == Spec => []NestedRoute
<1>1. IInv => NestedRoute
  BY ChosenNested DEF IInv
<1> QED BY <1>1, IInvInit, IInvStep, PTL DEF Spec

-----------------------------------------------------------------------------
(* What get_map leaves                                                     *)

Listed == phase \in {"get_map", "serving"} =>
    \A p \in Paths : (map_[p] = NoHandler) = (uri_request_handler_[p] = NoHandler)

MInv == TypeOK /\ Listed

LEMMA MInvStep == MInv /\ [Next]_vars => MInv'
<1> SUFFICES ASSUME MInv, [Next]_vars PROVE MInv'
  OBVIOUS
<1>0. TypeOK /\ Listed
  BY DEF MInv
<1>1. CASE get_map
  <2> DEFINE s == Head(statements)
  <2>1. s \in Statement /\ statements' \in Seq(Statement)
    BY <1>0, <1>1 DEF get_map, TypeOK
  <2>2. s.path \in Paths /\ s.method \in Handlers /\ s.method # NoHandler
    BY <2>1, RequestDispatchAssumption DEF Statement, Handlers
  <2>3. phase = "get_map" /\ served' = served
    BY <1>1 DEF get_map
  <2> HIDE DEF s
  <2>4. CASE Location(s)
    <3>1. TypeOK'
      BY <1>0, <2>1, <2>2, <2>3, <2>4 DEF Location, add_handler, TypeOK
    <3>2. Listed'
      BY <1>0, <2>2, <2>3, <2>4 DEF Location, add_handler, Listed, TypeOK
    <3> QED BY <3>1, <3>2 DEF MInv
  <2>5. CASE Failure(s)
    <3>1. TypeOK'
      BY <1>0, <2>1, <2>2, <2>3, <2>5 DEF Failure, add_handler, TypeOK
    <3>2. Listed'
      BY <2>5 DEF Failure, Listed
    <3> QED BY <3>1, <3>2 DEF MInv
  <2> QED BY <1>1, <2>4, <2>5 DEF get_map, s
<1>2. CASE get_map_returns
  BY <1>0, <1>2 DEF get_map_returns, MInv, TypeOK, Listed, Mapped
<1>3. ASSUME NEW u \in Uris, dispatch_handler(u) PROVE MInv'
  <2>1. ASSUME NEW p \in Longest(u) PROVE p \in Paths
    BY DEF Longest, Mapped
  <2>2. TypeOK'
    BY <1>0, <1>3, <2>1 DEF dispatch_handler, TypeOK, Root
  <2>3. Listed'
    BY <1>0, <1>3 DEF dispatch_handler, Listed, Mapped
  <2> QED BY <2>2, <2>3 DEF MInv
<1>4. CASE UNCHANGED vars
  BY <1>0, <1>4 DEF vars, MInv, TypeOK, Listed, Mapped
<1> QED BY <1>1, <1>2, <1>3, <1>4 DEF Next

LEMMA MInvInit == Init => MInv
<1> SUFFICES ASSUME Init PROVE MInv
  OBVIOUS
<1>1. statements \in Seq(Statement)
  BY DEF Init
<1> QED BY <1>1 DEF Init, MInv, TypeOK, Listed, Handlers, Nothing

\* The state is well formed.
THEOREM TypeCorrect == Spec => []TypeOK
<1>1. MInv => TypeOK
  BY DEF MInv
<1> QED BY <1>1, MInvInit, MInvStep, PTL DEF Spec

\* A server that has started lists exactly the locations it serves.
THEOREM ServingIsListed == Spec => []ListedAreServing
<1>1. MInv => ListedAreServing
  BY DEF MInv, Listed, ListedAreServing
<1> QED BY <1>1, MInvInit, MInvStep, PTL DEF Spec
=============================================================================
