----------------------------- MODULE SiteProofs -----------------------------
(***************************************************************************)
(* Proofs about Site, for any locations, roots, pages and requests: what a *)
(* proxied location asks its upstream for, how often it asks and what it   *)
(* makes of the page, and which file a static location opens for a path,   *)
(* however a client encodes it.                                            *)
(***************************************************************************)
EXTENDS Site, FiniteSetTheorems, SequenceTheorems, WellFoundedInduction, TLAPS

\* Each pass of the loop writes one request, the first one and one for each redirect
\* followed; the last one that is followed does not begin another pass.
Hops ==
    /\ loop_count \in 0..Limit /\ sends \in 0..Limit
    /\ pc \in {"connect", "headers", "body"} => loop_count < Limit
    /\ pc = "connect" => sends = loop_count
    /\ pc \in {"headers", "body"} => sends = loop_count + 1

\* The first request to the upstream comes from the client's URI, which is long enough.
First ==
    pc \in {"connect", "headers"} /\ loop_count = 0 =>
        target = Stripped(uri) /\ uri \in Strings /\ Len(uri) >= Len(path_) - 1

\* What a static location answers is what its handler makes of the URI; all others who
\* are not done are at the proxied location.
Answered ==
    /\ pc \notin {"idle", "answer"} => location = path_
    /\ pc = "answer" /\ location # path_ =>
          \E found \in BOOLEAN :
              LET r == Static!handle_request(StaticHandler(location), uri, found)
              IN  code = r.code /\ file = r.file /\ extension = r.extension

SInv == Hops /\ First /\ Answered /\ (pc = "idle" => loop_count = 0 /\ sends = 0)

LEMMA SInvInit == Init => SInv
BY DEF Init, ProxyInit, SInv, Hops, First, Answered, Limit

LEMMA RequestKeeps == ASSUME SInv, NEW a \in Asked, NEW h \in Hosts, Request(a, h) PROVE SInv'
<1>1. pc = "idle" /\ loop_count = 0 /\ sends = 0 /\ a.uri \in Strings /\ location' = LocationFor(a.uri)
  BY SiteAssumption DEF SInv, Request
<1>2. CASE location' # path_ /\ h = None /\ Serve(a.uri, h)
  <2>1. /\ pc' = "answer" /\ uri' = a.uri /\ loop_count' = 0 /\ sends' = 0
        /\ \E found \in BOOLEAN :
              LET r == Static!handle_request(StaticHandler(LocationFor(a.uri)), a.uri, found)
              IN  file' = r.file /\ extension' = r.extension /\ code' = r.code
    BY <1>1, <1>2 DEF Serve
  <2>2. Answered'
    BY <1>1, <2>1 DEF Answered
  <2> QED BY <1>1, <2>1, <2>2 DEF SInv, Hops, First, Limit
<1>3. CASE location' = path_ /\ Begin(a.uri, h) /\ UNCHANGED <<file, extension>>
  <2>1. Len(a.uri) \in Nat /\ Len(path_) \in Nat
    BY <1>1, LenProperties, SiteAssumption DEF Strings, SiteLocations
  <2>2. uri' = a.uri /\ loop_count' = 0 /\ sends' = 0
    BY <1>1, <1>3 DEF Begin
  <2>3. \/ pc' = "threw"
        \/ pc' = "connect" /\ target' = Stripped(a.uri) /\ Len(a.uri) >= Len(path_) - 1
    BY <1>3, <2>1 DEF Begin
  <2>4. Hops'
    BY <2>2, <2>3 DEF Hops, Limit
  <2>5. location' = path_ /\ pc' \in {"threw", "connect"}
    <3>1. location' = path_
      BY <1>3
    <3>2. pc' \in {"threw", "connect"}
      BY <2>3
    <3> QED BY <3>1, <3>2
  <2>6. First'
    <3>1. Stripped(a.uri) = Stripped(uri') /\ Len(a.uri) = Len(uri')
      BY <2>2
    <3>2. pc' \in {"connect", "headers"} =>
             target' = Stripped(uri') /\ Len(uri') >= Len(path_) - 1
      BY <2>3, <3>1
    <3>3. uri' \in Strings
      BY <1>1, <2>2
    <3> QED BY <3>2, <3>3 DEF First, Stripped
  <2>7. Answered'
    BY <2>5 DEF Answered
  <2> QED BY <2>4, <2>5, <2>6, <2>7 DEF SInv
<1> QED BY <1>2, <1>3 DEF Request

LEMMA ReturnKeeps == ASSUME SInv, Return PROVE SInv'
BY DEF SInv, Return, Hops, First, Answered, Limit

\* A step of the exchange with the upstream: it is at the proxied location.
LEMMA ExchangeKeeps ==
    ASSUME SInv, Exchange, UNCHANGED <<location, asked, file, extension>> PROVE SInv'
<1>1. pc \in {"connect", "headers", "body"}
  BY DEF Exchange, StatusLine, HeaderLines, BadHeaderLine, Body, Fail
<1>2. location = path_ /\ location' = path_ /\ loop_count \in 0..Limit /\ loop_count < Limit
  BY <1>1 DEF SInv, Answered, Hops
<1>3. Answered'
  BY <1>2 DEF Answered
<1>4. /\ uri' = uri /\ pc' # "idle"
      /\ \/ /\ loop_count' = loop_count /\ target' = target
            /\ pc' \in {"connect", "headers"} => pc \in {"connect", "headers"}
         \/ /\ loop_count' = loop_count + 1
            /\ pc' = IF loop_count' < Limit THEN "connect" ELSE "answer"
      /\ \/ pc = "connect" /\ pc' \in {"headers", "answer"} /\ sends' = sends + 1 /\ loop_count' = loop_count
         \/ pc = "connect" /\ pc' = "answer" /\ sends' = sends /\ loop_count' = loop_count
         \/ /\ pc \in {"headers", "body"} /\ sends' = sends
            /\ pc' = "connect" => loop_count' = loop_count + 1
            /\ pc' # "headers" /\ (pc' = "body" => loop_count' = loop_count)
  <2>0. Written = sends + 1
    BY DEF SInv, Hops, Written, Limit
  <2>1. CASE \E c \in {"200", "302", "404", "500"} : StatusLine(c)
    BY <2>0, <2>1 DEF StatusLine, Stock
  <2>2. CASE \E f \in Sent : HeaderLines(f)
    BY <2>2 DEF HeaderLines, Redirect
  <2>3. CASE BadHeaderLine
    BY <2>3 DEF BadHeaderLine, Stock
  <2>4. CASE \E q, n : Body(q, n)
    BY <2>4 DEF Body
  <2>5. CASE Fail
    BY <2>0, <2>5 DEF Fail, Broken
  <2> QED BY <2>1, <2>2, <2>3, <2>4, <2>5 DEF Exchange
<1>5. Hops'
  <2>1. loop_count \in 0..Limit /\ sends \in 0..Limit
        /\ (pc = "connect" => sends = loop_count)
        /\ (pc \in {"headers", "body"} => sends = loop_count + 1)
    BY DEF SInv, Hops
  <2>2. CASE pc = "connect"
    <3>1. loop_count < Limit /\ sends = loop_count
      BY <2>1, <2>2 DEF SInv, Hops
    <3>2. loop_count' = loop_count /\ pc' \in {"headers", "answer"}
      BY <1>4, <2>2
    <3>3. sends' = loop_count + 1 \/ (sends' = loop_count /\ pc' = "answer")
      BY <1>4, <2>2, <3>1
    <3> QED BY <2>1, <3>1, <3>2, <3>3 DEF Hops, Limit
  <2>3. CASE pc \in {"headers", "body"}
    <3>1. /\ loop_count' \in {loop_count, loop_count + 1}
          /\ pc' = "connect" => loop_count' = loop_count + 1 /\ loop_count' < Limit
          /\ pc' = "body" => loop_count' = loop_count
          /\ pc' # "headers" /\ sends' = sends
      <4>1. loop_count + 1 # loop_count
        BY <2>1
      <4> QED BY <1>4, <2>3, <4>1
    <3>2. loop_count < Limit /\ sends = loop_count + 1
      BY <2>1, <2>3 DEF SInv, Hops
    <3>3. sends' = loop_count + 1 /\ sends' \in 0..Limit
      <4>1. PICK l \in Nat, n \in Nat : l = loop_count /\ n = sends'
        BY <2>1, <3>1
      <4>2. l < Limit /\ n = l + 1
        BY <3>1, <3>2, <4>1
      <4>3. n \in 0..Limit
        BY <4>2 DEF Limit
      <4> QED BY <4>1, <4>2, <4>3
    <3>4. loop_count' \in 0..Limit
      BY <2>1, <3>1, <3>2 DEF Limit
    <3>5. pc' = "connect" => loop_count' < Limit /\ sends' = loop_count'
      BY <3>1, <3>3
    <3>6. pc' = "body" => loop_count' < Limit /\ sends' = loop_count' + 1
      BY <3>1, <3>2, <3>3
    <3> QED BY <3>1, <3>3, <3>4, <3>5, <3>6 DEF Hops
  <2> QED BY <1>1, <2>2, <2>3
<1>6. First'
  <2>1. SUFFICES ASSUME pc' \in {"connect", "headers"}, loop_count' = 0
                 PROVE  target' = Stripped(uri') /\ uri' \in Strings /\ Len(uri') >= Len(path_) - 1
    BY DEF First, Stripped
  <2>2. loop_count + 1 # 0
    BY <1>2
  <2>3. /\ loop_count = 0 /\ target' = target /\ uri' = uri
        /\ pc \in {"connect", "headers"}
    BY <1>4, <2>1, <2>2
  <2>4. target = Stripped(uri) /\ uri \in Strings /\ Len(uri) >= Len(path_) - 1
    BY <2>3 DEF SInv, First
  <2> QED BY <2>3, <2>4
<1> QED BY <1>3, <1>4, <1>5, <1>6 DEF SInv

LEMMA SInvStep == SInv /\ [Next]_vars => SInv'
<1> SUFFICES ASSUME SInv, [Next]_vars PROVE SInv'
  OBVIOUS
<1>1. CASE UNCHANGED vars
  BY <1>1 DEF vars, proxyVars, SInv, Hops, First, Answered, Stripped
<1> QED BY <1>1, RequestKeeps, ReturnKeeps, ExchangeKeeps DEF Next, Step

\* Whatever the upstream answers, Limit requests are written to it for one request of
\* the client, no more: the first one and one for each redirect but the last that is
\* followed (handle_request, "looping limit is set to 5").
THEOREM SendsAreLimited == Spec => [](sends <= Limit)
<1>1. SInv => sends <= Limit
  BY DEF SInv, Hops, Limit
<1> QED BY <1>1, SInvInit, SInvStep, PTL DEF Spec

\* A part of a string.
LEMMA PartIs ==
    ASSUME NEW t \in Strings, NEW a \in Nat \ {0}, NEW b \in 0..Len(t), a <= b + 1
    PROVE  /\ SubSeq(t, a, b) \in Strings /\ Len(SubSeq(t, a, b)) = b + 1 - a
           /\ \A i \in 1..(b + 1 - a) : SubSeq(t, a, b)[i] = t[a + i - 1]
<1>1. Len(t) \in Nat
  BY LenProperties DEF Strings
<1>2. (\A i \in a..b : i \in 1..Len(t)) /\ b - a + 1 = b + 1 - a
  BY <1>1
<1>3. \A i \in a..b : t[i] \in 0..255
  BY <1>2, ElementOfSeq DEF Strings
<1>4. /\ SubSeq(t, a, b) \in Seq(0..255)
      /\ Len(SubSeq(t, a, b)) = IF a <= b THEN b - a + 1 ELSE 0
      /\ \A i \in 1..(b - a + 1) : SubSeq(t, a, b)[i] = t[a + i - 1]
  <2>1. t \in Seq(0..255) /\ a \in Int /\ b \in Int
    BY <1>1 DEF Strings
  <2> QED BY <1>3, <2>1, SubSeqProperties
<1>5. b - a + 1 \in Nat /\ (a <= b \/ b - a + 1 = 0)
  BY <1>1
<1>6. Len(SubSeq(t, a, b)) = b - a + 1
  BY <1>4, <1>5
<1> QED BY <1>2, <1>4, <1>6 DEF Strings

\* The rest of a string.
LEMMA RestIs ==
    ASSUME NEW t \in Strings, NEW n \in 0..Len(t)
    PROVE  /\ SubSeq(t, n + 1, Len(t)) \in Strings /\ Len(SubSeq(t, n + 1, Len(t))) = Len(t) - n
           /\ \A i \in 1..(Len(t) - n) : SubSeq(t, n + 1, Len(t))[i] = t[n + i]
<1>1. Len(t) \in Nat
  BY LenProperties DEF Strings
<1>2. n + 1 \in Nat \ {0} /\ Len(t) \in 0..Len(t) /\ n + 1 <= Len(t) + 1
  BY <1>1
<1>3. Len(t) + 1 - (n + 1) = Len(t) - n /\ \A i \in 1..(Len(t) - n) : (n + 1) + i - 1 = n + i
  BY <1>1
<1>4. /\ SubSeq(t, n + 1, Len(t)) \in Strings
      /\ Len(SubSeq(t, n + 1, Len(t))) = Len(t) + 1 - (n + 1)
      /\ \A i \in 1..(Len(t) + 1 - (n + 1)) : SubSeq(t, n + 1, Len(t))[i] = t[(n + 1) + i - 1]
  BY <1>2, PartIs
<1> QED BY <1>3, <1>4

\* Two strings are equal up to n if their parts up to n are the same; so are then the
\* parts up to any m before it.
LEMMA PrefixIs ==
    ASSUME NEW s \in Strings, NEW t \in Strings, IsPrefix(s, t)
    PROVE  /\ Len(s) <= Len(t) /\ \A i \in 1..Len(s) : s[i] = t[i]
           /\ \A m \in 0..Len(s) : SubSeq(s, 1, m) = SubSeq(t, 1, m)
<1> DEFINE n == Len(s)
<1>1. n \in Nat /\ Len(t) \in Nat /\ n <= Len(t) /\ SubSeq(s, 1, n) = SubSeq(t, 1, n)
  BY LenProperties DEF Strings, IsPrefix
<1>2. ASSUME NEW m \in 0..n
      PROVE  /\ SubSeq(s, 1, m) \in Strings /\ Len(SubSeq(s, 1, m)) = m
             /\ \A i \in 1..m : SubSeq(s, 1, m)[i] = s[i]
             /\ SubSeq(t, 1, m) \in Strings /\ Len(SubSeq(t, 1, m)) = m
             /\ \A i \in 1..m : SubSeq(t, 1, m)[i] = t[i]
  <2>1. m \in 0..Len(s) /\ m \in 0..Len(t) /\ 1 \in Nat \ {0} /\ 1 <= m + 1 /\ m + 1 - 1 = m
    BY <1>1
  <2>2. \A i \in 1..m : 1 + i - 1 = i
    OBVIOUS
  <2> HIDE DEF n
  <2> QED BY <2>1, <2>2, PartIs
<1> HIDE DEF n
<1>3. \A i \in 1..n : s[i] = t[i]
  <2>1. n \in 0..n
    BY <1>1
  <2> QED BY <1>1, <1>2, <2>1
<1>4. ASSUME NEW m \in 0..n PROVE SubSeq(s, 1, m) = SubSeq(t, 1, m)
  <2> DEFINE u == SubSeq(s, 1, m)
             v == SubSeq(t, 1, m)
  <2>1. u \in Seq(0..255) /\ v \in Seq(0..255) /\ Len(u) = m /\ Len(v) = m
    BY <1>2 DEF Strings
  <2>2. \A i \in 1..m : u[i] = s[i] /\ v[i] = t[i] /\ i \in 1..n
    BY <1>1, <1>2
  <2> HIDE DEF u, v
  <2>3. u = v
    BY <1>3, <2>1, <2>2, SeqEqual
  <2> QED BY <2>3 DEF u, v
<1> QED BY <1>1, <1>3, <1>4 DEF n

\* Two strings one after the other.
LEMMA ConcatIs ==
    ASSUME NEW s \in Strings, NEW t \in Strings
    PROVE  /\ s \o t \in Strings /\ Len(s \o t) = Len(s) + Len(t)
           /\ \A i \in 1..Len(s) : (s \o t)[i] = s[i]
           /\ \A i \in Len(s) + 1 .. Len(s) + Len(t) : (s \o t)[i] = t[i - Len(s)]
<1> DEFINE w == s \o t
<1>1. Len(s) \in Nat /\ Len(t) \in Nat
  BY LenProperties DEF Strings
<1>2. /\ w \in Strings /\ Len(w) = Len(s) + Len(t)
      /\ \A i \in 1..(Len(s) + Len(t)) : w[i] = IF i <= Len(s) THEN s[i] ELSE t[i - Len(s)]
  BY ConcatProperties DEF Strings
<1> HIDE DEF w
<1>3. \A i \in 1..Len(s) : w[i] = s[i]
  BY <1>1, <1>2
<1>4. \A i \in Len(s) + 1 .. Len(s) + Len(t) : w[i] = t[i - Len(s)]
  BY <1>1, <1>2
<1> QED BY <1>2, <1>3, <1>4 DEF w

LEMMA FirstIsTheRest == SInv => RestIsForwarded
<1> SUFFICES ASSUME SInv, pc = "connect", loop_count = 0,
                    Below(uri, path_) \/ uri = Front(path_)
             PROVE  Front(path_) \o target \in {uri, Append(uri, Slash)}
  BY DEF RestIsForwarded
<1> DEFINE n == Len(path_)
           s == SubSeq(uri, n, Len(uri))
<1>1. target = Stripped(uri) /\ uri \in Strings
  BY DEF SInv, First
<1>2. path_ \in Strings /\ path_ # <<>> /\ Last(path_) = Slash
  BY SiteAssumption DEF SiteLocations
<1>3. n \in Nat /\ n >= 1 /\ path_[n] = Slash /\ Len(uri) \in Nat
  <2>1. n \in Nat /\ Len(uri) \in Nat /\ n # 0
    BY <1>1, <1>2, LenProperties, EmptySeq DEF Strings
  <2> QED BY <1>2, <2>1 DEF Last
<1>4. target = IF s = <<>> \/ Head(s) # Slash THEN <<Slash>> \o s ELSE s
  BY <1>1 DEF Stripped
<1>5. Front(path_) = SubSeq(path_, 1, n - 1)
  BY DEF Front
<1>6. CASE Below(uri, path_)
  <2>1. IsPrefix(path_, uri)
    BY <1>6 DEF Below
  <2>2. n <= Len(uri) /\ uri[n] = Slash /\ SubSeq(path_, 1, n - 1) = SubSeq(uri, 1, n - 1)
    <3>1. n \in 1..Len(path_) /\ n - 1 \in 0..Len(path_)
      BY <1>3
    <3> QED BY <1>1, <1>2, <1>3, <2>1, <3>1, PrefixIs
  <2>3. s \in Strings /\ Len(s) = Len(uri) + 1 - n /\ s[1] = uri[n]
    <3>1. n \in Nat \ {0} /\ Len(uri) \in 0..Len(uri) /\ n <= Len(uri) + 1
          /\ 1 \in 1..(Len(uri) + 1 - n) /\ n + 1 - 1 = n
      BY <1>3, <2>2
    <3> HIDE DEF n
    <3> QED BY <1>1, <3>1, PartIs
  <2>4. s # <<>> /\ Head(s) = Slash
    <3> HIDE DEF s, n
    <3> QED BY <1>3, <2>2, <2>3 DEF Strings
  <2>5. target = s
    <3> HIDE DEF s
    <3> QED BY <1>4, <2>4
  <2>6. SubSeq(uri, 1, n - 1) \o SubSeq(uri, (n - 1) + 1, Len(uri)) = SubSeq(uri, 1, Len(uri))
    <3>1. 1 \in 1..(Len(uri) + 1) /\ n - 1 \in (1 - 1)..Len(uri) /\ Len(uri) \in (n - 1)..Len(uri)
      BY <1>3, <2>2
    <3> HIDE DEF n
    <3> QED BY <1>1, <3>1, ConcatAdjacentSubSeq DEF Strings
  <2>7. (n - 1) + 1 = n /\ SubSeq(uri, 1, Len(uri)) = uri
    BY <1>1, <1>3, SubSeqFull DEF Strings
  <2> HIDE DEF n
  <2>8. Front(path_) \o target = uri
    BY <1>5, <2>2, <2>5, <2>6, <2>7
  <2> QED BY <2>8
<1>7. CASE uri = Front(path_)
  <2>1. Len(uri) = n - 1
    <3>1. 1 \in Nat \ {0} /\ n - 1 \in 0..Len(path_) /\ 1 <= (n - 1) + 1 /\ (n - 1) + 1 - 1 = n - 1
      BY <1>3
    <3>2. Len(SubSeq(path_, 1, n - 1)) = (n - 1) + 1 - 1
      BY <1>2, <3>1, PartIs
    <3> QED BY <1>5, <1>7, <3>1, <3>2
  <2>2. s = <<>>
    <3>1. Len(uri) < n
      BY <1>3, <2>1
    <3> QED BY <1>3, <3>1, SubSeqEmpty
  <2>3. target = <<Slash>> \o <<>> /\ <<Slash>> \o <<>> = <<Slash>> /\ Slash \in 0..255
    <3> HIDE DEF s
    <3> QED BY <1>4, <2>2 DEF Slash
  <2>4. Append(uri, Slash) = uri \o <<Slash>>
    BY <1>1, <2>3, AppendIsConcat DEF Strings
  <2> QED BY <1>7, <2>3, <2>4
<1> QED BY <1>6, <1>7

\* Whatever the location is called, the upstream is first asked for what the client's URI
\* says below it, also where no other location is near (convert_to_rawbody).
THEOREM RestsAreForwarded == Spec => []RestIsForwarded
BY SInvInit, SInvStep, FirstIsTheRest, PTL DEF Spec

-----------------------------------------------------------------------------
(* The file of a decoded path                                                *)

\* A set of places has a last one: what remains of the places from one on shrinks with it.
LEMMA LastExists ==
    ASSUME NEW n \in Nat, NEW I \in SUBSET (1..n), I # {}
    PROVE  Static!Max(I) \in I /\ \A i \in I : i <= Static!Max(I)
<1> DEFINE R == StrictSubsetOrdering(Nat)
           T == {i..n : i \in I}
<1>1. T \subseteq FiniteSubsetsOf(Nat) /\ T # {}
  <2>1. ASSUME NEW i \in I PROVE i..n \in FiniteSubsetsOf(Nat)
    BY FS_Interval DEF FiniteSubsetsOf
  <2> QED BY <2>1
<1>2. PICK S \in T : \A Q \in T : ~(<<Q, S>> \in R)
  <2>1. IsWellFoundedOn(R, FiniteSubsetsOf(Nat))
    BY FS_StrictSubsetOrderingWellFounded
  <2> QED BY <1>1, <2>1, WFMin
<1>3. PICK m \in I : S = m..n
  OBVIOUS
<1>4. ASSUME NEW i \in I, m < i PROVE FALSE
  <2>1. i..n \subseteq m..n /\ m \in m..n /\ m \notin i..n /\ i..n \in T
    BY <1>4
  <2>2. <<i..n, m..n>> \in R
    BY <2>1 DEF StrictSubsetOrdering
  <2> QED BY <2>1, <2>2, <1>2, <1>3
<1>5. \E x \in I : \A y \in I : x >= y
  BY <1>4
<1>6. Static!Max(I) \in I /\ \A y \in I : Static!Max(I) >= y
  BY <1>5 DEF Static!Max
<1> QED BY <1>6

\* What is behind the last dot, if that is behind the last slash.
LEMMA ExtensionIs ==
    ASSUME NEW f \in Strings
    PROVE  Slash \notin ToSet(Static!get_extension(f))
<1> DEFINE D == {i \in 1..Len(f) : f[i] = Static!Dot}
           S == {i \in 1..Len(f) : f[i] = Static!Slash}
           dot   == IF D # {} THEN Static!Max(D) ELSE 0
           slash == IF S # {} THEN Static!Max(S) ELSE 0
           e == SubSeq(f, dot + 1, Len(f))
<1>0. Len(f) \in Nat
  BY LenProperties DEF Strings
<1>1. Static!get_extension(f) = IF dot > slash THEN e ELSE <<>>
  BY DEF Static!get_extension, Static!SelectLastInSeq
<1>2. dot \in 0..Len(f)
  <2>1. D \in SUBSET (1..Len(f))
    OBVIOUS
  <2> HIDE DEF D
  <2>2. D # {} => Static!Max(D) \in D
    BY <1>0, <2>1, LastExists
  <2>3. \A i \in D : i \in 0..Len(f)
    BY <1>0, <2>1
  <2> QED BY <1>0, <2>2, <2>3
<1>3. \A i \in 1..Len(f) : f[i] = Slash => i <= slash
  <2>1. S \in SUBSET (1..Len(f)) /\ \A i \in 1..Len(f) : f[i] = Slash => i \in S
    BY DEF Slash, Static!Slash
  <2> HIDE DEF S
  <2> QED BY <1>0, <2>1, LastExists
<1>4. slash \in Nat
  <2>1. S \in SUBSET (1..Len(f))
    OBVIOUS
  <2> HIDE DEF S
  <2>2. S # {} => Static!Max(S) \in S
    BY <1>0, <2>1, LastExists
  <2>3. \A i \in S : i \in Nat
    BY <1>0, <2>1
  <2> QED BY <2>2, <2>3
<1> HIDE DEF dot, slash
<1>5. ASSUME dot > slash, NEW k \in DOMAIN e PROVE e[k] # Slash
  <2>1. /\ Len(e) = Len(f) + 1 - (dot + 1) /\ e \in Strings
        /\ \A i \in 1..(Len(f) + 1 - (dot + 1)) : e[i] = f[(dot + 1) + i - 1]
    <3>1. dot + 1 \in Nat \ {0} /\ Len(f) \in 0..Len(f) /\ dot + 1 <= Len(f) + 1
      BY <1>0, <1>2
    <3> QED BY <3>1, PartIs
  <2>2. k \in 1..(Len(f) + 1 - (dot + 1))
    BY <2>1, LenProperties DEF Strings
  <2>3. (dot + 1) + k - 1 \in 1..Len(f) /\ (dot + 1) + k - 1 > slash
    BY <1>0, <1>2, <1>4, <1>5, <2>2
  <2>4. f[(dot + 1) + k - 1] # Slash
    <3>1. ~((dot + 1) + k - 1 <= slash)
      BY <1>2, <1>4, <2>2, <2>3
    <3> QED BY <1>3, <2>3, <3>1
  <2> HIDE DEF e
  <2> QED BY <2>1, <2>2, <2>4
<1>6. Slash \notin ToSet(<<>>)
  BY DEF ToSet
<1> HIDE DEF e
<1>7. dot > slash => Slash \notin ToSet(e)
  BY <1>5 DEF ToSet
<1> QED BY <1>1, <1>6, <1>7

\* A location's path that a string begins with is found there, and replaced there.
LEMMA PathIsReplaced ==
    ASSUME NEW h, h.path_ \in Strings, h.path_ # <<>>, NEW d \in Strings, IsPrefix(h.path_, d)
    PROVE  Static!replace_path(h, d) =
              (<<>> \o h.root_) \o SubSeq(d, Len(h.path_) + 1, Len(d))
<1> DEFINE t == h.path_
           q == [i \in DOMAIN d |-> i]
           I == {i \in 1..Len(q) : q[i] + Len(t) - 1 <= Len(d) /\ SubSeq(d, q[i], q[i] + Len(t) - 1) = t}
<1>1. Len(d) \in Nat /\ Len(t) \in Nat /\ Len(t) >= 1 /\ Len(t) <= Len(d)
  <2>1. Len(d) \in Nat /\ Len(t) \in Nat /\ Len(t) # 0
    BY LenProperties, EmptySeq DEF Strings
  <2> QED BY <2>1, PrefixIs
<1>2. Len(q) = Len(d) /\ \A i \in 1..Len(d) : q[i] = i
  BY <1>1, LenProperties DEF Strings
<1>3. 1 \in I
  <2>1. SubSeq(d, 1, Len(t)) = SubSeq(t, 1, Len(t))
    <3>1. Len(t) \in 0..Len(t)
      BY <1>1
    <3> QED BY <3>1, PrefixIs
  <2>2. SubSeq(t, 1, Len(t)) = t
    BY SubSeqFull DEF Strings
  <2>3. 1 \in 1..Len(d) /\ 1 + Len(t) - 1 = Len(t)
    BY <1>1
  <2>4. SubSeq(d, 1, 1 + Len(t) - 1) = t
    BY <2>1, <2>2, <2>3
  <2> HIDE DEF q
  <2> QED BY <1>1, <1>2, <2>3, <2>4
<1>4. Static!Min(I) = 1
  <2>1. \A y \in I : y \in Nat /\ 1 <= y
    BY <1>1, <1>2
  <2> HIDE DEF I
  <2>2. \E x \in I : \A y \in I : x <= y
    BY <1>3, <2>1
  <2>3. Static!Min(I) \in I /\ \A y \in I : Static!Min(I) <= y
    BY <2>2 DEF Static!Min
  <2> QED BY <1>3, <2>1, <2>3
<1>5. Static!Find(d, t) = 1
  <2>1. Static!Find(d, t) = IF I # {} THEN Static!Min(I) ELSE 0
    BY DEF Static!Find, Static!SelectInSeq
  <2> HIDE DEF I
  <2> QED BY <1>3, <1>4, <2>1
<1>6. Static!replace_path(h, d) = Static!ReplaceSubSeqAt(1, h.root_, t, d)
  BY <1>5 DEF Static!replace_path
<1>7. Static!ReplaceSubSeqAt(1, h.root_, t, d) =
         SubSeq(d, 1, 1 - 1) \o h.root_ \o SubSeq(d, 1 + Len(t), Len(d))
  BY DEF Static!ReplaceSubSeqAt
<1>8. SubSeq(d, 1, 1 - 1) = <<>> /\ 1 + Len(t) = Len(t) + 1
  BY <1>1, SubSeqEmpty
<1> HIDE DEF t
<1>9. Static!replace_path(h, d) = (<<>> \o h.root_) \o SubSeq(d, Len(t) + 1, Len(d))
  BY <1>6, <1>7, <1>8
<1> QED BY <1>9 DEF t

\* What a function that returns false leaves is no character.
LEMMA BytesAreSmall == \A c \in 0..255 : c # 256
OBVIOUS

\* The order in which strings are joined does not matter.
LEMMA ConcatsAssociate ==
    \A s \in Seq(0..255), t \in Seq(0..255), v \in Seq(0..255) : s \o (t \o v) = (s \o t) \o v
BY ConcatAssociative

\* A location's answer to a URI that decodes to a path below it.
LEMMA FileIs ==
    ASSUME NEW h, h.path_ \in Strings, h.path_ # <<>>, h.root_ \in Strings, NEW u,
           Static!url_decode(u) \in Strings, Static!url_decode(u) # <<>>,
           Head(Static!url_decode(u)) = Slash,
           IsPrefix(h.path_, Static!url_decode(u)), NEW found \in BOOLEAN
    PROVE  LET d == Static!url_decode(u)
               r == Static!handle_request(h, u, found)
           IN  /\ r.code = "400" <=> Static!HasDotDot(d)
               /\ r.code # "400" =>
                     /\ r.code \in {"200", "404"}
                     /\ r.file = Static!c_str(h.root_ \o SubSeq(d, Len(h.path_) + 1, Len(d))
                                   \o (IF Last(d) = Slash THEN Static!Index ELSE <<>>))
                     /\ Slash \notin ToSet(r.extension)
<1> DEFINE d == Static!url_decode(u)
           r == Static!handle_request(h, u, found)
           x == IF Last(d) = Slash THEN Static!Index ELSE <<>>
           p == d \o x
           n == Len(h.path_)
<1>1. d \in Strings /\ Len(d) \in Nat /\ Len(d) >= 1 /\ d[1] = Slash /\ d[1] \in 0..255
  <2>1. Len(d) \in Nat /\ Len(d) # 0
    BY LenProperties, EmptySeq DEF Strings
  <2>2. d[1] \in 0..255
    <3>1. d \in Seq(0..255) /\ 1 \in 1..Len(d)
      BY <2>1 DEF Strings
    <3> HIDE DEF d
    <3> QED BY <3>1, ElementOfSeq
  <2>3. Head(d) = d[1]
    <3>1. d \in Strings /\ Head(d) = Slash
      OBVIOUS
    <3> HIDE DEF d
    <3> QED BY <2>1, <3>1 DEF Strings
  <2> QED BY <2>1, <2>2, <2>3
<1>2. x \in Strings /\ Len(x) \in Nat
  <2>1. x \in Strings
    <3>1. Static!Index \in Seq(0..255)
      BY DEF Static!Index
    <3>2. <<>> \in Seq(0..255)
      OBVIOUS
    <3> QED BY <3>1, <3>2 DEF Strings
  <2> QED BY <2>1, LenProperties DEF Strings
<1>3. n \in Nat /\ n >= 1 /\ n <= Len(d)
  <2>1. n \in Nat /\ n # 0
    BY LenProperties, EmptySeq DEF Strings
  <2> QED BY <2>1, <1>1, PrefixIs
<1>4. Static!check_request_path(u) = IF Static!HasDotDot(d) THEN Static!Failed ELSE p
  <2>1. d # Static!Failed /\ d # <<>> /\ Head(d) = Static!Slash
    <3>1. Static!Failed[1] = 256 /\ d[1] # 256 /\ Static!Slash = Slash
      BY <1>1 DEF Static!Failed, Static!Slash, Slash
    <3> QED BY <3>1
  <2>2. Static!Last(d) = Last(d) /\ Static!Slash = Slash
    BY DEF Static!Last, Last, Static!Slash, Slash
  <2>3. Static!check_request_path(u) =
           IF d = Static!Failed \/ d = <<>> \/ Head(d) # Static!Slash \/ Static!HasDotDot(d)
           THEN Static!Failed
           ELSE IF Static!Last(d) = Static!Slash THEN d \o Static!Index ELSE d
    BY DEF Static!check_request_path
  <2>4. d \o <<>> = d
    BY <1>1, ConcatEmptySeq DEF Strings
  <2> HIDE DEF d
  <2> QED BY <2>1, <2>2, <2>3, <2>4
<1> HIDE DEF d, x
<1>5. /\ p \in Strings /\ Len(p) = Len(d) + Len(x)
      /\ \A i \in 1..Len(d) : p[i] = d[i]
      /\ \A i \in Len(d) + 1 .. Len(d) + Len(x) : p[i] = x[i - Len(d)]
  BY <1>1, <1>2, ConcatIs
<1>6. p # Static!Failed
  <2>1. p[1] = d[1]
    <3>1. 1 \in 1..Len(d)
      BY <1>1
    <3> QED BY <1>5, <3>1
  <2>2. Static!Failed[1] = 256
    BY DEF Static!Failed
  <2>3. d[1] # 256
    <3>1. d[1] \in 0..255
      BY <1>1
    <3> QED BY Zenon, <3>1, BytesAreSmall
  <2> HIDE DEF p
  <2> QED BY <2>1, <2>2, <2>3
<1>7. IsPrefix(h.path_, p)
  <2>1. SubSeq(h.path_, 1, n) = SubSeq(d, 1, n)
    <3>1. IsPrefix(h.path_, d)
      BY DEF d
    <3> QED BY <3>1 DEF IsPrefix
  <2>2. SubSeq(d \o x, 1, n) = SubSeq(d, 1, n)
    <3>1. 1 \in 1..Len(d) /\ n \in 1..Len(d)
      BY <1>1, <1>3
    <3> QED BY <1>1, <1>2, <3>1, SubSeqOfConcat1 DEF Strings
  <2>3. n <= Len(p)
    BY <1>1, <1>2, <1>3, <1>5
  <2> QED BY <2>1, <2>2, <2>3 DEF IsPrefix
<1>8. SubSeq(p, n + 1, Len(p)) = SubSeq(d, n + 1, Len(d)) \o x
  <2> DEFINE a == SubSeq(p, n + 1, Len(p))
             b == SubSeq(d, n + 1, Len(d))
  <2>1. a \in Strings /\ Len(a) = Len(p) - n /\ \A i \in 1..(Len(p) - n) : a[i] = p[n + i]
    <3> HIDE DEF p, n
    <3>1. p \in Strings /\ n \in 0..Len(p)
      BY <1>1, <1>2, <1>3, <1>5
    <3> QED BY <3>1, RestIs
  <2>2. b \in Strings /\ Len(b) = Len(d) - n /\ \A i \in 1..(Len(d) - n) : b[i] = d[n + i]
    <3>1. d \in Strings /\ n \in 0..Len(d)
      BY <1>1, <1>3
    <3> HIDE DEF n
    <3> QED BY <3>1, RestIs
  <2> HIDE DEF a, b
  <2>3. /\ b \o x \in Strings /\ Len(b \o x) = Len(b) + Len(x)
        /\ \A i \in 1..Len(b) : (b \o x)[i] = b[i]
        /\ \A i \in Len(b) + 1 .. Len(b) + Len(x) : (b \o x)[i] = x[i - Len(b)]
    BY <1>2, <2>2, ConcatIs
  <2> HIDE DEF p, n
  <2>5. ASSUME NEW i \in 1..Len(a) PROVE a[i] = (b \o x)[i]
    <3>1. CASE i <= Len(b)
      <4>1. i \in 1..Len(b) /\ i \in 1..(Len(p) - n) /\ i \in 1..(Len(d) - n) /\ n + i \in 1..Len(d)
        BY <1>1, <1>2, <1>3, <1>5, <2>1, <2>2, <3>1
      <4> QED BY <1>5, <2>1, <2>2, <2>3, <4>1
    <3>2. CASE i > Len(b)
      <4>3a. PICK ld \in Nat, lx \in Nat : ld = Len(d) /\ lx = Len(x)
        BY <1>1, <1>2
      <4>3b. PICK lb, lp, la : lb = Len(b) /\ lp = Len(p) /\ la = Len(a)
        OBVIOUS
      <4>3c. n \in Nat /\ n <= ld /\ lb = ld - n /\ lp = ld + lx /\ la = lp - n
        BY <1>3, <1>5, <2>1, <2>2, <4>3a, <4>3b
      <4>a. lb \in Nat /\ lp \in Nat /\ la \in Nat
        BY <4>3a, <4>3c
      <4>b. i \in 1..la /\ i > lb
        BY <3>2, <4>3b
      <4>c. /\ i \in lb + 1 .. lb + lx /\ n + i \in ld + 1 .. ld + lx
            /\ i \in 1..(lp - n) /\ (n + i) - ld = i - lb
        BY <4>3a, <4>3c, <4>a, <4>b
      <4>1. /\ i \in Len(b) + 1 .. Len(b) + Len(x) /\ n + i \in Len(d) + 1 .. Len(d) + Len(x)
            /\ i \in 1..(Len(p) - n) /\ (n + i) - Len(d) = i - Len(b)
        BY <4>3a, <4>3b, <4>c
      <4>2. (b \o x)[i] = x[i - Len(b)] /\ p[n + i] = x[(n + i) - Len(d)] /\ a[i] = p[n + i]
        BY <1>5, <2>1, <2>3, <4>1
      <4> QED BY <4>1, <4>2
    <3>3. i \in Int /\ Len(b) \in Int
      BY <1>1, <1>3, <2>2
    <3>4. i <= Len(b) \/ i > Len(b)
      BY <3>3
    <3> QED BY <3>1, <3>2, <3>4
  <2>6. Len(a) = Len(b \o x)
    BY <1>1, <1>2, <1>3, <1>5, <2>1, <2>2, <2>3
  <2>7. a = b \o x
    <3>1. a \in Seq(0..255) /\ b \o x \in Seq(0..255) /\ \A i \in 1..Len(a) : a[i] = (b \o x)[i]
      BY <2>1, <2>3, <2>5 DEF Strings
    <3> QED BY Zenon, <2>6, <3>1, SeqEqual
  <2> QED BY <2>7 DEF a, b
<1> DEFINE f == (<<>> \o h.root_) \o SubSeq(p, n + 1, Len(p))
<1>9. Static!replace_path(h, p) = f
  BY <1>5, <1>7, PathIsReplaced
<1>10. f = h.root_ \o SubSeq(d, n + 1, Len(d)) \o x /\ f \in Strings
  <2>1. SubSeq(d, n + 1, Len(d)) \in Strings
    <3>1. d \in Strings /\ n \in 0..Len(d)
      BY <1>1, <1>3
    <3> HIDE DEF n
    <3> QED BY <3>1, RestIs
  <2>2. <<>> \o h.root_ = h.root_
    BY ConcatEmptySeq DEF Strings
  <2> HIDE DEF n, p
  <2> DEFINE b == SubSeq(d, n + 1, Len(d))
  <2>3. f = h.root_ \o (b \o x)
    BY <1>8, <2>2
  <2> HIDE DEF b, f
  <2>4. h.root_ \o (b \o x) = (h.root_ \o b) \o x
    <3>1. h.root_ \in Seq(0..255) /\ b \in Seq(0..255) /\ x \in Seq(0..255)
      BY <1>2, <2>1 DEF Strings, b
    <3>2. \A t \in Seq(0..255), v \in Seq(0..255) : h.root_ \o (t \o v) = (h.root_ \o t) \o v
      BY <3>1, ConcatsAssociate
    <3> HIDE DEF r
    <3> QED BY <3>1, <3>2
  <2>5. (h.root_ \o b) \o x \in Strings
    BY <1>2, <2>1, ConcatProperties DEF Strings, b
  <2> QED BY <2>3, <2>4, <2>5 DEF b
<1>11. CASE Static!HasDotDot(d)
  <2>1. Static!check_request_path(u) = Static!Failed
    BY <1>4, <1>11
  <2>2. r = [code |-> "400", file |-> <<>>, extension |-> <<>>]
    BY Zenon, <2>1 DEF Static!handle_request
  <2> HIDE DEF r
  <2>3. r.code = "400"
    BY <2>2
  <2> QED BY <1>11, <2>3 DEF r, d
<1>12. CASE ~Static!HasDotDot(d)
  <2> HIDE DEF p, f
  <2>1. Static!check_request_path(u) = p
    BY <1>4, <1>12
  <2>2. f # Static!Failed
    <3>1. ASSUME Len(f) = 1, f[1] = 256 PROVE FALSE
      <4>1. Len(f) = 1 /\ f[1] = 256
        BY <3>1
      <4>2. f \in Seq(0..255) /\ 1 \in 1..Len(f)
        <5>1. f \in Seq(0..255)
          BY <1>10 DEF Strings
        <5>2. 1 \in 1..Len(f)
          BY <4>1
        <5> QED BY <5>1, <5>2
      <4>3. f[1] \in 0..255
        BY <4>2, ElementOfSeq
      <4> QED BY <4>1, <4>3
    <3>2. f = Static!Failed => Len(f) = 1 /\ f[1] = 256
      BY DEF Static!Failed
    <3> QED BY <3>1, <3>2
  <2>3. r = [code |-> IF found THEN "200" ELSE "404", file |-> Static!c_str(f),
              extension |-> Static!get_extension(f)]
    BY Zenon, <1>6, <1>9, <2>1, <2>2 DEF Static!handle_request
  <2> HIDE DEF r
  <2>4. r.code \in {"200", "404"} /\ r.file = Static!c_str(f) /\ r.extension = Static!get_extension(f)
    BY <2>3
  <2>5. Slash \notin ToSet(r.extension)
    BY <1>10, <2>4, ExtensionIs
  <2> QED BY <1>10, <1>12, <2>4, <2>5 DEF r, d, x, n
<1> QED BY <1>11, <1>12

\* The path a URI is decoded to, if it lies below the location that serves the
\* request, is refused if it goes upwards, and is else looked for in the location's
\* directory under the same names, up to the first NUL, where the name ends that
\* the file system is asked for.
FilesAreBelow ==
    LET d == Static!url_decode(uri)
    IN  /\ pc = "answer" /\ location \in DOMAIN StaticRoots
        /\ d \in Strings /\ d # <<>> /\ Head(d) = Slash /\ IsPrefix(location, d)
        => /\ code = "400" <=> Static!HasDotDot(d)
           /\ code # "400" =>
                 /\ code \in {"200", "404"}
                 /\ file = Static!c_str(StaticRoots[location] \o SubSeq(d, Len(location) + 1, Len(d))
                              \o (IF Last(d) = Slash THEN Static!Index ELSE <<>>))
                 /\ Slash \notin ToSet(extension)

LEMMA AnswersAreBelow == SInv => FilesAreBelow
<1> DEFINE d == Static!url_decode(uri)
<1> SUFFICES ASSUME SInv, pc = "answer", location \in DOMAIN StaticRoots,
                    d \in Strings, d # <<>>, Head(d) = Slash, IsPrefix(location, d)
             PROVE  /\ code = "400" <=> Static!HasDotDot(d)
                    /\ code # "400" =>
                          /\ code \in {"200", "404"}
                          /\ file = Static!c_str(StaticRoots[location] \o SubSeq(d, Len(location) + 1, Len(d))
                                       \o (IF Last(d) = Slash THEN Static!Index ELSE <<>>))
                          /\ Slash \notin ToSet(extension)
  BY Zenon DEF FilesAreBelow
<1>1. location # path_ /\ location \in Strings /\ location # <<>> /\ StaticRoots[location] \in Strings
  BY SiteAssumption DEF SiteLocations
<1>a. PICK found \in BOOLEAN :
         LET r == Static!handle_request(StaticHandler(location), uri, found)
         IN  code = r.code /\ file = r.file /\ extension = r.extension
  BY Zenon, <1>1 DEF SInv, Answered
<1> DEFINE h == StaticHandler(location)
           r == Static!handle_request(h, uri, found)
<1>2. h.path_ = location /\ h.root_ = StaticRoots[location]
  BY DEF StaticHandler
<1>3. code = r.code /\ file = r.file /\ extension = r.extension
  BY Zenon, <1>a
<1>4. /\ r.code = "400" <=> Static!HasDotDot(d)
      /\ r.code # "400" =>
            /\ r.code \in {"200", "404"}
            /\ r.file = Static!c_str(h.root_ \o SubSeq(d, Len(h.path_) + 1, Len(d))
                          \o (IF Last(d) = Slash THEN Static!Index ELSE <<>>))
            /\ Slash \notin ToSet(r.extension)
  <2> HIDE DEF h
  <2> QED BY Zenon, <1>1, <1>2, FileIs
<1> HIDE DEF d, h, r
<1> QED BY <1>2, <1>3, <1>4

\* Whatever the handlers of the locations did before, a static handler tries to open
\* the decoded path's file in its directory, nothing for a path with "..", and the
\* directory's index for a path with a final slash; the name ends where a NUL was
\* decoded (check_request_path, replace_path, get_extension, and the ifstream of
\* StaticRequestHandler::handle_request, which takes full_path.c_str()).
THEOREM FilesAreBelowRoots == Spec => []FilesAreBelow
BY AnswersAreBelow, SInvInit, SInvStep, PTL DEF Spec

-----------------------------------------------------------------------------
(* Recursive definitions                                                     *)

\* A set of numbers has a least one.
LEMMA LeastExists == ASSUME NEW A \in SUBSET Nat, A # {} PROVE \E x \in A : \A y \in A : x =< y
<1> DEFINE R == StrictSubsetOrdering(Nat)
           T == {0..x : x \in A}
<1>1. T \subseteq FiniteSubsetsOf(Nat)
  <2>1. ASSUME NEW x \in A PROVE 0..x \in FiniteSubsetsOf(Nat)
    <3>1. IsFiniteSet(0..x)
      BY FS_Interval
    <3> QED BY <3>1 DEF FiniteSubsetsOf
  <2> QED BY <2>1
<1>2. PICK s \in T : \A r \in T : ~(<<r, s>> \in R)
  <2>1. T # {}
    OBVIOUS
  <2>2. IsWellFoundedOn(R, FiniteSubsetsOf(Nat))
    BY FS_StrictSubsetOrderingWellFounded
  <2> QED BY <1>1, <2>1, <2>2, WFMin
<1>3. PICK x \in A : s = 0..x
  OBVIOUS
<1>4. ASSUME NEW y \in A, y < x PROVE FALSE
  <2>1. 0..y \subseteq 0..x /\ 0..y # 0..x
    <3>1. x \in 0..x /\ x \notin 0..y
      BY <1>4
    <3> QED BY <3>1, <1>4
  <2>2. <<0..y, 0..x>> \in R
    BY <2>1 DEF StrictSubsetOrdering
  <2> QED BY <2>2, <1>2, <1>3
<1> QED BY <1>4

\* Induction, for a set of numbers.
LEMMA Induction ==
    ASSUME NEW A, 0 \in A, \A n \in Nat : n \in A => n + 1 \in A
    PROVE  Nat \subseteq A
<1> DEFINE B == Nat \ A
<1> SUFFICES ASSUME B # {} PROVE FALSE
  OBVIOUS
<1>1. PICK x \in B : \A y \in B : x =< y
  BY LeastExists
<1>2. x \in Nat /\ x # 0
  OBVIOUS
<1>3. x - 1 \in Nat /\ x - 1 \in A
  BY <1>1, <1>2
<1> QED BY <1>2, <1>3

\* A recursive definition on D with values in V: what it makes of a function f is
\* G[f], and its value at d depends on those of lower rank.
Recursive(D, V, N, rank, G) ==
    /\ N \in Nat /\ rank \in [D -> 0..N] /\ [D -> V] # {}
    /\ G \in [[D -> V] -> [D -> V]]
    /\ \A g, h \in [D -> V] : \A d \in D :
          (\A e \in D : rank[e] < rank[d] => g[e] = h[e]) => G[g][d] = G[h][d]

\* Some function satisfies it.
Defines(D, V, G) == \E f \in [D -> V] : f = G[f]

LEMMA Recursion ==
    ASSUME NEW D, NEW V, NEW N, NEW rank, NEW G, Recursive(D, V, N, rank, G)
    PROVE  Defines(D, V, G)
<1> USE DEF Recursive, Defines
<1> DEFINE A == {n \in Nat : \E f \in [D -> V] : \A d \in D : rank[d] < n => G[f][d] = f[d]}
<1>1. 0 \in A
  <2>1. PICK f \in [D -> V] : TRUE
    OBVIOUS
  <2>2. \A d \in D : ~(rank[d] < 0)
    OBVIOUS
  <2> QED BY <2>1, <2>2
<1>2. ASSUME NEW n \in Nat, n \in A PROVE n + 1 \in A
  <2>1. PICK f \in [D -> V] : \A d \in D : rank[d] < n => G[f][d] = f[d]
    BY <1>2
  <2>2. G[f] \in [D -> V]
    OBVIOUS
  <2>3. ASSUME NEW d \in D, rank[d] < n + 1 PROVE G[G[f]][d] = G[f][d]
    <3>1. \A e \in D : rank[e] < rank[d] => rank[e] < n
      BY <2>3
    <3> QED BY <2>1, <2>2, <3>1
  <2> QED BY <2>2, <2>3
<1> HIDE DEF A
<1>3. N + 1 \in A
  BY <1>1, <1>2, Induction
<1>4. PICK f \in [D -> V] : \A d \in D : rank[d] < N + 1 => G[f][d] = f[d]
  BY <1>3 DEF A
<1>5. \A d \in D : G[f][d] = f[d]
  BY <1>4
<1>6. G[f] = f
  <2>1. G[f] \in [D -> V]
    OBVIOUS
  <2> QED BY <1>5, <2>1
<1> QED BY <1>6

\* What holds of a number when it holds of the greater ones holds of all.
LEMMA Downwards ==
    ASSUME NEW n \in Nat, NEW P, \A b \in 1..n : (b + 1)..n \subseteq P => b \in P
    PROVE  1..n \subseteq P
<1> DEFINE A == {k \in Nat : k <= n => (n - k + 1)..n \subseteq P}
<1>1. 0 \in A
  OBVIOUS
<1>2. ASSUME NEW k \in Nat, k \in A PROVE k + 1 \in A
  <2> SUFFICES ASSUME k + 1 <= n PROVE (n - k)..n \subseteq P
    OBVIOUS
  <2>1. (n - k + 1)..n \subseteq P /\ n - k \in 1..n
    BY <1>2
  <2>2. n - k \in P
    BY <2>1
  <2>3. (n - k)..n = {n - k} \cup (n - k + 1)..n
    BY <2>1
  <2> QED BY <2>1, <2>2, <2>3
<1> HIDE DEF A
<1>3. n \in A
  BY <1>1, <1>2, Induction
<1> QED BY <1>3 DEF A

-----------------------------------------------------------------------------
(* What FlattenSeq joins                                                     *)

\* The sequences of ss one after the other, as far as the k-th.
Joined(T, ss, a) ==
    /\ a \in [0..Len(ss) -> Seq(T)]
    /\ a[0] = <<>>
    /\ \A k \in 0..(Len(ss) - 1) : a[k + 1] = a[k] \o ss[k + 1]

JoinsTo(T, ss, s) == \E a : Joined(T, ss, a) /\ s = a[Len(ss)]

FlatStep(ss, g, i) == IF i = 1 THEN ss[i] ELSE g[i - 1] \o ss[i]

FlatTable(ss, g) == g = [i \in 1..Len(ss) |-> FlatStep(ss, g, i)]

LEMMA FlattenIs ==
    ASSUME NEW ss
    PROVE  FlattenSeq(ss) = IF Len(ss) = 0 THEN ss ELSE (CHOOSE g : FlatTable(ss, g))[Len(ss)]
BY Zenon DEF FlattenSeq, FlatTable, FlatStep

LEMMA FlatExists ==
    ASSUME NEW T, NEW ss \in Seq(Seq(T))
    PROVE  \E g : FlatTable(ss, g)
<1> DEFINE n == Len(ss)
           D == 1..n
           V == Seq(T)
           rank == [i \in D |-> i]
           G == [f \in [D -> V] |-> [i \in D |-> FlatStep(ss, f, i)]]
<1>1. n \in Nat /\ \A i \in D : ss[i] \in V
  BY LenProperties, ElementOfSeq
<1> HIDE DEF n
<1>2. ASSUME NEW f \in [D -> V], NEW i \in D PROVE FlatStep(ss, f, i) \in V
  <2>1. CASE i = 1
    BY <1>1, <2>1 DEF FlatStep
  <2>2. CASE i # 1
    <3>1. i - 1 \in D
      BY <1>1, <2>2
    <3>2. f[i - 1] \in Seq(T) /\ ss[i] \in Seq(T)
      BY <1>1, <3>1
    <3> QED BY <2>2, <3>2, ConcatProperties DEF FlatStep
  <2> QED BY <2>1, <2>2
<1>3. rank \in [D -> 0..n]
  BY <1>1
<1> HIDE DEF V
<1>4. G \in [[D -> V] -> [D -> V]]
  BY <1>2
<1>5. [D -> V] # {}
  <2>1. [i \in D |-> ss[i]] \in [D -> V]
    BY <1>1
  <2> QED BY <2>1
<1>6. ASSUME NEW g \in [D -> V], NEW h \in [D -> V], NEW d \in D,
             \A e \in D : rank[e] < rank[d] => g[e] = h[e]
      PROVE  G[g][d] = G[h][d]
  <2>1. d # 1 => d - 1 \in D /\ d - 1 < d
    BY <1>1
  <2>2. d # 1 => g[d - 1] = h[d - 1]
    BY <1>6, <2>1
  <2>3. FlatStep(ss, g, d) = FlatStep(ss, h, d)
    BY <2>2 DEF FlatStep
  <2> QED BY <2>3
<1>7. Recursive(D, V, n, rank, G)
  <2> HIDE DEF G, rank
  <2> QED BY <1>1, <1>3, <1>4, <1>5, <1>6 DEF Recursive
<1>8. Defines(D, V, G)
  <2> HIDE DEF G, rank, D
  <2> QED BY <1>7, Recursion
<1>9. PICK f \in [D -> V] : f = G[f]
  <2> HIDE DEF G
  <2> QED BY <1>8 DEF Defines
<1>10. f = [i \in D |-> FlatStep(ss, f, i)]
  BY <1>9
<1> QED BY <1>10 DEF FlatTable, n

\* What FlattenSeq computes.
LEMMA Flattened == ASSUME NEW T, NEW ss \in Seq(Seq(T)) PROVE JoinsTo(T, ss, FlattenSeq(ss))
<1>1. PICK n \in Nat : n = Len(ss)
  BY LenProperties
<1>2. \A i \in 1..n : ss[i] \in Seq(T)
  BY <1>1, ElementOfSeq
<1>3. PICK g : g = CHOOSE f : FlatTable(ss, f)
  OBVIOUS
<1>4. FlatTable(ss, g)
  BY <1>3, FlatExists
<1>5. \A i \in 1..n : g[i] = FlatStep(ss, g, i)
  BY <1>1, <1>4 DEF FlatTable
<1> DEFINE a == [k \in 0..n |-> IF k = 0 THEN <<>> ELSE g[k]]
           A == {k \in Nat : k <= n => a[k] \in Seq(T)}
<1>6. ASSUME NEW k \in 0..(n - 1) PROVE a[k + 1] = a[k] \o ss[k + 1]
  <2>1. k + 1 \in 1..n /\ k + 1 # 0 /\ k \in 0..n /\ k + 1 \in 0..n /\ (k + 1) - 1 = k /\ (k + 1 = 1 <=> k = 0)
    OBVIOUS
  <2>2. a[k + 1] = FlatStep(ss, g, k + 1)
    BY <1>5, <2>1
  <2>3. CASE k = 0
    <3>1. a[k] = <<>> /\ a[k + 1] = ss[k + 1] /\ ss[k + 1] \in Seq(T)
      BY <1>2, <2>1, <2>2, <2>3 DEF FlatStep
    <3> HIDE DEF a
    <3> QED BY <3>1, ConcatEmptySeq
  <2>4. CASE k # 0
    BY <2>1, <2>2, <2>4 DEF FlatStep
  <2> QED BY <2>3, <2>4
<1>7. a[0] = <<>> /\ <<>> \in Seq(T)
  OBVIOUS
<1>8. a = [k \in 0..n |-> a[k]]
  OBVIOUS
<1>9. Len(ss) = 0 => ss = <<>>
  BY EmptySeq
<1>10. FlattenSeq(ss) = a[n]
  BY <1>1, <1>3, <1>7, <1>9, FlattenIs
<1> HIDE DEF a
<1>11. 0 \in A
  BY <1>7
<1>12. ASSUME NEW k \in Nat, k \in A PROVE k + 1 \in A
  <2> SUFFICES ASSUME k + 1 <= n PROVE a[k + 1] \in Seq(T)
    OBVIOUS
  <2>1. k \in 0..(n - 1) /\ k + 1 \in 1..n /\ k <= n
    OBVIOUS
  <2>2. a[k] \in Seq(T) /\ ss[k + 1] \in Seq(T) /\ a[k + 1] = a[k] \o ss[k + 1]
    BY <1>2, <1>6, <1>12, <2>1
  <2> QED BY <2>2, ConcatProperties
<1> HIDE DEF A
<1>13. Nat \subseteq A
  BY <1>11, <1>12, Induction
<1>14. \A k \in 0..n : a[k] \in Seq(T)
  BY <1>13 DEF A
<1>15. a \in [0..n -> Seq(T)]
  BY <1>8, <1>14
<1> QED BY <1>1, <1>6, <1>7, <1>10, <1>15 DEF Joined, JoinsTo

-----------------------------------------------------------------------------
(* What clean_html makes of a page                                           *)

\* The tokens of a page, and what is put into it.
Tokens == {"href", "src", "quote", "slash", "text", "path"}

\* The first place from i on where b has one of S.
NextIn(b, i, S) == SelectInSubSeq(b, i, Len(b), LAMBDA t : t \in S)

CleanStep(b, g, i) ==
    LET k == NextIn(b, i, Links)
        j == NextIn(b, k + 1, {"quote"})
    IN  IF k = 0 THEN SubSeq(b, i, Len(b))
        ELSE IF j = 0 \/ j = Len(b) THEN SubSeq(b, i, Len(b)) \o SubSeq(b, i, Len(b))
        ELSE SubSeq(b, i, j) \o Prefixed(b[j + 1]) \o g[j + 1]

CleanTable(b, g) == g = [i \in 1..(Len(b) + 1) |-> CleanStep(b, g, i)]

LEMMA CleanIs == ASSUME NEW b PROVE clean_html(b) = (CHOOSE g : CleanTable(b, g))[1]
BY Zenon DEF clean_html, CleanTable, CleanStep, NextIn

\* What NextIn finds.
FoundNext(b, i, S, x) ==
    \/ x = 0 /\ \A y \in i..Len(b) : b[y] \notin S
    \/ x \in i..Len(b) /\ b[x] \in S /\ \A y \in i..(x - 1) : b[y] \notin S

LEMMA NextIs ==
    ASSUME NEW b, Len(b) \in Nat, NEW i \in Nat \ {0}, NEW S
    PROVE  FoundNext(b, i, S, NextIn(b, i, S))
<1> DEFINE n == Len(b)
           I == {y \in i..n : b[y] \in S}
<1>1. NextIn(b, i, S) = IF I # {} THEN Min(I) ELSE 0
  BY DEF NextIn, SelectInSubSeq
<1>2. CASE I = {}
  <2>1. \A y \in i..n : b[y] \notin S
    BY <1>2
  <2> HIDE DEF I
  <2> QED BY <1>1, <1>2, <2>1 DEF FoundNext
<1>3. CASE I # {}
  <2>1. I \in SUBSET Nat
    OBVIOUS
  <2>2. \A y \in i..n : b[y] \in S => y \in I
    OBVIOUS
  <2>3. \A y \in I : y \in i..n /\ b[y] \in S
    OBVIOUS
  <2> HIDE DEF I
  <2>4. \E x \in I : \A y \in I : x <= y
    BY <1>3, <2>1, LeastExists
  <2>5. PICK x : x = Min(I)
    OBVIOUS
  <2>6. x \in I /\ \A y \in I : x <= y
    BY <2>4, <2>5 DEF Min
  <2>7. x \in i..n /\ b[x] \in S
    BY <2>3, <2>6
  <2>8. \A y \in i..(x - 1) : b[y] \notin S
    <3> SUFFICES ASSUME NEW y \in i..(x - 1), b[y] \in S PROVE FALSE
      OBVIOUS
    <3>1. y \in i..n /\ ~(x <= y)
      BY <2>7
    <3> QED BY <2>2, <2>6, <3>1
  <2> QED BY <1>1, <1>3, <2>5, <2>7, <2>8 DEF FoundNext
<1> QED BY <1>2, <1>3

\* A part of a sequence.
LEMMA PartOf ==
    ASSUME NEW T, NEW b \in Seq(T), NEW n \in Nat, n = Len(b), NEW i \in Nat \ {0}, NEW j \in 0..n
    PROVE  /\ SubSeq(b, i, j) \in Seq(T)
           /\ i <= j => /\ Len(SubSeq(b, i, j)) = j - i + 1
                        /\ \A x \in 1..(j - i + 1) : SubSeq(b, i, j)[x] = b[i + x - 1]
           /\ j < i => SubSeq(b, i, j) = <<>>
<1>1. \A x \in i..j : x \in 1..n
  OBVIOUS
<1>2. \A x \in i..j : b[x] \in T
  BY <1>1, ElementOfSeq
<1>3. i \in Int /\ j \in Int
  OBVIOUS
<1>4. /\ SubSeq(b, i, j) \in Seq(T)
      /\ Len(SubSeq(b, i, j)) = IF i <= j THEN j - i + 1 ELSE 0
      /\ \A x \in 1..(j - i + 1) : SubSeq(b, i, j)[x] = b[i + x - 1]
  BY <1>2, <1>3, SubSeqProperties
<1>5. j < i => Len(SubSeq(b, i, j)) = 0
  BY <1>4
<1> QED BY <1>4, <1>5, EmptySeq

\* What is done for one position.
LEMMA CleanType ==
    ASSUME NEW b \in Seq(Tokens), NEW n \in Nat, n = Len(b), NEW i \in 1..(n + 1), NEW g,
           \A e \in (i + 1)..(n + 1) : g[e] \in Seq(Tokens)
    PROVE  CleanStep(b, g, i) \in Seq(Tokens)
<1>1. PICK k : k = NextIn(b, i, Links)
  OBVIOUS
<1>2. PICK j : j = NextIn(b, k + 1, {"quote"})
  OBVIOUS
<1>3. k = 0 \/ k \in i..n
  <2>1. FoundNext(b, i, Links, k)
    BY <1>1, NextIs
  <2> QED BY <2>1 DEF FoundNext
<1>4. k # 0 => j = 0 \/ j \in (k + 1)..n
  <2>1. k # 0 => k + 1 \in Nat \ {0}
    BY <1>3
  <2>2. k # 0 => FoundNext(b, k + 1, {"quote"}, j)
    BY <1>2, <2>1, NextIs
  <2> QED BY <2>2 DEF FoundNext
<1>5. CleanStep(b, g, i) = IF k = 0 THEN SubSeq(b, i, n)
                           ELSE IF j = 0 \/ j = n THEN SubSeq(b, i, n) \o SubSeq(b, i, n)
                           ELSE SubSeq(b, i, j) \o Prefixed(b[j + 1]) \o g[j + 1]
  BY <1>1, <1>2 DEF CleanStep
<1>6. SubSeq(b, i, n) \in Seq(Tokens)
  <2>1. n \in 0..n /\ i \in Nat \ {0}
    OBVIOUS
  <2> QED BY <2>1, PartOf
<1>7. CASE k = 0 \/ j = 0 \/ j = n
  BY <1>5, <1>6, <1>7, ConcatProperties
<1>8. CASE ~(k = 0 \/ j = 0 \/ j = n)
  <2>1. j \in 0..n /\ j + 1 \in (i + 1)..(n + 1) /\ i \in Nat \ {0}
    BY <1>3, <1>4, <1>8
  <2>2. SubSeq(b, i, j) \in Seq(Tokens)
    BY <2>1, PartOf
  <2>3. Prefixed(b[j + 1]) \in Seq(Tokens)
    <3>1. <<"path">> \in Seq(Tokens) /\ <<>> \in Seq(Tokens)
      BY DEF Tokens
    <3> QED BY <3>1 DEF Prefixed
  <2>4. g[j + 1] \in Seq(Tokens)
    BY <2>1
  <2>5. SubSeq(b, i, j) \o Prefixed(b[j + 1]) \in Seq(Tokens)
    BY <2>2, <2>3, ConcatProperties
  <2>6. (SubSeq(b, i, j) \o Prefixed(b[j + 1])) \o g[j + 1] \in Seq(Tokens)
    BY <2>4, <2>5, ConcatProperties
  <2> QED BY <1>5, <1>8, <2>6
<1> QED BY <1>7, <1>8

\* It depends on the positions after it.
LEMMA CleanLocal ==
    ASSUME NEW b \in Seq(Tokens), NEW n \in Nat, n = Len(b), NEW i \in 1..(n + 1), NEW g, NEW h,
           \A e \in (i + 1)..(n + 1) : g[e] = h[e]
    PROVE  CleanStep(b, g, i) = CleanStep(b, h, i)
<1>1. PICK k : k = NextIn(b, i, Links)
  OBVIOUS
<1>2. PICK j : j = NextIn(b, k + 1, {"quote"})
  OBVIOUS
<1>3. k = 0 \/ k \in i..n
  <2>1. FoundNext(b, i, Links, k)
    BY <1>1, NextIs
  <2> QED BY <2>1 DEF FoundNext
<1>4. k # 0 => j = 0 \/ j \in (k + 1)..n
  <2>1. k # 0 => k + 1 \in Nat \ {0}
    BY <1>3
  <2>2. k # 0 => FoundNext(b, k + 1, {"quote"}, j)
    BY <1>2, <2>1, NextIs
  <2> QED BY <2>2 DEF FoundNext
<1>5. k # 0 /\ j # 0 => j + 1 \in (i + 1)..(n + 1)
  BY <1>3, <1>4
<1>6. k # 0 /\ j # 0 => g[j + 1] = h[j + 1]
  BY <1>5
<1> QED BY <1>1, <1>2, <1>6, Zenon DEF CleanStep

Cleaned(b, g) == g \in [1..(Len(b) + 1) -> Seq(Tokens)] /\ \A i \in 1..(Len(b) + 1) : g[i] = CleanStep(b, g, i)

LEMMA CleanExists ==
    ASSUME NEW b \in Seq(Tokens)
    PROVE  \E g : CleanTable(b, g)
<1>1. PICK n \in Nat : n = Len(b)
  BY LenProperties
<1> DEFINE D == 1..(n + 1)
           V == Seq(Tokens)
           rank == [i \in D |-> n + 1 - i]
           G == [f \in [D -> V] |-> [i \in D |-> CleanStep(b, f, i)]]
<1>2. ASSUME NEW f \in [D -> V], NEW i \in D PROVE CleanStep(b, f, i) \in V
  <2>1. \A e \in (i + 1)..(n + 1) : e \in D
    OBVIOUS
  <2>2. \A e \in (i + 1)..(n + 1) : f[e] \in Seq(Tokens)
    BY <2>1
  <2> QED BY <1>1, <2>2, CleanType
<1>3. rank \in [D -> 0..n]
  OBVIOUS
<1> HIDE DEF V
<1>4. G \in [[D -> V] -> [D -> V]]
  BY <1>2
<1>5. [D -> V] # {}
  <2>1. <<>> \in V
    BY DEF V
  <2>2. [i \in D |-> <<>>] \in [D -> V]
    BY <2>1
  <2> QED BY <2>2
<1>6. ASSUME NEW g \in [D -> V], NEW h \in [D -> V], NEW d \in D,
             \A e \in D : rank[e] < rank[d] => g[e] = h[e]
      PROVE  G[g][d] = G[h][d]
  <2>1. \A e \in (d + 1)..(n + 1) : e \in D /\ rank[e] < rank[d]
    OBVIOUS
  <2>2. \A e \in (d + 1)..(n + 1) : g[e] = h[e]
    BY <1>6, <2>1
  <2>3. CleanStep(b, g, d) = CleanStep(b, h, d)
    BY <1>1, <2>2, CleanLocal
  <2> QED BY <2>3
<1>7. Recursive(D, V, n, rank, G)
  <2> HIDE DEF G, rank
  <2> QED BY <1>3, <1>4, <1>5, <1>6 DEF Recursive
<1>8. Defines(D, V, G)
  <2> HIDE DEF G, rank, D
  <2> QED BY <1>7, Recursion
<1>9. PICK f \in [D -> V] : f = G[f]
  <2> HIDE DEF G
  <2> QED BY <1>8 DEF Defines
<1>10. f = [i \in D |-> CleanStep(b, f, i)]
  BY <1>9
<1> QED BY <1>1, <1>10 DEF CleanTable

\* What clean_html computes, from the end of the page on.
LEMMA CleanSteps ==
    ASSUME NEW b \in Seq(Tokens)
    PROVE  \E g : Cleaned(b, g) /\ clean_html(b) = g[1]
<1>1. PICK n \in Nat : n = Len(b)
  BY LenProperties
<1>2. PICK g : g = CHOOSE f : CleanTable(b, f)
  OBVIOUS
<1>3. g = [i \in 1..(n + 1) |-> CleanStep(b, g, i)]
  BY <1>1, <1>2, CleanExists DEF CleanTable
<1> DEFINE P == {i \in 1..(n + 1) : g[i] \in Seq(Tokens)}
<1>4. \A i \in 1..(n + 1) : g[i] = CleanStep(b, g, i)
  BY <1>3
<1>5. ASSUME NEW i \in 1..(n + 1), (i + 1)..(n + 1) \subseteq P PROVE i \in P
  <2>1. \A e \in (i + 1)..(n + 1) : g[e] \in Seq(Tokens)
    BY <1>5
  <2>2. CleanStep(b, g, i) \in Seq(Tokens)
    BY <1>1, <2>1, CleanType
  <2> QED BY <1>4, <2>2
<1>6. 1..(n + 1) \subseteq P
  <2> HIDE DEF P
  <2>1. n + 1 \in Nat
    OBVIOUS
  <2> QED BY <1>5, <2>1, Downwards
<1>7. g \in [1..(n + 1) -> Seq(Tokens)]
  <2>1. \A i \in 1..(n + 1) : g[i] \in Seq(Tokens)
    BY <1>6
  <2>2. g = [i \in 1..(n + 1) |-> g[i]]
    BY <1>3
  <2> QED BY <2>1, <2>2
<1> QED BY <1>1, <1>2, <1>4, <1>7, CleanIs DEF Cleaned

LEMMA CleanedType == ASSUME NEW b \in Seq(Tokens) PROVE clean_html(b) \in Seq(Tokens)
<1>1. PICK g : Cleaned(b, g) /\ clean_html(b) = g[1]
  BY CleanSteps
<1>2. 1 \in 1..(Len(b) + 1)
  BY LenProperties
<1> QED BY <1>1, <1>2 DEF Cleaned

\* The location's path is put before b[i]: the url of a link begins there.
Pre(b, i) ==
    IF i > 2 /\ b[i - 2] \in Links /\ b[i - 1] = "quote" /\ b[i] = "slash" THEN <<"path">> ELSE <<>>

At(b, i) == Pre(b, i) \o <<b[i]>>

\* The page up to each of its positions, with its links rewritten.
Linked(b, y) ==
    /\ y \in [0..Len(b) -> Seq(Tokens)]
    /\ y[0] = <<>>
    /\ \A i \in 0..(Len(b) - 1) : y[i + 1] = y[i] \o At(b, i + 1)

LEMMA PreType == ASSUME NEW b, NEW i PROVE Pre(b, i) \in Seq(Tokens)
<1>1. <<"path">> \in Seq(Tokens) /\ <<>> \in Seq(Tokens)
  BY DEF Tokens
<1> QED BY <1>1 DEF Pre

LEMMA OneToken == ASSUME NEW t \in Tokens PROVE <<t>> \in Seq(Tokens)
OBVIOUS

LEMMA LinkedExists == ASSUME NEW b \in Seq(Tokens) PROVE \E y : Linked(b, y)
<1>1. PICK n \in Nat : n = Len(b)
  BY LenProperties
<1>2. \A i \in 1..n : b[i] \in Tokens
  BY <1>1, ElementOfSeq
<1>3. \A i \in 1..n : At(b, i) \in Seq(Tokens)
  <2> SUFFICES ASSUME NEW i \in 1..n PROVE At(b, i) \in Seq(Tokens)
    OBVIOUS
  <2>1. <<b[i]>> \in Seq(Tokens)
    BY <1>2, OneToken
  <2> QED BY <2>1, PreType, ConcatProperties DEF At
<1> DEFINE ss == [i \in 1..n |-> At(b, i)]
<1>4. ss \in Seq(Seq(Tokens)) /\ Len(ss) = n /\ \A i \in 1..n : ss[i] = At(b, i)
  <2> DEFINE V == Seq(Tokens)
  <2>1. \A i \in 1..n : At(b, i) \in V
    BY <1>3
  <2> HIDE DEF V
  <2>2. ss \in Seq(V) /\ Len(ss) = n
    BY <2>1
  <2> QED BY <2>2 DEF V
<1> HIDE DEF ss
<1>5. PICK y : Joined(Tokens, ss, y)
  BY <1>4, Flattened DEF JoinsTo
<1>6. y \in [0..n -> Seq(Tokens)] /\ y[0] = <<>> /\ \A i \in 0..(n - 1) : y[i + 1] = y[i] \o ss[i + 1]
  BY <1>4, <1>5 DEF Joined
<1>7. \A i \in 0..(n - 1) : i + 1 \in 1..n
  OBVIOUS
<1>8. \A i \in 0..(n - 1) : y[i + 1] = y[i] \o At(b, i + 1)
  BY <1>4, <1>6, <1>7
<1> QED BY <1>1, <1>6, <1>8 DEF Linked

\* A part of a sequence that ends one later.
LEMMA OneLonger ==
    ASSUME NEW T, NEW b \in Seq(T), NEW n \in Nat, n = Len(b), NEW i \in Nat \ {0}, NEW k \in 0..(n - 1), i <= k + 1
    PROVE  SubSeq(b, i, k + 1) = SubSeq(b, i, k) \o <<b[k + 1]>>
<1>1. i \in 1..Len(b) /\ k + 1 \in i..Len(b) /\ (k + 1) - 1 = k
  OBVIOUS
<1>2. SubSeq(b, i, k + 1) = SubSeq(b, i, (k + 1) - 1) \o <<b[k + 1]>>
  BY <1>1, SubSeqRecursiveSecond
<1> QED BY <1>1, <1>2

\* It does not matter which two of three parts are joined first.
JoinInAnyOrder(s, t, v) == (s \o t) \o v = s \o (t \o v)

LEMMA JoinAssoc ==
    ASSUME NEW s \in Seq(Tokens), NEW t \in Seq(Tokens), NEW v \in Seq(Tokens)
    PROVE  JoinInAnyOrder(s, t, v)
BY ConcatAssociative DEF JoinInAnyOrder

Reaches(b, y, i, j) == (y[i - 1] \o Pre(b, i)) \o SubSeq(b, i, j) = y[j]

\* A stretch of the page in which no url begins but at its first position.
LEMMA Stretch ==
    ASSUME NEW b \in Seq(Tokens), NEW n \in Nat, n = Len(b), NEW y, Linked(b, y),
           NEW i \in 1..n, NEW j \in i..n, \A x \in (i + 1)..j : Pre(b, x) = <<>>
    PROVE  Reaches(b, y, i, j)
<1> DEFINE s == y[i - 1] \o Pre(b, i)
           Up(k) == s \o SubSeq(b, i, k) = y[k]
           A == {m \in Nat : i + m <= j => Up(i + m)}
<1>1. /\ \A x \in 0..n : y[x] \in Seq(Tokens)
      /\ \A x \in 0..(n - 1) : y[x + 1] = y[x] \o At(b, x + 1)
  BY DEF Linked
<1>2. \A x \in 1..n : <<b[x]>> \in Seq(Tokens)
  BY ElementOfSeq, OneToken
<1>3. s \in Seq(Tokens) /\ y[i - 1] \in Seq(Tokens)
  <2>1. i - 1 \in 0..n
    OBVIOUS
  <2> QED BY <1>1, <2>1, PreType, ConcatProperties
<1>4. 0 \in A
  <2>1. i - 1 \in 0..(n - 1) /\ (i - 1) + 1 = i /\ i \in Nat \ {0} /\ i - 1 < i /\ i + 0 = i /\ i <= (i - 1) + 1 /\ i - 1 \in 0..n
    OBVIOUS
  <2>2. y[i] = y[i - 1] \o At(b, i)
    BY <1>1, <2>1
  <2>3. SubSeq(b, i, i) = SubSeq(b, i, i - 1) \o <<b[i]>> /\ SubSeq(b, i, i - 1) = <<>>
    <3>1. SubSeq(b, i, i - 1) = <<>>
      BY <2>1, PartOf
    <3>2. SubSeq(b, i, (i - 1) + 1) = SubSeq(b, i, i - 1) \o <<b[(i - 1) + 1]>>
      BY <2>1, OneLonger
    <3> QED BY <2>1, <3>1, <3>2
  <2>4. SubSeq(b, i, i) = <<b[i]>>
    BY <1>2, <2>3, ConcatEmptySeq
  <2>5. s \o <<b[i]>> = y[i - 1] \o (Pre(b, i) \o <<b[i]>>)
    <3>1. y[i - 1] \in Seq(Tokens) /\ Pre(b, i) \in Seq(Tokens) /\ <<b[i]>> \in Seq(Tokens)
      BY <1>2, <1>3, PreType
    <3>2. JoinInAnyOrder(y[i - 1], Pre(b, i), <<b[i]>>)
      BY <3>1, JoinAssoc
    <3> QED BY <3>2 DEF JoinInAnyOrder
  <2>6. s \o SubSeq(b, i, i) = y[i]
    BY <2>2, <2>4, <2>5 DEF At
  <2> HIDE DEF s
  <2>7. Up(i + 0)
    BY <2>1, <2>6
  <2> HIDE DEF Up
  <2> QED BY <2>7
<1> HIDE DEF s
<1>5. ASSUME NEW m \in Nat, m \in A PROVE m + 1 \in A
  <2>0. m \in Nat /\ (i + m <= j => Up(i + m))
    <3> HIDE DEF Up
    <3> QED BY <1>5
  <2> SUFFICES ASSUME i + (m + 1) <= j PROVE Up(i + (m + 1))
    <3> HIDE DEF Up
    <3> QED OBVIOUS
  <2>1. PICK k \in Nat : k = i + m
    OBVIOUS
  <2>2. /\ i + (m + 1) = k + 1 /\ k \in 0..(n - 1) /\ k \in 0..n /\ i <= k + 1 /\ i + m <= j
        /\ i \in Nat \ {0} /\ k + 1 \in (i + 1)..j /\ k + 1 \in 1..n
    BY <2>1
  <2>3. s \o SubSeq(b, i, k) = y[k]
    BY <2>0, <2>1, <2>2
  <2>4. SubSeq(b, i, k + 1) = SubSeq(b, i, k) \o <<b[k + 1]>>
    BY <2>2, OneLonger
  <2>5. SubSeq(b, i, k) \in Seq(Tokens)
    BY <2>2, PartOf
  <2>6. s \o (SubSeq(b, i, k) \o <<b[k + 1]>>) = y[k] \o <<b[k + 1]>>
    <3>1. <<b[k + 1]>> \in Seq(Tokens)
      BY <1>2, <2>2
    <3>2. JoinInAnyOrder(s, SubSeq(b, i, k), <<b[k + 1]>>)
      BY <1>3, <2>5, <3>1, JoinAssoc
    <3> QED BY <2>3, <3>2 DEF JoinInAnyOrder
  <2>7. At(b, k + 1) = <<b[k + 1]>>
    <3>1. Pre(b, k + 1) = <<>>
      BY <2>2
    <3> QED BY <1>2, <2>2, <3>1, ConcatEmptySeq DEF At
  <2>8. y[k + 1] = y[k] \o At(b, k + 1)
    BY <1>1, <2>2
  <2> QED BY <2>2, <2>4, <2>6, <2>7, <2>8
<1> HIDE DEF A
<1>6. Nat \subseteq A
  BY <1>4, <1>5, Induction
<1>7. j - i \in A /\ i + (j - i) = j /\ i + (j - i) <= j
  BY <1>6
<1>8. Up(i + (j - i))
  <2> HIDE DEF Up
  <2> QED BY <1>7 DEF A
<1> QED BY <1>7, <1>8 DEF s, Reaches

\* Up to s, each keyword has a quote and one more after it.
Spaced(b, s) == \A i \in 1..s : b[i] \in Links => i + 2 <= s /\ b[i + 1] = "quote"

\* What is put into the page, and what is kept of it, one after the other.
FourJoin(s, t, u, v) == s \o ((t \o u) \o v) = ((s \o t) \o u) \o v

LEMMA FourJoined ==
    ASSUME NEW s \in Seq(Tokens), NEW t \in Seq(Tokens), NEW u \in Seq(Tokens), NEW v \in Seq(Tokens)
    PROVE  FourJoin(s, t, u, v)
<1>1. PICK p, q : p = t \o u /\ q = s \o t
  OBVIOUS
<1>2. p \in Seq(Tokens) /\ q \in Seq(Tokens)
  BY <1>1, ConcatProperties
<1>3. JoinInAnyOrder(s, p, v) /\ JoinInAnyOrder(s, t, u)
  BY <1>2, JoinAssoc
<1> QED BY <1>1, <1>3 DEF FourJoin, JoinInAnyOrder

\* No url begins within a stretch that begins at i and has no keyword up to its
\* last but one.
LEMMA NoneWithin ==
    ASSUME NEW b, NEW i \in Nat \ {0}, NEW j \in Nat, i = 1 \/ b[i - 1] \notin Links,
           \A x \in i..(j - 2) : b[x] \notin Links
    PROVE  \A x \in (i + 1)..j : Pre(b, x) = <<>>
<1> SUFFICES ASSUME NEW x \in (i + 1)..j PROVE ~(x > 2 /\ b[x - 2] \in Links)
  BY DEF Pre
<1>1. CASE x = i + 1
  <2>1. x > 2 => i # 1 /\ x - 2 = i - 1
    BY <1>1
  <2> QED BY <2>1
<1>2. CASE x # i + 1
  <2>1. x - 2 \in i..(j - 2)
    BY <1>2
  <2> QED BY <2>1
<1> QED BY <1>1, <1>2

\* The first keyword that is found, and the quote behind it.
LEMMA QuoteIsNext ==
    ASSUME NEW b, NEW n \in Nat, n = Len(b), Spaced(b, n), NEW i \in 1..n, NEW k, NEW j,
           k = NextIn(b, i, Links), j = NextIn(b, k + 1, {"quote"})
    PROVE  \/ k = 0 /\ \A x \in i..n : b[x] \notin Links
           \/ /\ k \in i..n /\ k + 2 <= n /\ j = k + 1 /\ b[k + 1] \notin Links
              /\ b[k] \in Links /\ b[k + 1] = "quote" /\ \A x \in i..(k - 1) : b[x] \notin Links
<1>1. FoundNext(b, i, Links, k)
  BY NextIs
<1>2. CASE k = 0
  <2>1. \A x \in i..n : b[x] \notin Links
    BY <1>1, <1>2 DEF FoundNext
  <2> QED BY <1>2, <2>1
<1>3. CASE k # 0
  <2>1. k \in i..n /\ b[k] \in Links /\ \A x \in i..(k - 1) : b[x] \notin Links
    BY <1>1, <1>3 DEF FoundNext
  <2>2. k + 2 <= n /\ b[k + 1] = "quote"
    <3>1. k \in 1..n
      BY <2>1
    <3> QED BY <2>1, <3>1 DEF Spaced
  <2>3. "quote" \notin Links
    BY DEF Links
  <2>4. k + 1 \in Nat \ {0} /\ k + 1 \in (k + 1)..n
    BY <2>1, <2>2
  <2>5. FoundNext(b, k + 1, {"quote"}, j)
    BY <2>4, NextIs
  <2>6. j \in (k + 1)..n /\ \A x \in (k + 1)..(j - 1) : b[x] # "quote"
    BY <2>2, <2>4, <2>5 DEF FoundNext
  <2>7. j = k + 1
    <3> SUFFICES ASSUME j # k + 1 PROVE FALSE
      OBVIOUS
    <3>1. k + 1 \in (k + 1)..(j - 1)
      BY <2>1, <2>6
    <3> QED BY <2>2, <2>6, <3>1
  <2> QED BY <2>1, <2>2, <2>3, <2>7
<1> QED BY <1>2, <1>3

\* From i on, what clean_html makes of the page is what is linked.
Goes(b, y, g, i) ==
    (i = 1 \/ b[i - 1] \notin Links) => (y[i - 1] \o Pre(b, i)) \o g[i] = y[Len(b)]

LEMMA CleanGoesOn ==
    ASSUME NEW b \in Seq(Tokens), NEW n \in Nat, n = Len(b), Spaced(b, n), NEW y, Linked(b, y),
           NEW g, Cleaned(b, g), NEW i \in 1..n, \A x \in (i + 1)..n : Goes(b, y, g, x)
    PROVE  Goes(b, y, g, i)
<1> SUFFICES ASSUME i = 1 \/ b[i - 1] \notin Links
             PROVE  (y[i - 1] \o Pre(b, i)) \o g[i] = y[n]
  BY DEF Goes
<1>1. PICK k : k = NextIn(b, i, Links)
  OBVIOUS
<1>2. PICK j : j = NextIn(b, k + 1, {"quote"})
  OBVIOUS
<1>3. g[i] = IF k = 0 THEN SubSeq(b, i, n)
             ELSE IF j = 0 \/ j = n THEN SubSeq(b, i, n) \o SubSeq(b, i, n)
             ELSE SubSeq(b, i, j) \o Prefixed(b[j + 1]) \o g[j + 1]
  <2>1. i \in 1..(n + 1)
    OBVIOUS
  <2>2. g[i] = CleanStep(b, g, i)
    BY <2>1 DEF Cleaned
  <2> QED BY <1>1, <1>2, <2>2 DEF CleanStep
<1>4. CASE k = 0 /\ \A x \in i..n : b[x] \notin Links
  <2>1. i \in Nat \ {0} /\ n \in i..n /\ \A x \in i..(n - 2) : x \in i..n
    OBVIOUS
  <2>2. \A x \in (i + 1)..n : Pre(b, x) = <<>>
    BY <1>4, <2>1, NoneWithin
  <2>3. (y[i - 1] \o Pre(b, i)) \o SubSeq(b, i, n) = y[n]
    <3>1. Reaches(b, y, i, n)
      BY <2>1, <2>2, Stretch
    <3> QED BY <3>1 DEF Reaches
  <2> QED BY <1>3, <1>4, <2>3
<1>5. CASE /\ k \in i..n /\ k + 2 <= n /\ j = k + 1 /\ b[k + 1] \notin Links
           /\ b[k] \in Links /\ b[k + 1] = "quote" /\ \A x \in i..(k - 1) : b[x] \notin Links
  <2>1. /\ i \in Nat \ {0} /\ k + 1 \in i..n /\ k + 2 \in (i + 1)..n /\ k + 2 \in 1..(n + 1) /\ k # 0 /\ j # 0 /\ j # n
        /\ j + 1 = k + 2 /\ (k + 2) - 1 = k + 1 /\ (k + 2) - 2 = k /\ k + 2 > 2 /\ k + 1 \in Nat /\ (k + 1) - 2 = k - 1
        /\ k + 1 \in 0..n /\ i - 1 \in 0..n
    BY <1>5
  <2>2. \A x \in (i + 1)..(k + 1) : Pre(b, x) = <<>>
    BY <1>5, <2>1, NoneWithin
  <2>3. (y[i - 1] \o Pre(b, i)) \o SubSeq(b, i, k + 1) = y[k + 1]
    <3>1. Reaches(b, y, i, k + 1)
      BY <2>1, <2>2, Stretch
    <3> QED BY <3>1 DEF Reaches
  <2>4. Pre(b, k + 2) = Prefixed(b[k + 2])
    BY <1>5, <2>1 DEF Pre, Prefixed
  <2>5. (y[k + 1] \o Pre(b, k + 2)) \o g[k + 2] = y[n]
    <3>1. Goes(b, y, g, k + 2)
      BY <2>1
    <3> QED BY <1>5, <2>1, <3>1 DEF Goes
  <2>6. g[i] = (SubSeq(b, i, k + 1) \o Pre(b, k + 2)) \o g[k + 2]
    BY <1>3, <1>5, <2>1, <2>4
  <2>7. SubSeq(b, i, k + 1) \in Seq(Tokens) /\ Pre(b, k + 2) \in Seq(Tokens) /\ g[k + 2] \in Seq(Tokens)
    <3>1. SubSeq(b, i, k + 1) \in Seq(Tokens)
      BY <2>1, PartOf
    <3>2. g[k + 2] \in Seq(Tokens)
      BY <2>1 DEF Cleaned
    <3> QED BY <3>1, <3>2, PreType
  <2>8. y[i - 1] \o Pre(b, i) \in Seq(Tokens)
    <3>1. y[i - 1] \in Seq(Tokens)
      BY <2>1 DEF Linked
    <3> QED BY <3>1, PreType, ConcatProperties
  <2>9. (y[i - 1] \o Pre(b, i)) \o ((SubSeq(b, i, k + 1) \o Pre(b, k + 2)) \o g[k + 2])
          = (((y[i - 1] \o Pre(b, i)) \o SubSeq(b, i, k + 1)) \o Pre(b, k + 2)) \o g[k + 2]
    <3>1. FourJoin(y[i - 1] \o Pre(b, i), SubSeq(b, i, k + 1), Pre(b, k + 2), g[k + 2])
      BY <2>7, <2>8, FourJoined
    <3> QED BY <3>1 DEF FourJoin
  <2> QED BY <2>3, <2>5, <2>6, <2>9
<1>6. \/ k = 0 /\ \A x \in i..n : b[x] \notin Links
      \/ /\ k \in i..n /\ k + 2 <= n /\ j = k + 1 /\ b[k + 1] \notin Links
         /\ b[k] \in Links /\ b[k + 1] = "quote" /\ \A x \in i..(k - 1) : b[x] \notin Links
  BY <1>1, <1>2, QuoteIsNext
<1> QED BY <1>4, <1>5, <1>6

\* clean_html puts the path before the urls of the links, and changes nothing else.
LEMMA CleanLinks ==
    ASSUME NEW b \in Seq(Tokens), NEW n \in Nat, n = Len(b), Spaced(b, n), NEW y, Linked(b, y)
    PROVE  clean_html(b) = y[n]
<1>1. PICK g : Cleaned(b, g) /\ clean_html(b) = g[1]
  BY CleanSteps
<1>2. y[0] = <<>> /\ y[n] \in Seq(Tokens)
  BY DEF Linked
<1>3. CASE n = 0
  <2>1. PICK k : k = NextIn(b, 1, Links)
    OBVIOUS
  <2>2. k = 0
    <3>1. FoundNext(b, 1, Links, k)
      BY <2>1, NextIs
    <3> QED BY <1>3, <3>1 DEF FoundNext
  <2>3. g[1] = CleanStep(b, g, 1)
    BY <1>1 DEF Cleaned
  <2>4. SubSeq(b, 1, n) = <<>>
    BY <1>3, PartOf
  <2> QED BY <1>1, <1>2, <1>3, <2>1, <2>2, <2>3, <2>4 DEF CleanStep
<1>4. CASE n # 0
  <2> DEFINE P == {i \in 1..n : Goes(b, y, g, i)}
  <2>1. ASSUME NEW i \in 1..n, (i + 1)..n \subseteq P PROVE i \in P
    <3>1. \A x \in (i + 1)..n : Goes(b, y, g, x)
      BY <2>1
    <3> QED BY <1>1, <3>1, CleanGoesOn
  <2>2. 1..n \subseteq P
    <3> HIDE DEF P
    <3> QED BY <2>1, Downwards
  <2>3. 1 \in 1..n /\ 1 - 1 = 0 /\ 1 \in 1..(n + 1)
    BY <1>4
  <2>4. (y[0] \o Pre(b, 1)) \o g[1] = y[n]
    BY <2>2, <2>3 DEF Goes
  <2>5. Pre(b, 1) = <<>>
    BY DEF Pre
  <2>6. g[1] \in Seq(Tokens)
    BY <1>1, <2>3 DEF Cleaned
  <2>7. (<<>> \o <<>>) \o g[1] = g[1]
    <3>1. <<>> \o <<>> = <<>>
      BY ConcatEmptySeq, EmptySeq
    <3> QED BY <2>6, <3>1, ConcatEmptySeq
  <2> QED BY <1>1, <1>2, <2>4, <2>5, <2>7
<1> QED BY <1>3, <1>4

-----------------------------------------------------------------------------
(* The pieces of a page                                                      *)

\* The sequence q stands in b after the first s.
Stands(b, s, q) == s \in Nat /\ s + Len(q) <= Len(b) /\ \A x \in 1..Len(q) : b[s + x] = q[x]

\* u is the part of b of length m that begins at i.
IsPart(T, b, i, m, u) == u \in Seq(T) /\ Len(u) = m /\ \A x \in 1..m : u[x] = b[i + x - 1]

LEMMA Parts ==
    ASSUME NEW T, NEW b \in Seq(T), NEW n \in Nat, n = Len(b), NEW i \in Nat \ {0}, NEW j \in i..n
    PROVE  IsPart(T, b, i, j - i + 1, SubSeq(b, i, j))
<1>1. j \in 0..n /\ i <= j
  OBVIOUS
<1>2. /\ SubSeq(b, i, j) \in Seq(T)
      /\ i <= j => /\ Len(SubSeq(b, i, j)) = j - i + 1
                   /\ \A x \in 1..(j - i + 1) : SubSeq(b, i, j)[x] = b[i + x - 1]
  BY <1>1, PartOf
<1> QED BY <1>1, <1>2 DEF IsPart

\* From its i-th to its j-th element q stands in b.
PartIsIn(b, s, q, i, j) == SubSeq(b, s + i, s + j) = SubSeq(q, i, j)

LEMMA PartStands ==
    ASSUME NEW T, NEW b \in Seq(T), NEW q \in Seq(T), NEW s, Stands(b, s, q),
           NEW i \in 1..Len(q), NEW j \in i..Len(q)
    PROVE  PartIsIn(b, s, q, i, j)
<1>1. PICK n \in Nat, l \in Nat : n = Len(b) /\ l = Len(q)
  BY LenProperties
<1>2. s \in Nat /\ s + l <= n /\ \A x \in 1..l : b[s + x] = q[x]
  BY <1>1 DEF Stands
<1>3. i \in 1..l /\ j \in i..l
  BY <1>1
<1>4. PICK c \in Nat \ {0}, d \in Nat, m \in Nat : c = s + i /\ d = s + j /\ m = j - i + 1
  BY <1>2, <1>3
<1>5. d \in c..n /\ d - c + 1 = m /\ i \in Nat \ {0}
  BY <1>2, <1>3, <1>4
<1>6. PICK u, v : u = SubSeq(b, c, d) /\ v = SubSeq(q, i, j)
  OBVIOUS
<1>7. IsPart(T, b, c, m, u)
  <2>1. IsPart(T, b, c, d - c + 1, SubSeq(b, c, d))
    BY <1>1, <1>5, Parts
  <2> QED BY <1>5, <1>6, <2>1
<1>8. IsPart(T, q, i, m, v)
  <2>1. IsPart(T, q, i, j - i + 1, SubSeq(q, i, j))
    BY <1>1, <1>3, <1>5, Parts
  <2> QED BY <1>4, <1>6, <2>1
<1>9. \A x \in 1..m : u[x] = v[x]
  <2> SUFFICES ASSUME NEW x \in 1..m PROVE u[x] = v[x]
    OBVIOUS
  <2>1. i + x - 1 \in 1..l /\ c + x - 1 = s + (i + x - 1)
    BY <1>2, <1>3, <1>4
  <2>2. b[s + (i + x - 1)] = q[i + x - 1]
    BY <1>2, <2>1
  <2>3. u[x] = b[c + x - 1] /\ v[x] = q[i + x - 1]
    BY <1>7, <1>8 DEF IsPart
  <2> QED BY <2>1, <2>2, <2>3
<1>10. u \in Seq(T) /\ v \in Seq(T) /\ Len(u) = Len(v) /\ \A x \in 1..Len(u) : u[x] = v[x]
  BY <1>7, <1>8, <1>9 DEF IsPart
<1>11. u = v
  BY <1>10, SeqEqual
<1> QED BY <1>4, <1>6, <1>11 DEF PartIsIn

\* What the first s leave to what follows them.
LEMMA SpacedLeaves ==
    ASSUME NEW b, NEW s \in Nat, Spaced(b, s)
    PROVE  /\ Pre(b, s + 1) = <<>>
           /\ s + 1 = 1 \/ b[(s + 1) - 1] \notin Links
<1>1. s + 1 > 2 => b[(s + 1) - 2] \notin Links
  <2>1. s + 1 > 2 => (s + 1) - 2 \in 1..s /\ ~((s + 1) - 2 + 2 <= s)
    OBVIOUS
  <2> QED BY <2>1 DEF Spaced
<1>2. s + 1 = 1 \/ b[(s + 1) - 1] \notin Links
  <2>1. s + 1 = 1 \/ ((s + 1) - 1 \in 1..s /\ ~((s + 1) - 1 + 2 <= s))
    OBVIOUS
  <2> QED BY <2>1 DEF Spaced
<1> QED BY <1>1, <1>2 DEF Pre

\* What a piece adds.
PieceAdded(b, y, s, q) == Spaced(b, s + Len(q)) /\ y[s + Len(q)] = y[s] \o Rewritten(q)

\* No url begins in b from its i-th to its j-th token.
NoneBegins(b, i, j) == \A x \in i..j : Pre(b, x) = <<>>

\* A piece that is kept.
IsKept(y, s, q) == y[s + Len(q)] = y[s] \o q

LEMMA Kept ==
    ASSUME NEW b \in Seq(Tokens), NEW y, Linked(b, y), NEW q \in Seq(Tokens), NEW s, Stands(b, s, q),
           Spaced(b, s), NoneBegins(b, s + 2, s + Len(q))
    PROVE  IsKept(y, s, q)
<1>1. PICK n \in Nat, l \in Nat : n = Len(b) /\ l = Len(q)
  BY LenProperties
<1>2. s \in Nat /\ s + l <= n
  BY <1>1 DEF Stands
<1>3. y[s] \in Seq(Tokens)
  <2>1. s \in 0..n
    BY <1>2
  <2> QED BY <1>1, <2>1 DEF Linked
<1>4. CASE l = 0
  <2>1. q = <<>>
    BY <1>1, <1>4, EmptySeq
  <2>2. s + l = s
    BY <1>2, <1>4
  <2>3. y[s] \o <<>> = y[s]
    BY <1>3, ConcatEmptySeq
  <2> QED BY <1>1, <2>1, <2>2, <2>3 DEF IsKept
<1>5. CASE l # 0
  <2>1. PICK c \in Nat, d \in Nat : c = s + 1 /\ d = s + l
    BY <1>2
  <2>2. c \in 1..n /\ d \in c..n /\ c - 1 = s /\ c + 1 = s + 2 /\ 1 \in 1..l /\ l \in 1..l
    BY <1>2, <1>5, <2>1
  <2>3. \A x \in (c + 1)..d : Pre(b, x) = <<>>
    BY <1>1, <2>1, <2>2 DEF NoneBegins
  <2>4. Reaches(b, y, c, d)
    BY <1>1, <2>2, <2>3, Stretch
  <2>5. (y[s] \o Pre(b, c)) \o SubSeq(b, c, d) = y[d]
    BY <2>2, <2>4 DEF Reaches
  <2>6. Pre(b, c) = <<>>
    BY <1>2, <2>1, SpacedLeaves
  <2>7. y[s] \o <<>> = y[s]
    BY <1>3, ConcatEmptySeq
  <2>8. PartIsIn(b, s, q, 1, l)
    BY <1>1, <2>2, PartStands
  <2>9. SubSeq(q, 1, l) = q
    BY <1>1, SubSeqFull
  <2> QED BY <1>1, <2>1, <2>5, <2>6, <2>7, <2>8, <2>9 DEF PartIsIn, IsKept
<1> QED BY <1>4, <1>5

LEMMA PlainAdds ==
    ASSUME NEW b \in Seq(Tokens), NEW y, Linked(b, y), NEW q \in Seq(Tokens), NEW s, Stands(b, s, q),
           Spaced(b, s), \A x \in 1..Len(q) : q[x] \notin Links
    PROVE  PieceAdded(b, y, s, q)
<1>1. PICK n \in Nat, l \in Nat : n = Len(b) /\ l = Len(q)
  BY LenProperties
<1>2. s \in Nat /\ s + l <= n /\ \A x \in 1..l : b[s + x] = q[x]
  BY <1>1 DEF Stands
<1>3. ~IsLink(q)
  <2> SUFFICES ASSUME IsLink(q) PROVE FALSE
    OBVIOUS
  <2>1. l > 2 /\ Head(q) \in Links
    BY <1>1 DEF IsLink
  <2>2. Head(q) = q[1] /\ 1 \in 1..l
    BY <1>1, <2>1
  <2> QED BY <1>1, <2>1, <2>2
<1>4. Rewritten(q) = q
  BY <1>3 DEF Rewritten
<1>5. PICK e \in Nat : e = s + l
  BY <1>2
<1>6. \A i \in (s + 1)..e : b[i] \notin Links
  <2> SUFFICES ASSUME NEW i \in (s + 1)..e PROVE b[i] \notin Links
    OBVIOUS
  <2>1. i - s \in 1..l /\ s + (i - s) = i
    BY <1>2, <1>5
  <2>2. b[s + (i - s)] = q[i - s]
    BY <1>2, <2>1
  <2> QED BY <1>1, <2>1, <2>2
<1>7. Spaced(b, e)
  <2> SUFFICES ASSUME NEW i \in 1..e, b[i] \in Links PROVE i + 2 <= e /\ b[i + 1] = "quote"
    BY DEF Spaced
  <2>1. i \in 1..s
    <3>1. i \in 1..s \/ i \in (s + 1)..e
      BY <1>2, <1>5
    <3> QED BY <1>6, <3>1
  <2>2. i + 2 <= s /\ b[i + 1] = "quote"
    BY <2>1 DEF Spaced
  <2> QED BY <1>2, <1>5, <2>2
<1>8. NoneBegins(b, s + 2, e)
  <2>1. PICK c \in Nat \ {0} : c = s + 1
    BY <1>2
  <2>2. c + 1 = s + 2
    BY <1>2, <2>1
  <2>3. \A x \in c..(e - 2) : b[x] \notin Links
    <3>1. \A x \in c..(e - 2) : x \in (s + 1)..e
      BY <1>2, <2>1
    <3> QED BY <1>6, <3>1
  <2>4. c = 1 \/ b[c - 1] \notin Links
    BY <1>2, <2>1, SpacedLeaves
  <2>5. \A x \in (c + 1)..e : Pre(b, x) = <<>>
    BY <2>3, <2>4, NoneWithin
  <2> QED BY <2>2, <2>5 DEF NoneBegins
<1>9. IsKept(y, s, q)
  BY <1>1, <1>5, <1>8, Kept
<1> QED BY <1>1, <1>4, <1>5, <1>7, <1>9 DEF PieceAdded, IsKept

\* A link is a keyword, a quote and, up to another quote, no further keyword.
LinkIs(q, l) ==
    /\ l = Len(q) /\ l \in Nat /\ l > 2 /\ q[1] \in Links /\ q[2] = "quote"
    /\ \A x \in 2..l : q[x] \notin Links

LEMMA LinkHas == ASSUME NEW T, NEW q \in Seq(T), IsLink(q) PROVE LinkIs(q, Len(q))
<1>1. PICK l \in Nat : l = Len(q)
  BY LenProperties
<1>2. l > 2 /\ Head(q) \in Links /\ q[2] = "quote" /\ \A x \in 3..l : q[x] \notin Links
  BY <1>1 DEF IsLink
<1>3. Head(q) = q[1]
  BY <1>1, <1>2
<1>4. "quote" \notin Links
  BY DEF Links
<1>5. \A x \in 2..l : x = 2 \/ x \in 3..l
  OBVIOUS
<1>6. \A x \in 2..l : q[x] \notin Links
  BY <1>2, <1>4, <1>5
<1> QED BY <1>1, <1>2, <1>3, <1>6 DEF LinkIs

\* A link stands in b: its keyword, its quote, and no keyword behind them.
LinkStands(b, s, l) ==
    /\ s \in Nat /\ l \in Nat /\ l > 2
    /\ b[s + 1] \in Links /\ b[s + 2] = "quote"
    /\ \A x \in (s + 2)..(s + l) : b[x] \notin Links

LEMMA LinkInPage ==
    ASSUME NEW b, NEW q, NEW s, Stands(b, s, q), NEW l, LinkIs(q, l)
    PROVE  LinkStands(b, s, l)
<1>1. s \in Nat /\ l = Len(q) /\ l \in Nat /\ l > 2 /\ q[1] \in Links /\ q[2] = "quote"
  BY DEF LinkIs, Stands
<1>2. \A x \in 1..l : b[s + x] = q[x]
  BY <1>1 DEF Stands
<1>3. \A x \in 2..l : q[x] \notin Links
  BY DEF LinkIs
<1>4. 1 \in 1..l /\ 2 \in 1..l
  BY <1>1
<1>5. b[s + 1] = q[1] /\ b[s + 2] = q[2]
  BY <1>2, <1>4
<1>6. \A x \in (s + 2)..(s + l) : b[x] \notin Links
  <2> SUFFICES ASSUME NEW x \in (s + 2)..(s + l) PROVE b[x] \notin Links
    OBVIOUS
  <2>1. x - s \in 2..l /\ x - s \in 1..l /\ s + (x - s) = x
    BY <1>1
  <2>2. b[s + (x - s)] = q[x - s]
    BY <1>2, <2>1
  <2> QED BY <1>3, <2>1, <2>2
<1> QED BY <1>1, <1>5, <1>6 DEF LinkStands

LEMMA LinkSpaced ==
    ASSUME NEW b, NEW s, NEW l, LinkStands(b, s, l), Spaced(b, s), NEW e, e = s + l
    PROVE  Spaced(b, e)
<1>1. s \in Nat /\ l \in Nat /\ l > 2 /\ b[s + 2] = "quote" /\ \A x \in (s + 2)..e : b[x] \notin Links
  BY DEF LinkStands
<1> SUFFICES ASSUME NEW i \in 1..e, b[i] \in Links PROVE i + 2 <= e /\ b[i + 1] = "quote"
  BY DEF Spaced
<1>2. i \in 1..s \/ i = s + 1 \/ i \in (s + 2)..e
  BY <1>1
<1>3. CASE i \in 1..s
  <2>1. i + 2 <= s /\ b[i + 1] = "quote"
    BY <1>3 DEF Spaced
  <2> QED BY <1>1, <2>1
<1>4. CASE i = s + 1
  <2>1. i + 1 = s + 2 /\ i + 2 <= e
    BY <1>1, <1>4
  <2> QED BY <1>1, <2>1
<1> QED BY <1>1, <1>2, <1>3, <1>4

\* Where a url may begin within a link.
LEMMA LinkBegins ==
    ASSUME NEW b, NEW s, NEW l, LinkStands(b, s, l), Spaced(b, s)
    PROVE  /\ Pre(b, s + 2) = <<>>
           /\ Pre(b, s + 3) = IF b[s + 3] = "slash" THEN <<"path">> ELSE <<>>
           /\ NoneBegins(b, s + 4, s + l)
<1>1. /\ s \in Nat /\ l \in Nat /\ l > 2 /\ b[s + 1] \in Links /\ b[s + 2] = "quote"
      /\ \A x \in (s + 2)..(s + l) : b[x] \notin Links
  BY DEF LinkStands
<1>2. Pre(b, s + 2) = <<>>
  <2>1. PICK c : c = s + 1
    OBVIOUS
  <2>2. c = 1 \/ b[c - 1] \notin Links
    BY <1>1, <2>1, SpacedLeaves
  <2>3. s + 2 > 2 => c # 1 /\ (s + 2) - 2 = c - 1
    BY <1>1, <2>1
  <2>4. ~(s + 2 > 2 /\ b[(s + 2) - 2] \in Links)
    BY <2>2, <2>3
  <2> QED BY <2>4 DEF Pre
<1>3. Pre(b, s + 3) = IF b[s + 3] = "slash" THEN <<"path">> ELSE <<>>
  <2>1. s + 3 > 2 /\ (s + 3) - 2 = s + 1 /\ (s + 3) - 1 = s + 2
    BY <1>1
  <2> QED BY <1>1, <2>1 DEF Pre
<1>4. NoneBegins(b, s + 4, s + l)
  <2> SUFFICES ASSUME NEW x \in (s + 4)..(s + l) PROVE Pre(b, x) = <<>>
    BY DEF NoneBegins
  <2>1. x - 2 \in (s + 2)..(s + l)
    BY <1>1
  <2>2. b[x - 2] \notin Links
    BY <1>1, <2>1
  <2> QED BY <2>2 DEF Pre
<1> QED BY <1>2, <1>3, <1>4

\* A link whose url is not absolute is kept.
LEMMA RelativeLinkAdds ==
    ASSUME NEW b \in Seq(Tokens), NEW y, Linked(b, y), NEW q \in Seq(Tokens), NEW s, Stands(b, s, q),
           Spaced(b, s), IsLink(q), q[3] # "slash"
    PROVE  PieceAdded(b, y, s, q)
<1>1. PICK l : l = Len(q)
  OBVIOUS
<1>2. LinkIs(q, l)
  BY <1>1, LinkHas
<1>3. LinkStands(b, s, l)
  BY <1>2, LinkInPage
<1>4. s \in Nat /\ l \in Nat /\ l > 2
  BY <1>3 DEF LinkStands
<1>5. Spaced(b, s + l)
  BY <1>3, LinkSpaced
<1>6. b[s + 3] # "slash"
  <2>1. 3 \in 1..l
    BY <1>4
  <2>2. b[s + 3] = q[3]
    BY <1>1, <2>1 DEF Stands
  <2> QED BY <2>2
<1>7. NoneBegins(b, s + 2, s + l)
  <2> SUFFICES ASSUME NEW x \in (s + 2)..(s + l) PROVE Pre(b, x) = <<>>
    BY DEF NoneBegins
  <2>1. x = s + 2 \/ x = s + 3 \/ x \in (s + 4)..(s + l)
    BY <1>4
  <2>2. Pre(b, s + 2) = <<>> /\ Pre(b, s + 3) = <<>> /\ NoneBegins(b, s + 4, s + l)
    BY <1>3, <1>6, LinkBegins
  <2> QED BY <2>1, <2>2 DEF NoneBegins
<1>8. IsKept(y, s, q)
  BY <1>1, <1>7, Kept
<1>9. Rewritten(q) = q
  BY DEF Rewritten
<1> QED BY <1>1, <1>5, <1>8, <1>9 DEF PieceAdded, IsKept

\* What precedes the url of a link.
HeadKept(y, s, q) == y[s + 2] = y[s] \o SubSeq(q, 1, 2)

LEMMA LinkHead ==
    ASSUME NEW b \in Seq(Tokens), NEW y, Linked(b, y), NEW q \in Seq(Tokens), NEW s, Stands(b, s, q),
           Spaced(b, s), IsLink(q)
    PROVE  HeadKept(y, s, q)
<1>1. PICK l : l = Len(q)
  OBVIOUS
<1>2. LinkIs(q, l)
  BY <1>1, LinkHas
<1>3. LinkStands(b, s, l)
  BY <1>2, LinkInPage
<1>4. s \in Nat /\ l \in Nat /\ l > 2 /\ 1 \in Nat \ {0} /\ 2 \in 1..l /\ 1 <= 2 /\ 2 - 1 + 1 = 2
  BY <1>3 DEF LinkStands
<1>5. PICK r : r = SubSeq(q, 1, 2)
  OBVIOUS
<1>6. r \in Seq(Tokens) /\ Len(r) = 2 /\ \A x \in 1..2 : r[x] = q[x]
  <2>1. IsPart(Tokens, q, 1, 2, r)
    <3>1. IsPart(Tokens, q, 1, 2 - 1 + 1, SubSeq(q, 1, 2))
      BY <1>1, <1>4, Parts
    <3> QED BY <1>4, <1>5, <3>1
  <2>2. \A x \in 1..2 : 1 + x - 1 = x
    OBVIOUS
  <2> QED BY <2>1, <2>2 DEF IsPart
<1>7. Stands(b, s, r)
  <2>1. s + l <= Len(b) /\ \A x \in 1..l : b[s + x] = q[x]
    BY <1>1 DEF Stands
  <2>2. Len(b) \in Nat
    BY LenProperties
  <2>3. s + 2 <= Len(b)
    BY <1>4, <2>1, <2>2
  <2>4. \A x \in 1..2 : x \in 1..l
    BY <1>4
  <2> QED BY <1>4, <1>6, <2>1, <2>3, <2>4 DEF Stands
<1>8. NoneBegins(b, s + 2, s + 2)
  <2>1. Pre(b, s + 2) = <<>>
    BY <1>3, LinkBegins
  <2>2. \A x \in (s + 2)..(s + 2) : x = s + 2
    BY <1>4
  <2> QED BY <2>1, <2>2 DEF NoneBegins
<1>9. NoneBegins(b, s + 2, s + Len(r))
  BY <1>6, <1>8
<1>10. IsKept(y, s, r)
  BY <1>6, <1>7, <1>9, Kept
<1> QED BY <1>5, <1>6, <1>10 DEF IsKept, HeadKept

\* The location's path is put into a link whose url is absolute.
LEMMA AbsoluteLinkAdds ==
    ASSUME NEW b \in Seq(Tokens), NEW y, Linked(b, y), NEW q \in Seq(Tokens), NEW s, Stands(b, s, q),
           Spaced(b, s), IsLink(q), q[3] = "slash"
    PROVE  PieceAdded(b, y, s, q)
<1>1. PICK n \in Nat, l \in Nat : n = Len(b) /\ l = Len(q)
  BY LenProperties
<1>2. LinkIs(q, l)
  BY <1>1, LinkHas
<1>3. LinkStands(b, s, l)
  BY <1>2, LinkInPage
<1>4. s \in Nat /\ l > 2 /\ 3 \in 1..l /\ l \in 3..l /\ 2 \in Nat /\ 2 \in 0..l /\ l \in 0..l
  BY <1>3 DEF LinkStands
<1>5. Spaced(b, s + l)
  BY <1>3, LinkSpaced
<1>6. PICK c \in Nat, d \in Nat : c = s + 3 /\ d = s + l
  BY <1>4
<1>7. c \in 1..n /\ d \in c..n /\ c - 1 = s + 2 /\ c + 1 = s + 4
  <2>1. s + l <= n
    BY <1>1 DEF Stands
  <2> QED BY <1>4, <1>6, <2>1
<1>8. Reaches(b, y, c, d)
  <2>1. NoneBegins(b, s + 4, s + l)
    BY <1>3, LinkBegins
  <2>2. \A x \in (c + 1)..d : Pre(b, x) = <<>>
    BY <1>6, <1>7, <2>1 DEF NoneBegins
  <2> QED BY <1>1, <1>7, <2>2, Stretch
<1>9. Pre(b, c) = <<"path">>
  <2>1. b[s + 3] = q[3]
    BY <1>1, <1>4 DEF Stands
  <2>2. Pre(b, s + 3) = IF b[s + 3] = "slash" THEN <<"path">> ELSE <<>>
    BY <1>3, LinkBegins
  <2> QED BY <1>6, <2>1, <2>2
<1>10. PICK r, t : r = SubSeq(q, 1, 2) /\ t = SubSeq(q, 3, l)
  OBVIOUS
<1>11. r \in Seq(Tokens) /\ t \in Seq(Tokens) /\ <<"path">> \in Seq(Tokens) /\ y[s] \in Seq(Tokens)
  <2>1. 1 \in Nat \ {0} /\ 3 \in Nat \ {0}
    OBVIOUS
  <2>2. SubSeq(q, 1, 2) \in Seq(Tokens)
    BY <1>1, <1>4, <2>1, PartOf
  <2>3. SubSeq(q, 3, l) \in Seq(Tokens)
    BY <1>1, <1>4, <2>1, PartOf
  <2>4. "path" \in Tokens
    BY DEF Tokens
  <2>5. s \in 0..n
    BY <1>4, <1>6, <1>7
  <2>6. y[s] \in Seq(Tokens)
    BY <1>1, <2>5 DEF Linked
  <2>7. <<"path">> \in Seq(Tokens)
    BY <2>4, OneToken
  <2> QED BY <1>10, <2>2, <2>3, <2>6, <2>7
<1>12. y[s + 2] = y[s] \o r
  <2>1. HeadKept(y, s, q)
    BY LinkHead
  <2> QED BY <1>10, <2>1 DEF HeadKept
<1>13. SubSeq(b, c, d) = t
  <2>1. PartIsIn(b, s, q, 3, l)
    BY <1>1, <1>4, PartStands
  <2> QED BY <1>6, <1>10, <2>1 DEF PartIsIn
<1>14. ((y[s] \o r) \o <<"path">>) \o t = y[d]
  <2>1. (y[c - 1] \o Pre(b, c)) \o SubSeq(b, c, d) = y[d]
    BY <1>8 DEF Reaches
  <2> QED BY <1>7, <1>9, <1>12, <1>13, <2>1
<1>15. y[s] \o ((r \o <<"path">>) \o t) = y[d]
  <2>1. FourJoin(y[s], r, <<"path">>, t)
    BY <1>11, FourJoined
  <2> QED BY <1>14, <2>1 DEF FourJoin
<1>16. Rewritten(q) = (r \o <<"path">>) \o t
  <2>1. Rewritten(q) = InsertAt(q, 3, "path")
    BY DEF Rewritten
  <2>2. 3 - 1 = 2
    OBVIOUS
  <2>3. InsertAt(q, 3, "path") = (SubSeq(q, 1, 2) \o <<"path">>) \o SubSeq(q, 3, l)
    BY <1>1, <2>2 DEF InsertAt
  <2> QED BY <1>10, <2>1, <2>3
<1> QED BY <1>1, <1>5, <1>6, <1>15, <1>16 DEF PieceAdded

\* A piece that is a link, or has no keyword.
PieceIsPlain(q) == IsLink(q) \/ \A x \in 1..Len(q) : q[x] \notin Links

LEMMA EachPieceAdds ==
    ASSUME NEW b \in Seq(Tokens), NEW y, Linked(b, y), NEW q \in Seq(Tokens), NEW s, Stands(b, s, q),
           Spaced(b, s), PieceIsPlain(q)
    PROVE  PieceAdded(b, y, s, q)
<1>1. CASE \A x \in 1..Len(q) : q[x] \notin Links
  BY <1>1, PlainAdds
<1>2. CASE IsLink(q) /\ q[3] = "slash"
  BY <1>2, AbsoluteLinkAdds
<1>3. CASE IsLink(q) /\ q[3] # "slash"
  BY <1>3, RelativeLinkAdds
<1> QED BY <1>1, <1>2, <1>3 DEF PieceIsPlain

\* Two sequences one after the other.
Appended(u, v, w) ==
    /\ Len(w) = Len(u) + Len(v)
    /\ \A x \in 1..Len(u) : w[x] = u[x]
    /\ \A x \in 1..Len(v) : w[Len(u) + x] = v[x]

LEMMA JoinIs ==
    ASSUME NEW T, NEW u \in Seq(T), NEW v \in Seq(T)
    PROVE  Appended(u, v, u \o v)
<1>1. PICK k \in Nat, l \in Nat, w \in Seq(T) : k = Len(u) /\ l = Len(v) /\ w = u \o v
  BY LenProperties, ConcatProperties
<1>2. Len(w) = k + l /\ \A i \in 1..(k + l) : w[i] = IF i <= k THEN u[i] ELSE v[i - k]
  BY <1>1, ConcatProperties
<1>3. \A x \in 1..k : x \in 1..(k + l) /\ x <= k
  OBVIOUS
<1>4. \A x \in 1..l : k + x \in 1..(k + l) /\ ~(k + x <= k) /\ (k + x) - k = x
  OBVIOUS
<1>5. \A x \in 1..k : w[x] = u[x]
  BY <1>2, <1>3
<1>6. \A x \in 1..l : w[k + x] = v[x]
  BY <1>2, <1>4
<1> QED BY <1>1, <1>2, <1>5, <1>6 DEF Appended

\* What the pieces of a page have joined up to the k-th begins the whole.
Begins(u, b) == Len(u) <= Len(b) /\ \A x \in 1..Len(u) : b[x] = u[x]

LEMMA JoinBegins ==
    ASSUME NEW T, NEW u \in Seq(T), NEW q \in Seq(T), NEW v, v = u \o q, NEW b \in Seq(T), Begins(v, b)
    PROVE  Begins(u, b) /\ Stands(b, Len(u), q)
<1>1. PICK s \in Nat, l \in Nat, n \in Nat : s = Len(u) /\ l = Len(q) /\ n = Len(b)
  BY LenProperties
<1>2. Len(v) = s + l /\ (\A x \in 1..s : v[x] = u[x]) /\ \A x \in 1..l : v[s + x] = q[x]
  <2>1. Appended(u, q, u \o q)
    BY JoinIs
  <2> QED BY <1>1, <2>1 DEF Appended
<1>3. s + l <= n /\ \A x \in 1..(s + l) : b[x] = v[x]
  BY <1>1, <1>2 DEF Begins
<1>4. \A x \in 1..s : x \in 1..(s + l)
  OBVIOUS
<1>5. \A x \in 1..l : s + x \in 1..(s + l)
  OBVIOUS
<1>6. \A x \in 1..s : b[x] = u[x]
  BY <1>2, <1>3, <1>4
<1>7. \A x \in 1..l : b[s + x] = q[x]
  BY <1>2, <1>3, <1>5
<1>8. s <= n
  BY <1>3
<1> QED BY <1>1, <1>3, <1>6, <1>7, <1>8 DEF Begins, Stands

LEMMA AllBegin ==
    ASSUME NEW T, NEW p \in Seq(Seq(T)), NEW a, Joined(T, p, a), NEW m \in Nat, m = Len(p)
    PROVE  \A k \in 1..m : Begins(a[k], a[m])
<1> DEFINE P == {k \in 1..m : Begins(a[k], a[m])}
<1>1. /\ \A k \in 0..m : a[k] \in Seq(T)
      /\ \A k \in 0..(m - 1) : a[k + 1] = a[k] \o p[k + 1]
  BY DEF Joined
<1>2. \A k \in 1..m : p[k] \in Seq(T)
  BY ElementOfSeq
<1>3. ASSUME NEW k \in 1..m, (k + 1)..m \subseteq P PROVE k \in P
  <2>1. CASE k = m
    <3>1. Len(a[m]) \in Nat
      <4>1. a[m] \in Seq(T)
        BY <1>1
      <4> QED BY <4>1, LenProperties
    <3>2. Begins(a[m], a[m])
      BY <3>1 DEF Begins
    <3> QED BY <2>1, <3>2
  <2>2. CASE k # m
    <3>1. k + 1 \in (k + 1)..m /\ k + 1 \in 1..m /\ k \in 0..(m - 1) /\ k \in 0..m /\ m \in 0..m
      BY <2>2
    <3>2. Begins(a[k + 1], a[m])
      BY <1>3, <3>1
    <3>3. PICK u, v, b, q : u = a[k] /\ v = a[k + 1] /\ b = a[m] /\ q = p[k + 1]
      OBVIOUS
    <3>4. u \in Seq(T) /\ b \in Seq(T) /\ q \in Seq(T) /\ v = u \o q /\ Begins(v, b)
      BY <1>1, <1>2, <3>1, <3>2, <3>3
    <3>5. Begins(u, b)
      BY <3>4, JoinBegins
    <3> QED BY <3>3, <3>5
  <2> QED BY <2>1, <2>2
<1> HIDE DEF P
<1>4. 1..m \subseteq P
  BY <1>3, Downwards
<1> QED BY <1>4 DEF P

\* Each piece stands in the whole behind those before it.
LEMMA AllStand ==
    ASSUME NEW T, NEW p \in Seq(Seq(T)), NEW a, Joined(T, p, a), NEW m \in Nat, m = Len(p), NEW k \in 0..(m - 1)
    PROVE  Stands(a[m], Len(a[k]), p[k + 1])
<1>1. k + 1 \in 1..m /\ k \in 0..m /\ m \in 0..m
  OBVIOUS
<1>2. a[k] \in Seq(T) /\ a[m] \in Seq(T) /\ a[k + 1] = a[k] \o p[k + 1]
  BY <1>1 DEF Joined
<1>3. p[k + 1] \in Seq(T)
  BY <1>1, ElementOfSeq
<1>4. Begins(a[k + 1], a[m])
  BY <1>1, AllBegin
<1>5. PICK u, v, b, q : u = a[k] /\ v = a[k + 1] /\ b = a[m] /\ q = p[k + 1]
  OBVIOUS
<1>6. Stands(b, Len(u), q)
  <2>1. u \in Seq(T) /\ b \in Seq(T) /\ q \in Seq(T) /\ v = u \o q /\ Begins(v, b)
    BY <1>2, <1>3, <1>4, <1>5
  <2> QED BY <2>1, JoinBegins
<1> QED BY <1>5, <1>6

LEMMA RewrittenType == ASSUME NEW q \in Seq(Tokens) PROVE Rewritten(q) \in Seq(Tokens)
<1>1. CASE IsLink(q) /\ q[3] = "slash"
  <2>1. PICK l \in Nat : l = Len(q)
    BY LenProperties
  <2>2. l > 2
    BY <1>1, <2>1 DEF IsLink
  <2>3. 1 \in Nat \ {0} /\ 3 \in Nat \ {0} /\ 2 \in 0..l /\ l \in 0..l /\ 3 - 1 = 2
    BY <2>2
  <2>4. PICK r, t : r = SubSeq(q, 1, 2) /\ t = SubSeq(q, 3, l)
    OBVIOUS
  <2>5. r \in Seq(Tokens) /\ t \in Seq(Tokens) /\ <<"path">> \in Seq(Tokens)
    <3>1. SubSeq(q, 1, 2) \in Seq(Tokens)
      BY <2>1, <2>3, PartOf
    <3>2. SubSeq(q, 3, l) \in Seq(Tokens)
      BY <2>1, <2>3, PartOf
    <3>3. "path" \in Tokens
      BY DEF Tokens
    <3> QED BY <2>4, <3>1, <3>2, <3>3, OneToken
  <2>6. Rewritten(q) = (r \o <<"path">>) \o t
    <3>1. Rewritten(q) = InsertAt(q, 3, "path")
      BY <1>1 DEF Rewritten
    <3>2. InsertAt(q, 3, "path") = (SubSeq(q, 1, 2) \o <<"path">>) \o SubSeq(q, 3, l)
      BY <2>1, <2>3 DEF InsertAt
    <3> QED BY <2>4, <3>1, <3>2
  <2>7. r \o <<"path">> \in Seq(Tokens)
    BY <2>5, ConcatProperties
  <2>8. (r \o <<"path">>) \o t \in Seq(Tokens)
    BY <2>5, <2>7, ConcatProperties
  <2> QED BY <2>6, <2>8
<1>2. CASE ~(IsLink(q) /\ q[3] = "slash")
  BY <1>2 DEF Rewritten
<1> QED BY <1>1, <1>2

\* Up to the k-th piece of the page, the linked one is the rewritten pieces.
Grown(a, b, y, c, k) == Spaced(b, Len(a[k])) /\ c[k] = y[Len(a[k])]

\* The pieces of a page, and these with their links rewritten.
RewrittenAll(p) == [i \in DOMAIN p |-> Rewritten(p[i])]

LEMMA RewrittenAllType ==
    ASSUME NEW p \in Seq(Seq(Tokens)), NEW m \in Nat, m = Len(p)
    PROVE  /\ RewrittenAll(p) \in Seq(Seq(Tokens)) /\ Len(RewrittenAll(p)) = m
           /\ \A i \in 1..m : RewrittenAll(p)[i] = Rewritten(p[i])
<1> DEFINE V == Seq(Tokens)
<1>1. \A i \in 1..m : p[i] \in V
  BY ElementOfSeq
<1>2. \A i \in 1..m : Rewritten(p[i]) \in V
  BY <1>1, RewrittenType
<1>3. DOMAIN p = 1..m
  OBVIOUS
<1>4. RewrittenAll(p) = [i \in 1..m |-> Rewritten(p[i])]
  BY <1>3 DEF RewrittenAll
<1> HIDE DEF V
<1>5. [i \in 1..m |-> Rewritten(p[i])] \in Seq(V) /\ Len([i \in 1..m |-> Rewritten(p[i])]) = m
  BY <1>2
<1> QED BY <1>4, <1>5 DEF V

LEMMA GrowsOn ==
    ASSUME NEW p \in Seq(Seq(Tokens)), NEW m \in Nat, m = Len(p), NEW a, Joined(Tokens, p, a),
           NEW c, Joined(Tokens, RewrittenAll(p), c), NEW b, b = a[m], NEW y, Linked(b, y),
           NEW k \in 0..(m - 1), PieceIsPlain(p[k + 1]), Grown(a, b, y, c, k)
    PROVE  Grown(a, b, y, c, k + 1)
<1>1. k + 1 \in 1..m /\ k \in 0..m /\ m \in 0..m
  OBVIOUS
<1>2. a[k] \in Seq(Tokens) /\ b \in Seq(Tokens) /\ a[k + 1] = a[k] \o p[k + 1]
  BY <1>1 DEF Joined
<1>3. p[k + 1] \in Seq(Tokens)
  BY <1>1, ElementOfSeq
<1>4. PICK s, q : s = Len(a[k]) /\ q = p[k + 1]
  OBVIOUS
<1>5. Stands(b, s, q)
  BY <1>4, AllStand
<1>6. PieceAdded(b, y, s, q)
  <2>1. Spaced(b, s) /\ PieceIsPlain(q) /\ q \in Seq(Tokens)
    BY <1>3, <1>4 DEF Grown
  <2> QED BY <1>2, <1>5, <2>1, EachPieceAdds
<1>7. Len(a[k + 1]) = s + Len(q)
  BY <1>2, <1>3, <1>4, ConcatProperties
<1>8. c[k + 1] = c[k] \o Rewritten(q)
  <2>1. Len(RewrittenAll(p)) = m /\ RewrittenAll(p)[k + 1] = Rewritten(p[k + 1])
    BY <1>1, RewrittenAllType
  <2>2. c[k + 1] = c[k] \o RewrittenAll(p)[k + 1]
    BY <2>1 DEF Joined
  <2> QED BY <1>4, <2>1, <2>2
<1>9. c[k] = y[s]
  BY <1>4 DEF Grown
<1> QED BY <1>6, <1>7, <1>8, <1>9 DEF Grown, PieceAdded

LEMMA CleanPage ==
    ASSUME NEW p \in Seq(Seq(Tokens)), \A i \in 1..Len(p) : PieceIsPlain(p[i])
    PROVE  clean_html(FlattenSeq(p)) = FlattenSeq(RewrittenAll(p))
<1>1. PICK m \in Nat : m = Len(p)
  BY LenProperties
<1>2. PICK a, b : Joined(Tokens, p, a) /\ b = a[m] /\ b = FlattenSeq(p)
  <2>1. JoinsTo(Tokens, p, FlattenSeq(p))
    BY Flattened
  <2> QED BY <1>1, <2>1 DEF JoinsTo
<1>3. RewrittenAll(p) \in Seq(Seq(Tokens)) /\ Len(RewrittenAll(p)) = m
  BY <1>1, RewrittenAllType
<1>4. PICK c : Joined(Tokens, RewrittenAll(p), c) /\ FlattenSeq(RewrittenAll(p)) = c[m]
  <2>1. JoinsTo(Tokens, RewrittenAll(p), FlattenSeq(RewrittenAll(p)))
    BY <1>3, Flattened
  <2> QED BY <1>3, <2>1 DEF JoinsTo
<1>5. b \in Seq(Tokens)
  <2>1. m \in 0..m
    OBVIOUS
  <2> QED BY <1>1, <1>2, <2>1 DEF Joined
<1>6. PICK y : Linked(b, y)
  BY <1>5, LinkedExists
<1> DEFINE A == {k \in Nat : k <= m => Grown(a, b, y, c, k)}
<1>7. 0 \in A
  <2>1. a[0] = <<>> /\ c[0] = <<>> /\ y[0] = <<>> /\ Len(<<>>) = 0
    BY <1>2, <1>4, <1>6 DEF Joined, Linked
  <2>2. Spaced(b, 0)
    BY DEF Spaced
  <2>3. Grown(a, b, y, c, 0)
    BY <2>1, <2>2 DEF Grown
  <2> QED BY <2>3
<1>8. ASSUME NEW k \in Nat, k \in A PROVE k + 1 \in A
  <2> SUFFICES ASSUME k + 1 <= m PROVE Grown(a, b, y, c, k + 1)
    OBVIOUS
  <2>1. k \in 0..(m - 1) /\ k <= m /\ k + 1 \in 1..m
    OBVIOUS
  <2>2. Grown(a, b, y, c, k) /\ PieceIsPlain(p[k + 1])
    BY <1>1, <1>8, <2>1
  <2> QED BY <1>1, <1>2, <1>4, <1>6, <2>1, <2>2, GrowsOn
<1> HIDE DEF A
<1>9. Nat \subseteq A
  BY <1>7, <1>8, Induction
<1>10. Grown(a, b, y, c, m)
  BY <1>9 DEF A
<1>11. Spaced(b, Len(b)) /\ c[m] = y[Len(b)]
  BY <1>2, <1>10 DEF Grown
<1>12. Len(b) \in Nat
  BY <1>5, LenProperties
<1>13. clean_html(b) = y[Len(b)]
  BY <1>5, <1>6, <1>11, <1>12, CleanLinks
<1> QED BY <1>2, <1>4, <1>11, <1>13

-----------------------------------------------------------------------------
(* The pages that are answered                                               *)

\* What has been read of a page is what the response is made of.
Read ==
    /\ pc # "answer" => page = <<>>
    /\ page # <<>> /\ ~failed =>
          /\ page \in Pages
          /\ body = IF headers.type = "html" THEN clean_html(FlattenSeq(page)) ELSE FlattenSeq(page)
          /\ headers.length = Len(body)

PInv == headers \in Headers /\ Read

LEMMA PagesAreTokens == \A p \in Pages : p \in Seq(Seq(Tokens))
<1> DEFINE S == {"href", "src", "quote", "slash", "text"}
<1>1. S \subseteq Tokens
  BY DEF Tokens
<1>2. Pages \subseteq Seq(Seq(S))
  BY SiteAssumption
<1> HIDE DEF S
<1>3. Seq(S) \subseteq Seq(Tokens)
  BY <1>1
<1> DEFINE U == Seq(S)
           V == Seq(Tokens)
<1>4. U \subseteq V
  BY <1>3
<1> HIDE DEF U, V
<1>5. Seq(U) \subseteq Seq(V)
  BY <1>4
<1> QED BY <1>2, <1>5 DEF U, V

LEMMA PlainPieces ==
    ASSUME NEW p \in Seq(Seq(Tokens)), Plain(p)
    PROVE  \A i \in 1..Len(p) : PieceIsPlain(p[i])
<1> SUFFICES ASSUME NEW i \in 1..Len(p), ~IsLink(p[i]) PROVE \A x \in 1..Len(p[i]) : p[i][x] \notin Links
  BY DEF PieceIsPlain
<1>1. DOMAIN p = 1..Len(p)
  OBVIOUS
<1>2. ToSet(p[i]) \cap Links = {}
  BY <1>1 DEF Plain
<1>3. PICK q : q = p[i]
  OBVIOUS
<1>4. q \in Seq(Tokens)
  BY <1>3, ElementOfSeq
<1>5. DOMAIN q = 1..Len(q)
  BY <1>4
<1>6. \A x \in 1..Len(q) : q[x] \in ToSet(q)
  BY <1>5 DEF ToSet
<1> QED BY <1>2, <1>3, <1>6

LEMMA FlatType == ASSUME NEW p \in Seq(Seq(Tokens)) PROVE FlattenSeq(p) \in Seq(Tokens)
<1>1. PICK m \in Nat : m = Len(p)
  BY LenProperties
<1>2. PICK a : Joined(Tokens, p, a) /\ FlattenSeq(p) = a[m]
  BY <1>1, Flattened DEF JoinsTo
<1>3. m \in 0..m
  OBVIOUS
<1> QED BY <1>1, <1>2, <1>3 DEF Joined

LEMMA PInvInit == Init => PInv
BY DEF Init, ProxyInit, PInv, Read, Headers, NoHeaders

\* Nothing is read: the headers are kept.
LEMMA NotRead ==
    ASSUME PInv, UNCHANGED <<page, failed, headers, body>>, pc # "answer" \/ pc' = pc
    PROVE  PInv'
BY DEF PInv, Read

LEMMA StockKeeps == ASSUME PInv, pc # "answer", NEW c, Stock(c) PROVE PInv'
<1>1. headers' \in Headers
  BY DEF Stock, Headers
<1>2. page = <<>> /\ page' = page
  BY DEF PInv, Read, Stock
<1> QED BY <1>1, <1>2 DEF PInv, Read

LEMMA MergedType == ASSUME headers \in Headers, NEW f \in Sent PROVE Merged(f) \in Headers
<1>1. /\ DOMAIN headers = {"location", "length", "type"}
      /\ headers.location \in Locations \cup {None} /\ headers.length \in Nat \cup {None}
      /\ headers.type \in {"html", "other", None}
  BY DEF Headers
<1>2. f.location \in Locations \cup {None} /\ f.length \in Nat \cup {None} /\ f.type \in {"html", "other", None}
  BY DEF Sent
<1>3. Merged(f) = [location |-> IF f.location # None THEN f.location ELSE headers.location,
                   length   |-> IF f.length # None THEN f.length ELSE headers.length,
                   type     |-> IF f.type # None THEN f.type ELSE headers.type]
  BY <1>1 DEF Merged
<1> QED BY <1>1, <1>2, <1>3 DEF Headers

LEMMA HeaderLinesKeep == ASSUME PInv, NEW f \in Sent, HeaderLines(f) PROVE PInv'
<1>1. pc = "headers" /\ page = <<>> /\ headers \in Headers
  BY DEF HeaderLines, PInv, Read
<1>2. page' = page
  BY DEF HeaderLines
<1>3. headers' \in Headers
  BY <1>1, MergedType DEF HeaderLines
<1> QED BY <1>1, <1>2, <1>3 DEF PInv, Read

LEMMA BodyKeeps ==
    ASSUME PInv, NEW p \in Pages, NEW n \in 0..Len(FlattenSeq(p)), Body(p, n) PROVE PInv'
<1>1. PICK b : b = FlattenSeq(p)
  OBVIOUS
<1>2. b \in Seq(Tokens) /\ Len(b) \in Nat
  BY <1>1, PagesAreTokens, FlatType, LenProperties
<1>3. headers \in Headers
  BY DEF PInv
<1>4. /\ page' = p /\ pc' = "answer" /\ failed' = (n < Len(b)) /\ headers' = [headers EXCEPT !.length = Len(body')]
      /\ body' = IF headers.type = "html" THEN clean_html(SubSeq(b, 1, n)) ELSE SubSeq(b, 1, n)
  BY <1>1 DEF Body, SetLength
<1>5. SubSeq(b, 1, n) \in Seq(Tokens)
  <2>1. 1 \in Nat \ {0} /\ n \in 0..Len(b)
    BY <1>1
  <2> QED BY <1>2, <2>1, PartOf
<1>6. body' \in Seq(Tokens)
  BY <1>4, <1>5, CleanedType
<1>7. Len(body') \in Nat
  BY <1>6, LenProperties
<1>8. headers' \in Headers /\ headers'.length = Len(body') /\ headers'.type = headers.type
  BY <1>3, <1>4, <1>7 DEF Headers
<1>9. ~failed' => SubSeq(b, 1, n) = b
  <2>1. ~failed' => n = Len(b)
    <3>1. n < Len(b) \/ n = Len(b)
      BY <1>1, <1>2
    <3>2. failed' = (n < Len(b))
      BY <1>4
    <3> QED BY <3>1, <3>2, Zenon
  <2>2. SubSeq(b, 1, Len(b)) = b
    BY <1>2, SubSeqFull
  <2> QED BY <2>1, <2>2
<1>10. ~failed' => body' = IF headers'.type = "html" THEN clean_html(b) ELSE b
  BY <1>4, <1>8, <1>9
<1> QED BY <1>1, <1>4, <1>8, <1>10 DEF PInv, Read

LEMMA PInvStep == PInv /\ [Next]_vars => PInv'
<1> SUFFICES ASSUME PInv, [Next]_vars PROVE PInv'
  OBVIOUS
<1>1. CASE UNCHANGED vars
  BY <1>1 DEF vars, proxyVars, PInv, Read
<1>2. ASSUME NEW a \in Asked, NEW h \in Hosts, Request(a, h) PROVE PInv'
  <2>1. pc = "idle" /\ UNCHANGED <<page, failed, headers, body>>
    BY <1>2 DEF Request, Serve, Begin
  <2> QED BY <2>1, NotRead
<1>3. CASE Return
  BY <1>3 DEF Return, PInv, Read, Headers, NoHeaders
<1>4. ASSUME NEW c, StatusLine(c) PROVE PInv'
  <2>1. CASE pc = "connect" /\ Stock(c)
    BY <2>1, StockKeeps
  <2>2. CASE pc = "connect" /\ UNCHANGED <<page, failed, headers, body>>
    BY <2>2, NotRead
  <2> QED BY <1>4, <2>1, <2>2 DEF StatusLine
<1>5. ASSUME NEW f \in Sent, HeaderLines(f) PROVE PInv'
  BY <1>5, HeaderLinesKeep
<1>6. CASE BadHeaderLine
  <2>1. CASE pc = "headers" /\ Stock("500")
    BY <2>1, StockKeeps
  <2>2. CASE pc = "headers" /\ UNCHANGED <<page, failed, headers, body>>
    BY <2>2, NotRead
  <2> QED BY <1>6, <2>1, <2>2 DEF BadHeaderLine
<1>7. ASSUME NEW p \in Pages, NEW n \in 0..Len(FlattenSeq(p)), Body(p, n) PROVE PInv'
  BY <1>7, BodyKeeps
<1>8. CASE Fail
  <2>1. page = <<>> /\ page' = page /\ headers' = headers
    BY <1>8 DEF Fail, Broken, PInv, Read
  <2> QED BY <2>1 DEF PInv, Read
<1> QED BY <1>1, <1>2, <1>3, <1>4, <1>5, <1>6, <1>7, <1>8 DEF Next, Step, Exchange

LEMMA PInvWhole == PInv => PageIsWhole
<1> SUFFICES ASSUME PInv, pc = "answer", page # <<>>, ~failed, Plain(page)
             PROVE  /\ body = FlattenSeq(IF headers.type = "html"
                                         THEN [i \in DOMAIN page |-> Rewritten(page[i])] ELSE page)
                    /\ headers.length = Len(body)
  BY DEF PageIsWhole
<1>1. /\ page \in Pages /\ headers.length = Len(body)
      /\ body = IF headers.type = "html" THEN clean_html(FlattenSeq(page)) ELSE FlattenSeq(page)
  BY DEF PInv, Read
<1>2. page \in Seq(Seq(Tokens))
  BY <1>1, PagesAreTokens
<1>3. \A i \in 1..Len(page) : PieceIsPlain(page[i])
  BY <1>2, PlainPieces
<1>4. clean_html(FlattenSeq(page)) = FlattenSeq([i \in DOMAIN page |-> Rewritten(page[i])])
  BY <1>2, <1>3, CleanPage DEF RewrittenAll
<1> QED BY <1>1, <1>4

THEOREM PagesAreWhole == Spec => []PageIsWhole
BY PInvInit, PInvStep, PInvWhole, PTL DEF Spec

-----------------------------------------------------------------------------
(* What url_decode makes of a URI                                            *)

\* What url_decode returns: a string or nothing.
Results == Strings \cup {Static!Failed}

After(c, rest) == IF rest = Static!Failed THEN Static!Failed ELSE <<c>> \o rest

\* What is done for the i-th character, x and y being what follows it and an encoding.
DecodeFrom(u, i, x, y) ==
    IF i > Len(u) THEN <<>>
    ELSE CASE u[i] = Static!Plus    -> After(Static!Space, x)
           [] u[i] = Static!Percent -> IF i + 2 > Len(u) \/ Static!HexValue(u[i + 1], u[i + 2]) = 256
                                       THEN Static!Failed
                                       ELSE After(Static!HexValue(u[i + 1], u[i + 2]), y)
           [] OTHER                 -> After(u[i], x)

DecodeStep(u, g, i) == DecodeFrom(u, i, g[i + 1], g[i + 3])

DecodeTable(u, g) == g = [i \in 1..(Len(u) + 3) |-> DecodeStep(u, g, i)]

LEMMA DecodeIs == ASSUME NEW u PROVE Static!url_decode(u) = (CHOOSE g : DecodeTable(u, g))[1]
BY Zenon DEF Static!url_decode, DecodeTable, DecodeStep, DecodeFrom, After

LEMMA HexType ==
    ASSUME NEW c \in 0..255, NEW d \in 0..255, Static!HexValue(c, d) # 256
    PROVE  Static!HexValue(c, d) \in 0..255
<1>1. \A x \in 0..255 : Static!Digit(x) \in 0..16
  BY DEF Static!Digit
<1>2. \A x \in 0..255 : Static!IsHex(x) => Static!Digit(x) \in 0..15
  BY <1>1 DEF Static!IsHex
<1>0. Static!IsHex(c) => c \notin {Static!Space, Static!Plus} /\ c # Static!Minus
  BY DEF Static!IsHex, Static!Digit, Static!Space, Static!Plus, Static!Minus
<1>3. CASE Static!IsHex(c) /\ Static!IsHex(d)
  <2>1. Static!HexValue(c, d) = 16 * Static!Digit(c) + Static!Digit(d)
    BY <1>0, <1>3 DEF Static!HexValue
  <2>2. Static!Digit(c) \in 0..15 /\ Static!Digit(d) \in 0..15
    BY <1>2, <1>3
  <2>3. \A x, y \in 0..15 : 16 * x + y \in 0..255
    OBVIOUS
  <2> QED BY <2>1, <2>2, <2>3
<1>4. CASE Static!IsHex(c) /\ ~Static!IsHex(d)
  <2>1. Static!HexValue(c, d) \in {256, Static!Digit(c)}
    BY <1>0, <1>4 DEF Static!HexValue
  <2>2. \A x \in 0..15 : x \in 0..255
    OBVIOUS
  <2> QED BY <1>2, <1>4, <2>1, <2>2
<1>5. CASE ~Static!IsHex(c)
  <2>1. CASE c \in {Static!Space, Static!Plus} /\ Static!IsHex(d)
    <3>1. Static!HexValue(c, d) = Static!Digit(d)
      BY <1>5, <2>1 DEF Static!HexValue, Static!Space, Static!Plus, Static!Minus
    <3>2. \A x \in 0..15 : x \in 0..255
      OBVIOUS
    <3> QED BY <1>2, <2>1, <3>1, <3>2
  <2>2. CASE c = Static!Minus /\ Static!IsHex(d)
    <3>1. Static!HexValue(c, d) = (256 - Static!Digit(d)) % 256
      BY <1>5, <2>2 DEF Static!HexValue, Static!Space, Static!Plus, Static!Minus
    <3>2. \A x \in 0..15 : (256 - x) % 256 \in 0..255
      OBVIOUS
    <3> QED BY <1>2, <2>2, <3>1, <3>2
  <2>3. CASE ~(c \in {Static!Space, Static!Plus} /\ Static!IsHex(d)) /\ ~(c = Static!Minus /\ Static!IsHex(d))
    <3>1. Static!HexValue(c, d) = 256
      BY <1>5, <2>3 DEF Static!HexValue
    <3> QED BY <3>1
  <2> QED BY <2>1, <2>2, <2>3
<1> QED BY <1>3, <1>4, <1>5

LEMMA AfterType == ASSUME NEW c \in 0..255, NEW r \in Results PROVE After(c, r) \in Results
<1>1. <<c>> \in Seq(0..255)
  OBVIOUS
<1>2. r # Static!Failed => r \in Seq(0..255)
  BY DEF Results, Strings
<1>3. r # Static!Failed => <<c>> \o r \in Seq(0..255)
  BY <1>1, <1>2, ConcatProperties
<1> QED BY <1>3 DEF After, Results, Strings

LEMMA StringElement == ASSUME NEW u \in Strings, NEW i \in 1..Len(u) PROVE u[i] \in 0..255
BY ElementOfSeq DEF Strings

\* What is done for one character.
LEMMA DecodeType ==
    ASSUME NEW u \in Strings, NEW n \in Nat, n = Len(u), NEW i \in 1..(n + 3), NEW g,
           \A e \in (i + 1)..(n + 3) : g[e] \in Results
    PROVE  DecodeStep(u, g, i) \in Results
<1>1. CASE i > n
  <2>1. DecodeStep(u, g, i) = <<>>
    BY <1>1 DEF DecodeStep, DecodeFrom
  <2>2. <<>> \in Seq(0..255)
    OBVIOUS
  <2> QED BY <2>1, <2>2 DEF Results, Strings
<1>2. CASE ~(i > n)
  <2>1. i \in 1..n /\ i + 1 \in (i + 1)..(n + 3)
    BY <1>2
  <2>2. u[i] \in 0..255
    BY <2>1, StringElement
  <2>3. g[i + 1] \in Results
    BY <2>1
  <2>4. CASE u[i] = Static!Plus
    <3>1. DecodeStep(u, g, i) = After(Static!Space, g[i + 1])
      BY <1>2, <2>4 DEF DecodeStep, DecodeFrom, Static!Plus, Static!Percent
    <3>2. Static!Space \in 0..255
      BY DEF Static!Space
    <3> QED BY <2>3, <3>1, <3>2, AfterType
  <2>5. CASE u[i] = Static!Percent
    <3>1. DecodeStep(u, g, i) = IF i + 2 > n \/ Static!HexValue(u[i + 1], u[i + 2]) = 256
                                THEN Static!Failed
                                ELSE After(Static!HexValue(u[i + 1], u[i + 2]), g[i + 3])
      BY <1>2, <2>5 DEF DecodeStep, DecodeFrom, Static!Plus, Static!Percent
    <3>2. CASE i + 2 > n \/ Static!HexValue(u[i + 1], u[i + 2]) = 256
      BY <3>1, <3>2 DEF Results
    <3>3. CASE ~(i + 2 > n \/ Static!HexValue(u[i + 1], u[i + 2]) = 256)
      <4>1. i + 1 \in 1..n /\ i + 2 \in 1..n /\ i + 3 \in (i + 1)..(n + 3)
        BY <2>1, <3>3
      <4>2. u[i + 1] \in 0..255 /\ u[i + 2] \in 0..255
        BY <4>1, StringElement
      <4>3. Static!HexValue(u[i + 1], u[i + 2]) \in 0..255
        BY <3>3, <4>2, HexType
      <4>4. g[i + 3] \in Results
        BY <4>1
      <4> QED BY <3>1, <3>3, <4>3, <4>4, AfterType
    <3> QED BY <3>2, <3>3
  <2>6. CASE u[i] # Static!Plus /\ u[i] # Static!Percent
    <3>1. DecodeStep(u, g, i) = After(u[i], g[i + 1])
      BY <1>2, <2>6 DEF DecodeStep, DecodeFrom
    <3> QED BY <2>2, <2>3, <3>1, AfterType
  <2> QED BY <2>4, <2>5, <2>6
<1> QED BY <1>1, <1>2

LEMMA DecodeLocal ==
    ASSUME NEW u, NEW n \in Nat, n = Len(u), NEW i \in 1..(n + 3), NEW g, NEW h,
           \A e \in (i + 1)..(n + 3) : g[e] = h[e]
    PROVE  DecodeStep(u, g, i) = DecodeStep(u, h, i)
<1>1. CASE i > n
  BY <1>1 DEF DecodeStep, DecodeFrom
<1>2. CASE ~(i > n)
  <2>1. i + 1 \in (i + 1)..(n + 3) /\ i + 3 \in (i + 1)..(n + 3)
    BY <1>2
  <2>2. g[i + 1] = h[i + 1] /\ g[i + 3] = h[i + 3]
    BY <2>1
  <2> QED BY <2>2 DEF DecodeStep
<1> QED BY <1>1, <1>2

Decoded(u, g) == g \in [1..(Len(u) + 3) -> Results] /\ \A i \in 1..(Len(u) + 3) : g[i] = DecodeStep(u, g, i)

LEMMA DecodeExists ==
    ASSUME NEW u \in Strings
    PROVE  \E g : DecodeTable(u, g)
<1>1. PICK n \in Nat : n = Len(u)
  BY LenProperties DEF Strings
<1> DEFINE D == 1..(n + 3)
           V == Results
           rank == [i \in D |-> n + 3 - i]
           G == [f \in [D -> V] |-> [i \in D |-> DecodeStep(u, f, i)]]
<1>2. ASSUME NEW f \in [D -> V], NEW i \in D PROVE DecodeStep(u, f, i) \in V
  <2>1. \A e \in (i + 1)..(n + 3) : e \in D
    OBVIOUS
  <2>2. \A e \in (i + 1)..(n + 3) : f[e] \in Results
    BY <2>1
  <2> QED BY <1>1, <2>2, DecodeType
<1>3. rank \in [D -> 0..(n + 3)] /\ n + 3 \in Nat
  OBVIOUS
<1> HIDE DEF V
<1>4. G \in [[D -> V] -> [D -> V]]
  BY <1>2
<1>5. [D -> V] # {}
  <2>1. Static!Failed \in V
    BY DEF V, Results
  <2>2. [i \in D |-> Static!Failed] \in [D -> V]
    BY <2>1
  <2> QED BY <2>2
<1>6. ASSUME NEW g \in [D -> V], NEW h \in [D -> V], NEW d \in D,
             \A e \in D : rank[e] < rank[d] => g[e] = h[e]
      PROVE  G[g][d] = G[h][d]
  <2>1. \A e \in (d + 1)..(n + 3) : e \in D /\ rank[e] < rank[d]
    OBVIOUS
  <2>2. \A e \in (d + 1)..(n + 3) : g[e] = h[e]
    BY <1>6, <2>1
  <2>3. DecodeStep(u, g, d) = DecodeStep(u, h, d)
    BY <1>1, <2>2, DecodeLocal
  <2> QED BY <2>3
<1>7. Recursive(D, V, n + 3, rank, G)
  <2> HIDE DEF G, rank
  <2> QED BY <1>3, <1>4, <1>5, <1>6 DEF Recursive
<1>8. Defines(D, V, G)
  <2> HIDE DEF G, rank, D
  <2> QED BY <1>7, Recursion
<1>9. PICK f \in [D -> V] : f = G[f]
  <2> HIDE DEF G
  <2> QED BY <1>8 DEF Defines
<1>10. f = [i \in D |-> DecodeStep(u, f, i)]
  BY <1>9
<1> QED BY <1>1, <1>10 DEF DecodeTable

\* What url_decode computes, from the end of the URI on.
LEMMA DecodeSteps ==
    ASSUME NEW u \in Strings
    PROVE  \E g : Decoded(u, g) /\ Static!url_decode(u) = g[1]
<1>1. PICK n \in Nat : n = Len(u)
  BY LenProperties DEF Strings
<1>2. PICK g : g = CHOOSE f : DecodeTable(u, f)
  OBVIOUS
<1>3. g = [i \in 1..(n + 3) |-> DecodeStep(u, g, i)]
  BY <1>1, <1>2, DecodeExists DEF DecodeTable
<1> DEFINE P == {i \in 1..(n + 3) : g[i] \in Results}
<1>4. \A i \in 1..(n + 3) : g[i] = DecodeStep(u, g, i)
  BY <1>3
<1>5. ASSUME NEW i \in 1..(n + 3), (i + 1)..(n + 3) \subseteq P PROVE i \in P
  <2>1. \A e \in (i + 1)..(n + 3) : g[e] \in Results
    BY <1>5
  <2>2. DecodeStep(u, g, i) \in Results
    BY <1>1, <2>1, DecodeType
  <2> QED BY <1>4, <2>2
<1>6. 1..(n + 3) \subseteq P
  <2> HIDE DEF P
  <2>1. PICK m \in Nat : m = n + 3
    OBVIOUS
  <2> QED BY <1>5, <2>1, Downwards
<1>7. g \in [1..(n + 3) -> Results]
  <2>1. \A i \in 1..(n + 3) : g[i] \in Results
    BY <1>6
  <2>2. g = [i \in 1..(n + 3) |-> g[i]]
    BY <1>3
  <2> QED BY <2>1, <2>2
<1> QED BY <1>1, <1>2, <1>4, <1>7, DecodeIs DEF Decoded

LEMMA DecodedType == ASSUME NEW u \in Strings PROVE Static!url_decode(u) \in Results
<1>1. PICK g : Decoded(u, g) /\ Static!url_decode(u) = g[1]
  BY DecodeSteps
<1>2. 1 \in 1..(Len(u) + 3)
  BY LenProperties DEF Strings
<1> QED BY <1>1, <1>2 DEF Decoded

-----------------------------------------------------------------------------
(* Types                                                                     *)

LEMMA EmptyString == <<>> \in Strings
BY DEF Strings

LEMMA CheckedType == ASSUME NEW u \in Strings PROVE Static!check_request_path(u) \in Results
<1>1. PICK d : d = Static!url_decode(u)
  OBVIOUS
<1>2. d \in Results
  BY <1>1, DecodedType
<1>3. Static!check_request_path(u) \in {Static!Failed, d, d \o Static!Index}
  BY <1>1 DEF Static!check_request_path
<1>4. d # Static!Failed => d \in Strings
  BY <1>2 DEF Results
<1>5. Static!Index \in Seq(0..255)
  BY DEF Static!Index
<1>6. d # Static!Failed => d \o Static!Index \in Seq(0..255)
  BY <1>4, <1>5, ConcatProperties DEF Strings
<1>7. d = Static!Failed => Static!check_request_path(u) = Static!Failed
  BY <1>1 DEF Static!check_request_path
<1> QED BY <1>3, <1>4, <1>6, <1>7 DEF Results, Strings

\* The first place at which t stands in s.
LEMMA FindIs ==
    ASSUME NEW s \in Strings, NEW t \in Strings, NEW k, k = Static!Find(s, t), k # 0
    PROVE  k \in 1..Len(s) /\ k + Len(t) - 1 <= Len(s)
<1> DEFINE q == [i \in DOMAIN s |-> i]
           I == {i \in 1..Len(q) : q[i] + Len(t) - 1 <= Len(s) /\ SubSeq(s, q[i], q[i] + Len(t) - 1) = t}
<1>1. Len(s) \in Nat /\ Len(t) \in Nat
  BY LenProperties DEF Strings
<1>2. Len(q) = Len(s) /\ \A i \in 1..Len(s) : q[i] = i
  BY <1>1, LenProperties DEF Strings
<1>3. k = IF I # {} THEN Static!Min(I) ELSE 0
  BY DEF Static!Find, Static!SelectInSeq
<1>4. \A i \in I : i \in 1..Len(s) /\ i \in Nat /\ i + Len(t) - 1 <= Len(s)
  BY <1>1, <1>2
<1> HIDE DEF I
<1>5. I # {} /\ I \in SUBSET Nat
  BY <1>3, <1>4
<1>6. \E x \in I : \A y \in I : x <= y
  BY <1>5, LeastExists
<1>7. Static!Min(I) \in I
  BY <1>6 DEF Static!Min
<1> QED BY <1>3, <1>4, <1>5, <1>7

LEMMA ReplacedType ==
    ASSUME NEW h, h.path_ \in Strings, h.root_ \in Strings, NEW p \in Strings
    PROVE  Static!replace_path(h, p) \in Results
<1>1. PICK k, t, r : k = Static!Find(p, h.path_) /\ t = h.path_ /\ r = h.root_
  OBVIOUS
<1>2. CASE k = 0
  BY <1>1, <1>2 DEF Static!replace_path, Results
<1>3. CASE k # 0
  <2>1. PICK n \in Nat, l \in Nat : n = Len(p) /\ l = Len(t)
    BY <1>1, LenProperties DEF Strings
  <2>2. k \in 1..n /\ k + l - 1 <= n
    BY <1>1, <1>3, <2>1, FindIs
  <2>3. PICK x, y : x = SubSeq(p, 1, k - 1) /\ y = SubSeq(p, k + l, n)
    OBVIOUS
  <2>4. x \in Seq(0..255)
    <3>1. 1 \in Nat \ {0} /\ k - 1 \in 0..n /\ 1 <= (k - 1) + 1
      BY <2>2
    <3> QED BY <2>1, <2>3, <3>1, PartIs DEF Strings
  <2>5. y \in Seq(0..255)
    <3>1. k + l \in Nat \ {0} /\ n \in 0..n /\ k + l <= n + 1
      BY <2>1, <2>2
    <3> QED BY <2>1, <2>3, <3>1, PartIs DEF Strings
  <2>6. Static!replace_path(h, p) = (x \o r) \o y
    BY <1>1, <1>3, <2>1, <2>3 DEF Static!replace_path, Static!ReplaceSubSeqAt
  <2>7. r \in Seq(0..255)
    BY <1>1 DEF Strings
  <2>8. x \o r \in Seq(0..255)
    BY <2>4, <2>7, ConcatProperties
  <2>9. (x \o r) \o y \in Seq(0..255)
    BY <2>5, <2>8, ConcatProperties
  <2> QED BY <2>6, <2>9 DEF Results, Strings
<1> QED BY <1>2, <1>3

LEMMA ExtensionType == ASSUME NEW f \in Strings PROVE Static!get_extension(f) \in Strings
<1> DEFINE D == {i \in 1..Len(f) : f[i] = Static!Dot}
           S == {i \in 1..Len(f) : f[i] = Static!Slash}
           dot   == IF D # {} THEN Static!Max(D) ELSE 0
           slash == IF S # {} THEN Static!Max(S) ELSE 0
<1>1. Len(f) \in Nat
  BY LenProperties DEF Strings
<1>2. Static!get_extension(f) = IF dot > slash THEN SubSeq(f, dot + 1, Len(f)) ELSE <<>>
  BY DEF Static!get_extension, Static!SelectLastInSeq
<1>3. dot \in 0..Len(f)
  <2>1. D \in SUBSET (1..Len(f))
    OBVIOUS
  <2> HIDE DEF D
  <2>2. D # {} => Static!Max(D) \in D
    BY <1>1, <2>1, LastExists
  <2>3. \A i \in D : i \in 0..Len(f)
    BY <1>1, <2>1
  <2> QED BY <1>1, <2>2, <2>3
<1> HIDE DEF dot, slash
<1>4. SubSeq(f, dot + 1, Len(f)) \in Strings
  BY <1>3, RestIs
<1> QED BY <1>2, <1>4, EmptyString

\* What a static handler answers.
AnswerOK(r) == r.code \in {"200", "400", "404", "500"} /\ r.file \in Strings /\ r.extension \in Strings

\* The first NUL, if there is one, is in the string.
LEMMA CutIs ==
    ASSUME NEW s \in Strings
    PROVE  Static!c_str(s) \in Strings /\ (0 \notin ToSet(s) => Static!c_str(s) = s)
<1> DEFINE I == {i \in 1..Len(s) : s[i] = 0}
           k == IF I # {} THEN Static!Min(I) ELSE 0
<1>1. Len(s) \in Nat /\ DOMAIN s = 1..Len(s)
  BY LenProperties DEF Strings
<1>2. Static!c_str(s) = IF k = 0 THEN s ELSE SubSeq(s, 1, k - 1)
  BY DEF Static!c_str, Static!SelectInSeq
<1>3. \A i \in I : i \in 1..Len(s) /\ i \in Nat /\ s[i] \in ToSet(s) /\ s[i] = 0
  BY <1>1 DEF ToSet
<1> HIDE DEF I
<1>4. k = 0 \/ k \in 1..Len(s)
  <2>1. CASE I # {}
    <3>1. \E x \in I : \A y \in I : x <= y
      BY <1>3, <2>1, LeastExists
    <3>2. Static!Min(I) \in I
      BY <3>1 DEF Static!Min
    <3> QED BY <1>3, <2>1, <3>2
  <2> QED BY <2>1
<1>5. 0 \notin ToSet(s) => k = 0
  BY <1>3
<1> HIDE DEF k
<1>6. k # 0 => SubSeq(s, 1, k - 1) \in Strings
  <2>1. k # 0 => 1 \in Nat \ {0} /\ k - 1 \in 0..Len(s) /\ 1 <= (k - 1) + 1
    BY <1>1, <1>4
  <2> QED BY <2>1, PartIs
<1> QED BY <1>2, <1>5, <1>6

LEMMA AnswerType ==
    ASSUME NEW h, h.path_ \in Strings, h.root_ \in Strings, NEW u \in Strings, NEW found \in BOOLEAN
    PROVE  AnswerOK(Static!handle_request(h, u, found))
<1>1. PICK p, f : p = Static!check_request_path(u) /\ f = Static!replace_path(h, p)
  OBVIOUS
<1>2. p \in Results /\ (p # Static!Failed => p \in Strings)
  BY <1>1, CheckedType DEF Results
<1>3. CASE p = Static!Failed
  <2>1. Static!handle_request(h, u, found) = [code |-> "400", file |-> <<>>, extension |-> <<>>]
    BY Zenon, <1>1, <1>3 DEF Static!handle_request
  <2> QED BY <2>1, EmptyString DEF AnswerOK
<1>4. CASE p # Static!Failed /\ f = Static!Failed
  <2>1. Static!handle_request(h, u, found) = [code |-> "500", file |-> <<>>, extension |-> <<>>]
    BY Zenon, <1>1, <1>4 DEF Static!handle_request
  <2> QED BY <2>1, EmptyString DEF AnswerOK
<1>5. CASE p # Static!Failed /\ f # Static!Failed
  <2>1. f \in Results
    BY <1>1, <1>2, <1>5, ReplacedType
  <2>2. f \in Strings
    BY <1>5, <2>1 DEF Results
  <2>3. Static!handle_request(h, u, found) = 
            [code |-> IF found THEN "200" ELSE "404", file |-> Static!c_str(f),
             extension |-> Static!get_extension(f)]
    BY Zenon, <1>1, <1>5 DEF Static!handle_request
  <2> QED BY <2>2, <2>3, ExtensionType, CutIs DEF AnswerOK
<1> QED BY <1>3, <1>4, <1>5

\* Some location serves every request.
LEMMA LocationType == ASSUME NEW u PROVE LocationFor(u) \in SiteLocations
<1>1. PICK l : l = Dispatch!Longest(SegmentsOf(u))
  OBVIOUS
<1>2. LocationFor(u) = IF l = {} THEN <<Slash>> ELSE PathOf(CHOOSE p \in l : TRUE)
  BY <1>1 DEF LocationFor
<1>3. l \subseteq SegmentPaths
  BY <1>1 DEF Dispatch!Longest, Dispatch!Mapped
<1>4. \A s \in SegmentPaths : PathOf(s) \in SiteLocations
  BY DEF SegmentPaths, PathOf
<1>5. <<Slash>> \in SiteLocations
  BY SiteAssumption DEF SiteLocations
<1> QED BY <1>2, <1>3, <1>4, <1>5

LEMMA StrippedType ==
    ASSUME NEW u \in Strings, Len(u) >= Len(path_) - 1
    PROVE  Stripped(u) \in Strings
<1>1. PICK n \in Nat, l \in Nat : n = Len(u) /\ l = Len(path_)
  BY LenProperties, SiteAssumption DEF Strings, SiteLocations
<1>2. l # 0
  BY <1>1, EmptySeq, SiteAssumption DEF Strings, SiteLocations
<1>3. l \in Nat \ {0} /\ n \in 0..n /\ l <= n + 1
  BY <1>1, <1>2
<1>4. PICK s : s = SubSeq(u, l, n)
  OBVIOUS
<1>5. s \in Seq(0..255)
  BY <1>1, <1>3, <1>4, PartIs DEF Strings
<1>6. <<Slash>> \in Seq(0..255)
  BY DEF Slash
<1>7. <<Slash>> \o s \in Seq(0..255)
  BY <1>5, <1>6, ConcatProperties
<1>8. Stripped(u) \in {s, <<Slash>> \o s}
  BY <1>1, <1>4 DEF Stripped
<1> QED BY <1>5, <1>7, <1>8 DEF Strings

\* TypeOK by its parts: what the request is, and what the exchange has of it.
RequestOK ==
    /\ uri \in Strings /\ asked \in Strings /\ file \in Strings /\ extension \in Strings
    /\ host \in Hosts \cup {None} /\ location \in SiteLocations \cup {None}

ExchangeOK ==
    /\ pc \in {"idle", "connect", "headers", "body", "answer", "threw", "undefined"}
    /\ target \in Strings /\ loop_count \in 0..Limit
    /\ code \in Codes /\ headers \in Headers
    /\ page \in Pages \cup {<<>>} /\ failed \in BOOLEAN /\ body \in Seq(Tokens)

LEMMA Parted == TypeOK <=> RequestOK /\ ExchangeOK /\ sends \in 0..Limit
BY DEF TypeOK, RequestOK, ExchangeOK, Tokens

TInv == SInv /\ RequestOK /\ ExchangeOK

LEMMA EmptyPage == <<>> \in Seq(Tokens) /\ <<"text">> \in Seq(Tokens)
<1>1. "text" \in Tokens
  BY DEF Tokens
<1> QED BY <1>1, OneToken

LEMMA NoHeadersType == NoHeaders \in Headers
BY DEF NoHeaders, Headers

LEMMA TInvInit == Init => TInv
<1> SUFFICES ASSUME Init PROVE TInv
  OBVIOUS
<1>1. RequestOK
  BY EmptyString, SiteAssumption DEF Init, ProxyInit, RequestOK
<1>2. ExchangeOK
  <2>1. pc = "idle" /\ target = <<>> /\ loop_count = 0 /\ code = "404" /\ headers = NoHeaders
    BY DEF Init, ProxyInit
  <2>2. page = <<>> /\ failed \in BOOLEAN /\ body = <<>>
    BY DEF Init, ProxyInit
  <2>3. loop_count \in 0..Limit /\ code \in Codes
    BY <2>1 DEF Limit, Codes
  <2> QED BY <2>1, <2>2, <2>3, EmptyString, EmptyPage, NoHeadersType DEF ExchangeOK
<1> QED BY <1>1, <1>2, SInvInit DEF TInv

LEMMA RequestTypes == ASSUME TInv, NEW a \in Asked, NEW h \in Hosts, Request(a, h) PROVE RequestOK' /\ ExchangeOK'
<1>1. /\ a.uri \in Strings /\ a.path \in Strings /\ asked' = a.path /\ location' = LocationFor(a.uri)
      /\ pc = "idle" /\ RequestOK /\ ExchangeOK
  BY SiteAssumption DEF Request, TInv
<1>2. location' \in SiteLocations
  BY <1>1, LocationType
<1>3. CASE location' # path_ /\ h = None /\ Serve(a.uri, h)
  <2>a. PICK found \in BOOLEAN :
           LET r == Static!handle_request(StaticHandler(LocationFor(a.uri)), a.uri, found)
           IN  file' = r.file /\ extension' = r.extension /\ code' = r.code
    BY <1>3 DEF Serve
  <2>1. PICK r : r = Static!handle_request(StaticHandler(LocationFor(a.uri)), a.uri, found)
    OBVIOUS
  <2>2. AnswerOK(r)
    <3>1. PICK l : l = LocationFor(a.uri)
      OBVIOUS
    <3>2. l \in DOMAIN StaticRoots
      BY <1>1, <1>2, <1>3, <3>1 DEF SiteLocations
    <3>3. l \in Strings /\ StaticRoots[l] \in Strings
      BY <3>2, SiteAssumption DEF SiteLocations
    <3>4. PICK g : g = StaticHandler(l)
      OBVIOUS
    <3>5. g.path_ \in Strings /\ g.root_ \in Strings
      BY <3>3, <3>4 DEF StaticHandler
    <3> QED BY <1>1, <2>1, <3>1, <3>4, <3>5, AnswerType
  <2>3. /\ file' = r.file /\ extension' = r.extension /\ code' = r.code
        /\ pc' = "answer" /\ uri' = a.uri /\ host' = h
        /\ UNCHANGED <<target, loop_count, headers, body, page, failed>>
    BY <1>3, <2>a, <2>1 DEF Serve
  <2>4. RequestOK'
    BY <1>1, <1>2, <2>2, <2>3 DEF RequestOK, AnswerOK
  <2>5. ExchangeOK'
    BY <1>1, <2>2, <2>3 DEF ExchangeOK, AnswerOK, Codes
  <2> QED BY <2>4, <2>5
<1>4. CASE location' = path_ /\ Begin(a.uri, h) /\ UNCHANGED <<file, extension>>
  <2>1. /\ uri' = a.uri /\ host' = h /\ UNCHANGED <<file, extension, loop_count, code, headers, body, page, failed>>
        /\ \/ pc' = "threw" /\ target' = target
           \/ Len(a.uri) >= Len(path_) - 1 /\ pc' = "connect" /\ target' = Stripped(a.uri)
    <3>1. Len(a.uri) \in Nat /\ Len(path_) \in Nat
      BY <1>1, LenProperties, SiteAssumption DEF Strings, SiteLocations
    <3>2. ~(Len(a.uri) < Len(path_) - 1) => Len(a.uri) >= Len(path_) - 1
      BY <3>1
    <3> QED BY <1>4, <3>2 DEF Begin
  <2>2. target' \in Strings
    BY <1>1, <2>1, StrippedType DEF ExchangeOK
  <2>3. RequestOK'
    BY <1>1, <1>2, <2>1 DEF RequestOK
  <2>4. ExchangeOK'
    BY <1>1, <2>1, <2>2 DEF ExchangeOK
  <2> QED BY <2>3, <2>4
<1> QED BY <1>3, <1>4 DEF Request

LEMMA ReturnTypes == ASSUME TInv, Return PROVE RequestOK' /\ ExchangeOK'
<1>1. RequestOK'
  BY EmptyString DEF Return, RequestOK
<1>2. ExchangeOK'
  <2>1. pc' = "idle" /\ target' = <<>> /\ loop_count' = 0 /\ code' = "404" /\ headers' = NoHeaders
    BY DEF Return
  <2>2. page' = <<>> /\ failed' \in BOOLEAN /\ body' = <<>>
    BY DEF Return
  <2>3. loop_count' \in 0..Limit /\ code' \in Codes
    BY <2>1 DEF Limit, Codes
  <2> QED BY <2>1, <2>2, <2>3, EmptyString, EmptyPage, NoHeadersType DEF ExchangeOK
<1> QED BY <1>1, <1>2

\* Nothing but the response's status and failed, and where the request stands.
LEMMA StockTypes == ASSUME ExchangeOK, NEW c \in Codes, Stock(c) PROVE ExchangeOK'
<1>1. headers' \in Headers
  BY DEF Stock, Headers
<1> QED BY <1>1, EmptyPage DEF Stock, ExchangeOK

LEMMA RedirectType == ASSUME NEW l \in Locations \cup {None} PROVE redirect_request(l) \in Strings
BY SiteAssumption, EmptyString DEF redirect_request

LEMMA HeaderLinesTypes == ASSUME SInv, ExchangeOK, NEW f \in Sent, HeaderLines(f) PROVE ExchangeOK'
<1>2. CASE headers' = Merged(f) /\ UNCHANGED <<uri, host, code, body, page, failed>>
           /\ \/ Redirect(headers'.location)
              \/ pc' = "body" /\ UNCHANGED <<target, loop_count>>
  <2>1. headers' \in Headers
    BY <1>2, MergedType DEF ExchangeOK
  <2>2. headers'.location \in Locations \cup {None}
    BY <2>1 DEF Headers
  <2>3. CASE Redirect(headers'.location)
    <3>1. /\ target' = redirect_request(headers'.location) /\ loop_count' = loop_count + 1
          /\ pc' \in {"connect", "answer"}
      BY <2>3 DEF Redirect
    <3>2. target' \in Strings
      BY <2>2, <3>1, RedirectType
    <3>3. loop_count \in 0..Limit /\ loop_count < Limit
      BY DEF SInv, Hops, HeaderLines
    <3>4. loop_count' \in 0..Limit
      BY <3>1, <3>3 DEF Limit
    <3> QED BY <1>2, <2>1, <3>1, <3>2, <3>4 DEF ExchangeOK
  <2>4. CASE pc' = "body" /\ UNCHANGED <<target, loop_count>>
    BY <1>2, <2>1, <2>4 DEF ExchangeOK
  <2> QED BY <1>2, <2>3, <2>4
<1> QED BY <1>2 DEF HeaderLines

LEMMA BodyTypes ==
    ASSUME ExchangeOK, NEW p \in Pages, NEW n \in 0..Len(FlattenSeq(p)), Body(p, n) PROVE ExchangeOK'
<1>1. PICK b : b = FlattenSeq(p)
  OBVIOUS
<1>2. b \in Seq(Tokens) /\ Len(b) \in Nat
  BY <1>1, PagesAreTokens, FlatType, LenProperties
<1>3. /\ page' = p /\ pc' = "answer" /\ failed' \in BOOLEAN /\ headers' = [headers EXCEPT !.length = Len(body')]
      /\ body' = IF headers.type = "html" THEN clean_html(SubSeq(b, 1, n)) ELSE SubSeq(b, 1, n)
      /\ UNCHANGED <<target, loop_count, code>>
  BY <1>1 DEF Body, SetLength
<1>4. SubSeq(b, 1, n) \in Seq(Tokens)
  <2>1. 1 \in Nat \ {0} /\ n \in 0..Len(b)
    BY <1>1
  <2> QED BY <1>2, <2>1, PartOf
<1>5. body' \in Seq(Tokens)
  BY <1>3, <1>4, CleanedType
<1>6. headers' \in Headers
  <2>1. Len(body') \in Nat
    BY <1>5, LenProperties
  <2> QED BY <1>3, <2>1 DEF ExchangeOK, Headers
<1> QED BY <1>3, <1>5, <1>6 DEF ExchangeOK

LEMMA ExchangeTypes ==
    ASSUME TInv, Exchange, UNCHANGED <<location, asked, file, extension>> PROVE RequestOK' /\ ExchangeOK'
<1>0. SInv /\ RequestOK /\ ExchangeOK
  BY DEF TInv
<1>1. UNCHANGED <<uri, host>>
  BY DEF Exchange, StatusLine, Stock, HeaderLines, Broken, BadHeaderLine, Body, Fail
<1>2. RequestOK'
  BY <1>0, <1>1 DEF RequestOK
<1>3. ASSUME NEW c \in {"200", "302", "404", "500"}, StatusLine(c) PROVE ExchangeOK'
  <2>1. c \in Codes
    BY DEF Codes
  <2>2. CASE Stock(c)
    BY <1>0, <2>1, <2>2, StockTypes
  <2>3. CASE code' = c /\ pc' = "headers" /\ UNCHANGED <<uri, host, target, loop_count, headers, body, page, failed>>
    BY <1>0, <2>1, <2>3 DEF ExchangeOK
  <2> QED BY <1>3, <2>2, <2>3 DEF StatusLine
<1>4. ASSUME NEW f \in Sent, HeaderLines(f) PROVE ExchangeOK'
  BY <1>0, <1>4, HeaderLinesTypes
<1>5. ASSUME BadHeaderLine PROVE ExchangeOK'
  <2>1. "500" \in Codes
    BY DEF Codes
  <2>2. CASE Stock("500")
    BY <1>0, <2>1, <2>2, StockTypes
  <2>3. CASE pc' = "undefined" /\ UNCHANGED <<uri, host, target, loop_count, code, headers, body, page, failed>>
    BY <1>0, <2>3 DEF ExchangeOK
  <2> QED BY <1>5, <2>2, <2>3 DEF BadHeaderLine
<1>6. ASSUME NEW p \in Pages, NEW n \in 0..Len(FlattenSeq(p)), Body(p, n) PROVE ExchangeOK'
  BY <1>0, <1>6, BodyTypes
<1>7. ASSUME Fail PROVE ExchangeOK'
  BY <1>0, <1>7 DEF Fail, Broken, ExchangeOK
<1> QED BY <1>2, <1>3, <1>4, <1>5, <1>6, <1>7 DEF Exchange

LEMMA TInvStep == TInv /\ [Next]_vars => TInv'
<1> SUFFICES ASSUME TInv, [Next]_vars PROVE TInv'
  OBVIOUS
<1>1. SInv'
  BY SInvStep DEF TInv
<1>2. CASE UNCHANGED vars
  <2>1. RequestOK' /\ ExchangeOK'
    BY <1>2 DEF TInv, vars, proxyVars, RequestOK, ExchangeOK
  <2> QED BY <1>1, <2>1 DEF TInv
<1>3. ASSUME NEW a \in Asked, NEW h \in Hosts, Request(a, h) PROVE TInv'
  BY <1>1, <1>3, RequestTypes DEF TInv
<1>4. CASE Return
  BY <1>1, <1>4, ReturnTypes DEF TInv
<1>5. CASE Exchange /\ UNCHANGED <<location, asked, file, extension>>
  BY <1>1, <1>5, ExchangeTypes DEF TInv
<1> QED BY <1>2, <1>3, <1>4, <1>5 DEF Next, Step

\* The state is well formed, whatever URIs clients ask for and whatever the upstream
\* sends: the files and extensions that come out of url_decode and replace_path are
\* strings, and the pages of clean_html consist of the tokens that went in and the path.
THEOREM TypeCorrect == Spec => []TypeOK
<1>1. TInv => TypeOK
  BY Parted DEF TInv, SInv, Hops
<1> QED BY <1>1, TInvInit, TInvStep, PTL DEF Spec

-----------------------------------------------------------------------------
(* The path a URI encodes                                                    *)

LEMMA NoStringFailed == ASSUME NEW r \in Strings PROVE r # Static!Failed
<1> SUFFICES ASSUME r = Static!Failed PROVE FALSE
  OBVIOUS
<1>1. Len(r) = 1 /\ r[1] = 256
  BY DEF Static!Failed
<1>2. 1 \in 1..Len(r)
  BY <1>1
<1>3. r[1] \in 0..255
  BY <1>2, StringElement
<1> QED BY <1>1, <1>3

LEMMA HexIs ==
    ASSUME NEW c \in HexDigits, NEW d \in HexDigits
    PROVE  Static!HexValue(c, d) = 16 * Static!Digit(c) + Static!Digit(d)
<1>1. Static!IsHex(c) /\ Static!IsHex(d)
  BY DEF HexDigits
<1>2. c \notin {Static!Space, Static!Plus} /\ c # Static!Minus
  BY <1>1 DEF Static!IsHex, Static!Digit, Static!Space, Static!Plus, Static!Minus
<1> QED BY <1>1, <1>2 DEF Static!HexValue

\* A string's first character and the rest of it.
SplitAt(s, k, m) == <<s[k + 1]>> \o SubSeq(s, k + 2, m) = SubSeq(s, k + 1, m)

LEMMA Splits ==
    ASSUME NEW s \in Strings, NEW m \in Nat, m = Len(s), NEW k \in 0..(m - 1)
    PROVE  SplitAt(s, k, m)
<1>1. k + 1 \in 1..m /\ m \in (k + 1)..m /\ (k + 1) + 1 = k + 2
  OBVIOUS
<1>2. SubSeq(s, k + 1, m) = <<s[k + 1]>> \o SubSeq(s, (k + 1) + 1, m)
  BY <1>1, SubSeqRecursiveFirst DEF Strings
<1> QED BY <1>1, <1>2 DEF SplitAt

\* From what its k-th part leaves, the rest of the path is decoded.
DecodesFrom(g, a, s, m, k) == g[Len(a[k]) + 1] = SubSeq(s, k + 1, m)

\* r is what is decoded behind a part that stands after the first p, and c, then r, with it.
DecodedBehind(g, p, part, r) == g[p + Len(part) + 1] = r
DecodedWith(g, p, c, r) == g[p + 1] = <<c>> \o r

LEMMA PartDecodes ==
    ASSUME NEW u \in Strings, NEW g, Decoded(u, g), NEW p \in Nat, NEW part, Stands(u, p, part),
           NEW c \in 0..255, Encodes(part, c), NEW r \in Strings, DecodedBehind(g, p, part, r)
    PROVE  DecodedWith(g, p, c, r)
<1> USE DEF DecodedBehind, DecodedWith
<1>1. PICK n \in Nat : n = Len(u)
  BY LenProperties DEF Strings
<1>2. p + Len(part) <= n /\ \A x \in 1..Len(part) : u[p + x] = part[x]
  BY <1>1 DEF Stands
<1>3. After(c, r) = <<c>> \o r
  BY NoStringFailed DEF After
<1>4. PICK q : q = p + 1
  OBVIOUS
<1>5. ASSUME Len(part) \in Nat, Len(part) >= 1
      PROVE  /\ q \in 1..n /\ ~(q > n) /\ u[q] = part[1]
             /\ g[q] = DecodeFrom(u, q, g[q + 1], g[q + 3])
  <2>1. q \in 1..n /\ q \in 1..(n + 3) /\ 1 \in 1..Len(part)
    BY <1>2, <1>4, <1>5
  <2>2. u[q] = part[1]
    BY <1>2, <1>4, <2>1
  <2>3. g[q] = DecodeStep(u, g, q)
    BY <1>1, <2>1 DEF Decoded
  <2> QED BY <2>1, <2>2, <2>3 DEF DecodeStep
<1>6. CASE part = <<c>> /\ c \notin {Static!Plus, Static!Percent}
  <2>1. Len(part) = 1 /\ part[1] = c
    BY <1>6
  <2>2. q \in 1..n /\ ~(q > n) /\ u[q] = c /\ g[q] = DecodeFrom(u, q, g[q + 1], g[q + 3])
    BY <1>5, <2>1
  <2>3. g[q] = After(u[q], g[q + 1])
    BY <1>1, <1>6, <2>2 DEF DecodeFrom
  <2>4. p + Len(part) + 1 = q + 1
    BY <1>4, <2>1
  <2> QED BY <1>3, <1>4, <2>2, <2>3, <2>4
<1>7. CASE part = <<Static!Plus>> /\ c = Static!Space
  <2>1. Len(part) = 1 /\ part[1] = Static!Plus
    BY <1>7
  <2>2. q \in 1..n /\ ~(q > n) /\ u[q] = Static!Plus /\ g[q] = DecodeFrom(u, q, g[q + 1], g[q + 3])
    BY <1>5, <2>1
  <2>3. g[q] = After(Static!Space, g[q + 1])
    BY <1>1, <2>2 DEF DecodeFrom, Static!Plus, Static!Percent
  <2>4. p + Len(part) + 1 = q + 1
    BY <1>4, <2>1
  <2> QED BY <1>3, <1>4, <1>7, <2>3, <2>4
<1>8. ASSUME NEW d \in HexDigits, NEW e \in HexDigits, part = <<Static!Percent, d, e>>,
             c = 16 * Static!Digit(d) + Static!Digit(e)
      PROVE  DecodedWith(g, p, c, r)
  <2>1. Len(part) = 3 /\ part[1] = Static!Percent /\ part[2] = d /\ part[3] = e
    BY <1>8
  <2>2. q \in 1..n /\ ~(q > n) /\ u[q] = Static!Percent /\ g[q] = DecodeFrom(u, q, g[q + 1], g[q + 3])
    BY <1>5, <2>1
  <2>3. q + 2 <= n /\ ~(q + 2 > n) /\ q + 1 = p + 2 /\ q + 2 = p + 3 /\ q + 3 = p + Len(part) + 1
    BY <1>2, <1>4, <2>1
  <2>4. u[q + 1] = d /\ u[q + 2] = e
    <3>1. 2 \in 1..Len(part) /\ 3 \in 1..Len(part)
      BY <2>1
    <3>2. u[p + 2] = part[2] /\ u[p + 3] = part[3]
      BY <1>2, <3>1
    <3> QED BY <2>1, <2>3, <3>2
  <2>5. Static!HexValue(u[q + 1], u[q + 2]) = c /\ c # 256
    <3>1. Static!HexValue(d, e) = c
      BY <1>8, HexIs
    <3>2. c # 256
      OBVIOUS
    <3> QED BY <2>4, <3>1, <3>2
  <2>6. g[q] = After(c, g[q + 3])
    BY <1>1, <2>2, <2>3, <2>5 DEF DecodeFrom, Static!Plus, Static!Percent
  <2> QED BY <1>3, <1>4, <2>3, <2>6
<1> QED BY <1>6, <1>7, <1>8 DEF Encodes

LEMMA DecodesOn ==
    ASSUME NEW s \in Strings, NEW m \in Nat, m = Len(s), NEW t \in Seq(Strings), Len(t) = m, EncodesPath(t, s),
           NEW a, Joined(0..255, t, a), NEW u, u = a[m], NEW g, Decoded(u, g),
           NEW k \in 0..(m - 1), DecodesFrom(g, a, s, m, k + 1)
    PROVE  DecodesFrom(g, a, s, m, k)
<1>1. k + 1 \in 1..m /\ k \in 0..m /\ m \in 0..m /\ (k + 1) + 1 = k + 2
  OBVIOUS
<1>2. a[k] \in Seq(0..255) /\ u \in Seq(0..255) /\ a[k + 1] = a[k] \o t[k + 1]
  BY <1>1 DEF Joined
<1>3. t \in Seq(Seq(0..255))
  BY DEF Strings
<1>4. PICK p, part, c, r : p = Len(a[k]) /\ part = t[k + 1] /\ c = s[k + 1] /\ r = SubSeq(s, k + 2, m)
  OBVIOUS
<1>5. part \in Seq(0..255)
  BY <1>1, <1>4, ElementOfSeq DEF Strings
<1>6. Stands(u, p, part)
  BY <1>3, <1>4, AllStand
<1>7. p \in Nat
  BY <1>6 DEF Stands
<1>8. c \in 0..255 /\ Encodes(part, c)
  <2>1. k + 1 \in DOMAIN s
    BY <1>1 DEF Strings
  <2>2. Encodes(part, c)
    BY <1>4, <2>1 DEF EncodesPath
  <2> QED BY <1>1, <1>4, <2>2, StringElement
<1>9. r \in Strings
  <2>1. k + 2 \in Nat \ {0} /\ m \in 0..m /\ k + 2 <= m + 1
    OBVIOUS
  <2> QED BY <1>4, <2>1, PartIs
<1>10. DecodedBehind(g, p, part, r)
  <2>1. Len(a[k + 1]) = p + Len(part)
    BY <1>2, <1>4, <1>5, ConcatProperties
  <2> QED BY <1>1, <1>4, <2>1 DEF DecodesFrom, DecodedBehind
<1>11. DecodedWith(g, p, c, r)
  BY <1>2, <1>6, <1>7, <1>8, <1>9, <1>10, PartDecodes DEF Strings
<1>12. SplitAt(s, k, m)
  BY Splits
<1> QED BY <1>4, <1>11, <1>12 DEF SplitAt, DecodesFrom, DecodedWith

\* However a path is encoded, url_decode returns it.
LEMMA DecodedIs ==
    ASSUME NEW s \in Strings, NEW t, EncodesPath(t, s)
    PROVE  Static!url_decode(FlattenSeq(t)) = s
<1>1. PICK m \in Nat : m = Len(s)
  BY LenProperties DEF Strings
<1>2. t \in Seq(Strings) /\ Len(t) = m /\ t \in Seq(Seq(0..255))
  BY <1>1 DEF EncodesPath, Strings
<1>3. PICK a, u : Joined(0..255, t, a) /\ u = a[m] /\ u = FlattenSeq(t)
  <2>1. JoinsTo(0..255, t, FlattenSeq(t))
    BY <1>2, Flattened
  <2> QED BY <1>2, <2>1 DEF JoinsTo
<1>4. u \in Strings
  <2>1. m \in 0..m /\ a \in [0..m -> Seq(0..255)]
    BY <1>2, <1>3 DEF Joined
  <2>2. a[m] \in Seq(0..255)
    BY <2>1
  <2> QED BY <1>3, <2>2 DEF Strings
<1>5. PICK g : Decoded(u, g) /\ Static!url_decode(u) = g[1]
  BY <1>4, DecodeSteps
<1>6. PICK M \in Nat : M = m + 1
  OBVIOUS
<1> DEFINE P == {j \in 1..M : DecodesFrom(g, a, s, m, j - 1)}
<1>7. ASSUME NEW j \in 1..M, (j + 1)..M \subseteq P PROVE j \in P
  <2>1. CASE j = M
    <3>1. j - 1 = m /\ m + 1 \in Nat
      BY <1>6, <2>1
    <3>2. PICK n \in Nat : n = Len(u)
      BY <1>4, LenProperties DEF Strings
    <3>3. n + 1 \in 1..(n + 3) /\ n + 1 > n
      OBVIOUS
    <3>4. g[n + 1] = <<>>
      <4>1. g[n + 1] = DecodeStep(u, g, n + 1)
        BY <1>5, <3>2, <3>3 DEF Decoded
      <4> QED BY <3>2, <3>3, <4>1 DEF DecodeStep, DecodeFrom
    <3>5. SubSeq(s, m + 1, m) = <<>>
      <4>1. m + 1 \in Nat \ {0} /\ m \in 0..m /\ m < m + 1
        OBVIOUS
      <4> QED BY <1>1, <4>1, PartOf DEF Strings
    <3>6. DecodesFrom(g, a, s, m, m)
      BY <1>3, <3>2, <3>4, <3>5 DEF DecodesFrom
    <3> QED BY <3>1, <3>6
  <2>2. CASE j # M
    <3>1. PICK k \in 0..(m - 1) : k = j - 1
      BY <1>6, <2>2
    <3>2. j + 1 \in (j + 1)..M /\ (j + 1) - 1 = k + 1
      BY <1>6, <2>2, <3>1
    <3>3. DecodesFrom(g, a, s, m, k + 1)
      BY <1>7, <3>2
    <3>4. DecodesFrom(g, a, s, m, k)
      BY <1>1, <1>2, <1>3, <1>5, <3>3, DecodesOn
    <3> QED BY <3>1, <3>4
  <2> QED BY <2>1, <2>2
<1> HIDE DEF P
<1>8. 1..M \subseteq P
  BY <1>7, Downwards
<1>9. 1 \in 1..M /\ 1 - 1 = 0
  BY <1>6
<1>10. DecodesFrom(g, a, s, m, 0)
  BY <1>8, <1>9 DEF P
<1>11. Len(a[0]) = 0
  BY <1>3 DEF Joined
<1>12. g[1] = SubSeq(s, 1, m)
  BY <1>10, <1>11 DEF DecodesFrom
<1>13. SubSeq(s, 1, m) = s
  BY <1>1, SubSeqFull DEF Strings
<1> QED BY <1>3, <1>5, <1>12, <1>13

-----------------------------------------------------------------------------
(* The names of a path                                                       *)

\* Of the numbers S up to n, there is a k-th one.
UpTo(S, i) == {j \in S : j <= i}

LEMMA UpToIs ==
    ASSUME NEW n \in Nat, NEW S \in SUBSET (1..n), NEW i \in Nat
    PROVE  /\ IsFiniteSet(S) /\ Cardinality(S) \in Nat
           /\ IsFiniteSet(UpTo(S, i)) /\ Cardinality(UpTo(S, i)) \in Nat
           /\ Cardinality(UpTo(S, i)) <= Cardinality(S)
<1>1. IsFiniteSet(1..n)
  BY FS_Interval
<1>2. IsFiniteSet(S)
  BY <1>1, FS_Subset
<1>3. UpTo(S, i) \subseteq S
  BY DEF UpTo
<1>4. IsFiniteSet(UpTo(S, i)) /\ Cardinality(UpTo(S, i)) <= Cardinality(S)
  BY <1>2, <1>3, FS_Subset
<1> QED BY <1>2, <1>4, FS_CardinalityType

\* What is counted up to i + 1.
LEMMA UpToNext ==
    ASSUME NEW n \in Nat, NEW S \in SUBSET (1..n), NEW i \in Nat
    PROVE  Cardinality(UpTo(S, i + 1)) =
              IF i + 1 \in S THEN Cardinality(UpTo(S, i)) + 1 ELSE Cardinality(UpTo(S, i))
<1>0. \A j \in S : j \in Nat /\ j \in 1..n
  OBVIOUS
<1>1. IsFiniteSet(UpTo(S, i)) /\ Cardinality(UpTo(S, i)) \in Nat
  BY UpToIs
<1>2. CASE i + 1 \in S
  <2>1. \A j \in S : j <= i + 1 <=> j <= i \/ j = i + 1
    BY <1>0
  <2>2. ~(i + 1 <= i)
    OBVIOUS
  <2>3. UpTo(S, i + 1) = UpTo(S, i) \cup {i + 1} /\ i + 1 \notin UpTo(S, i)
    BY <1>2, <2>1, <2>2, Zenon DEF UpTo
  <2> QED BY <1>1, <1>2, <2>3, FS_AddElement
<1>3. CASE i + 1 \notin S
  <2>1. \A j \in S : j <= i + 1 <=> j <= i
    BY <1>0, <1>3
  <2>2. UpTo(S, i + 1) = UpTo(S, i)
    BY <2>1, Zenon DEF UpTo
  <2> QED BY <1>3, <2>2
<1> QED BY <1>2, <1>3

LEMMA RankExists ==
    ASSUME NEW n \in Nat, NEW S \in SUBSET (1..n), NEW k \in 1..Cardinality(S)
    PROVE  \E i \in S : Cardinality(UpTo(S, i)) = k
<1> DEFINE X == {x \in Nat : Cardinality(UpTo(S, x)) >= k}
<1>1. Cardinality(S) \in Nat /\ \A x \in Nat : Cardinality(UpTo(S, x)) \in Nat
  <2>1. 0 \in Nat
    OBVIOUS
  <2> QED BY <2>1, UpToIs
<1>2. n \in X
  <2>1. UpTo(S, n) = S
    <3>1. \A j \in S : j <= n
      OBVIOUS
    <3> QED BY <3>1, Zenon DEF UpTo
  <2>2. Cardinality(S) >= k
    BY <1>1
  <2> QED BY <2>1, <2>2
<1>3. X \in SUBSET Nat /\ \A x \in Nat : x \in X <=> Cardinality(UpTo(S, x)) >= k
  OBVIOUS
<1> HIDE DEF X
<1>4. PICK x \in X : \A y \in X : x <= y
  BY <1>2, <1>3, LeastExists
<1>5. x # 0
  <2>1. UpTo(S, 0) = {}
    <3>1. \A j \in S : ~(j <= 0)
      OBVIOUS
    <3> QED BY <3>1, Zenon DEF UpTo
  <2>2. Cardinality(UpTo(S, 0)) = 0
    BY <2>1, FS_EmptySet
  <2>3. ~(0 >= k)
    BY <1>1
  <2> QED BY <1>3, <2>2, <2>3
<1>6. PICK i \in Nat : x = i + 1
  <2>1. x \in Nat
    BY <1>3
  <2>2. x - 1 \in Nat /\ x = (x - 1) + 1
    BY <1>5, <2>1
  <2> QED BY <2>2
<1>7. i \notin X
  <2>1. ~(i + 1 <= i)
    OBVIOUS
  <2> QED BY <1>4, <1>6, <2>1
<1>8. PICK c \in Nat : c = Cardinality(UpTo(S, i))
  BY <1>1
<1>9. ~(c >= k) /\ Cardinality(UpTo(S, x)) >= k
  BY <1>3, <1>7, <1>8
<1>10. Cardinality(UpTo(S, x)) = IF x \in S THEN c + 1 ELSE c
  BY <1>6, <1>8, UpToNext
<1>11. x \in S /\ c + 1 >= k
  BY <1>9, <1>10
<1>12. c + 1 = k
  BY <1>1, <1>9, <1>11
<1> QED BY <1>10, <1>11, <1>12

\* Where the names of s begin, and the name that begins at i.
Starts(s) == {i \in DOMAIN s : s[i] # Slash /\ (i = 1 \/ s[i - 1] = Slash)}

Ranked(s, k) == {i \in Starts(s) : Cardinality(UpTo(Starts(s), i)) = k}

Stop(s, i) == SelectInSubSeq(s, i, Len(s), LAMBDA c : c = Slash)

NameAt(s, i) == SubSeq(s, i, IF Stop(s, i) = 0 THEN Len(s) ELSE Stop(s, i) - 1)

LEMMA SegmentsAre ==
    ASSUME NEW s
    PROVE  SegmentsOf(s) = [k \in 1..Cardinality(Starts(s)) |-> NameAt(s, CHOOSE i \in Ranked(s, k) : TRUE)]
BY Zenon DEF SegmentsOf, Starts, Ranked, UpTo, Stop, NameAt

LEMMA StopIs ==
    ASSUME NEW s \in Strings, NEW i \in Nat \ {0} PROVE FoundNext(s, i, {Slash}, Stop(s, i))
<1>1. Len(s) \in Nat
  BY LenProperties DEF Strings
<1>2. {y \in i..Len(s) : s[y] = Slash} = {y \in i..Len(s) : s[y] \in {Slash}}
  OBVIOUS
<1>3. Stop(s, i) = NextIn(s, i, {Slash})
  BY <1>2 DEF Stop, NextIn, SelectInSubSeq
<1> QED BY <1>1, <1>3, NextIs

LEMMA StartsAre ==
    ASSUME NEW s \in Strings, NEW n \in Nat, n = Len(s)
    PROVE  /\ Starts(s) \in SUBSET (1..n)
           /\ \A i \in 1..n : i \in Starts(s) <=> s[i] # Slash /\ (i = 1 \/ s[i - 1] = Slash)
BY DEF Starts, Strings

\* p is a part of u from its beginning to a slash.
LiesBelow(u, p) ==
    /\ p \in Strings /\ u \in Strings /\ p # <<>> /\ Last(p) = Slash /\ IsPrefix(p, u)

LEMMA LiesIs ==
    ASSUME NEW u, NEW p, LiesBelow(u, p)
    PROVE  \E n \in Nat \ {0}, m \in Nat :
              /\ n = Len(p) /\ m = Len(u) /\ n <= m /\ p[n] = Slash
              /\ \A i \in 1..n : p[i] = u[i]
<1>1. PICK n \in Nat, m \in Nat : n = Len(p) /\ m = Len(u)
  BY LenProperties DEF LiesBelow, Strings
<1>2. n # 0
  BY <1>1, EmptySeq DEF LiesBelow, Strings
<1>3. p[n] = Slash
  BY <1>1 DEF LiesBelow, Last
<1>4. n <= m /\ \A i \in 1..n : p[i] = u[i]
  BY <1>1, PrefixIs DEF LiesBelow
<1> QED BY <1>1, <1>2, <1>3, <1>4

LEMMA StartsBelow ==
    ASSUME NEW u, NEW p, LiesBelow(u, p), NEW n \in Nat, n = Len(p)
    PROVE  Starts(p) = UpTo(Starts(u), n)
<1>1. PICK m \in Nat : m = Len(u) /\ n # 0 /\ n <= m /\ \A i \in 1..n : p[i] = u[i]
  BY LiesIs
<1>2. /\ Starts(p) \in SUBSET (1..n)
      /\ \A i \in 1..n : i \in Starts(p) <=> p[i] # Slash /\ (i = 1 \/ p[i - 1] = Slash)
  BY StartsAre DEF LiesBelow
<1>3. /\ Starts(u) \in SUBSET (1..m)
      /\ \A i \in 1..m : i \in Starts(u) <=> u[i] # Slash /\ (i = 1 \/ u[i - 1] = Slash)
  BY <1>1, StartsAre DEF LiesBelow
<1>4. ASSUME NEW i \in 1..n PROVE i \in Starts(p) <=> i \in Starts(u)
  <2>1. i \in 1..m /\ p[i] = u[i]
    BY <1>1
  <2>2. i # 1 => i - 1 \in 1..n
    OBVIOUS
  <2>3. i # 1 => p[i - 1] = u[i - 1]
    BY <1>1, <2>2
  <2> QED BY <1>2, <1>3, <2>1, <2>3
<1>5. \A i \in Starts(u) : i <= n <=> i \in 1..n
  BY <1>3
<1> QED BY <1>2, <1>4, <1>5 DEF UpTo

\* The k-th name of p begins where that of u does.
LEMMA RankedBelow ==
    ASSUME NEW u, NEW p, LiesBelow(u, p), NEW k \in 1..Cardinality(Starts(p))
    PROVE  Ranked(u, k) = Ranked(p, k) /\ Ranked(p, k) # {}
<1>1. PICK n \in Nat, m \in Nat : n = Len(p) /\ m = Len(u) /\ n <= m
  BY LiesIs
<1>2. PICK S, T : S = Starts(u) /\ T = Starts(p)
  OBVIOUS
<1>3. S \in SUBSET (1..m) /\ T \in SUBSET (1..n) /\ T = UpTo(S, n)
  BY <1>1, <1>2, StartsAre, StartsBelow DEF LiesBelow
<1>4. IsFiniteSet(T) /\ Cardinality(T) \in Nat
  <2>1. 0 \in Nat
    OBVIOUS
  <2> QED BY <1>3, <2>1, UpToIs
<1>5. ASSUME NEW i \in S, i <= n PROVE i \in T /\ UpTo(S, i) = UpTo(T, i)
  <2>1. i \in Nat /\ \A j \in S : j \in Nat
    BY <1>3
  <2>2. \A j \in S : j <= i => j <= n
    BY <1>5, <2>1
  <2> QED BY <1>3, <1>5, <2>2, Zenon DEF UpTo
<1>6. ASSUME NEW i \in S, ~(i <= n) PROVE Cardinality(UpTo(S, i)) # k
  <2>1. i \notin T /\ T \cup {i} \subseteq UpTo(S, i)
    BY <1>3, <1>6 DEF UpTo
  <2>2. Cardinality(T \cup {i}) = Cardinality(T) + 1
    BY <1>4, <2>1, FS_AddElement
  <2>3. IsFiniteSet(UpTo(S, i)) /\ Cardinality(UpTo(S, i)) \in Nat
    <3>1. i \in Nat
      BY <1>3
    <3> QED BY <1>3, <3>1, UpToIs
  <2>4. Cardinality(T \cup {i}) <= Cardinality(UpTo(S, i))
    BY <2>1, <2>3, FS_Subset
  <2>5. k <= Cardinality(T)
    BY <1>2, <1>4
  <2> QED BY <1>4, <2>2, <2>3, <2>4, <2>5
<1>7. \A i \in T : i \in S /\ i <= n
  BY <1>3 DEF UpTo
<1>8. Ranked(u, k) = {i \in S : Cardinality(UpTo(S, i)) = k}
      /\ Ranked(p, k) = {i \in T : Cardinality(UpTo(T, i)) = k}
  BY <1>2 DEF Ranked
<1>9. Ranked(u, k) = Ranked(p, k)
  <2>1. ASSUME NEW i \in Ranked(u, k) PROVE i \in Ranked(p, k)
    BY <1>5, <1>6, <1>8
  <2>2. ASSUME NEW i \in Ranked(p, k) PROVE i \in Ranked(u, k)
    BY <1>5, <1>7, <1>8
  <2> QED BY <2>1, <2>2
<1>10. \E i \in T : Cardinality(UpTo(T, i)) = k
  BY <1>2, <1>3, RankExists
<1> QED BY <1>8, <1>9, <1>10

\* And it is the same name.
LEMMA NameBelow ==
    ASSUME NEW u, NEW p, LiesBelow(u, p), NEW i \in Starts(p)
    PROVE  NameAt(u, i) = NameAt(p, i)
<1>1. PICK n \in Nat \ {0}, m \in Nat :
          n = Len(p) /\ m = Len(u) /\ n <= m /\ p[n] = Slash /\ \A x \in 1..n : p[x] = u[x]
  BY LiesIs
<1>2. i \in 1..n /\ p[i] # Slash
  BY <1>1, StartsAre DEF LiesBelow
<1>3. PICK x, y : x = Stop(p, i) /\ y = Stop(u, i)
  OBVIOUS
<1>4. FoundNext(p, i, {Slash}, x) /\ FoundNext(u, i, {Slash}, y)
  <2>1. i \in Nat \ {0}
    BY <1>2
  <2> QED BY <1>3, <2>1, StopIs DEF LiesBelow
<1>5. x \in i..n /\ p[x] = Slash /\ \A z \in i..(x - 1) : p[z] # Slash
  <2>1. n \in i..n
    BY <1>1, <1>2
  <2> QED BY <1>1, <1>4, <2>1 DEF FoundNext
<1>6. x \in i..m /\ x \in 1..n
  BY <1>1, <1>2, <1>5
<1>7. u[x] = Slash
  BY <1>1, <1>5, <1>6
<1>8. y \in i..m /\ u[y] = Slash /\ \A z \in i..(y - 1) : u[z] # Slash
  BY <1>1, <1>4, <1>6, <1>7 DEF FoundNext
<1>9. x = y
  <2>1. ~(x < y)
    <3>1. x < y => x \in i..(y - 1)
      BY <1>6, <1>8
    <3> QED BY <1>7, <1>8, <3>1
  <2>2. ~(y < x)
    <3>1. y < x => y \in i..(x - 1) /\ y \in 1..n
      BY <1>6, <1>8, <1>2
    <3> QED BY <1>1, <1>5, <1>8, <3>1
  <2> QED BY <1>6, <1>8, <2>1, <2>2
<1>10. PICK a, b, e : a = SubSeq(p, i, e) /\ b = SubSeq(u, i, e) /\ e = x - 1
  OBVIOUS
<1>11. i \in Nat \ {0} /\ e \in 0..n /\ e \in 0..m /\ i <= e + 1
  BY <1>2, <1>5, <1>6, <1>10
<1>12. /\ a \in Strings /\ Len(a) = e + 1 - i /\ \A z \in 1..(e + 1 - i) : a[z] = p[i + z - 1]
       /\ b \in Strings /\ Len(b) = e + 1 - i /\ \A z \in 1..(e + 1 - i) : b[z] = u[i + z - 1]
  BY <1>1, <1>10, <1>11, PartIs DEF LiesBelow
<1>13. \A z \in 1..(e + 1 - i) : i + z - 1 \in 1..n
  BY <1>11
<1>14. a = b
  <2>1. \A z \in 1..(e + 1 - i) : a[z] = b[z]
    BY <1>1, <1>12, <1>13
  <2> QED BY <1>12, <2>1, SeqEqual DEF Strings
<1>15. x # 0
  BY <1>6
<1> QED BY <1>3, <1>9, <1>10, <1>14, <1>15 DEF NameAt

\* The names of a path are the first ones of what lies below it.
LEMMA NamesBelow ==
    ASSUME NEW u, NEW p, LiesBelow(u, p) PROVE Dispatch!Extends(SegmentsOf(u), SegmentsOf(p))
<1>1. PICK n \in Nat, m \in Nat : n = Len(p) /\ m = Len(u) /\ n <= m
  BY LiesIs
<1>2. PICK c, d : c = Cardinality(Starts(p)) /\ d = Cardinality(Starts(u))
  OBVIOUS
<1>3. c \in Nat /\ d \in Nat /\ c <= d
  BY <1>1, <1>2, StartsAre, StartsBelow, UpToIs DEF LiesBelow
<1>4. SegmentsOf(p) = [k \in 1..c |-> NameAt(p, CHOOSE i \in Ranked(p, k) : TRUE)]
      /\ SegmentsOf(u) = [k \in 1..d |-> NameAt(u, CHOOSE i \in Ranked(u, k) : TRUE)]
  BY <1>2, SegmentsAre
<1>5. Len(SegmentsOf(p)) = c /\ Len(SegmentsOf(u)) = d
  BY <1>3, <1>4
<1>6. ASSUME NEW k \in 1..c PROVE SegmentsOf(u)[k] = SegmentsOf(p)[k]
  <2>1. Ranked(u, k) = Ranked(p, k) /\ Ranked(p, k) # {}
    BY <1>2, RankedBelow
  <2>2. PICK i : i = CHOOSE x \in Ranked(p, k) : TRUE
    OBVIOUS
  <2>3. i \in Ranked(p, k)
    BY <2>1, <2>2
  <2>4. NameAt(u, i) = NameAt(p, i)
    BY <2>3, NameBelow DEF Ranked
  <2>5. k \in 1..d
    BY <1>3
  <2> QED BY <1>4, <2>1, <2>2, <2>4, <2>5
<1> QED BY <1>3, <1>5, <1>6 DEF Dispatch!Extends

-----------------------------------------------------------------------------
(* The location that serves a URI                                            *)

LEMMA CountOfNames ==
    ASSUME NEW s \in Strings
    PROVE  Len(SegmentsOf(s)) \in Nat
<1>1. PICK n \in Nat : n = Len(s)
  BY LenProperties DEF Strings
<1>2. PICK c : c = Cardinality(Starts(s))
  OBVIOUS
<1>3. c \in Nat
  BY <1>1, <1>2, StartsAre, UpToIs
<1>4. SegmentsOf(s) = [k \in 1..c |-> NameAt(s, CHOOSE i \in Ranked(s, k) : TRUE)]
  BY <1>2, SegmentsAre
<1> QED BY <1>3, <1>4

LEMMA SameCardinality == ASSUME NEW S PROVE Dispatch!Cardinality(S) = Cardinality(S)
BY Zenon DEF Cardinality, Dispatch!Cardinality

\* What common_prefix_length counts: all names of a path the first sequence extends.
LEMMA CountBelow ==
    ASSUME NEW s, NEW a, Len(a) \in Nat, Dispatch!Extends(s, a)
    PROVE  Dispatch!common_prefix_length(s, a) = Len(a)
<1>1. PICK n \in Nat : n = Len(a)
  OBVIOUS
<1>2. n <= Len(s) /\ \A i \in 1..n : s[i] = a[i]
  BY <1>1 DEF Dispatch!Extends
<1>3. Dispatch!Agree(s, a) = {i \in 1..Len(s) : i <= n /\ s[i] = a[i]}
  BY <1>1, Zenon DEF Dispatch!Agree
<1>4. {i \in 1..Len(s) : i <= n /\ s[i] = a[i]} = 1..n
  BY <1>2
<1>5. Cardinality(1..n) = n
  BY FS_Interval
<1>6. Dispatch!Agree(s, a) = 1..n
  BY <1>3, <1>4
<1>7. Dispatch!common_prefix_length(s, a) = Cardinality(Dispatch!Agree(s, a))
  BY SameCardinality DEF Dispatch!common_prefix_length
<1> QED BY <1>1, <1>5, <1>6, <1>7

\* The location whose path has the names of p.
LEMMA PathIs == ASSUME NEW p \in SiteLocations PROVE PathOf(SegmentsOf(p)) = p
<1>1. PICK q : q = PathOf(SegmentsOf(p))
  OBVIOUS
<1>2. q \in SiteLocations /\ SegmentsOf(q) = SegmentsOf(p)
  BY <1>1 DEF PathOf
<1>3. p \in Strings /\ q \in Strings
  BY <1>2, SiteAssumption DEF SiteLocations
<1>4. Len(p) \in Nat /\ Len(q) \in Nat /\ Len(SegmentsOf(p)) \in Nat
  BY <1>3, LenProperties, CountOfNames DEF Strings
<1>5. Dispatch!Extends(SegmentsOf(p), SegmentsOf(q)) /\ Dispatch!Extends(SegmentsOf(q), SegmentsOf(p))
  BY <1>2, <1>4 DEF Dispatch!Extends
<1>6. p # q => Len(p) < Len(q) /\ Len(q) < Len(p)
  BY <1>2, <1>5, LocationsAssumption
<1> QED BY <1>1, <1>4, <1>6

LEMMA AllAreMapped ==
    /\ Dispatch!Mapped = SegmentPaths
    /\ \A a \in SegmentPaths : PathOf(a) \in SiteLocations /\ SegmentsOf(PathOf(a)) = a
<1>1. ASSUME NEW a \in SegmentPaths PROVE PathOf(a) \in SiteLocations /\ SegmentsOf(PathOf(a)) = a
  <2>1. PICK p \in SiteLocations : a = SegmentsOf(p)
    BY DEF SegmentPaths
  <2> QED BY <2>1, PathIs
<1>2. \A a \in SegmentPaths : [x \in SegmentPaths |-> PathOf(x)][a] # None
  BY <1>1, LocationsAssumption
<1> QED BY <1>1, <1>2 DEF Dispatch!Mapped

LEMMA NamesAreStrings == ASSUME NEW s \in Strings PROVE SegmentsOf(s) \in Seq(Strings)
<1>1. PICK n \in Nat : n = Len(s)
  BY LenProperties DEF Strings
<1>2. PICK c : c = Cardinality(Starts(s))
  OBVIOUS
<1>3. c \in Nat
  BY <1>1, <1>2, StartsAre, UpToIs
<1>4. ASSUME NEW k \in 1..c
      PROVE  NameAt(s, CHOOSE i \in Ranked(s, k) : TRUE) \in Strings
  <2>1. PICK i : i = CHOOSE x \in Ranked(s, k) : TRUE
    OBVIOUS
  <2>2. Starts(s) \in SUBSET (1..n)
    BY <1>1, StartsAre
  <2>3. \E x \in Starts(s) : Cardinality(UpTo(Starts(s), x)) = k
    BY <1>2, <2>2, RankExists
  <2>4. i \in Starts(s)
    BY <2>1, <2>3 DEF Ranked
  <2>5. i \in 1..n /\ s[i] # Slash
    BY <1>1, <2>4, StartsAre
  <2>6. i \in Nat \ {0}
    BY <2>5
  <2>7. PICK x : x = Stop(s, i)
    OBVIOUS
  <2>8. x = 0 \/ (x \in i..n /\ s[x] = Slash)
    BY <1>1, <2>6, <2>7, StopIs DEF FoundNext
  <2>9. x # 0 => x - 1 \in 0..n /\ i <= (x - 1) + 1
    BY <2>5, <2>8
  <2>10. n \in 0..n /\ i <= n + 1
    BY <2>5
  <2>11. SubSeq(s, i, n) \in Strings /\ (x # 0 => SubSeq(s, i, x - 1) \in Strings)
    BY <1>1, <2>6, <2>9, <2>10, PartIs
  <2> QED BY <1>1, <2>1, <2>7, <2>11 DEF NameAt
<1>5. SegmentsOf(s) = [k \in 1..c |-> NameAt(s, CHOOSE i \in Ranked(s, k) : TRUE)]
  BY <1>2, SegmentsAre
<1>6. SegmentsOf(s) \in [1..c -> Strings]
  BY <1>4, <1>5
<1> QED BY <1>3, <1>6

\* The locations are such as RequestDispatch assumes.
LEMMA LocationsAreSuch ==
    /\ SegmentPaths \subseteq Seq(Strings) /\ IsFiniteSet(SegmentPaths)
    /\ \A a, b \in SegmentPaths : Dispatch!Extends(b, a) /\ a # b => Len(PathOf(a)) < Len(PathOf(b))
    /\ \A a, b \in SegmentPaths : Order[PathOf(a)] = Order[PathOf(b)] => a = b
<1>1. \A p \in SiteLocations : p \in Strings
  BY SiteAssumption DEF SiteLocations
<1>2. SegmentPaths \subseteq Seq(Strings)
  BY <1>1, NamesAreStrings DEF SegmentPaths
<1>3. IsFiniteSet(SegmentPaths)
  <2> DEFINE f == [p \in SiteLocations |-> SegmentsOf(p)]
  <2>1. f \in [SiteLocations -> SegmentPaths]
    BY DEF SegmentPaths
  <2>2. \A b \in SegmentPaths : \E p \in SiteLocations : f[p] = b
    BY DEF SegmentPaths
  <2> HIDE DEF f
  <2>3. f \in Surjection(SiteLocations, SegmentPaths)
    BY <2>1, <2>2 DEF Surjection
  <2> QED BY <2>3, LocationsAssumption, FS_Surjection
<1>4. \A a \in SegmentPaths : PathOf(a) \in SiteLocations /\ SegmentsOf(PathOf(a)) = a
  BY AllAreMapped
<1>5. \A a, b \in SegmentPaths : Dispatch!Extends(b, a) /\ a # b => Len(PathOf(a)) < Len(PathOf(b))
  BY <1>4, LocationsAssumption
<1>6. \A a, b \in SegmentPaths : Order[PathOf(a)] = Order[PathOf(b)] => a = b
  BY <1>4, LocationsAssumption
<1> QED BY <1>2, <1>3, <1>5, <1>6

\* If every other path has fewer names in common with s than a, which has some, a is
\* the longest path.
LEMMA OneIsLongest ==
    ASSUME NEW s, NEW a \in SegmentPaths, NEW n \in Nat \ {0}, Dispatch!common_prefix_length(s, a) = n,
           \A b \in SegmentPaths : b # a => Dispatch!common_prefix_length(s, b) \in 0..(n - 1)
    PROVE  Dispatch!Longest(s) = {a}
<1>1. Dispatch!Mapped = SegmentPaths
  BY AllAreMapped
<1>2. ASSUME NEW b \in SegmentPaths, b # a PROVE Dispatch!Better(s, a, b) /\ ~Dispatch!Better(s, b, a)
  <2>1. PICK m \in 0..(n - 1) : m = Dispatch!common_prefix_length(s, b)
    BY <1>2
  <2>2. n > m /\ ~(m > n) /\ m # n
    BY <2>1
  <2> QED BY <2>1, <2>2 DEF Dispatch!Better
<1>3. ~Dispatch!Better(s, a, a)
  <2>1. PathOf(a) \in SiteLocations
    BY AllAreMapped
  <2>2. PathOf(a) \in Strings
    BY <2>1, SiteAssumption DEF SiteLocations
  <2>3. Len(PathOf(a)) \in Nat /\ Order[PathOf(a)] \in Nat
    BY <2>1, <2>2, LenProperties, LocationsAssumption DEF Strings
  <2>4. PICK l \in Nat, o \in Nat : l = Len(PathOf(a)) /\ o = Order[PathOf(a)]
    BY <2>3
  <2>5. ~(n > n) /\ ~(l < l) /\ ~(o < o)
    OBVIOUS
  <2> QED BY <2>4, <2>5 DEF Dispatch!Better
<1>4. n > 0
  OBVIOUS
<1> QED BY <1>1, <1>2, <1>3, <1>4, Zenon DEF Dispatch!Longest

\* The deepest location a clear URI lies below serves it.
LEMMA LocationIs ==
    ASSUME NEW u \in Strings, NEW p \in SiteLocations, Clear(u), Deepest(u, p)
    PROVE  LocationFor(u) = p
<1>1. PICK s, a : s = SegmentsOf(u) /\ a = SegmentsOf(p)
  OBVIOUS
<1>2. p \in Strings /\ p # <<>> /\ Last(p) = Slash
  BY SiteAssumption DEF SiteLocations
<1>3. LiesBelow(u, p)
  BY <1>2 DEF Deepest, Below, LiesBelow
<1>4. Dispatch!Extends(s, a)
  BY <1>1, <1>3, NamesBelow
<1>5. PICK n \in Nat : n = Len(a) /\ Dispatch!common_prefix_length(s, a) = n
  BY <1>1, <1>2, <1>4, CountOfNames, CountBelow
<1>6. a \in SegmentPaths /\ PathOf(a) = p
  BY <1>1, PathIs DEF SegmentPaths
<1>7. PICK m \in Nat : m = Len(p) /\ m # 0
  BY <1>2, LenProperties, EmptySeq DEF Strings
<1>8. ASSUME NEW b \in SegmentPaths, b # a
      PROVE  \E k \in Nat : /\ k = Dispatch!common_prefix_length(s, b)
                            /\ k < n \/ k = 0
  <2>1. PICK q \in SiteLocations : b = SegmentsOf(q)
    BY DEF SegmentPaths
  <2>2. q \in Strings /\ q # p
    BY <1>1, <1>8, <2>1, SiteAssumption DEF SiteLocations
  <2>3. PICK k \in Nat, l \in Nat : k = Len(b) /\ l = Len(q)
    BY <2>1, <2>2, CountOfNames, LenProperties DEF Strings
  <2>4. CASE Dispatch!Extends(s, b)
    <3>1. Dispatch!common_prefix_length(s, b) = k
      BY <2>3, <2>4, CountBelow
    <3>2. l <= m
      BY <1>1, <1>7, <2>1, <2>3, <2>4 DEF Deepest
    <3>3. k < n
      <4> SUFFICES ASSUME n <= k PROVE FALSE
        OBVIOUS
      <4>1. \A i \in 1..n : i \in 1..k
        OBVIOUS
      <4>2. (\A i \in 1..n : s[i] = a[i]) /\ (\A i \in 1..k : s[i] = b[i])
        BY <1>4, <1>5, <2>3, <2>4 DEF Dispatch!Extends
      <4>3. \A i \in 1..n : b[i] = a[i]
        BY <4>1, <4>2
      <4>4. Dispatch!Extends(b, a)
        BY <1>5, <2>3, <4>3 DEF Dispatch!Extends
      <4>5. m < l
        BY <1>1, <1>7, <2>1, <2>2, <2>3, <4>4, LocationsAssumption
      <4> QED BY <3>2, <4>5
    <3> QED BY <3>1, <3>3
  <2>5. CASE ~Dispatch!Extends(s, b)
    BY <1>1, <2>5 DEF Clear
  <2> QED BY <2>4, <2>5
<1>9. CASE n = 0
  <2>1. ASSUME NEW b \in SegmentPaths PROVE ~(Dispatch!common_prefix_length(s, b) > 0)
    <3>1. b # a => Dispatch!common_prefix_length(s, b) = 0
      <4> SUFFICES ASSUME b # a PROVE Dispatch!common_prefix_length(s, b) = 0
        OBVIOUS
      <4>1. PICK k \in Nat : k = Dispatch!common_prefix_length(s, b) /\ (k < n \/ k = 0)
        BY <1>8
      <4>2. ~(k < n)
        BY <1>9
      <4> QED BY <4>1, <4>2
    <3>2. Dispatch!common_prefix_length(s, b) = 0
      BY <1>5, <1>9, <3>1
    <3> QED BY <3>2
  <2>2. Dispatch!Longest(s) = {}
    BY <2>1, AllAreMapped DEF Dispatch!Longest
  <2>3. LocationFor(u) = <<Slash>>
    BY <1>1, <2>2 DEF LocationFor
  <2>4. p = <<Slash>>
    <3> SUFFICES ASSUME p # <<Slash>> PROVE FALSE
      OBVIOUS
    <3>1. PICK q : q = <<Slash>>
      OBVIOUS
    <3>2. q \in SiteLocations /\ q \in Strings /\ Len(q) = 1
      BY <3>1, SiteAssumption DEF SiteLocations
    <3>3. Len(SegmentsOf(q)) \in Nat
      BY <3>2, CountOfNames
    <3>4. Dispatch!Extends(SegmentsOf(q), SegmentsOf(p))
      BY <1>1, <1>5, <1>9, <3>3 DEF Dispatch!Extends
    <3>5. m < 1
      BY <1>7, <3>1, <3>2, <3>4, LocationsAssumption
    <3> QED BY <1>7, <3>5
  <2> QED BY <2>3, <2>4
<1>10. CASE n # 0
  <2>1. \A b \in SegmentPaths : b # a => Dispatch!common_prefix_length(s, b) \in 0..(n - 1)
    <3> SUFFICES ASSUME NEW b \in SegmentPaths, b # a
                 PROVE  Dispatch!common_prefix_length(s, b) \in 0..(n - 1)
      OBVIOUS
    <3>1. PICK k \in Nat : k = Dispatch!common_prefix_length(s, b) /\ (k < n \/ k = 0)
      BY <1>8
    <3> QED BY <1>10, <3>1
  <2>2. Dispatch!Longest(s) = {a}
    <3>1. n \in Nat \ {0}
      BY <1>10
    <3> QED BY <1>5, <1>6, <2>1, <3>1, OneIsLongest
  <2>3. (CHOOSE x \in {a} : TRUE) = a /\ {a} # {}
    OBVIOUS
  <2> QED BY <1>1, <1>6, <2>2, <2>3 DEF LocationFor
<1> QED BY <1>9, <1>10

-----------------------------------------------------------------------------
(* What clients ask for                                                      *)

\* The first k characters of the path s stand for themselves in the URI, and are those of p.
Plainly(s, a, p, k) == k <= Len(s) /\ Len(a[k]) = k /\ \A x \in 1..k : s[x] = p[x]

LEMMA PlainlyOn ==
    ASSUME NEW s \in Strings, NEW m \in Nat, m = Len(s), NEW t \in Seq(Strings), Len(t) = m, EncodesPath(t, s),
           NEW a, Joined(0..255, t, a), NEW u \in Strings, u = a[m],
           NEW p \in Strings, Literal(p), IsPrefix(p, u), NEW k \in Nat, k < Len(p), Plainly(s, a, p, k)
    PROVE  Plainly(s, a, p, k + 1)
<1>1. PICK n \in Nat, l \in Nat : n = Len(p) /\ l = Len(u)
  BY LenProperties DEF Strings
<1>2. n <= l /\ \A x \in 1..n : p[x] = u[x]
  BY <1>1, PrefixIs
<1>3. k <= m /\ Len(a[k]) = k /\ \A x \in 1..k : s[x] = p[x]
  BY DEF Plainly
<1>4. k < m
  <2>1. k = m => l = k
    BY <1>1, <1>3
  <2>2. k < n
    BY <1>1
  <2>3. k # m
    BY <1>2, <2>1, <2>2
  <2> QED BY <1>3, <2>3
<1>5. k + 1 \in 1..m /\ k \in 0..(m - 1) /\ k \in 0..m /\ m \in 0..m /\ k + 1 \in 1..n
  BY <1>1, <1>4
<1>6. PICK part, c : part = t[k + 1] /\ c = s[k + 1]
  OBVIOUS
<1>7. t \in Seq(Seq(0..255))
  BY DEF Strings
<1>8. Stands(u, k, part)
  BY <1>3, <1>5, <1>6, <1>7, AllStand
<1>9. Encodes(part, c)
  <2>1. k + 1 \in DOMAIN s
    BY <1>5 DEF Strings
  <2> QED BY <1>6, <2>1 DEF EncodesPath
<1>10. p[k + 1] \notin {Static!Plus, Static!Percent}
  <2>1. k + 1 \in DOMAIN p
    BY <1>1, <1>5 DEF Strings
  <2> QED BY <2>1 DEF Literal
<1>11. ASSUME Len(part) \in Nat, Len(part) >= 1 PROVE part[1] = p[k + 1]
  <2>1. 1 \in 1..Len(part)
    BY <1>11
  <2>2. u[k + 1] = part[1]
    BY <1>8, <2>1 DEF Stands
  <2> QED BY <1>2, <1>5, <2>2
<1>12. part = <<c>>
  <2>1. part # <<Static!Plus>>
    <3> SUFFICES ASSUME part = <<Static!Plus>> PROVE FALSE
      OBVIOUS
    <3>1. Len(part) = 1 /\ part[1] = Static!Plus
      OBVIOUS
    <3> QED BY <1>10, <1>11, <3>1
  <2>2. ASSUME NEW d, NEW e, part = <<Static!Percent, d, e>> PROVE FALSE
    <3>1. Len(part) = 3 /\ part[1] = Static!Percent
      BY <2>2
    <3> QED BY <1>10, <1>11, <3>1
  <2> QED BY <1>9, <2>1, <2>2 DEF Encodes
<1>13. Len(part) = 1 /\ part[1] = c
  BY <1>12
<1>14. c = p[k + 1]
  BY <1>11, <1>13
<1>15. Len(a[k + 1]) = k + 1
  <2>1. a[k] \in Seq(0..255) /\ a[k + 1] = a[k] \o part
    BY <1>5, <1>6 DEF Joined
  <2>2. part \in Seq(0..255)
    BY <1>5, <1>6, <1>7, ElementOfSeq
  <2>3. Len(a[k] \o part) = Len(a[k]) + Len(part)
    BY <2>1, <2>2, ConcatProperties
  <2> QED BY <1>3, <1>13, <2>1, <2>3
<1>16. \A x \in 1..(k + 1) : x \in 1..k \/ x = k + 1
  OBVIOUS
<1>17. \A x \in 1..(k + 1) : s[x] = p[x]
  BY <1>3, <1>6, <1>14, <1>16
<1>18. k + 1 <= m
  BY <1>5
<1> QED BY <1>15, <1>17, <1>18 DEF Plainly

\* What a literal path is a prefix of, the path it encodes begins with, too.
LEMMA LiteralIsPrefix ==
    ASSUME NEW s \in Strings, NEW t, EncodesPath(t, s), NEW p \in Strings, Literal(p),
           IsPrefix(p, FlattenSeq(t))
    PROVE  IsPrefix(p, s)
<1>1. PICK m \in Nat, n \in Nat : m = Len(s) /\ n = Len(p)
  BY LenProperties DEF Strings
<1>2. t \in Seq(Strings) /\ Len(t) = m /\ t \in Seq(Seq(0..255))
  BY <1>1 DEF EncodesPath, Strings
<1>3. PICK a, u : Joined(0..255, t, a) /\ u = a[m] /\ u = FlattenSeq(t)
  <2>1. JoinsTo(0..255, t, FlattenSeq(t))
    BY <1>2, Flattened
  <2> QED BY <1>2, <2>1 DEF JoinsTo
<1>4. u \in Strings
  <2>1. m \in 0..m /\ a \in [0..m -> Seq(0..255)]
    BY <1>2, <1>3 DEF Joined
  <2>2. a[m] \in Seq(0..255)
    BY <2>1
  <2> QED BY <1>3, <2>2 DEF Strings
<1> DEFINE A == {k \in Nat : k <= n => Plainly(s, a, p, k)}
<1>5. 0 \in A
  <2>1. Len(a[0]) = 0 /\ 0 <= m
    BY <1>1, <1>3 DEF Joined
  <2>2. Plainly(s, a, p, 0)
    BY <1>1, <2>1 DEF Plainly
  <2> QED BY <2>2
<1>6. ASSUME NEW k \in Nat, k \in A PROVE k + 1 \in A
  <2> SUFFICES ASSUME k + 1 <= n PROVE Plainly(s, a, p, k + 1)
    OBVIOUS
  <2>1. k <= n /\ k < Len(p)
    BY <1>1
  <2>2. Plainly(s, a, p, k)
    BY <1>6, <2>1
  <2> HIDE DEF A
  <2> QED BY <1>1, <1>2, <1>3, <1>4, <2>1, <2>2, PlainlyOn
<1> HIDE DEF A
<1>7. n \in A
  BY <1>5, <1>6, Induction
<1>8. Plainly(s, a, p, n)
  BY <1>7 DEF A
<1>9. n <= m /\ \A x \in 1..n : s[x] = p[x]
  BY <1>1, <1>8 DEF Plainly
<1>10. PICK v, w : v = SubSeq(p, 1, n) /\ w = SubSeq(s, 1, n)
  OBVIOUS
<1>11. /\ v \in Strings /\ Len(v) = n /\ \A x \in 1..n : v[x] = p[x]
       /\ w \in Strings /\ Len(w) = n /\ \A x \in 1..n : w[x] = s[x]
  <2>1. 1 \in Nat \ {0} /\ n \in 0..n /\ n \in 0..m /\ 1 <= n + 1 /\ n + 1 - 1 = n
        /\ \A x \in 1..n : 1 + x - 1 = x
    BY <1>9
  <2> QED BY <1>1, <1>10, <2>1, PartIs
<1>12. v = w
  <2>1. \A x \in 1..n : v[x] = w[x]
    BY <1>9, <1>11
  <2> QED BY <1>11, <2>1, SeqEqual DEF Strings
<1> QED BY <1>1, <1>9, <1>10, <1>12 DEF IsPrefix

\* A request that is served is one a client asked for, at the location dispatch_handler
\* chose for its URI.
Chosen ==
    pc # "idle" =>
        /\ location = LocationFor(uri) /\ uri \in Strings
        /\ asked # <<>> => \E a \in Asked : asked = a.path /\ uri = a.uri

AInv == SInv /\ Chosen

LEMMA AInvInit == Init => AInv
<1>1. Init => SInv
  BY SInvInit
<1> QED BY <1>1 DEF Init, ProxyInit, AInv, Chosen

LEMMA AInvStep == AInv /\ [Next]_vars => AInv'
<1> SUFFICES ASSUME AInv, [Next]_vars PROVE Chosen'
  BY SInvStep DEF AInv
<1>1. CASE UNCHANGED vars
  BY <1>1 DEF vars, proxyVars, AInv, Chosen
<1>2. ASSUME NEW a \in Asked, NEW h \in Hosts, Request(a, h) PROVE Chosen'
  <2>1. location' = LocationFor(a.uri) /\ asked' = a.path /\ a.uri \in Strings
    BY <1>2, SiteAssumption DEF Request
  <2>2. uri' = a.uri
    BY <1>2 DEF Request, Serve, Begin
  <2>3. LocationFor(a.uri) = LocationFor(uri')
    BY <2>2
  <2> QED BY <2>1, <2>2, <2>3 DEF Chosen
<1>3. CASE Return
  BY <1>3 DEF Return, Chosen
<1>4. CASE Exchange /\ UNCHANGED <<location, asked, file, extension>>
  <2>1. pc # "idle"
    BY <1>4 DEF Exchange, StatusLine, HeaderLines, BadHeaderLine, Body, Fail
  <2>2. uri' = uri
    <3>1. CASE \E c \in {"200", "302", "404", "500"} : StatusLine(c)
      BY <3>1 DEF StatusLine, Stock
    <3>2. CASE \E f \in Sent : HeaderLines(f)
      BY <3>2 DEF HeaderLines, Redirect
    <3>3. CASE BadHeaderLine
      BY <3>3 DEF BadHeaderLine, Stock
    <3>4. CASE \E q, n : Body(q, n)
      BY <3>4 DEF Body
    <3>5. CASE Fail
      BY <3>5 DEF Fail, Broken
    <3> QED BY <1>4, <3>1, <3>2, <3>3, <3>4, <3>5 DEF Exchange
  <2>3. LocationFor(uri') = LocationFor(uri)
    BY <2>2
  <2> QED BY <1>4, <2>1, <2>2, <2>3 DEF AInv, Chosen
<1> QED BY <1>1, <1>2, <1>3, <1>4 DEF Next, Step

\* What is joined is found again.
LEMMA PartsOfJoined ==
    ASSUME NEW r \in Strings, NEW y \in Strings
    PROVE  IsPrefix(r, r \o y) /\ SubSeq(r \o y, Len(r) + 1, Len(r \o y)) = y
<1>1. PICK k \in Nat, l \in Nat : k = Len(r) /\ l = Len(y)
  BY LenProperties DEF Strings
<1>2. PICK f : f = r \o y
  OBVIOUS
<1>3. /\ f \in Strings /\ Len(f) = k + l /\ \A i \in 1..k : f[i] = r[i]
      /\ \A i \in k + 1 .. k + l : f[i] = y[i - k]
  BY <1>1, <1>2, ConcatIs
<1>4. PICK a, b, c : a = SubSeq(r, 1, k) /\ b = SubSeq(f, 1, k) /\ c = SubSeq(f, k + 1, k + l)
  OBVIOUS
<1>5. /\ a \in Strings /\ Len(a) = k /\ \A x \in 1..k : a[x] = r[x]
      /\ b \in Strings /\ Len(b) = k /\ \A x \in 1..k : b[x] = f[x]
  <2>1. 1 \in Nat \ {0} /\ k \in 0..k /\ k \in 0..(k + l) /\ 1 <= k + 1 /\ k + 1 - 1 = k
        /\ \A x \in 1..k : 1 + x - 1 = x
    OBVIOUS
  <2> QED BY <1>1, <1>3, <1>4, <2>1, PartIs
<1>6. c \in Strings /\ Len(c) = l /\ \A x \in 1..l : c[x] = f[k + x]
  <2>1. PICK n \in Nat : n = Len(f) /\ n = k + l
    BY <1>3
  <2>2. k \in 0..n /\ n - k = l
    BY <2>1
  <2>3. /\ SubSeq(f, k + 1, n) \in Strings /\ Len(SubSeq(f, k + 1, n)) = n - k
        /\ \A x \in 1..(n - k) : SubSeq(f, k + 1, n)[x] = f[k + x]
    <3>1. f \in Strings /\ k \in 0..Len(f)
      BY <1>3, <2>1, <2>2
    <3>2. /\ SubSeq(f, k + 1, Len(f)) \in Strings /\ Len(SubSeq(f, k + 1, Len(f))) = Len(f) - k
          /\ \A x \in 1..(Len(f) - k) : SubSeq(f, k + 1, Len(f))[x] = f[k + x]
      BY <3>1, RestIs
    <3> QED BY <2>1, <3>2
  <2>4. c = SubSeq(f, k + 1, n)
    BY <1>4, <2>1
  <2> QED BY <2>2, <2>3, <2>4
<1>7. a = b
  <2>1. \A x \in 1..k : a[x] = b[x]
    BY <1>3, <1>5
  <2> QED BY <1>5, <2>1, SeqEqual DEF Strings
<1>8. c = y
  <2>1. \A x \in 1..l : k + x \in k + 1 .. k + l /\ (k + x) - k = x
    OBVIOUS
  <2>2. \A x \in 1..l : c[x] = y[x]
    BY <1>3, <1>6, <2>1
  <2> QED BY <1>1, <1>6, <2>2, SeqEqual DEF Strings
<1>9. k <= k + l
  OBVIOUS
<1>10. IsPrefix(r, f)
  BY <1>1, <1>3, <1>4, <1>7, <1>9 DEF IsPrefix
<1> QED BY <1>1, <1>2, <1>3, <1>4, <1>8, <1>10

\* The path s is refused, or looked for at the root r, with x behind it.
Refused(s) == \E i \in 1..(Len(s) - 1) : s[i] = 46 /\ s[i + 1] = 46

Opened(r, p, s, x) ==
    /\ IsPrefix(r, file)
    /\ SubSeq(file, Len(r) + 1, Len(file)) = SubSeq(s, Len(p) + 1, Len(s)) \o x
    /\ Slash \notin ToSet(extension)

LEMMA FileIsOpened ==
    ASSUME NEW r \in Strings, NEW p \in Strings, NEW s \in Strings, IsPrefix(p, s), NEW x \in Strings,
           file = r \o SubSeq(s, Len(p) + 1, Len(s)) \o x, Slash \notin ToSet(extension)
    PROVE  Opened(r, p, s, x)
<1>1. PICK b, f, y : b = SubSeq(s, Len(p) + 1, Len(s)) /\ f = file /\ y = b \o x
  OBVIOUS
<1>2. Len(p) \in 0..Len(s)
  <2>1. Len(p) \in Nat /\ Len(s) \in Nat
    BY LenProperties DEF Strings
  <2> QED BY <2>1, PrefixIs
<1>3. b \in Strings
  BY <1>1, <1>2, RestIs
<1>4. y \in Strings
  BY <1>1, <1>3, ConcatProperties DEF Strings
<1>5. f = r \o y
  <2>1. r \in Seq(0..255) /\ b \in Seq(0..255) /\ x \in Seq(0..255)
    BY <1>3 DEF Strings
  <2>2. r \o (b \o x) = (r \o b) \o x
    BY <2>1, ConcatsAssociate
  <2> QED BY <1>1, <2>2
<1>6. IsPrefix(r, f) /\ SubSeq(f, Len(r) + 1, Len(f)) = y
  BY <1>4, <1>5, PartsOfJoined
<1> QED BY <1>1, <1>6 DEF Opened

\* Where no part of a name has a NUL, the whole name is opened.
NothingIsCut(r, p, s, x) ==
    LET name == r \o SubSeq(s, Len(p) + 1, Len(s)) \o x IN Static!c_str(name) = name

LEMMA WholeFile ==
    ASSUME NEW r \in Strings, NEW p \in Strings, NEW s \in Strings, IsPrefix(p, s), NEW x \in Strings,
           0 \notin ToSet(r), 0 \notin ToSet(s), 0 \notin ToSet(x)
    PROVE  NothingIsCut(r, p, s, x)
<1>1. PICK k \in Nat, l \in Nat, n \in Nat : k = Len(p) /\ l = Len(s) /\ n = l - k
  <2>1. Len(p) \in Nat /\ Len(s) \in Nat
    BY LenProperties DEF Strings
  <2>2. Len(p) <= Len(s)
    BY PrefixIs
  <2> QED BY <2>1, <2>2
<1>2. PICK b : b = SubSeq(s, k + 1, l)
  OBVIOUS
<1>3. b \in Strings /\ Len(b) = n /\ \A i \in 1..n : b[i] = s[k + i]
  <2>1. k \in 0..Len(s)
    BY <1>1
  <2> QED BY <1>1, <1>2, <2>1, RestIs
<1>4. 0 \notin ToSet(b)
  <2>1. \A i \in 1..l : s[i] # 0
    <3>1. DOMAIN s = 1..l
      BY <1>1, LenProperties DEF Strings
    <3> QED BY <3>1 DEF ToSet
  <2>2. \A i \in 1..n : k + i \in 1..l
    BY <1>1
  <2>3. DOMAIN b = 1..n
    BY <1>3, LenProperties DEF Strings
  <2> QED BY <1>3, <2>1, <2>2, <2>3 DEF ToSet
<1>5. ASSUME NEW v \in Strings, NEW w \in Strings, 0 \notin ToSet(v), 0 \notin ToSet(w)
      PROVE  v \o w \in Strings /\ 0 \notin ToSet(v \o w)
  <2>1. PICK a \in Nat, c \in Nat : a = Len(v) /\ c = Len(w) /\ DOMAIN v = 1..a /\ DOMAIN w = 1..c
    BY LenProperties DEF Strings
  <2>2. PICK f : f = v \o w
    OBVIOUS
  <2>3. /\ f \in Strings /\ Len(f) = a + c
        /\ \A i \in 1..a : f[i] = v[i]
        /\ \A i \in a + 1 .. a + c : f[i] = w[i - a]
    BY <2>1, <2>2, ConcatIs
  <2>4. DOMAIN f = 1..(a + c)
    BY <2>3, LenProperties DEF Strings
  <2>5. (\A i \in 1..a : v[i] # 0) /\ \A i \in 1..c : w[i] # 0
    BY <1>5, <2>1 DEF ToSet
  <2>6. \A i \in 1..(a + c) : i \in 1..a \/ (i \in a + 1 .. a + c /\ i - a \in 1..c)
    OBVIOUS
  <2>7. \A i \in 1..(a + c) : f[i] # 0
    BY <2>3, <2>5, <2>6
  <2> QED BY <2>2, <2>3, <2>4, <2>7 DEF ToSet
<1>6. r \o b \in Strings /\ 0 \notin ToSet(r \o b)
  BY <1>3, <1>4, <1>5
<1>7. (r \o b) \o x \in Strings /\ 0 \notin ToSet((r \o b) \o x)
  BY <1>5, <1>6
<1> QED BY <1>1, <1>2, <1>7, CutIs DEF NothingIsCut

LEMMA AInvAsked == AInv => AskedIsOpened
<1> DEFINE X == IF Last(asked) = Slash THEN Static!Index ELSE <<>>
<1> SUFFICES ASSUME AInv, NEW p \in DOMAIN StaticRoots,
                    pc = "answer", asked # <<>>, Clear(uri), Deepest(uri, p), Literal(p),
                    Whole(asked), Whole(StaticRoots[p])
             PROVE  /\ location = p /\ (code = "400" <=> Refused(asked))
                    /\ code # "400" => code \in {"200", "404"} /\ Opened(StaticRoots[p], p, asked, X)
  BY Zenon DEF AskedIsOpened, Refused, Opened
<1>1. location = LocationFor(uri) /\ uri \in Strings /\ SInv
  BY DEF AInv, Chosen
<1>2. PICK a \in Asked : asked = a.path /\ uri = a.uri
  BY DEF AInv, Chosen
<1>3. asked \in Strings /\ Head(asked) = Slash /\ EncodesPath(a.parts, asked) /\ uri = FlattenSeq(a.parts)
  BY <1>2, SiteAssumption
<1>4. p \in SiteLocations /\ p \in Strings /\ StaticRoots[p] \in Strings
  BY SiteAssumption DEF SiteLocations
<1>5. location = p
  BY <1>1, <1>4, LocationIs
<1>6. Static!url_decode(uri) = asked
  BY <1>3, DecodedIs
<1>7. IsPrefix(p, asked)
  <2>1. IsPrefix(p, uri)
    BY DEF Deepest, Below
  <2> QED BY <1>3, <1>4, <2>1, LiteralIsPrefix
<1>8. FilesAreBelow
  BY <1>1, AnswersAreBelow
<1>9. /\ code = "400" <=> Static!HasDotDot(asked)
      /\ code # "400" => /\ code \in {"200", "404"}
                         /\ file = Static!c_str(StaticRoots[p] \o SubSeq(asked, Len(p) + 1, Len(asked)) \o X)
                         /\ Slash \notin ToSet(extension)
  BY <1>3, <1>5, <1>6, <1>7, <1>8, Zenon DEF FilesAreBelow
<1>10. Static!HasDotDot(asked) <=> Refused(asked)
  BY DEF Static!HasDotDot, Refused, Static!Dot
<1>11. X \in Strings
  <2>1. Static!Index \in Seq(0..255) /\ <<>> \in Seq(0..255)
    BY DEF Static!Index
  <2> QED BY <2>1 DEF Strings
<1>12. 0 \notin ToSet(X)
  <2>1. DOMAIN Static!Index = 1..10 /\ \A i \in 1..10 : Static!Index[i] # 0
    BY DEF Static!Index
  <2>2. 0 \notin ToSet(Static!Index)
    BY <2>1 DEF ToSet
  <2>3. 0 \notin ToSet(<<>>)
    BY DEF ToSet
  <2>4. X = Static!Index \/ X = <<>>
    OBVIOUS
  <2> HIDE DEF X
  <2> QED BY <2>2, <2>3, <2>4
<1> HIDE DEF X
<1>13. Static!c_str(StaticRoots[p] \o SubSeq(asked, Len(p) + 1, Len(asked)) \o X)
         = StaticRoots[p] \o SubSeq(asked, Len(p) + 1, Len(asked)) \o X
  <2>1. 0 \notin ToSet(asked) /\ 0 \notin ToSet(StaticRoots[p])
    BY DEF Whole
  <2>2. NothingIsCut(StaticRoots[p], p, asked, X)
    BY <1>3, <1>4, <1>7, <1>11, <1>12, <2>1, WholeFile
  <2> QED BY <2>2 DEF NothingIsCut
<1>14. code # "400" => Opened(StaticRoots[p], p, asked, X)
  BY <1>3, <1>4, <1>7, <1>9, <1>11, <1>13, FileIsOpened
<1> QED BY <1>5, <1>9, <1>10, <1>14

\* The path a client means, however it encodes it, is looked for in the directory of
\* the deepest location whose names begin the URI as written, and only there, and is
\* refused exactly if it goes upwards (dispatch_handler, url_decode,
\* check_request_path, replace_path).
THEOREM AskedAreOpened == Spec => []AskedIsOpened
BY AInvInit, AInvStep, AInvAsked, PTL DEF Spec
=============================================================================
