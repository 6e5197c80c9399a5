------------------------ MODULE RequestAnswersProofs ------------------------
(***************************************************************************)
(* Proofs about what the sessions of RequestFraming answer, for requests   *)
(* of any size, cut anywhere, and arrays that hold junk of any length: the *)
(* state is well formed, the first request is answered for what it is, and *)
(* so is every request without a body that arrives whole or longer piece   *)
(* first, as long as no read overtakes a memset.                           *)
(*                                                                         *)
(* The parser stops at the least byte that ends or flaws a head, so the    *)
(* proofs need the least element of a set of numbers: it exists because    *)
(* strict inclusion of finite sets is well-founded.                        *)
(***************************************************************************)
EXTENDS RequestFraming, TLAPS, FiniteSetTheorems, SequenceTheorems

-----------------------------------------------------------------------------
(* Least and greatest elements.                                              *)

\* The lengths of subsets are well-founded, hence so are the natural numbers.
LEMMA LeastExists == ASSUME NEW A \in SUBSET Nat, A # {} PROVE \E x \in A : \A y \in A : x =< y
<1> DEFINE R == StrictSubsetOrdering(Nat)
           T == {0..x : x \in A}
<1>1. T \subseteq FiniteSubsetsOf(Nat)
  <2>1. ASSUME NEW x \in A PROVE 0..x \in FiniteSubsetsOf(Nat)
    <3>1. IsFiniteSet(0..x)
      BY FS_Interval
    <3> QED BY <3>1 DEF FiniteSubsetsOf
  <2> QED BY <2>1
<1>2. PICK s \in T : \A r \in T : ~(<<r, s>> \in R)
  <2>1. T # {}
    OBVIOUS
  <2>2. IsWellFoundedOn(R, FiniteSubsetsOf(Nat))
    BY FS_StrictSubsetOrderingWellFounded
  <2> QED BY <1>1, <2>1, <2>2, WFMin
<1>3. PICK x \in A : s = 0..x
  OBVIOUS
<1>4. ASSUME NEW y \in A, y < x PROVE FALSE
  <2>1. 0..y \subseteq 0..x /\ 0..y # 0..x
    <3>1. x \in 0..x /\ x \notin 0..y
      BY <1>4
    <3> QED BY <3>1, <1>4
  <2>2. <<0..y, 0..x>> \in R
    BY <2>1 DEF StrictSubsetOrdering
  <2> QED BY <2>2, <1>2, <1>3
<1> QED BY <1>4

\* The Min of a set of numbers.
LEMMA LeastIsMin ==
    ASSUME NEW A \in SUBSET Nat, A # {}
    PROVE  Min(A) \in A /\ \A y \in A : Min(A) =< y
BY LeastExists DEF Min

\* The Max of a bounded set of numbers.
LEMMA GreatestIsMax ==
    ASSUME NEW n \in Nat, NEW A \in SUBSET (0..n), A # {}
    PROVE  Max(A) \in A /\ \A y \in A : Max(A) >= y
<1> DEFINE B == {n - x : x \in A}
<1>1. B \in SUBSET Nat /\ B # {}
  <2>1. \A x \in A : n - x \in Nat
    OBVIOUS
  <2> QED BY <2>1
<1>2. PICK b \in B : \A y \in B : b =< y
  BY <1>1, LeastExists
<1>3. PICK x \in A : b = n - x
  OBVIOUS
<1>4. \A y \in A : x >= y
  <2> TAKE y \in A
  <2>1. b =< n - y
    BY <1>2
  <2> QED BY <2>1, <1>3
<1> QED BY <1>4 DEF Max

\* What RequestFramingAssumption says of one request.
LEMMA KindTypes ==
    ASSUME NEW k \in Kinds
    PROVE  /\ k.head \in Nat \ {0} /\ k.body \in Nat /\ k.known \in Nat /\ k.flaw \in 0..k.head
           /\ k.known < k.head /\ (k.known = 0 <=> k.body = 0)
BY RequestFramingAssumption

\* The bytes of the requests sent, and junk.
Known == (0..Len(sent)) \X Nat

\* No more bytes continue a head than were parsed.
LEMMA MatchedIn ==
    ASSUME NEW p, NEW d, NEW n \in Nat, Len(d) \in Nat
    PROVE  Matched(p, d, n) \in 0..n /\ Matched(p, d, n) =< Len(d)
<1> DEFINE runs == {k \in 0..n : k =< Len(d) /\ \A i \in 1..k : d[i] # Junk /\ d[i] = Expected(p, d, i)}
<1>1. 0 \in runs
  OBVIOUS
<1>2. Max(runs) \in runs
  BY <1>1, GreatestIsMax
<1> QED BY <1>2 DEF Matched

\* What parse returns.
LEMMA ParseTypes ==
    ASSUME NEW p \in Byte, NEW d \in Seq(Byte), NEW n \in Nat, NEW o \in parse(p, d, n)
    PROVE  /\ o.result \in {"good", "bad", "indeterminate"}
           /\ o.at \in Byte /\ o.used \in 0..n
<1> DEFINE m == Matched(p, d, n)
           stops == {i \in 1..m : Ends(d[i]) \/ Flawed(d[i])}
<1>0. m \in 0..n /\ m =< Len(d) /\ Len(d) \in Nat
  BY MatchedIn
<1>1. CASE stops # {}
  <2>0. stops \in SUBSET Nat /\ stops \in SUBSET (1..m)
    BY <1>0
  <2>1. Min(stops) \in 1..m
    <3> HIDE DEF stops
    <3> QED BY <1>1, <2>0, LeastIsMin
  <2>2. o = [result |-> IF Flawed(d[Min(stops)]) THEN "bad" ELSE "good",
             at |-> d[Min(stops)], used |-> Min(stops)]
    BY <1>1 DEF parse
  <2> QED BY <2>1, <2>2, <1>0
<1>2. CASE stops = {} /\ m = n
  <2>1. o = [result |-> "indeterminate", at |-> IF n = 0 THEN p ELSE d[n], used |-> n]
    BY <1>2 DEF parse
  <2>2. n # 0 => d[n] \in Byte
    BY <1>0, <1>2
  <2> QED BY <2>1, <2>2
<1>4. CASE stops = {} /\ m # n /\ m = Len(d)
  <2>1. o = [result |-> "bad", at |-> Stray, used |-> m + 1]
    BY <1>4 DEF parse
  <2> QED BY <1>0, <1>4, <2>1 DEF Stray, Byte
<1>3. CASE stops = {} /\ m # n /\ m # Len(d)
  <2>1. o \in [result : {"good", "bad"}, at : {Stray}, used : (m + 1)..n]
              \cup [result : {"indeterminate"}, at : {Stray}, used : {n}]
    BY <1>3 DEF parse
  <2>2. o.result \in {"good", "bad", "indeterminate"} /\ o.at = Stray /\ o.used \in 0..n
    BY <2>1, <1>0
  <2> QED BY <2>2 DEF Stray, Byte
<1> QED BY <1>1, <1>2, <1>3, <1>4

\* A Content-Length is a number.
LEMMA LengthTypes ==
    ASSUME sent \in Seq(Kinds), NEW p, NEW d \in Seq(Known), NEW u \in Nat, NEW length \in Nat
    PROVE  get_content_length(p, d, u, length) \in Nat
<1> DEFINE found == {i \in 1..Matched(p, d, u) : Knows(d[i])}
<1>1. CASE found = {}
  BY <1>1 DEF get_content_length
<1>2. CASE found # {}
  <2>1. Matched(p, d, u) \in 0..u /\ Matched(p, d, u) =< Len(d) /\ Len(d) \in Nat
    BY MatchedIn
  <2>2. found \in SUBSET Nat /\ found \in SUBSET (1..Len(d))
    BY <2>1
  <2>3. Min(found) \in found /\ Min(found) \in 1..Len(d)
    <3> HIDE DEF found
    <3>1. Min(found) \in found
      BY <1>2, <2>2, LeastIsMin
    <3> QED BY <2>2, <3>1
  <2>4. d[Min(found)] \in Known /\ d[Min(found)][1] > 0
    <3>1. Knows(d[Min(found)])
      BY <2>3
    <3>2. d[Min(found)][1] > 0
      BY <3>1 DEF Knows
    <3> QED BY <2>3, <3>2
  <2>5. d[Min(found)][1] \in 1..Len(sent)
    BY <2>4 DEF Known
  <2>6. sent[d[Min(found)][1]] \in Kinds
    BY <2>5
  <2>7. sent[d[Min(found)][1]].body \in Nat
    BY <2>6, RequestFramingAssumption
  <2> QED BY <2>7, <1>2 DEF get_content_length
<1> QED BY <1>1, <1>2

\* The results of parse_data, an exception among them.
Results == {"good", "bad", "indeterminate", "missing_data", "throw"}

\* What parse_data returns.
LEMMA ParseDataTypes ==
    ASSUME sent \in Seq(Kinds), n_char_parsed \in Nat, NEW p \in Byte, NEW d \in Seq(Known),
           NEW n \in Nat, NEW length \in Nat, NEW r \in parse_data(p, d, n, length)
    PROVE  /\ r.result \in Results
           /\ r.at \in Byte /\ r.used \in Nat /\ r.length \in Nat /\ r.body \in Seq(Byte)
<1>0. d \in Seq(Byte)
  BY DEF Known, Byte
<1>1. PICK o \in parse(p, d, n) :
        LET l == get_content_length(p, d, o.used, length)
            result == IF l > 0 /\ n_char_parsed + o.used = Len(d) THEN "missing_data"
                      ELSE IF l > Len(d) THEN "throw"
                      ELSE o.result
        IN  r = [result |-> result, at |-> o.at, used |-> o.used, length |-> l,
                 body |-> IF result \in {"good", "bad"} THEN SubSeq(d, Len(d) - l + 1, Len(d)) ELSE <<>>]
  BY DEF parse_data
<1>2. /\ o.result \in {"good", "bad", "indeterminate"}
      /\ o.at \in Byte /\ o.used \in 0..n
  BY <1>0, ParseTypes
<1> DEFINE l == get_content_length(p, d, o.used, length)
<1>3. l \in Nat
  BY <1>2, LengthTypes
<1>4. l =< Len(d) => SubSeq(d, Len(d) - l + 1, Len(d)) \in Seq(Byte)
  BY <1>0, <1>3
<1> HIDE DEF l
<1>5. r.result \in {"good", "bad"} => l =< Len(d)
  BY <1>1, <1>2, <1>3 DEF l
<1>6. r.body \in Seq(Byte)
  <2>1. CASE r.result \in {"good", "bad"}
    BY <2>1, <1>1, <1>4, <1>5 DEF l
  <2>2. CASE r.result \notin {"good", "bad"}
    <3>1. r.body = <<>>
      BY <2>2, <1>1
    <3> QED BY <3>1
  <2> QED BY <2>1, <2>2
<1>7. r.result \in Results
  BY <1>1, <1>2 DEF Results
<1> QED BY <1>1, <1>2, <1>3, <1>6, <1>7 DEF l

\* The arrays and the stream hold bytes of requests that were sent.
KnownBytes == stream \in Seq(Known) /\ data_ \in Seq(Known) /\ buffer_ \in Seq(Known)

\* The inductive invariant for types: get_content_length looks up the request a
\* byte belongs to, so it is a number only for bytes of requests that were sent; and
\* what a read left in an array stays there only if no memset is due.
TInv ==
    /\ TypeOK /\ KnownBytes
    /\ ~overtaken /\ phase \in {"loop", "final"} => \A a \in Arrays : due[a] = 0

\* What a read leaves in an array.
LEMMA OverTypes ==
    ASSUME NEW S, stream \in Seq(S), NEW s \in Seq(S), NEW n \in 1..Len(stream)
    PROVE  /\ Over(s, n) \in Seq(S)
           /\ Len(Over(s, n)) >= n /\ Len(Over(s, n)) >= Len(s)
           /\ SubSeq(stream, n + 1, Len(stream)) \in Seq(S)
<1>1. /\ SubSeq(stream, 1, n) \in Seq(S) /\ Len(SubSeq(stream, 1, n)) = n
      /\ SubSeq(stream, n + 1, Len(stream)) \in Seq(S)
  OBVIOUS
<1>2. SubSeq(s, n + 1, Len(s)) \in Seq(S)
  OBVIOUS
<1>3. Len(SubSeq(s, n + 1, Len(s))) = IF n < Len(s) THEN Len(s) - n ELSE 0
  OBVIOUS
<1>4. /\ Over(s, n) \in Seq(S)
      /\ Len(Over(s, n)) = n + Len(SubSeq(s, n + 1, Len(s)))
  BY <1>1, <1>2 DEF Over
<1> QED BY <1>1, <1>3, <1>4

\* What a handler finds in an array, in particular if no memset is due.
LEMMA FoundTypes ==
    ASSUME NEW S, stream \in Seq(S), NEW s \in Seq(S), NEW n \in 1..Len(stream),
           due \in [Arrays -> Nat], NEW a \in Arrays, NEW f \in Found(a, s, n)
    PROVE  /\ f.is \in Seq(S) /\ f.due \in Nat
           /\ due[a] = 0 => f.is = Over(s, n) /\ f.due = 0
<1>1. due[a] \in Nat /\ Over(s, n) \in Seq(S) /\ <<>> \in Seq(S)
  BY OverTypes
<1>2. CASE f = [is |-> Over(s, n), due |-> due[a]]
  BY <1>1, <1>2
<1>3. CASE \E k \in 0..due[a] : k + 1 = due[a] /\ f = [is |-> <<>>, due |-> k]
  BY <1>1, <1>3
<1> QED BY <1>2, <1>3 DEF Found

\* A response is recorded with the sizes of its reads.
LEMMA RespondTypes ==
    ASSUME TypeOK, NEW result \in {"good", "bad"}, NEW final \in BOOLEAN, NEW body \in Seq(Byte),
           segments' \in Seq(Nat), sent' = sent, Respond(result, final, body)
    PROVE  /\ answers' \in Seq(Answer) /\ Len(answers') =< Len(sent')
           /\ phase' = "read"
<1>1. [result |-> result, final |-> final, body |-> body, segments |-> segments'] \in Answer
  BY DEF Answer
<1>2. answers \in Seq(Answer) /\ Len(answers) =< Len(sent) /\ Len(sent) \in Nat
  BY DEF TypeOK
<1> HIDE DEF Answer
<1>3. CASE Len(answers) >= Len(sent)
  BY <1>2, <1>3 DEF Respond
<1>4. CASE ~(Len(answers) >= Len(sent))
  BY <1>1, <1>2, <1>4 DEF Respond
<1> QED BY <1>3, <1>4

\* What follows parse_data keeps the types.
LEMMA ReactTypes ==
    ASSUME TypeOK, NEW S, NEW f, f.is \in Seq(S), f.due \in Nat, NEW o, React(o, f), sent' = sent,
           segments' \in Seq(Nat),
           o.result \in Results, o.used \in Nat, o.length \in Nat, o.body \in Seq(Byte)
    PROVE  /\ n_char_parsed' \in Nat /\ content_length' \in Nat
           /\ phase' \in {"read", "loop", "final", "thrown"}
           /\ data_' = f.is
           /\ due' \in [Arrays -> Nat]
           /\ phase' \in {"loop", "final"} => due' = [due EXCEPT !["data_"] = f.due]
           /\ answers' \in Seq(Answer) /\ Len(answers') =< Len(sent')
<1>0. /\ n_char_parsed \in Nat /\ content_length \in Nat
      /\ answers \in Seq(Answer) /\ Len(answers) =< Len(sent)
      /\ due \in [Arrays -> Nat]
  BY DEF TypeOK
<1>1. n_char_parsed' \in Nat /\ content_length' \in Nat /\ data_' = f.is
  BY <1>0 DEF React
<1>2. CASE o.result \in {"indeterminate", "missing_data", "throw"}
  <2>1. /\ phase' \in {"loop", "final", "thrown"} /\ answers' = answers
        /\ due' = [due EXCEPT !["data_"] = f.due]
    BY <1>2 DEF React
  <2> QED BY <1>0, <1>1, <2>1
<1>3. CASE o.result \in {"good", "bad"}
  <2>1. due' = [due EXCEPT !["data_"] = f.due + 1] /\ Respond(o.result, FALSE, o.body)
    BY <1>3 DEF React
  <2>2. phase' = "read" /\ answers' \in Seq(Answer) /\ Len(answers') =< Len(sent')
    BY <1>3, <2>1, RespondTypes
  <2>3. f.due + 1 \in Nat
    OBVIOUS
  <2> QED BY <1>0, <1>1, <2>1, <2>2, <2>3
<1> QED BY <1>2, <1>3 DEF Results

\* A new session.
LEMMA TypeInit == Init => TInv
<1> SUFFICES ASSUME Init PROVE TInv
  OBVIOUS
<1>1. ASSUME NEW n \in JunkLengths
      PROVE  [i \in 1..n |-> Junk] \in Seq(Byte) /\ [i \in 1..n |-> Junk] \in Seq({<<0, 0>>})
  <2>1. n \in Nat
    BY RequestFramingAssumption
  <2> QED BY <2>1 DEF Junk, Byte
<1>2. sent = <<>> /\ sent \in Seq(Kinds) /\ Len(sent) = 0
  BY DEF Init
<1>3. <<0, 0>> \in Known
  BY <1>2 DEF Known
<1>4. data_ \in Seq(Byte) /\ buffer_ \in Seq(Byte) /\ data_ \in Seq(Known) /\ buffer_ \in Seq(Known)
  <2>1. PICK n \in JunkLengths : data_ = [i \in 1..n |-> Junk]
    BY DEF Init
  <2>2. PICK m \in JunkLengths : buffer_ = [i \in 1..m |-> Junk]
    BY DEF Init
  <2>3. n \in Nat /\ m \in Nat
    BY RequestFramingAssumption
  <2> QED BY <2>1, <2>2, <2>3, <1>3 DEF Junk, Byte
<1>5. stream = <<>> /\ phase = "read" /\ bytes = 0 /\ parser \in Byte /\ n_char_parsed = 0
      /\ content_length = 0 /\ zeroed \in BOOLEAN /\ segments = <<>> /\ answers = <<>>
      /\ due \in [Arrays -> Nat] /\ overtaken = FALSE
  BY DEF Init, Start, Byte
<1>6. TypeOK
  <2>1. /\ stream \in Seq(Byte) /\ segments \in Seq(Nat) /\ answers \in Seq(Answer)
        /\ n_char_parsed \in Nat /\ content_length \in Nat /\ bytes \in Nat
        /\ phase \in {"read", "loop", "final", "thrown"} /\ phase # "loop"
    BY <1>5
  <2>2. Len(sent) <= MaxRequests /\ Len(answers) <= Len(sent)
    BY <1>2, <1>5, RequestFramingAssumption
  <2>3. overtaken \in BOOLEAN
    BY <1>5
  <2> QED BY <1>2, <1>4, <1>5, <2>1, <2>2, <2>3 DEF TypeOK
<1>7. KnownBytes
  BY <1>4, <1>5 DEF KnownBytes
<1> QED BY <1>5, <1>6, <1>7 DEF TInv

\* The client sends a request.
LEMMA SendTypes == ASSUME TInv, NEW k \in Kinds, Send(k) PROVE TInv'
<1>0. /\ sent \in Seq(Kinds) /\ answers \in Seq(Answer)
      /\ stream \in Seq(Known) /\ data_ \in Seq(Known) /\ buffer_ \in Seq(Known)
  BY DEF TInv, TypeOK, KnownBytes
<1>1. /\ sent' \in Seq(Kinds) /\ Len(sent') = Len(sent) + 1
      /\ Len(sent') =< MaxRequests
  <2>1. MaxRequests \in Nat
    BY RequestFramingAssumption
  <2> QED BY <2>1, <1>0 DEF Send
<1>2. Known \in SUBSET Known' /\ Known' \in SUBSET Byte
  BY <1>0, <1>1 DEF Known, Byte
<1>3. Text(Len(sent) + 1, k) \in Seq(Known')
  <2>1. k.head + k.body \in Nat
    BY RequestFramingAssumption
  <2>2. \A i \in 1..(k.head + k.body) : <<Len(sent) + 1, i>> \in Known'
    BY <1>0, <1>1 DEF Known
  <2> QED BY <2>1, <2>2 DEF Text
<1>4. stream' \in Seq(Known') /\ data_' \in Seq(Known') /\ buffer_' \in Seq(Known')
  <2>1. stream \in Seq(Known') /\ data_ \in Seq(Known') /\ buffer_ \in Seq(Known')
    BY <1>0, <1>2
  <2> HIDE DEF Known
  <2>2. stream \o Text(Len(sent) + 1, k) \in Seq(Known')
    BY <2>1, <1>3
  <2> QED BY <2>1, <2>2 DEF Send
<1>5. stream' \in Seq(Byte) /\ data_' \in Seq(Byte) /\ buffer_' \in Seq(Byte)
  BY <1>2, <1>4
<1>6. /\ phase' = phase /\ bytes' = bytes /\ parser' = parser /\ data_' = data_
      /\ n_char_parsed' = n_char_parsed /\ content_length' = content_length
      /\ zeroed' = zeroed /\ segments' = segments /\ answers' = answers
      /\ due' = due /\ overtaken' = overtaken
      /\ Len(answers) =< Len(sent) + 1
  BY <1>0 DEF Send, TInv, TypeOK
<1> QED BY <1>1, <1>4, <1>5, <1>6 DEF TInv, TypeOK, KnownBytes

\* handle_read and a turn of its loop.
LEMMA ReadTypes ==
    ASSUME TInv, NEW n \in 1..Len(stream), handle_read(n) \/ ReadLoop(n) PROVE TInv'
<1>0. /\ sent \in Seq(Kinds) /\ answers \in Seq(Answer) /\ n_char_parsed \in Nat
      /\ stream \in Seq(Known) /\ data_ \in Seq(Known) /\ buffer_ \in Seq(Known)
      /\ stream \in Seq(Byte) /\ data_ \in Seq(Byte) /\ buffer_ \in Seq(Byte)
      /\ parser \in Byte /\ content_length \in Nat /\ segments \in Seq(Nat) /\ bytes \in Nat
      /\ due \in [Arrays -> Nat] /\ overtaken \in BOOLEAN
      /\ phase = "loop" /\ ~overtaken => bytes =< Len(data_)
  BY DEF TInv, TypeOK, KnownBytes
<1>1. /\ Len(Over(data_, n)) >= n /\ Len(Over(data_, n)) >= Len(data_)
      /\ SubSeq(stream, n + 1, Len(stream)) \in Seq(Known)
      /\ SubSeq(stream, n + 1, Len(stream)) \in Seq(Byte)
      /\ Over(data_, n) \in Seq(Byte)
  BY <1>0, OverTypes
<1>3. n \in Nat /\ Len(Over(data_, n)) \in Nat /\ Len(data_) \in Nat
  BY <1>0, <1>1
<1>4. /\ sent' = sent /\ zeroed' = zeroed /\ buffer_' = buffer_
      /\ stream' = SubSeq(stream, n + 1, Len(stream))
      /\ overtaken' = (overtaken \/ \E a \in Arrays : due[a] > 0)
      /\ segments' \in Seq(Nat) /\ bytes' \in Nat
      /\ ~overtaken' => bytes' =< Len(Over(data_, n))
  <2>1. CASE handle_read(n)
    BY <2>1, <1>0, <1>1, <1>3 DEF handle_read, Took
  <2>2. CASE ReadLoop(n)
    <3>1. /\ phase = "loop" /\ bytes' = bytes /\ segments' = Append(segments, n)
          /\ sent' = sent /\ zeroed' = zeroed /\ buffer_' = buffer_
          /\ stream' = SubSeq(stream, n + 1, Len(stream))
          /\ overtaken' = (overtaken \/ \E a \in Arrays : due[a] > 0)
      BY <2>2 DEF ReadLoop, Took
    <3>2. ~overtaken' => bytes =< Len(data_)
      BY <1>0, <3>1
    <3>3. segments' \in Seq(Nat)
      BY <1>0, <1>3, <3>1
    <3>4. bytes =< Len(data_) => bytes =< Len(Over(data_, n))
      BY <1>0, <1>1, <1>3
    <3> QED BY <1>0, <3>1, <3>2, <3>3, <3>4
  <2> QED BY <2>1, <2>2
<1>5. PICK f, o :
               /\ f \in Found("data_", data_, n)
               /\ React(o, f) /\ parser' \in {o.at, Start}
               /\ o.result \in Results /\ o.at \in Byte
               /\ o.used \in Nat /\ o.length \in Nat /\ o.body \in Seq(Byte)
  <2>0. ASSUME NEW f \in Found("data_", data_, n) PROVE f.is \in Seq(Known)
    BY <1>0, FoundTypes DEF Arrays
  <2>1. CASE handle_read(n)
    <3>1. PICK f \in Found("data_", data_, n) :
              \E o \in parse_data(parser, f.is, n, 0) : React(o, f) /\ parser' \in {o.at, Start}
      BY <2>1 DEF handle_read
    <3>2. PICK o \in parse_data(parser, f.is, n, 0) : React(o, f) /\ parser' \in {o.at, Start}
      BY <3>1
    <3> QED BY <2>0, <3>2, <1>0, <1>3, ParseDataTypes
  <2>2. CASE ReadLoop(n)
    <3>1. PICK f \in Found("data_", data_, n) :
              \E o \in parse_data(parser, f.is, bytes, content_length) :
                  React(o, f) /\ parser' \in {o.at, Start}
      BY <2>2 DEF ReadLoop
    <3>2. PICK o \in parse_data(parser, f.is, bytes, content_length) :
              React(o, f) /\ parser' \in {o.at, Start}
      BY <3>1
    <3> QED BY <2>0, <3>2, <1>0, ParseDataTypes
  <2> QED BY <2>1, <2>2
<1>2. /\ f.is \in Seq(Known) /\ f.is \in Seq(Byte) /\ f.due \in Nat
      /\ due["data_"] = 0 => f.is = Over(data_, n) /\ f.due = 0
  <2>1. "data_" \in Arrays /\ f \in Found("data_", data_, n)
    BY <1>5 DEF Arrays
  <2>2. f.is \in Seq(Known)
    BY <1>0, <2>1, FoundTypes
  <2> QED BY <1>0, <2>1, <2>2, FoundTypes
<1>6. /\ n_char_parsed' \in Nat /\ content_length' \in Nat
      /\ phase' \in {"read", "loop", "final", "thrown"}
      /\ data_' = f.is /\ due' \in [Arrays -> Nat]
      /\ phase' \in {"loop", "final"} => due' = [due EXCEPT !["data_"] = f.due]
      /\ answers' \in Seq(Answer) /\ Len(answers') =< Len(sent')
  <2>1. TypeOK
    BY DEF TInv
  <2> QED BY <2>1, <1>2, <1>4, <1>5, ReactTypes
<1>7. parser' \in Byte
  BY <1>5 DEF Start, Byte
<1>8. Known' = Known
  BY <1>4 DEF Known
<1>9. Len(sent') =< MaxRequests
  BY <1>4 DEF TInv, TypeOK
<1>12. ASSUME ~overtaken' PROVE /\ \A a \in Arrays : due[a] = 0
                               /\ f.is = Over(data_, n) /\ f.due = 0
  <2>1. ~\E a \in Arrays : due[a] > 0
    BY <1>4, <1>12
  <2>2. \A a \in Arrays : due[a] = 0
    BY <1>0, <2>1
  <2> QED BY <2>2, <1>2 DEF Arrays
<1>13. phase' = "loop" /\ ~overtaken' => bytes' =< Len(data_')
  BY <1>4, <1>6, <1>12
<1>14. ~overtaken' /\ phase' \in {"loop", "final"} => \A a \in Arrays : due'[a] = 0
  BY <1>0, <1>6, <1>12
<1>15. overtaken' \in BOOLEAN
  BY <1>0, <1>4
<1>10. TypeOK'
  BY <1>0, <1>1, <1>2, <1>4, <1>6, <1>7, <1>9, <1>13, <1>15 DEF TypeOK, TInv
<1>11. KnownBytes'
  BY <1>0, <1>1, <1>2, <1>4, <1>6, <1>8 DEF KnownBytes
<1> QED BY <1>10, <1>11, <1>14 DEF TInv

\* handle_final_read.
LEMMA FinalTypes ==
    ASSUME TInv, NEW n \in 1..Len(stream), handle_final_read(n) PROVE TInv'
<1>0. /\ sent \in Seq(Kinds) /\ stream \in Seq(Known) /\ stream \in Seq(Byte)
      /\ buffer_ \in Seq(Byte) /\ buffer_ \in Seq(Known) /\ segments \in Seq(Nat)
      /\ due \in [Arrays -> Nat] /\ overtaken \in BOOLEAN
  BY DEF TInv, TypeOK, KnownBytes
<1>1. PICK f \in Found("buffer_", buffer_, n) :
      /\ Respond("good", TRUE, f.is) /\ buffer_' = f.is
      /\ due' = [data_ |-> due["data_"] + 1, buffer_ |-> f.due + 1]
  BY DEF handle_final_read
<1>2. /\ sent' = sent /\ zeroed' = zeroed /\ data_' = data_
      /\ stream' = SubSeq(stream, n + 1, Len(stream))
      /\ overtaken' = (overtaken \/ \E a \in Arrays : due[a] > 0)
      /\ segments' = Append(segments, n)
      /\ bytes' = bytes /\ parser' = parser
      /\ n_char_parsed' = n_char_parsed /\ content_length' = content_length
  BY DEF handle_final_read, Took
<1>3. segments' \in Seq(Nat) /\ overtaken' \in BOOLEAN
  BY <1>0, <1>2
<1>4. f.is \in Seq(Known) /\ f.is \in Seq(Byte) /\ f.due \in Nat
  BY <1>0, FoundTypes DEF Arrays
<1>5. stream' \in Seq(Known) /\ stream' \in Seq(Byte)
  BY <1>0, <1>2, OverTypes
<1>6. answers' \in Seq(Answer) /\ Len(answers') =< Len(sent') /\ phase' = "read"
  <2>1. TypeOK
    BY DEF TInv
  <2> QED BY <2>1, <1>1, <1>2, <1>3, <1>4, RespondTypes
<1>7. due' \in [Arrays -> Nat]
  <2>1. due["data_"] + 1 \in Nat /\ f.due + 1 \in Nat
    BY <1>0, <1>4 DEF Arrays
  <2> QED BY <1>1, <2>1 DEF Arrays
<1>8. Known' = Known
  BY <1>2 DEF Known
<1> QED BY <1>1, <1>2, <1>3, <1>4, <1>5, <1>6, <1>7, <1>8 DEF TInv, TypeOK, KnownBytes

\* A memset that was due.
LEMMA ClearTypes == ASSUME TInv, NEW a \in Arrays, Clear(a) PROVE TInv'
<1>0. due \in [Arrays -> Nat] /\ due[a] > 0
  BY DEF TInv, TypeOK, Clear
<1>1. /\ sent' = sent /\ stream' = stream /\ phase' = phase /\ bytes' = bytes /\ parser' = parser
      /\ n_char_parsed' = n_char_parsed /\ content_length' = content_length
      /\ overtaken' = overtaken /\ zeroed' = zeroed /\ segments' = segments /\ answers' = answers
      /\ data_' \in {data_, <<>>} /\ buffer_' \in {buffer_, <<>>}
      /\ due' = [due EXCEPT ![a] = due[a] - 1]
  BY DEF Clear
<1>2. due' \in [Arrays -> Nat]
  <2>1. due[a] - 1 \in Nat
    BY <1>0
  <2> QED BY <1>0, <1>1, <2>1
<1>3. ~(~overtaken /\ phase \in {"loop", "final"})
  BY <1>0 DEF TInv
<1>4. Known' = Known
  BY <1>1 DEF Known
<1>5. data_' \in Seq(Known) /\ data_' \in Seq(Byte)
  <2>1. data_ \in Seq(Known) /\ data_ \in Seq(Byte)
    BY DEF TInv, TypeOK, KnownBytes
  <2>2. <<>> \in Seq(Known) /\ <<>> \in Seq(Byte)
    OBVIOUS
  <2>3. data_' = data_ \/ data_' = <<>>
    BY <1>1
  <2> QED BY <2>1, <2>2, <2>3
<1>6. buffer_' \in Seq(Known) /\ buffer_' \in Seq(Byte)
  <2>1. buffer_ \in Seq(Known) /\ buffer_ \in Seq(Byte)
    BY DEF TInv, TypeOK, KnownBytes
  <2>2. <<>> \in Seq(Known) /\ <<>> \in Seq(Byte)
    OBVIOUS
  <2>3. buffer_' = buffer_ \/ buffer_' = <<>>
    BY <1>1
  <2> QED BY <2>1, <2>2, <2>3
<1> QED BY <1>1, <1>2, <1>3, <1>4, <1>5, <1>6 DEF TInv, TypeOK, KnownBytes

\* TInv is inductive.
LEMMA TypeStep == TInv /\ [Next]_vars => TInv'
<1> SUFFICES ASSUME TInv, [Next]_vars PROVE TInv'
  OBVIOUS
<1>1. CASE Next
  BY <1>1, SendTypes, ReadTypes, FinalTypes, ClearTypes DEF Next
<1>2. CASE UNCHANGED vars
  <2>1. Known' = Known
    BY <1>2 DEF vars, Known
  <2> QED BY <1>2, <2>1 DEF vars, TInv, TypeOK, KnownBytes
<1> QED BY <1>1, <1>2

\* The state of a session is well formed whatever its arrays held at first: the
\* bytes parsed in the loop of handle_read never exceed what data_ holds, until a
\* read overtakes a memset.
THEOREM TypeCorrect == Spec => []TypeOK
<1>1. TInv => TypeOK
  BY DEF TInv
<1> QED BY <1>1, TypeInit, TypeStep, PTL DEF Spec

\* The bytes from the i-th to the j-th of the first request.
Piece(i, j) == [x \in 1..(j - i + 1) |-> <<1, i + x - 1>>]

\* How the first request is read on a session whose arrays were zero: the part of
\* the state that decides its answer.
Opening ==
    zeroed /\ answers = <<>> =>
        LET k == sent[1] IN
        /\ Len(sent) =< 1 /\ \A a \in Arrays : due[a] = 0
        /\ phase = "read" =>
              /\ data_ = <<>> /\ buffer_ = <<>> /\ parser = Start /\ n_char_parsed = 0
              /\ stream = IF sent = <<>> THEN <<>> ELSE Text(1, k)
        /\ phase \in {"loop", "final"} =>
              /\ sent # <<>> /\ segments # <<>>
              /\ k.flaw = 0 => segments[1] # k.head + k.body
        /\ phase = "loop" /\ k.flaw = 0 => segments[1] # k.head
        /\ phase = "final" /\ k.flaw = 0 /\ segments[1] = k.head =>
              Len(segments) = 1 /\ buffer_ = <<>> /\ stream = Piece(k.head + 1, k.head + k.body)

\* A piece of a piece.
LEMMA PieceOfPiece ==
    ASSUME NEW T \in Nat, NEW i \in 1..(T + 1), NEW j \in Nat, i =< j + 1, j =< T
    PROVE  SubSeq(Piece(1, T), i, j) = Piece(i, j)
<1> DEFINE s == Piece(1, T)
           t == Piece(i, j)
           u == SubSeq(s, i, j)
<1>1. \A x \in 1..T : s[x] = <<1, x>>
  BY DEF Piece
<1>2. \A x \in i..j : s[x] = <<1, x>> /\ s[x] \in Byte
  BY <1>1 DEF Byte
<1>3. t \in Seq(Byte) /\ Len(t) = j - i + 1 /\ \A x \in 1..(j - i + 1) : t[x] = <<1, i + x - 1>>
  BY DEF Piece, Byte
<1> HIDE DEF s, t
<1>4. u \in Seq(Byte) /\ Len(u) = (IF i =< j THEN j - i + 1 ELSE 0)
      /\ \A x \in 1..(j - i + 1) : u[x] = s[i + x - 1]
  BY <1>2, SubSeqProperties
<1>5. Len(u) = Len(t) /\ \A x \in 1..Len(u) : u[x] = t[x]
  <2>1. Len(u) = j - i + 1
    BY <1>4
  <2>2. ASSUME NEW x \in 1..(j - i + 1) PROVE u[x] = t[x]
    <3>1. i + x - 1 \in i..j
      OBVIOUS
    <3>2. u[x] = s[i + x - 1]
      BY <1>4
    <3>3. s[i + x - 1] = <<1, i + x - 1>>
      BY <1>2, <3>1
    <3> QED BY <1>3, <3>2, <3>3
  <2> HIDE DEF u
  <2> QED BY <1>3, <2>1, <2>2
<1> HIDE DEF u
<1>6. u = t
  BY <1>3, <1>4, <1>5, SeqEqual
<1> QED BY <1>6 DEF s, t, u

\* On its first piece, the parser and get_content_length do what they should.
LEMMA FirstPiece ==
    ASSUME sent \in Seq(Kinds), sent # <<>>, sent[1].flaw = 0,
           NEW n \in 1..(sent[1].head + sent[1].body), NEW o \in parse(Start, Piece(1, n), n)
    PROVE  LET k == sent[1]
           IN  /\ n >= k.head => /\ o.result = "good" /\ o.used = k.head
                                 /\ get_content_length(Start, Piece(1, n), o.used, 0) = k.body
               /\ n < k.head => o.result = "indeterminate" /\ o.used = n
<1> DEFINE k == sent[1]
           d == Piece(1, n)
<1>0. /\ k \in Kinds /\ k.head \in Nat \ {0} /\ k.body \in Nat /\ k.known \in Nat
      /\ k.known < k.head /\ (k.known = 0 <=> k.body = 0)
      /\ n \in Nat
  BY RequestFramingAssumption
<1>1. (\A i \in 1..n : d[i] = <<1, i>>) /\ Len(d) = n
  <2>1. n - 1 + 1 = n /\ \A i \in 1..n : 1 + i - 1 = i
    BY <1>0
  <2>2. d = [x \in 1..n |-> <<1, x>>]
    BY <2>1 DEF Piece
  <2> HIDE DEF d
  <2> QED BY <1>0, <2>2
<1>a. o \in parse(Start, d, n)
  OBVIOUS
<1> HIDE DEF d
<1>2. ASSUME NEW u \in 1..n PROVE Matched(Start, d, u) = u
  <2> DEFINE runs == {j \in 0..u : j =< Len(d) /\ \A i \in 1..j : d[i] # Junk /\ d[i] = Expected(Start, d, i)}
  <2>1. u \in runs
    BY <1>1, <1>0 DEF Expected, Junk, Start
  <2>2. Max(runs) = u
    <3>1. runs \in SUBSET (0..u) /\ u \in Nat
      BY <1>0
    <3> HIDE DEF runs
    <3>2. Max(runs) \in 0..u /\ Max(runs) >= u
      BY <2>1, <3>1, GreatestIsMax
    <3> QED BY <3>2, <1>0
  <2> QED BY <2>2 DEF Matched
<1>3. ASSUME NEW i \in 1..n
      PROVE  (Ends(d[i]) <=> i = k.head) /\ ~Flawed(d[i]) /\ (Knows(d[i]) <=> i = k.known)
  BY <1>1 DEF Ends, Flawed, Knows
<1> DEFINE stops == {i \in 1..n : Ends(d[i]) \/ Flawed(d[i])}
<1>4. CASE n >= k.head
  <2>1. stops = {k.head}
    BY <1>0, <1>3, <1>4
  <2>2. Min({k.head}) = k.head
    BY <1>0 DEF Min
  <2>3. ~Flawed(d[k.head])
    BY <1>0, <1>3, <1>4
  <2>4. o.result = "good" /\ o.used = k.head
    <3>1. Matched(Start, d, n) = n
      BY <1>0, <1>2
    <3> DEFINE S == {i \in 1..Matched(Start, d, n) : Ends(d[i]) \/ Flawed(d[i])}
    <3>2. S = {k.head}
      BY <2>1, <3>1
    <3>3. S # {} => o \in {[result |-> IF Flawed(d[Min(S)]) THEN "bad" ELSE "good",
                           at |-> d[Min(S)], used |-> Min(S)]}
      BY <1>a DEF parse
    <3> HIDE DEF S
    <3> QED BY <2>2, <2>3, <3>2, <3>3
  <2>5. get_content_length(Start, d, k.head, 0) = k.body
    <3> DEFINE found == {i \in 1..k.head : Knows(d[i])}
    <3> DEFINE F == {i \in 1..Matched(Start, d, k.head) : Knows(d[i])}
    <3>a. F = found
      BY <1>0, <1>2, <1>4
    <3>b. get_content_length(Start, d, k.head, 0) = IF F = {} THEN 0 ELSE sent[d[Min(F)][1]].body
      BY DEF get_content_length
    <3>1. get_content_length(Start, d, k.head, 0) =
              IF found = {} THEN 0 ELSE sent[d[Min(found)][1]].body
      <4> HIDE DEF F, found
      <4> QED BY <3>a, <3>b
    <3>2. CASE k.known = 0
      <4>1. found = {}
        BY <1>0, <1>3, <1>4, <3>2
      <4> QED BY <3>1, <3>2, <4>1, <1>0
    <3>3. CASE k.known # 0
      <4>1. found = {k.known}
        BY <1>0, <1>3, <1>4, <3>3
      <4>2. Min({k.known}) = k.known
        BY <1>0 DEF Min
      <4>3. d[k.known][1] = 1
        BY <1>0, <1>1, <1>4, <3>3
      <4> QED BY <3>1, <4>1, <4>2, <4>3
    <3> QED BY <3>2, <3>3
  <2> QED BY <1>0, <1>4, <2>4, <2>5 DEF d
<1>5. CASE n < k.head
  <2>1. stops = {}
    BY <1>0, <1>3, <1>5
  <2>2. o \in {[result |-> "indeterminate", at |-> IF n = 0 THEN Start ELSE d[n], used |-> n]}
    <3>1. Matched(Start, d, n) = n
      BY <1>0, <1>2
    <3> QED BY <2>1, <3>1 DEF parse, d
  <2> QED BY <1>0, <1>5, <2>2
<1> QED BY <1>0, <1>4, <1>5

\* What the first parse_data returns, by how much of the request has arrived.
LEMMA FirstParse ==
    ASSUME sent \in Seq(Kinds), sent # <<>>, sent[1].flaw = 0, n_char_parsed = 0,
           NEW n \in 1..(sent[1].head + sent[1].body),
           NEW r \in parse_data(Start, Piece(1, n), n, 0)
    PROVE  LET k == sent[1]
           IN  /\ n = k.head + k.body => r.result = "good"
                                         /\ r.body = Piece(k.head + 1, k.head + k.body)
               /\ n = k.head /\ k.body > 0 => r.result = "missing_data"
               /\ n > k.head => r.result # "missing_data"
               /\ n >= k.head => r.result # "indeterminate"
<1> DEFINE k == sent[1]
           d == Piece(1, n)
<1>0. /\ k.head \in Nat \ {0} /\ k.body \in Nat /\ n \in Nat
  BY RequestFramingAssumption
<1>1. Len(d) = n /\ d \in Seq(Nat \X Nat)
  BY <1>0 DEF Piece
<1>2. PICK o \in parse(Start, d, n) :
        LET l == get_content_length(Start, d, o.used, 0)
            result == IF l > 0 /\ n_char_parsed + o.used = Len(d) THEN "missing_data"
                      ELSE IF l > Len(d) THEN "throw"
                      ELSE o.result
        IN  r = [result |-> result, at |-> o.at, used |-> o.used, length |-> l,
                 body |-> IF result \in {"good", "bad"} THEN SubSeq(d, Len(d) - l + 1, Len(d)) ELSE <<>>]
  BY DEF parse_data
<1>3. ASSUME n >= k.head
      PROVE  /\ k.body > 0 /\ n = k.head => r.result = "missing_data"
             /\ n > k.head => r.result # "missing_data"
             /\ r.result # "indeterminate"
             /\ n = k.head + k.body =>
                   r.result = "good" /\ r.body = SubSeq(d, n - k.body + 1, n)
  <2>1. o.result = "good" /\ o.used = k.head /\ get_content_length(Start, d, o.used, 0) = k.body
    BY <1>3, <1>0, FirstPiece
  <2>2. r.result = IF k.body > 0 /\ k.head = n THEN "missing_data"
                   ELSE IF k.body > n THEN "throw" ELSE "good"
    <3> HIDE DEF d
    <3> QED BY <2>1, <1>0, <1>1, <1>2
  <2>3. r.result = "good" => r.body = SubSeq(d, n - k.body + 1, n)
    <3> HIDE DEF d
    <3> QED BY <2>1, <1>0, <1>1, <1>2
  <2> QED BY <1>0, <1>3, <2>2, <2>3
<1>4. n = k.head + k.body => SubSeq(d, n - k.body + 1, n) = Piece(k.head + 1, k.head + k.body)
  <2> SUFFICES ASSUME n = k.head + k.body
               PROVE  SubSeq(d, n - k.body + 1, n) = Piece(k.head + 1, k.head + k.body)
    OBVIOUS
  <2>1. n - k.body + 1 = k.head + 1 /\ k.head + 1 \in 1..(n + 1) /\ k.head + 1 =< n + 1
    <3>1. \A h \in Nat, b \in Nat :
            (h + b) - b + 1 = h + 1 /\ h + 1 \in 1..((h + b) + 1) /\ h + 1 =< (h + b) + 1
      OBVIOUS
    <3> HIDE DEF k
    <3> QED BY <1>0, <3>1
  <2>2. SubSeq(d, k.head + 1, n) = Piece(k.head + 1, n)
    <3>1. n \in Nat /\ n =< n
      BY <1>0
    <3> HIDE DEF k
    <3> QED BY <2>1, <3>1, PieceOfPiece
  <2> HIDE DEF d
  <2> QED BY <2>1, <2>2
<1>5. n >= k.head <=> n > k.head \/ n = k.head
  BY <1>0
<1>6. n = k.head + k.body => n >= k.head
  BY <1>0
<1> HIDE DEF d, k
<1>7. /\ n = k.head + k.body => r.result = "good" /\ r.body = Piece(k.head + 1, k.head + k.body)
      /\ n = k.head /\ k.body > 0 => r.result = "missing_data"
      /\ n > k.head => r.result # "missing_data"
      /\ n >= k.head => r.result # "indeterminate"
  BY <1>3, <1>4, <1>5, <1>6
<1> QED BY <1>7 DEF k

\* The inductive invariant for the first request.
FInv == TInv /\ Opening /\ FirstIsServed

\* The premise of FirstIsServed is about the sizes of the first two reads.
LEMMA AnswerStays ==
    ASSUME TInv, FInv, answers # <<>>, [Next]_vars
    PROVE  answers' # <<>> /\ answers'[1] = answers[1] /\ sent'[1] = sent[1] /\ zeroed' = zeroed
<1>0. /\ answers \in Seq(Answer) /\ sent \in Seq(Kinds) /\ Len(answers) =< Len(sent)
  BY DEF TInv, TypeOK
<1>1. Len(answers) >= 1 /\ Len(sent) >= 1
  BY <1>0
<1>2. ASSUME NEW result, NEW final, NEW body, Respond(result, final, body)
      PROVE  answers' # <<>> /\ answers'[1] = answers[1]
  <2> DEFINE a == [result |-> result, final |-> final, body |-> body, segments |-> segments']
  <2>1. answers' = answers \/ answers' = Append(answers, a)
    BY <1>2 DEF Respond
  <2> HIDE DEF a
  <2>2. Append(answers, a) # <<>> /\ Append(answers, a)[1] = answers[1]
    BY <1>0, <1>1
  <2> QED BY <2>1, <2>2
<1>3. ASSUME NEW o, NEW f, React(o, f) PROVE answers' # <<>> /\ answers'[1] = answers[1]
  BY <1>2, <1>3 DEF React
<1>4. ASSUME NEW k \in Kinds, Send(k)
      PROVE  answers' = answers /\ sent'[1] = sent[1] /\ zeroed' = zeroed
  BY <1>0, <1>1, <1>4 DEF Send
<1>5. ASSUME NEW n \in 1..Len(stream), handle_read(n)
      PROVE  answers' # <<>> /\ answers'[1] = answers[1] /\ sent' = sent /\ zeroed' = zeroed
  BY <1>3, <1>5 DEF handle_read, Took
<1>6. ASSUME NEW n \in 1..Len(stream), ReadLoop(n)
      PROVE  answers' # <<>> /\ answers'[1] = answers[1] /\ sent' = sent /\ zeroed' = zeroed
  BY <1>3, <1>6 DEF ReadLoop, Took
<1>7. ASSUME NEW n \in 1..Len(stream), handle_final_read(n)
      PROVE  answers' # <<>> /\ answers'[1] = answers[1] /\ sent' = sent /\ zeroed' = zeroed
  BY <1>2, <1>7 DEF handle_final_read, Took
<1>8. CASE UNCHANGED vars
  BY <1>8 DEF vars
<1>9. ASSUME NEW a \in Arrays, Clear(a)
      PROVE  answers' = answers /\ sent' = sent /\ zeroed' = zeroed
  BY <1>9 DEF Clear
<1> QED BY <1>4, <1>5, <1>6, <1>7, <1>8, <1>9 DEF Next

\* Once the first request is answered, nothing about it changes.
LEMMA AnsweredStep == ASSUME FInv, answers # <<>>, [Next]_vars PROVE FInv'
<1>1. TInv'
  BY TypeStep DEF FInv
<1>2. answers' # <<>> /\ answers'[1] = answers[1] /\ sent'[1] = sent[1] /\ zeroed' = zeroed
  BY AnswerStays DEF FInv
<1>3. Opening'
  BY <1>2 DEF Opening
<1>4. 1 \in Answered
  BY DEF FInv, TInv, TypeOK, Answered
<1>5. FirstIsServed'
  <2>1. FirstIsServed
    BY DEF FInv
  <2> QED BY <2>1, <1>2, <1>4 DEF FirstIsServed, Whole, Body
<1> QED BY <1>1, <1>3, <1>5 DEF FInv

\* The client sends its first request.
LEMMA SendOpens == ASSUME FInv, answers = <<>>, NEW k \in Kinds, Send(k) PROVE Opening' /\ FirstIsServed'
<1>0. /\ sent \in Seq(Kinds) /\ Len(answers) = Len(sent) /\ answers' = answers
      /\ sent' = Append(sent, k) /\ stream' = stream \o Text(Len(sent) + 1, k)
      /\ zeroed' = zeroed /\ phase' = phase /\ data_' = data_ /\ buffer_' = buffer_
      /\ parser' = parser /\ n_char_parsed' = n_char_parsed /\ due' = due
  BY DEF Send, FInv, TInv, TypeOK
<1>1. sent = <<>> /\ Len(sent) = 0
  BY <1>0
<1>2. sent' = <<k>> /\ sent'[1] = k /\ Len(sent') = 1 /\ sent' # <<>>
  BY <1>0, <1>1
<1>3. Text(Len(sent) + 1, k) = Text(1, k) /\ Text(1, k) \in Seq(Byte)
  <2>1. k.head + k.body \in Nat
    BY RequestFramingAssumption
  <2> QED BY <1>1, <2>1 DEF Text, Byte
<1>4. zeroed => phase \notin {"loop", "final"}
  BY <1>1 DEF FInv, Opening
<1>5. zeroed /\ phase = "read" => stream' = Text(1, k)
  <2>1. zeroed /\ phase = "read" => stream = <<>>
    BY <1>1 DEF FInv, Opening
  <2> QED BY <1>0, <1>3, <2>1
<1>6. Opening'
  <2> SUFFICES ASSUME zeroed
               PROVE  /\ Len(sent') =< 1 /\ \A a \in Arrays : due'[a] = 0
                      /\ phase' = "read" =>
                            /\ data_' = <<>> /\ buffer_' = <<>> /\ parser' = Start /\ n_char_parsed' = 0
                            /\ stream' = Text(1, k)
                      /\ phase' \notin {"loop", "final"}
    BY <1>0, <1>2 DEF Opening
  <2> QED BY <1>0, <1>2, <1>4, <1>5 DEF FInv, Opening
<1>7. FirstIsServed'
  <2>1. 1 \notin Answered'
    BY <1>0 DEF Answered
  <2> QED BY <2>1 DEF FirstIsServed
<1> QED BY <1>6, <1>7

\* A response to the first request makes one answer.
LEMMA FirstResponse ==
    ASSUME FInv, answers = <<>>, sent # <<>>, NEW result, NEW final, NEW body,
           Respond(result, final, body)
    PROVE  /\ answers' # <<>>
           /\ answers'[1] = [result |-> result, final |-> final, body |-> body, segments |-> segments']
<1>1. sent \in Seq(Kinds) /\ Len(answers) = 0
  BY DEF FInv, TInv, TypeOK
<1>2. ~(Len(answers) >= Len(sent))
  BY <1>1
<1> DEFINE a == [result |-> result, final |-> final, body |-> body, segments |-> segments']
<1>3. answers' = Append(answers, a)
  BY <1>2 DEF Respond
<1> HIDE DEF a
<1>4. answers' = <<a>>
  BY <1>3
<1> QED BY <1>4 DEF a

\* The body is the last piece of a request.
LEMMA BodyIsPiece ==
    ASSUME sent[1].head \in Nat, sent[1].body \in Nat
    PROVE  /\ Piece(sent[1].head + 1, sent[1].head + sent[1].body) = Body(1)
           /\ Body(1) \in Seq(Byte) /\ Len(Body(1)) = sent[1].body
<1> DEFINE h == sent[1].head
           b == sent[1].body
<1>1. (h + b) - (h + 1) + 1 = b /\ \A x \in 1..b : (h + 1) + x - 1 = h + x
  OBVIOUS
<1>2. Piece(h + 1, h + b) = [x \in 1..((h + b) - (h + 1) + 1) |-> <<1, (h + 1) + x - 1>>]
  BY DEF Piece
<1>3. Body(1) = [x \in 1..b |-> <<1, h + x>>]
  BY DEF Body
<1>4. Body(1) \in Seq(Byte) /\ Len(Body(1)) = b
  <2>1. \A x \in 1..b : <<1, h + x>> \in Byte
    BY DEF Byte
  <2>2. h \in Nat /\ b \in Nat
    OBVIOUS
  <2> HIDE DEF h, b
  <2> DEFINE f == [x \in 1..b |-> <<1, h + x>>]
  <2>3. f \in [1..b -> Byte]
    BY <2>1
  <2> HIDE DEF f
  <2>4. f \in Seq(Byte) /\ Len(f) = b
    <3> HIDE DEF Byte
    <3> QED BY <2>2, <2>3
  <2> QED BY <1>3, <2>4 DEF f
<1> HIDE DEF h, b
<1>5. Piece(h + 1, h + b) = Body(1)
  BY <1>1, <1>2, <1>3
<1> QED BY <1>4, <1>5 DEF h, b

\* The first read of the first request.
LEMMA ReadOpens ==
    ASSUME FInv, answers = <<>>, zeroed, NEW n \in 1..Len(stream), handle_read(n)
    PROVE  Opening' /\ FirstIsServed'
<1> DEFINE k == sent[1]
           d == Piece(1, n)
<1>0. /\ phase = "read" /\ data_ = <<>> /\ buffer_ = <<>> /\ parser = Start /\ n_char_parsed = 0
      /\ stream = (IF sent = <<>> THEN <<>> ELSE Text(1, k)) /\ Len(sent) =< 1
      /\ \A a \in Arrays : due[a] = 0
  BY DEF FInv, Opening, handle_read
<1>1. sent # <<>> /\ stream = Text(1, k)
  BY <1>0
<1>2. /\ sent \in Seq(Kinds) /\ k \in Kinds /\ k.head \in Nat \ {0} /\ k.body \in Nat
  <2>1. sent \in Seq(Kinds)
    BY DEF FInv, TInv, TypeOK
  <2>2. k \in Kinds
    BY <1>1, <2>1
  <2> HIDE DEF k
  <2> QED BY <2>1, <2>2, KindTypes
<1> DEFINE T == k.head + k.body
<1>3. T \in Nat /\ stream = Piece(1, T) /\ Len(stream) = T /\ n \in 1..T
  <2>1. T \in Nat
    <3> HIDE DEF k
    <3> QED BY <1>2
  <2>2. Text(1, k) = [i \in 1..T |-> <<1, i>>]
    BY DEF Text
  <2> HIDE DEF k, T
  <2>3. Piece(1, T) = [i \in 1..T |-> <<1, i>>]
    <3>1. T - 1 + 1 = T /\ \A i \in 1..T : 1 + i - 1 = i
      BY <2>1
    <3> QED BY <3>1 DEF Piece
  <2>4. Len(stream) = T
    BY <1>1, <2>1, <2>2
  <2> QED BY <1>1, <2>1, <2>2, <2>3, <2>4
<1>4. Over(data_, n) = d
  <2>1. SubSeq(stream, 1, n) = d
    <3> HIDE DEF T
    <3>1. T \in Nat /\ 1 \in 1..(T + 1) /\ n \in Nat /\ 1 =< n + 1 /\ n =< T
      BY <1>3
    <3>2. SubSeq(Piece(1, T), 1, n) = Piece(1, n)
      BY <3>1, PieceOfPiece
    <3> QED BY <1>3, <3>2
  <2>2. Over(data_, n) = d \o SubSeq(<<>>, n + 1, 0)
    BY <1>0, <2>1 DEF Over
  <2>3. SubSeq(<<>>, n + 1, 0) = <<>>
    BY <1>3
  <2>4. d \in Seq(Byte)
    BY <1>3 DEF Piece, Byte
  <2> HIDE DEF d
  <2> QED BY <2>2, <2>3, <2>4
<1>5. SubSeq(stream, n + 1, Len(stream)) = Piece(n + 1, T)
  <2>1. n + 1 \in 1..(T + 1) /\ n + 1 =< T + 1 /\ T =< T
    BY <1>2, <1>3
  <2> HIDE DEF T
  <2> QED BY <1>3, <2>1, PieceOfPiece
<1>6. /\ sent' = sent /\ zeroed' = zeroed /\ stream' = Piece(n + 1, T)
      /\ segments' = <<n>> /\ buffer_' = <<>>
  BY <1>0, <1>5 DEF handle_read, Took
<1>f. PICK f \in Found("data_", data_, n) : \E r \in parse_data(Start, f.is, n, 0) : React(r, f)
  BY <1>0 DEF handle_read
<1>g. f.is = d /\ f.due = 0 /\ due \in [Arrays -> Nat]
  <2>1. due \in [Arrays -> Nat] /\ stream \in Seq(Byte) /\ data_ \in Seq(Byte)
    BY DEF FInv, TInv, TypeOK
  <2>2. due["data_"] = 0
    BY <1>0 DEF Arrays
  <2>3. f.is = Over(data_, n) /\ f.due = 0
    BY <2>1, <2>2, FoundTypes DEF Arrays
  <2> QED BY <1>4, <2>1, <2>3
<1>7. PICK r \in parse_data(Start, d, n, 0) : React(r, f)
  BY <1>f, <1>g
<1>8. ASSUME k.flaw = 0
      PROVE  /\ n = T => r.result = "good" /\ r.body = Piece(k.head + 1, T)
             /\ n = k.head /\ k.body > 0 => r.result = "missing_data"
             /\ n > k.head => r.result # "missing_data"
             /\ n >= k.head => r.result # "indeterminate"
  BY <1>0, <1>1, <1>2, <1>3, <1>7, <1>8, FirstParse
<1> HIDE DEF d
<1>9. segments' # <<>> /\ segments'[1] = n /\ Len(segments') = 1
  BY <1>6
<1>10. CASE r.result \in {"indeterminate", "missing_data", "throw"}
  <2>1. /\ answers' = <<>>
        /\ phase' = "loop" => r.result = "indeterminate"
        /\ phase' = "final" => r.result = "missing_data"
        /\ phase' # "read"
        /\ due' = [due EXCEPT !["data_"] = 0]
    BY <1>10, <1>7, <1>g DEF React
  <2>5. \A a \in Arrays : due'[a] = 0
    BY <1>0, <1>g, <2>1
  <2>2. FirstIsServed'
    BY <2>1 DEF FirstIsServed, Answered
  <2>3. ASSUME k.flaw = 0, phase' \in {"loop", "final"}
        PROVE  /\ n # T
               /\ phase' = "loop" => n # k.head
               /\ phase' = "final" /\ n = k.head => stream' = Piece(k.head + 1, T)
    BY <1>2, <1>3, <1>6, <1>8, <2>1, <2>3
  <2>4. Opening'
    <3> HIDE DEF T
    <3>1. phase' \in {"loop", "final"} /\ k.flaw = 0 => segments'[1] # k.head + k.body
      BY <1>9, <2>3 DEF T
    <3>2. phase' = "loop" /\ k.flaw = 0 => segments'[1] # k.head
      BY <1>9, <2>3
    <3>3. phase' = "final" /\ k.flaw = 0 /\ segments'[1] = k.head =>
              Len(segments') = 1 /\ buffer_' = <<>> /\ stream' = Piece(k.head + 1, k.head + k.body)
      BY <1>6, <1>9, <2>3 DEF T
    <3> HIDE DEF k
    <3> QED BY <1>0, <1>1, <1>6, <1>9, <2>1, <2>5, <3>1, <3>2, <3>3 DEF Opening, k
  <2> QED BY <2>2, <2>4
<1>11. CASE r.result \in {"good", "bad"}
  <2>1. Respond(r.result, FALSE, r.body)
    BY <1>7, <1>11 DEF React
  <2>2. /\ answers' # <<>>
        /\ answers'[1] = [result |-> r.result, final |-> FALSE, body |-> r.body, segments |-> <<n>>]
    BY <1>1, <1>6, <2>1, FirstResponse
  <2>3. Opening'
    BY <2>2 DEF Opening
  <2>4. ASSUME k.flaw = 0, <<n>> = <<T>> \/ <<n>> = <<k.head, k.body>>
        PROVE  r.result = "good" /\ r.body = Body(1)
    <3>1. n = T
      <4> HIDE DEF T, k
      <4> QED BY <2>4
    <3> QED BY <1>2, <1>8, <2>4, <3>1, BodyIsPiece
  <2>5. Body(1)' = Body(1)
    BY <1>6 DEF Body
  <2>6. FirstIsServed'
    <3>1. ASSUME sent'[1].flaw = 0, \/ answers'[1].segments = <<sent'[1].head + sent'[1].body>>
                                   \/ answers'[1].segments = <<sent'[1].head, sent'[1].body>>
          PROVE  r.result = "good" /\ r.body = Body(1)
      <4>1. sent'[1] = k /\ answers'[1].segments = <<n>>
        BY <1>6, <2>2
      <4> HIDE DEF k
      <4>2. <<n>> = <<T>> \/ <<n>> = <<k.head, k.body>>
        BY <3>1, <4>1
      <4> HIDE DEF T
      <4> QED BY <2>4, <3>1, <4>1, <4>2
    <3>2. answers'[1].result = r.result /\ answers'[1].body = r.body
      BY <2>2
    <3> HIDE DEF k
    <3> QED BY <2>5, <3>1, <3>2 DEF FirstIsServed, Whole
  <2> QED BY <2>3, <2>6
<1>12. r.result \in Results
  <2>1. Piece(1, n) \in Seq(Known) /\ n \in 0..Len(Piece(1, n))
    BY <1>0, <1>1, <1>2, <1>3 DEF Piece, Known
  <2>2. Start \in Byte /\ n_char_parsed \in Nat
    BY <1>0 DEF Start, Byte
  <2> QED BY <1>2, <1>7, <2>1, <2>2, ParseDataTypes DEF d
<1> QED BY <1>10, <1>11, <1>12 DEF Results

\* A turn of the loop for the first request.
LEMMA LoopOpens ==
    ASSUME FInv, answers = <<>>, zeroed, NEW n \in 1..Len(stream), ReadLoop(n)
    PROVE  Opening' /\ FirstIsServed'
<1> DEFINE k == sent[1]
<1>0. /\ phase = "loop" /\ sent # <<>> /\ segments # <<>> /\ Len(sent) =< 1
      /\ \A a \in Arrays : due[a] = 0
      /\ k.flaw = 0 => segments[1] # k.head + k.body /\ segments[1] # k.head
  BY DEF FInv, Opening, ReadLoop
<1>1. segments \in Seq(Nat)
  BY DEF FInv, TInv, TypeOK
<1>2. /\ sent' = sent /\ zeroed' = zeroed /\ segments' = Append(segments, n)
  BY DEF ReadLoop, Took
<1>3. segments' # <<>> /\ segments'[1] = segments[1]
  BY <1>0, <1>1, <1>2
<1>f. PICK f \in Found("data_", data_, n) : \E r : React(r, f)
  BY DEF ReadLoop
<1>g. f.due = 0 /\ due \in [Arrays -> Nat]
  <2>1. due \in [Arrays -> Nat] /\ stream \in Seq(Byte) /\ data_ \in Seq(Byte)
    BY DEF FInv, TInv, TypeOK
  <2>2. due["data_"] = 0
    BY <1>0 DEF Arrays
  <2> QED BY <2>1, <2>2, FoundTypes DEF Arrays
<1>4. PICK r : React(r, f)
  BY <1>f
<1>5. CASE r.result \in {"indeterminate", "missing_data", "throw"}
  <2>1. /\ answers' = <<>> /\ phase' # "read"
        /\ due' = [due EXCEPT !["data_"] = 0]
        /\ phase' = "loop" => r.result = "indeterminate"
        /\ phase' = "final" => r.result = "missing_data"
    BY <1>4, <1>5, <1>g DEF React
  <2>2. FirstIsServed'
    BY <2>1 DEF FirstIsServed, Answered
  <2>3. \A a \in Arrays : due'[a] = 0
    BY <1>0, <1>g, <2>1
  <2> QED BY <1>0, <1>2, <1>3, <2>1, <2>2, <2>3 DEF Opening
<1>6. CASE r.result \in {"good", "bad"}
  <2>1. Respond(r.result, FALSE, r.body)
    BY <1>4, <1>6 DEF React
  <2>2. answers' # <<>> /\ answers'[1].segments = segments'
    <3> DEFINE a == [result |-> r.result, final |-> FALSE, body |-> r.body, segments |-> segments']
    <3>1. answers' # <<>> /\ answers'[1] = a
      BY <1>0, <2>1, FirstResponse
    <3>2. a.segments = segments'
      OBVIOUS
    <3> HIDE DEF a
    <3> QED BY <3>1, <3>2
  <2>3. Opening'
    BY <2>2 DEF Opening
  <2>4. FirstIsServed'
    <3>1. k.flaw = 0 => /\ answers'[1].segments # <<k.head + k.body>>
                        /\ answers'[1].segments # <<k.head, k.body>>
      BY <1>0, <1>3, <2>2
    <3>2. sent'[1] = k
      BY <1>2
    <3> QED BY <3>1, <3>2 DEF FirstIsServed, Whole
  <2> QED BY <2>3, <2>4
<1> QED BY <1>4, <1>5, <1>6 DEF React

\* The read for a body that has not arrived.
LEMMA FinalOpens ==
    ASSUME FInv, answers = <<>>, zeroed, NEW n \in 1..Len(stream), handle_final_read(n)
    PROVE  Opening' /\ FirstIsServed'
<1> DEFINE k == sent[1]
<1>0. /\ sent # <<>> /\ segments # <<>>
      /\ \A a \in Arrays : due[a] = 0
      /\ k.flaw = 0 => segments[1] # k.head + k.body
      /\ k.flaw = 0 /\ segments[1] = k.head =>
            Len(segments) = 1 /\ buffer_ = <<>> /\ stream = Piece(k.head + 1, k.head + k.body)
  BY DEF FInv, Opening, handle_final_read
<1>1. /\ segments \in Seq(Nat) /\ k \in Kinds /\ k.head \in Nat /\ k.body \in Nat
      /\ buffer_ \in Seq(Byte) /\ stream \in Seq(Byte)
  <2>1. /\ segments \in Seq(Nat) /\ buffer_ \in Seq(Byte) /\ stream \in Seq(Byte)
        /\ sent \in Seq(Kinds)
    BY DEF FInv, TInv, TypeOK
  <2>2. k \in Kinds
    BY <1>0, <2>1
  <2> HIDE DEF k
  <2> QED BY <2>1, <2>2, KindTypes
<1>f. PICK f \in Found("buffer_", buffer_, n) : Respond("good", TRUE, f.is)
  BY DEF handle_final_read
<1>g. f.is = Over(buffer_, n)
  <2>1. due \in [Arrays -> Nat]
    BY DEF FInv, TInv, TypeOK
  <2>2. due["buffer_"] = 0
    BY <1>0 DEF Arrays
  <2> QED BY <1>1, <2>1, <2>2, FoundTypes DEF Arrays
<1>2. /\ sent' = sent /\ zeroed' = zeroed /\ segments' = Append(segments, n)
      /\ Respond("good", TRUE, Over(buffer_, n))
  BY <1>f, <1>g DEF handle_final_read, Took
<1>3. /\ answers' # <<>>
      /\ answers'[1] = [result |-> "good", final |-> TRUE, body |-> Over(buffer_, n),
                        segments |-> segments']
  BY <1>0, <1>2, FirstResponse
<1>4. Opening'
  BY <1>3 DEF Opening
<1>5. segments'[1] = segments[1] /\ Len(segments') = Len(segments) + 1 /\ segments'[Len(segments) + 1] = n
  BY <1>0, <1>1, <1>2
<1>6. ASSUME k.flaw = 0, segments' = <<k.head, k.body>> PROVE Over(buffer_, n) = Body(1)
  <2>1. segments[1] = k.head /\ Len(segments) = 1 /\ n = k.body
    <3>1. Len(segments') = 2 /\ segments'[1] = k.head /\ segments'[2] = k.body
      BY <1>6
    <3>2. Len(segments) = 1
      <4>1. \A m \in Nat : m + 1 = 2 => m = 1
        OBVIOUS
      <4>2. Len(segments) \in Nat
        BY <1>1
      <4>3. Len(segments) + 1 = 2
        BY <1>5, <3>1
      <4> QED BY <4>1, <4>2, <4>3
    <3> QED BY <1>5, <3>1, <3>2
  <2>2. buffer_ = <<>> /\ stream = Piece(k.head + 1, k.head + k.body)
    BY <1>0, <1>6, <2>1
  <2>3. Piece(k.head + 1, k.head + k.body) = Body(1) /\ Body(1) \in Seq(Byte) /\ Len(Body(1)) = n
    BY <1>1, <2>1, BodyIsPiece
  <2>4. SubSeq(stream, 1, n) = stream /\ SubSeq(<<>>, n + 1, 0) = <<>>
    BY <1>1, <2>1, <2>2, <2>3
  <2>5. Over(buffer_, n) = stream \o <<>>
    BY <2>2, <2>4 DEF Over
  <2> QED BY <1>1, <2>2, <2>3, <2>5
<1>7. segments' # <<k.head + k.body>> \/ k.flaw # 0
  BY <1>0, <1>5
<1>8. Body(1)' = Body(1)
  BY <1>2 DEF Body
<1>9. FirstIsServed'
  BY <1>2, <1>3, <1>6, <1>7, <1>8 DEF FirstIsServed, Whole
<1> QED BY <1>4, <1>9

\* FInv is inductive.
LEMMA FirstStep == FInv /\ [Next]_vars => FInv'
<1> SUFFICES ASSUME FInv, [Next]_vars PROVE FInv'
  OBVIOUS
<1>1. TInv'
  BY TypeStep DEF FInv
<1>2. CASE answers # <<>>
  BY <1>2, AnsweredStep
<1>3. CASE answers = <<>> /\ ~zeroed
  <2>1. ~zeroed'
    BY <1>3 DEF Next, Send, handle_read, ReadLoop, handle_final_read, Clear, Took, vars
  <2> QED BY <1>1, <2>1 DEF FInv, Opening, FirstIsServed
<1>4. CASE answers = <<>> /\ zeroed
  <2>1. CASE Next
    <3>1. ASSUME NEW a \in Arrays, Clear(a) PROVE FALSE
      <4>1. due[a] > 0
        BY <3>1 DEF Clear
      <4> QED BY <1>4, <4>1 DEF FInv, Opening
    <3> QED BY <1>1, <1>4, <2>1, <3>1, SendOpens, ReadOpens, LoopOpens, FinalOpens DEF Next, FInv
  <2>2. CASE UNCHANGED vars
    BY <1>1, <2>2 DEF vars, FInv, Opening, FirstIsServed, Answered, Whole, Body
  <2> QED BY <2>1, <2>2
<1> QED BY <1>2, <1>3, <1>4

\* On a session whose arrays were zero the first request, however long its head and
\* its body, gets its own body if it arrives whole or head first.
THEOREM FirstIsAnswered == Spec => []FirstIsServed
<1>1. Init => FInv
  <2> SUFFICES ASSUME Init PROVE FInv
    OBVIOUS
  <2>1. /\ sent = <<>> /\ Len(sent) = 0 /\ stream = <<>> /\ phase = "read" /\ parser = Start
        /\ n_char_parsed = 0 /\ (zeroed => data_ = <<>> /\ buffer_ = <<>>)
        /\ \A a \in Arrays : due[a] = 0
    BY DEF Init
  <2>3. Opening
    BY <2>1 DEF Opening
  <2>2. FirstIsServed
    BY DEF Init, FirstIsServed, Answered
  <2> QED BY <2>2, <2>3, TypeInit DEF FInv
<1>2. FInv => FirstIsServed
  BY DEF FInv
<1> QED BY <1>1, <1>2, FirstStep, PTL DEF Spec

-----------------------------------------------------------------------------

\* The i-th request was one of those BodylessAreServed is about.
Even(i) == sent[i].body = 0 /\ (Whole(i) \/ ShortTail(i))

\* All the answers so far are to such requests.
AllEven == \A i \in Answered : Even(i)

\* Where a connection stands that has had such requests only.
Kept ==
    AllEven =>
        LET q == Len(answers) + 1
            k == sent[q]
        IN  /\ Len(sent) \in {Len(answers), q}
            /\ phase = "read" =>
                  /\ parser = Start
                  /\ Len(sent) = Len(answers) => stream = <<>>
                  /\ Len(sent) = q => stream = Text(q, k)
            /\ phase \in {"loop", "final"} => Len(sent) = q /\ segments # <<>>
            /\ phase = "final" => k.body # 0 \/ Len(segments) >= 2
            /\ phase = "loop" /\ k.body = 0 /\ k.flaw = 0 /\ Len(segments) = 1 =>
                  /\ segments[1] < k.head /\ bytes = segments[1]
                  /\ parser = <<q, segments[1]>> /\ content_length = 0
                  /\ Len(stream) = k.head - segments[1]
                  /\ \A i \in 1..Len(stream) : stream[i] = <<q, segments[1] + i>>

\* What BodylessAreServed says if no read has overtaken a memset.
Served ==
    \A i \in Answered :
        (\A j \in 1..i : sent[j].body = 0 /\ (Whole(j) \/ ShortTail(j))) =>
            /\ answers[i].result = IF sent[i].flaw = 0 THEN "good" ELSE "bad"
            /\ answers[i].body = <<>>

\* The invariant for requests without a body, on a connection served in order.
KInv == TInv /\ Kept /\ Served

\* It holds until a read overtakes a memset.
BInv == TInv /\ (~overtaken => Kept /\ Served)

\* How to recognize a Min.
LEMMA MinIs ==
    ASSUME NEW A \in SUBSET Nat, NEW x \in A, \A y \in A : x =< y PROVE Min(A) = x
<1>1. Min(A) \in A /\ Min(A) =< x
  BY LeastIsMin
<1>2. x =< Min(A) /\ x \in Nat /\ Min(A) \in Nat
  BY <1>1
<1> QED BY <1>1, <1>2

\* The first piece of a request without a body, over junk.
LEMMA HeadParse ==
    ASSUME sent \in Seq(Kinds), NEW q \in 1..Len(sent), sent[q].body = 0,
           NEW d \in Seq(Known), NEW n \in 1..sent[q].head, n =< Len(d),
           \A i \in 1..n : d[i] = <<q, i>>,
           NEW r \in parse_data(Start, d, n, 0)
    PROVE  /\ r.result \in {"good", "bad", "indeterminate"} /\ r.length = 0
           /\ r.result \in {"good", "bad"} => r.body = <<>>
           /\ n = sent[q].head => r.result = IF sent[q].flaw = 0 THEN "good" ELSE "bad"
           /\ n < sent[q].head /\ sent[q].flaw = 0 => r.result = "indeterminate" /\ r.at = <<q, n>>
<1> DEFINE k == sent[q]
<1>0. /\ k \in Kinds /\ k.head \in Nat \ {0} /\ k.known = 0 /\ k.flaw \in 0..k.head
      /\ n \in Nat /\ Len(d) \in Nat /\ q \in Nat \ {0} /\ n \in 0..Len(d)
  <2>1. k \in Kinds
    OBVIOUS
  <2>2. k.head \in Nat \ {0} /\ k.known \in Nat /\ k.flaw \in 0..k.head /\ (k.known = 0 <=> k.body = 0)
    BY <2>1, KindTypes
  <2>3. k.body = 0 /\ n \in 1..k.head /\ q \in Nat \ {0} /\ Len(d) \in Nat
    OBVIOUS
  <2> HIDE DEF k
  <2>4. n \in Nat /\ n \in 0..Len(d)
    BY <2>2, <2>3
  <2> QED BY <2>1, <2>2, <2>3, <2>4
<1>1. PICK o \in parse(Start, d, n) :
        LET l == get_content_length(Start, d, o.used, 0)
            result == IF l > 0 /\ n_char_parsed + o.used = Len(d) THEN "missing_data"
                      ELSE IF l > Len(d) THEN "throw"
                      ELSE o.result
        IN  r = [result |-> result, at |-> o.at, used |-> o.used, length |-> l,
                 body |-> IF result \in {"good", "bad"} THEN SubSeq(d, Len(d) - l + 1, Len(d)) ELSE <<>>]
  BY DEF parse_data
<1>2. o.result \in {"good", "bad", "indeterminate"} /\ o.at \in Byte /\ o.used \in 0..n
  <2>1. d \in Seq(Byte) /\ Start \in Byte
    BY DEF Known, Byte, Start
  <2> QED BY <1>0, <2>1, ParseTypes
<1>3. ASSUME NEW i \in 1..n
      PROVE  (Ends(d[i]) <=> i = k.head) /\ (Flawed(d[i]) <=> i = k.flaw) /\ ~Knows(d[i])
  <2>1. d[i] = <<q, i>> /\ i > 0
    OBVIOUS
  <2> QED BY <1>0, <2>1 DEF Ends, Flawed, Knows
<1>4. get_content_length(Start, d, o.used, 0) = 0
  <2> DEFINE found == {i \in 1..Matched(Start, d, o.used) : Knows(d[i])}
  <2>1. Matched(Start, d, o.used) \in 0..o.used
    BY <1>2, MatchedIn
  <2>2. found = {}
    BY <1>0, <1>2, <1>3, <2>1
  <2>3. get_content_length(Start, d, o.used, 0) = IF found = {} THEN 0 ELSE sent[d[Min(found)][1]].body
    BY DEF get_content_length
  <2> QED BY <2>2, <2>3
<1>5. r.result = o.result /\ r.length = 0 /\ r.at = o.at
  BY <1>0, <1>1, <1>4
<1>6. r.result \in {"good", "bad"} => r.body = <<>>
  <2>1. SubSeq(d, Len(d) - 0 + 1, Len(d)) = <<>>
    BY <1>0
  <2>2. r.result \in {"good", "bad"} => r.body = SubSeq(d, Len(d) - 0 + 1, Len(d))
    BY <1>1, <1>4, <1>5
  <2> QED BY <2>1, <2>2
<1>7. Matched(Start, d, n) = n
  <2> DEFINE runs == {j \in 0..n : j =< Len(d) /\ \A i \in 1..j : d[i] # Junk /\ d[i] = Expected(Start, d, i)}
  <2>1. n \in runs
    BY <1>0 DEF Expected, Junk, Start
  <2>2. Max(runs) = n
    <3>1. runs \in SUBSET (0..n)
      OBVIOUS
    <3> HIDE DEF runs
    <3>2. Max(runs) \in 0..n /\ Max(runs) >= n
      BY <1>0, <2>1, <3>1, GreatestIsMax
    <3> QED BY <1>0, <3>2
  <2> QED BY <2>2 DEF Matched
<1> DEFINE S == {i \in 1..Matched(Start, d, n) : Ends(d[i]) \/ Flawed(d[i])}
<1>8. S # {} => o \in {[result |-> IF Flawed(d[Min(S)]) THEN "bad" ELSE "good",
                        at |-> d[Min(S)], used |-> Min(S)]}
  BY <1>1 DEF parse
<1>9. ASSUME n = k.head PROVE o.result = IF k.flaw = 0 THEN "good" ELSE "bad"
  <2>1. S = {i \in 1..n : i = k.head \/ i = k.flaw}
    BY <1>3, <1>7
  <2>2. S # {} /\ Min(S) = IF k.flaw = 0 THEN k.head ELSE k.flaw
    <3> DEFINE x == IF k.flaw = 0 THEN k.head ELSE k.flaw
    <3>1. x \in 1..n /\ k.head \in Nat /\ k.flaw \in Nat /\ x =< k.head /\ (k.flaw # 0 => x =< k.flaw)
      BY <1>0, <1>9
    <3>2. x = k.head \/ x = k.flaw
      OBVIOUS
    <3>3. k.flaw = 0 \/ x = k.flaw
      OBVIOUS
    <3> HIDE DEF k, x, S
    <3>4. x \in S
      BY <2>1, <3>1, <3>2
    <3>5. S \in SUBSET Nat
      BY <2>1, <1>0
    <3>6. \A i \in S : x =< i
      <4> TAKE i \in S
      <4>1. i \in 1..n /\ (i = k.head \/ i = k.flaw)
        BY <2>1
      <4>2. CASE i = k.head
        BY <3>1, <4>2
      <4>3. CASE i = k.flaw
        BY <3>1, <4>1, <4>3
      <4> QED BY <4>1, <4>2, <4>3
    <3>7. S # {} /\ Min(S) = x
      BY <3>4, <3>5, <3>6, MinIs
    <3> QED BY <3>7 DEF x
  <2>3. Flawed(d[Min(S)]) <=> k.flaw # 0
    <3>1. Min(S) \in 1..n
      BY <1>0, <1>9, <2>2
    <3> HIDE DEF S
    <3> QED BY <1>0, <1>3, <2>2, <3>1
  <2> HIDE DEF S
  <2> QED BY <1>8, <2>2, <2>3
<1>10. ASSUME n < k.head, k.flaw = 0 PROVE o.result = "indeterminate" /\ o.at = <<q, n>>
  <2>1. {i \in 1..n : Ends(d[i]) \/ Flawed(d[i])} = {}
    BY <1>0, <1>3, <1>10
  <2>2. o \in {[result |-> "indeterminate", at |-> IF n = 0 THEN Start ELSE d[n], used |-> n]}
    BY <1>1, <1>7, <2>1 DEF parse
  <2>3. d[n] = <<q, n>> /\ n # 0
    OBVIOUS
  <2> QED BY <2>2, <2>3
<1> QED BY <1>2, <1>5, <1>6, <1>9, <1>10

\* The last piece of a request without a body, no longer than the first.
LEMMA TailParse ==
    ASSUME sent \in Seq(Kinds), NEW q \in 1..Len(sent), sent[q].body = 0, sent[q].flaw = 0,
           NEW d \in Seq(Known), NEW s \in Nat, s =< Len(d), NEW n \in 1..s, s + n = sent[q].head,
           \A i \in 1..n : d[i] = <<q, s + i>>,
           NEW r \in parse_data(<<q, s>>, d, s, 0)
    PROVE  r.result = "good" /\ r.body = <<>>
<1> DEFINE k == sent[q]
           p == <<q, s>>
<1>0. /\ k \in Kinds /\ k.head \in Nat \ {0} /\ k.known = 0 /\ k.flaw = 0
      /\ n \in Nat /\ n # 0 /\ Len(d) \in Nat /\ q \in Nat \ {0} /\ s \in 0..Len(d) /\ s # 0
  <2>1. k \in Kinds
    OBVIOUS
  <2>2. k.head \in Nat \ {0} /\ k.known \in Nat /\ k.flaw \in Nat /\ (k.known = 0 <=> k.body = 0)
    BY <2>1, KindTypes
  <2>3. n \in Nat /\ n # 0 /\ Len(d) \in Nat /\ q \in Nat \ {0} /\ s \in 0..Len(d) /\ s # 0
    OBVIOUS
  <2> QED BY <2>1, <2>2, <2>3
<1>1. PICK o \in parse(p, d, s) :
        LET l == get_content_length(p, d, o.used, 0)
            result == IF l > 0 /\ n_char_parsed + o.used = Len(d) THEN "missing_data"
                      ELSE IF l > Len(d) THEN "throw"
                      ELSE o.result
        IN  r = [result |-> result, at |-> o.at, used |-> o.used, length |-> l,
                 body |-> IF result \in {"good", "bad"} THEN SubSeq(d, Len(d) - l + 1, Len(d)) ELSE <<>>]
  BY DEF parse_data
<1>2. ASSUME NEW i \in 1..n
      PROVE  (Ends(d[i]) <=> i = n) /\ ~Flawed(d[i]) /\ ~Knows(d[i])
             /\ d[i] # Junk /\ d[i] = Expected(p, d, i)
  <2>1. d[i] = <<q, s + i>> /\ s + i > 0 /\ (s + i = k.head <=> i = n)
    <3>1. d[i] = <<q, s + i>> /\ i \in Nat /\ i > 0 /\ k.head = s + n
      OBVIOUS
    <3>2. s + i > 0 /\ (s + i = s + n <=> i = n)
      OBVIOUS
    <3> HIDE DEF k
    <3> QED BY <3>1, <3>2
  <2>2. p # Start /\ d[i] # Junk
    BY <1>0, <2>1 DEF Start, Junk
  <2>3. Expected(p, d, i) = <<q, s + i>>
    BY <2>2 DEF Expected
  <2> HIDE DEF p
  <2> QED BY <1>0, <2>1, <2>2, <2>3 DEF Ends, Flawed, Knows
<1> HIDE DEF p
<1> DEFINE m == Matched(p, d, s)
<1>3. m \in n..s
  <2> DEFINE runs == {j \in 0..s : j =< Len(d) /\ \A i \in 1..j : d[i] # Junk /\ d[i] = Expected(p, d, i)}
  <2>1. n \in runs /\ runs \in SUBSET (0..s)
    BY <1>0, <1>2
  <2>2. Max(runs) \in 0..s /\ Max(runs) >= n
    <3> HIDE DEF runs
    <3> QED BY <1>0, <2>1, GreatestIsMax
  <2> QED BY <1>0, <2>2 DEF Matched
<1> DEFINE S == {i \in 1..m : Ends(d[i]) \/ Flawed(d[i])}
<1>4. S # {} => o \in {[result |-> IF Flawed(d[Min(S)]) THEN "bad" ELSE "good",
                        at |-> d[Min(S)], used |-> Min(S)]}
  BY <1>1 DEF parse
<1>5. S # {} /\ Min(S) = n
  <2>1. S \in SUBSET Nat /\ n \in S /\ \A i \in S : n =< i
    <3>1. m \in Nat /\ n \in 1..m /\ n \in 1..n
      BY <1>0, <1>3
    <3>2. n \in S
      BY <1>2, <3>1
    <3>3. ASSUME NEW i \in S PROVE n =< i
      <4>1. i \in 1..m /\ (Ends(d[i]) \/ Flawed(d[i]))
        OBVIOUS
      <4>2. i \in 1..n => i = n
        BY <1>2, <4>1
      <4> HIDE DEF m, S
      <4> QED BY <1>0, <3>1, <4>1, <4>2
    <3>4. S \in SUBSET Nat
      OBVIOUS
    <3> QED BY <3>2, <3>3, <3>4
  <2> HIDE DEF S
  <2> QED BY <2>1, MinIs
<1>6. o.result = "good" /\ o.used = n
  <2>1. ~Flawed(d[n])
    BY <1>0, <1>2
  <2> HIDE DEF S
  <2> QED BY <1>4, <1>5, <2>1
<1>7. get_content_length(p, d, o.used, 0) = 0
  <2> DEFINE found == {i \in 1..Matched(p, d, o.used) : Knows(d[i])}
  <2>1. Matched(p, d, o.used) \in 0..n
    BY <1>0, <1>6, MatchedIn
  <2>2. found = {}
    BY <1>0, <1>2, <2>1
  <2>3. get_content_length(p, d, o.used, 0) = IF found = {} THEN 0 ELSE sent[d[Min(found)][1]].body
    BY DEF get_content_length
  <2> QED BY <2>2, <2>3
<1>8. SubSeq(d, Len(d) - 0 + 1, Len(d)) = <<>>
  BY <1>0
<1> QED BY <1>0, <1>1, <1>6, <1>7, <1>8

\* The bytes just read come first.
LEMMA OverFront ==
    ASSUME NEW S, stream \in Seq(S), NEW s \in Seq(S), NEW n \in 1..Len(stream), NEW i \in 1..n
    PROVE  Over(s, n)[i] = stream[i]
<1> DEFINE u == SubSeq(stream, 1, n)
           v == SubSeq(s, n + 1, Len(s))
<1>1. u \in Seq(S) /\ Len(u) = n /\ u[i] = stream[i] /\ v \in Seq(S)
  OBVIOUS
<1> HIDE DEF u, v
<1>2. (u \o v)[i] = u[i]
  BY <1>1
<1> QED BY <1>1, <1>2 DEF Over, u, v

\* A step that only adds to what was sent and answered leaves the past alone.
LEMMA PastStays ==
    ASSUME TInv, Served,
           sent' \in Seq(Kinds), Len(sent') >= Len(sent), \A i \in 1..Len(sent) : sent'[i] = sent[i],
           answers' \in Seq(Answer), Len(answers') >= Len(answers),
           \A i \in Answered : answers'[i] = answers[i]
    PROVE  /\ AllEven' => AllEven
           /\ \A i \in Answered :
                 (\A j \in 1..i : sent'[j].body = 0 /\ (Whole(j)' \/ ShortTail(j)')) =>
                     /\ answers'[i].result = IF sent'[i].flaw = 0 THEN "good" ELSE "bad"
                     /\ answers'[i].body = <<>>
<1>0. /\ answers \in Seq(Answer) /\ sent \in Seq(Kinds) /\ Len(answers) =< Len(sent)
      /\ Answered = 1..Len(answers) /\ Answered' = 1..Len(answers')
  BY DEF TInv, TypeOK, Answered
<1>1. ASSUME NEW i \in Answered
      PROVE  /\ sent'[i] = sent[i] /\ answers'[i] = answers[i] /\ i \in Answered' /\ i \in Nat
             /\ \A j \in 1..i : j \in Answered
  BY <1>0
<1>2. ASSUME NEW i \in Answered PROVE (Whole(i)' <=> Whole(i)) /\ (ShortTail(i)' <=> ShortTail(i))
  BY <1>1 DEF Whole, ShortTail
<1>3. AllEven' => AllEven
  BY <1>1, <1>2 DEF AllEven, Even
<1>4. ASSUME NEW i \in Answered, \A j \in 1..i : sent'[j].body = 0 /\ (Whole(j)' \/ ShortTail(j)')
      PROVE  /\ answers'[i].result = IF sent'[i].flaw = 0 THEN "good" ELSE "bad"
             /\ answers'[i].body = <<>>
  <2>1. \A j \in 1..i : sent[j].body = 0 /\ (Whole(j) \/ ShortTail(j))
    <3> TAKE j \in 1..i
    <3>1. j \in Answered
      BY <1>1
    <3> QED BY <1>1, <1>2, <1>4, <3>1
  <2> QED BY <1>1, <2>1 DEF Served
<1> QED BY <1>3, <1>4

\* The answer to the next request decides whether the connection stays even.
LEMMA ResponseKeeps ==
    ASSUME TInv, Served, sent' = sent, answers' \in Seq(Answer),
           NEW result, NEW final, NEW body, Respond(result, final, body),
           AllEven => /\ Len(sent) = Len(answers) + 1
                      /\ LET k == sent[Len(sent)] IN
                         k.body = 0 /\ (\/ segments' = <<k.head + k.body>>
                                        \/ /\ k.flaw = 0 /\ Len(segments') = 2
                                           /\ segments'[2] =< segments'[1]
                                           /\ segments'[1] + segments'[2] = k.head) =>
                             /\ result = IF k.flaw = 0 THEN "good" ELSE "bad"
                             /\ body = <<>> /\ stream' = <<>> /\ parser' = Start
    PROVE  Served' /\ Kept'
<1>p. PICK N, q : N = Len(answers) /\ q = N + 1
  OBVIOUS
<1> DEFINE k == sent[q]
           a == [result |-> result, final |-> final, body |-> body, segments |-> segments']
<1>0. /\ answers \in Seq(Answer) /\ sent \in Seq(Kinds) /\ N \in Nat /\ Len(sent) \in Nat
      /\ N =< Len(sent) /\ Answered = 1..N /\ Answered' = 1..Len(answers')
  BY <1>p DEF TInv, TypeOK, Answered
<1>1. \/ Len(answers') = N /\ answers' = answers /\ N = Len(sent)
      \/ Len(sent) >= q /\ Len(answers') = q /\ answers'[q] = a /\ \A i \in 1..N : answers'[i] = answers[i]
  <2> HIDE DEF a
  <2>1. CASE N >= Len(sent)
    BY <1>p, <1>0, <2>1 DEF Respond
  <2>2. CASE ~(N >= Len(sent))
    <3>1. answers' = Append(answers, a)
      BY <1>p, <2>2 DEF Respond, a
    <3> QED BY <1>p, <1>0, <2>2, <3>1
  <2> QED BY <2>1, <2>2
<1>2. phase' = "read"
  BY DEF Respond
<1>3. /\ AllEven' => AllEven
      /\ \A i \in Answered :
            (\A j \in 1..i : sent'[j].body = 0 /\ (Whole(j)' \/ ShortTail(j)')) =>
                /\ answers'[i].result = IF sent'[i].flaw = 0 THEN "good" ELSE "bad"
                /\ answers'[i].body = <<>>
  <2>1. Len(answers') >= N /\ \A i \in Answered : answers'[i] = answers[i]
    BY <1>p, <1>0, <1>1
  <2>2. Len(sent') >= Len(sent) /\ sent' \in Seq(Kinds) /\ \A i \in 1..Len(sent) : sent'[i] = sent[i]
    BY <1>0
  <2> QED BY <1>p, <2>1, <2>2, PastStays
<1> DEFINE EvenNow == sent'[q].body = 0 /\ (Whole(q)' \/ ShortTail(q)')
<1>4. ASSUME AllEven, EvenNow, q \in Answered'
      PROVE  /\ answers'[q].result = IF sent'[q].flaw = 0 THEN "good" ELSE "bad"
             /\ answers'[q].body = <<>>
             /\ stream' = <<>> /\ parser' = Start /\ Len(sent') = Len(answers')
  <2>1. Len(sent) = q /\ sent' = sent /\ answers'[q] = a /\ Len(answers') = q
    BY <1>p, <1>0, <1>1, <1>4
  <2>2. a.segments = segments' /\ a.result = result /\ a.body = body
    OBVIOUS
  <2> HIDE DEF a
  <2>3. \/ segments' = <<k.head + k.body>>
        \/ /\ k.flaw = 0 /\ Len(segments') = 2 /\ segments'[2] =< segments'[1]
           /\ segments'[1] + segments'[2] = k.head
    BY <1>4, <2>1, <2>2 DEF Whole, ShortTail
  <2>4. k.body = 0
    BY <1>4
  <2>5. /\ result = IF k.flaw = 0 THEN "good" ELSE "bad"
        /\ body = <<>> /\ stream' = <<>> /\ parser' = Start
    BY <1>4, <2>1, <2>3, <2>4
  <2> QED BY <2>1, <2>2, <2>5
<1>5. q \in Answered' => \A i \in Answered' : i \in Answered \/ i = q
  BY <1>p, <1>0, <1>1
<1>6. q \notin Answered' => Answered' = Answered
  BY <1>p, <1>0, <1>1
<1>7. q \in Nat /\ \A j \in Answered : j \in 1..q
  BY <1>p, <1>0
<1>8. Served'
  <2> SUFFICES ASSUME NEW i \in Answered',
                      \A j \in 1..i : sent'[j].body = 0 /\ (Whole(j)' \/ ShortTail(j)')
               PROVE  /\ answers'[i].result = IF sent'[i].flaw = 0 THEN "good" ELSE "bad"
                      /\ answers'[i].body = <<>>
    BY DEF Served
  <2>1. CASE i \in Answered
    BY <1>3, <2>1
  <2>2. CASE i \notin Answered
    <3>1. q \in Answered' /\ i = q
      BY <1>5, <1>6, <2>2
    <3>2. EvenNow
      BY <1>0, <3>1
    <3>3. \A j \in Answered : Even(j)
      <4> TAKE j \in Answered
      <4>1. sent'[j].body = 0 /\ (Whole(j)' \/ ShortTail(j)')
        BY <1>7, <3>1
      <4>2. answers'[j] = answers[j]
        BY <1>0, <1>1
      <4> QED BY <4>1, <4>2 DEF Even, Whole, ShortTail
    <3> HIDE DEF EvenNow
    <3> QED BY <1>4, <3>1, <3>2, <3>3 DEF AllEven
  <2> QED BY <2>1, <2>2
<1>9. Kept'
  <2> SUFFICES ASSUME AllEven'
               PROVE  parser' = Start /\ stream' = <<>> /\ Len(sent') = Len(answers')
    BY <1>0, <1>2 DEF Kept
  <2>1. AllEven
    BY <1>3
  <2>2. Len(sent) = q
    BY <1>p, <2>1
  <2>3. q \in Answered'
    BY <1>p, <1>0, <1>1, <2>2
  <2>4. EvenNow
    BY <2>3 DEF AllEven, Even
  <2> HIDE DEF EvenNow
  <2> QED BY <1>4, <2>1, <2>3, <2>4
<1> QED BY <1>8, <1>9

\* The client sends the next request.
LEMMA SendKeeps == ASSUME KInv, NEW k \in Kinds, Send(k) PROVE Kept' /\ Served'
<1>0. /\ sent \in Seq(Kinds) /\ answers \in Seq(Answer) /\ Len(answers) = Len(sent) /\ answers' = answers
      /\ sent' = Append(sent, k) /\ stream' = stream \o Text(Len(sent) + 1, k)
      /\ phase' = phase /\ parser' = parser /\ phase # "thrown"
      /\ phase \in {"read", "loop", "final", "thrown"} /\ Answered = 1..Len(answers)
  BY DEF Send, KInv, TInv, TypeOK, Answered
<1>p. PICK q : q = Len(answers) + 1
  OBVIOUS
<1>1. /\ sent' \in Seq(Kinds) /\ Len(sent') = q /\ sent'[q] = k /\ q \in Nat \ {0}
      /\ \A i \in 1..Len(sent) : sent'[i] = sent[i]
  BY <1>0, <1>p
<1>2. /\ AllEven' => AllEven
      /\ \A i \in Answered :
            (\A j \in 1..i : sent'[j].body = 0 /\ (Whole(j)' \/ ShortTail(j)')) =>
                /\ answers'[i].result = IF sent'[i].flaw = 0 THEN "good" ELSE "bad"
                /\ answers'[i].body = <<>>
  <2>1. Len(sent') >= Len(sent) /\ Len(answers') >= Len(answers) /\ answers' \in Seq(Answer)
        /\ \A i \in Answered : answers'[i] = answers[i]
    BY <1>0, <1>1, <1>p
  <2> QED BY <1>1, <2>1, PastStays DEF KInv
<1>3. Served'
  <2>1. Answered' = Answered
    BY <1>0 DEF Answered
  <2> QED BY <1>2, <2>1 DEF Served
<1>4. Kept'
  <2> SUFFICES ASSUME AllEven
               PROVE  phase = "read" /\ parser = Start /\ stream' = Text(q, k)
    BY <1>0, <1>1, <1>2, <1>p DEF Kept
  <2>1. phase = "read" /\ parser = Start /\ stream = <<>>
    BY <1>0, <1>p DEF KInv, Kept
  <2>2. Text(q, k) \in Seq(Byte)
    <3>1. k.head + k.body \in Nat
      BY RequestFramingAssumption
    <3> QED BY <1>1, <3>1 DEF Text, Byte
  <2> QED BY <1>0, <1>p, <2>1, <2>2
<1> QED BY <1>3, <1>4

\* A turn that responds to nothing.
LEMMA SilenceKeeps ==
    ASSUME KInv, sent' = sent, answers' = answers, phase' \in {"loop", "final", "thrown"},
           AllEven =>
              LET q == Len(answers) + 1
                  k == sent[q]
              IN  /\ Len(sent) = q /\ segments' # <<>>
                  /\ phase' = "final" => k.body # 0 \/ Len(segments') >= 2
                  /\ phase' = "loop" /\ k.body = 0 /\ k.flaw = 0 /\ Len(segments') = 1 =>
                        /\ segments'[1] < k.head /\ bytes' = segments'[1]
                        /\ parser' = <<q, segments'[1]>> /\ content_length' = 0
                        /\ Len(stream') = k.head - segments'[1]
                        /\ \A i \in 1..Len(stream') : stream'[i] = <<q, segments'[1] + i>>
    PROVE  Kept' /\ Served'
<1>1. AllEven' <=> AllEven
  BY DEF AllEven, Even, Answered, Whole, ShortTail
<1>2. Served' <=> Served
  BY DEF Served, Answered, Whole, ShortTail
<1> QED BY <1>1, <1>2 DEF KInv, Kept

\* A read that overtakes no memset leaves its bytes in data_.
LEMMA InOrder ==
    ASSUME TInv, ~overtaken', NEW n \in 1..Len(stream), Took(n), NEW f \in Found("data_", data_, n)
    PROVE  f.is = Over(data_, n)
<1>1. due \in [Arrays -> Nat] /\ stream \in Seq(Byte) /\ data_ \in Seq(Byte)
  BY DEF TInv, TypeOK
<1>2. ~\E a \in Arrays : due[a] > 0
  BY DEF Took
<1>3. due["data_"] = 0 /\ "data_" \in Arrays
  BY <1>1, <1>2 DEF Arrays
<1> QED BY <1>1, <1>3, FoundTypes

\* handle_read.
LEMMA ReadKeeps ==
    ASSUME KInv, TInv', ~overtaken', NEW n \in 1..Len(stream), handle_read(n) PROVE Kept' /\ Served'
<1> DEFINE d == Over(data_, n)
<1>p. PICK q : q = Len(answers) + 1
  OBVIOUS
<1> DEFINE k == sent[q]
<1>0. /\ sent \in Seq(Kinds) /\ answers \in Seq(Answer) /\ Len(answers) =< Len(sent) /\ q \in Nat \ {0}
      /\ stream \in Seq(Known) /\ data_ \in Seq(Known) /\ n \in Nat \ {0} /\ Len(stream) \in Nat
      /\ answers' \in Seq(Answer) /\ TInv /\ Served
  <2>1. /\ sent \in Seq(Kinds) /\ answers \in Seq(Answer) /\ Len(answers) =< Len(sent)
        /\ stream \in Seq(Known) /\ data_ \in Seq(Known) /\ TInv /\ Served
    BY DEF KInv, TInv, TypeOK, KnownBytes
  <2>2. answers' \in Seq(Answer)
    BY DEF TInv, TypeOK
  <2> QED BY <1>p, <2>1, <2>2
<1>1. /\ phase = "read" /\ sent' = sent /\ segments' = <<n>> /\ bytes' = n
      /\ stream' = SubSeq(stream, n + 1, Len(stream))
  BY DEF handle_read, Took
<1>f. PICK f \in Found("data_", data_, n) : \E r \in parse_data(parser, f.is, n, 0) :
          /\ React(r, f)
          /\ parser' = IF r.result \in {"indeterminate", "throw"} THEN r.at ELSE Start
  BY DEF handle_read
<1>g. f.is = d
  BY InOrder DEF KInv, handle_read
<1>2. PICK r \in parse_data(parser, d, n, 0) :
          /\ React(r, f)
          /\ parser' = IF r.result \in {"indeterminate", "throw"} THEN r.at ELSE Start
  BY <1>f, <1>g
<1>3. d \in Seq(Known) /\ n =< Len(d) /\ \A i \in 1..n : d[i] = stream[i]
  BY <1>0, OverTypes, OverFront
<1>4. /\ Len(stream') = Len(stream) - n
      /\ \A i \in 1..Len(stream') : stream'[i] = stream[n + i]
      /\ n = Len(stream) => stream' = <<>>
  BY <1>0, <1>1
<1>5. ASSUME AllEven
      PROVE  /\ Len(sent) = q /\ q \in 1..Len(sent) /\ parser = Start /\ stream = Text(q, k)
             /\ k \in Kinds /\ k.head \in Nat /\ k.body \in Nat
  <2>1. stream # <<>>
    BY <1>0
  <2>2. Len(sent) = q /\ parser = Start /\ stream = Text(q, k)
    BY <1>1, <1>5, <1>p, <2>1 DEF KInv, Kept
  <2> QED BY <1>0, <2>2, RequestFramingAssumption
<1>6. ASSUME AllEven, k.body = 0
      PROVE  /\ Len(stream) = k.head /\ n \in 1..k.head
             /\ \A i \in 1..k.head : stream[i] = <<q, i>>
             /\ r.result \in {"good", "bad", "indeterminate"} /\ r.length = 0
             /\ r.result \in {"good", "bad"} => r.body = <<>>
             /\ n = k.head => r.result = IF k.flaw = 0 THEN "good" ELSE "bad"
             /\ n < k.head /\ k.flaw = 0 => r.result = "indeterminate" /\ r.at = <<q, n>>
  <2>1. Len(stream) = k.head /\ \A i \in 1..k.head : stream[i] = <<q, i>>
    BY <1>5, <1>6 DEF Text
  <2>2. n \in 1..k.head /\ \A i \in 1..n : d[i] = <<q, i>>
    BY <1>3, <2>1
  <2>3. r \in parse_data(Start, d, n, 0)
    BY <1>2, <1>5, <1>6
  <2>4. /\ sent \in Seq(Kinds) /\ q \in 1..Len(sent) /\ sent[q].body = 0
        /\ d \in Seq(Known) /\ n =< Len(d) /\ n \in 1..sent[q].head
    BY <1>0, <1>3, <1>5, <1>6, <2>2
  <2> HIDE DEF d
  <2>5. /\ r.result \in {"good", "bad", "indeterminate"} /\ r.length = 0
        /\ r.result \in {"good", "bad"} => r.body = <<>>
        /\ n = k.head => r.result = IF k.flaw = 0 THEN "good" ELSE "bad"
        /\ n < k.head /\ k.flaw = 0 => r.result = "indeterminate" /\ r.at = <<q, n>>
    BY <2>2, <2>3, <2>4, HeadParse, SMTT(30)
  <2> QED BY <2>1, <2>2, <2>5
<1> HIDE DEF d
<1>7. segments' # <<>> /\ segments'[1] = n /\ Len(segments') = 1
  BY <1>1
<1>8. CASE r.result \in {"good", "bad"}
  <2>1. Respond(r.result, FALSE, r.body)
    BY <1>2, <1>8 DEF React
  <2>2. parser' = Start
    BY <1>2, <1>8
  <2>3. ASSUME AllEven, k.body = 0, segments' = <<k.head + k.body>>
        PROVE  /\ r.result = IF k.flaw = 0 THEN "good" ELSE "bad"
               /\ r.body = <<>> /\ stream' = <<>>
    <3>1. n = k.head
      <4>1. n = k.head + k.body
        BY <1>7, <2>3
      <4> QED BY <4>1, <2>3, <1>5
    <3> QED BY <1>4, <1>6, <1>8, <2>3, <3>1
  <2>4. AllEven => Len(sent) = q
    BY <1>5
  <2>5. ASSUME AllEven
        PROVE  /\ Len(sent) = Len(answers) + 1
               /\ k = sent[Len(sent)]
    BY <1>p, <2>4, <2>5
  <2>6. Len(segments') # 2
    BY <1>7
  <2> HIDE DEF k
  <2>7. AllEven =>
           /\ Len(sent) = Len(answers) + 1
           /\ LET x == sent[Len(sent)] IN
              x.body = 0 /\ (\/ segments' = <<x.head + x.body>>
                             \/ /\ x.flaw = 0 /\ Len(segments') = 2
                                /\ segments'[2] =< segments'[1]
                                /\ segments'[1] + segments'[2] = x.head) =>
                  /\ r.result = IF x.flaw = 0 THEN "good" ELSE "bad"
                  /\ r.body = <<>> /\ stream' = <<>> /\ parser' = Start
    BY <2>2, <2>3, <2>5, <2>6
  <2> QED BY <1>0, <1>1, <2>1, <2>7, ResponseKeeps
<1>9. CASE r.result \notin {"good", "bad"}
  <2>1. /\ answers' = answers /\ phase' \in {"loop", "final", "thrown"}
        /\ phase' = "loop" => r.result = "indeterminate"
        /\ phase' = "final" => r.result = "missing_data"
        /\ content_length' = r.length
    BY <1>2, <1>9 DEF React
  <2>2. ASSUME AllEven, phase' = "final" PROVE k.body # 0
    BY <1>6, <2>1, <2>2
  <2>3. ASSUME AllEven, phase' = "loop", k.body = 0, k.flaw = 0
        PROVE  /\ n < k.head /\ parser' = <<q, n>> /\ content_length' = 0
               /\ Len(stream') = k.head - n /\ \A i \in 1..Len(stream') : stream'[i] = <<q, n + i>>
    <3>1. n < k.head
      BY <1>6, <1>9, <2>3
    <3>2. r.result = "indeterminate" /\ r.at = <<q, n>> /\ r.length = 0
      BY <1>6, <2>3, <3>1
    <3>3. parser' = <<q, n>> /\ content_length' = 0
      BY <1>2, <2>1, <3>2
    <3>4. \A i \in 1..(k.head - n) : n + i \in 1..k.head
      BY <1>6, <2>3
    <3> QED BY <1>4, <1>6, <2>3, <3>1, <3>3, <3>4
  <2>4. AllEven => Len(sent) = q
    BY <1>5
  <2> HIDE DEF k
  <2> QED BY <1>1, <1>7, <1>p, <2>1, <2>2, <2>3, <2>4, SilenceKeeps DEF k
<1> QED BY <1>8, <1>9

\* A turn of the loop.
LEMMA LoopKeeps ==
    ASSUME KInv, TInv', ~overtaken', NEW n \in 1..Len(stream), ReadLoop(n) PROVE Kept' /\ Served'
<1> DEFINE d == Over(data_, n)
<1>p. PICK q : q = Len(answers) + 1
  OBVIOUS
<1> DEFINE k == sent[q]
           s == segments[1]
<1>0. /\ sent \in Seq(Kinds) /\ answers \in Seq(Answer) /\ Len(answers) =< Len(sent) /\ q \in Nat \ {0}
      /\ stream \in Seq(Known) /\ data_ \in Seq(Known) /\ n \in Nat \ {0} /\ Len(stream) \in Nat
      /\ answers' \in Seq(Answer) /\ TInv /\ Served /\ segments \in Seq(Nat)
      /\ bytes =< Len(data_) /\ Len(data_) \in Nat
  <2>1. /\ sent \in Seq(Kinds) /\ answers \in Seq(Answer) /\ Len(answers) =< Len(sent)
        /\ stream \in Seq(Known) /\ data_ \in Seq(Known) /\ TInv /\ Served
        /\ segments \in Seq(Nat)
    BY DEF KInv, TInv, TypeOK, KnownBytes
  <2>2. answers' \in Seq(Answer)
    BY DEF TInv, TypeOK
  <2>3. bytes =< Len(data_)
    <3>1. ~overtaken
      BY DEF ReadLoop, Took
    <3> QED BY <3>1 DEF KInv, TInv, TypeOK, ReadLoop
  <2> QED BY <1>p, <2>1, <2>2, <2>3
<1>1. /\ phase = "loop" /\ sent' = sent /\ segments' = Append(segments, n)
      /\ stream' = SubSeq(stream, n + 1, Len(stream))
  BY DEF ReadLoop, Took
<1>f. PICK f \in Found("data_", data_, n) : \E r \in parse_data(parser, f.is, bytes, content_length) :
          /\ React(r, f)
          /\ parser' = IF r.result = "throw" THEN r.at ELSE Start
  BY DEF ReadLoop
<1>g. f.is = d
  BY InOrder DEF KInv, ReadLoop
<1>2. PICK r \in parse_data(parser, d, bytes, content_length) :
          /\ React(r, f)
          /\ parser' = IF r.result = "throw" THEN r.at ELSE Start
  BY <1>f, <1>g
<1>3. d \in Seq(Known) /\ Len(d) >= Len(data_) /\ \A i \in 1..n : d[i] = stream[i]
  BY <1>0, OverTypes, OverFront
<1>4. AllEven => Len(sent) = q /\ segments # <<>>
  BY <1>1, <1>p DEF KInv, Kept
<1>5. ASSUME segments # <<>>
      PROVE  /\ Len(segments') = Len(segments) + 1 /\ Len(segments) >= 1
             /\ segments'[1] = s /\ segments'[Len(segments) + 1] = n /\ s \in Nat
  BY <1>0, <1>1, <1>5
<1>6. ASSUME AllEven, k.body = 0, k.flaw = 0, Len(segments) = 1, n =< s, s + n = k.head
      PROVE  r.result = "good" /\ r.body = <<>> /\ stream' = <<>>
  <2>1. /\ bytes = s /\ parser = <<q, s>> /\ content_length = 0
        /\ Len(stream) = k.head - s /\ \A i \in 1..Len(stream) : stream[i] = <<q, s + i>>
    BY <1>1, <1>6, <1>p DEF KInv, Kept
  <2>2. Len(sent) = q /\ q \in 1..Len(sent) /\ s \in Nat /\ n \in 1..s
    BY <1>0, <1>4, <1>5, <1>6
  <2>3. Len(stream) = n
    BY <1>0, <1>6, <2>1, <2>2
  <2>4. \A i \in 1..n : d[i] = <<q, s + i>>
    BY <1>3, <2>1, <2>3
  <2>5. s =< Len(d)
    <3>1. Len(d) \in Nat
      BY <1>3
    <3> HIDE DEF d, s
    <3> QED BY <1>0, <1>3, <2>1, <2>2, <3>1
  <2>6. r \in parse_data(<<q, s>>, d, s, 0)
    BY <1>2, <2>1
  <2>7. r.result = "good" /\ r.body = <<>>
    <3>1. sent \in Seq(Kinds) /\ sent[q].body = 0 /\ sent[q].flaw = 0 /\ d \in Seq(Known) /\ s + n = sent[q].head
      BY <1>0, <1>3, <1>6
    <3> HIDE DEF d, s
    <3> QED BY <2>2, <2>4, <2>5, <2>6, <3>1, TailParse
  <2>8. stream' = <<>>
    BY <1>0, <1>1, <2>3
  <2> QED BY <2>7, <2>8
<1> HIDE DEF d, s
<1>7. CASE r.result \in {"good", "bad"}
  <2>1. Respond(r.result, FALSE, r.body)
    BY <1>2, <1>7 DEF React
  <2>2. parser' = Start
    BY <1>2, <1>7
  <2>3. ASSUME AllEven PROVE segments' # <<k.head + k.body>>
    BY <1>4, <1>5, <2>3
  <2>4. ASSUME AllEven, k.body = 0, k.flaw = 0, Len(segments') = 2,
               segments'[2] =< segments'[1], segments'[1] + segments'[2] = k.head
        PROVE  r.result = "good" /\ r.body = <<>> /\ stream' = <<>>
    <3>1. segments # <<>>
      BY <1>4, <2>4
    <3>2. Len(segments) \in Nat
      BY <1>0
    <3>3. Len(segments) = 1
      <4>1. \A m \in Nat : m + 1 = 2 => m = 1
        OBVIOUS
      <4>2. Len(segments) + 1 = 2
        BY <1>5, <2>4, <3>1
      <4> QED BY <3>2, <4>1, <4>2
    <3> QED BY <1>5, <1>6, <2>4, <3>1, <3>3
  <2> HIDE DEF k
  <2> QED BY <1>0, <1>1, <1>4, <1>p, <2>1, <2>2, <2>3, <2>4, ResponseKeeps DEF k
<1>8. CASE r.result \notin {"good", "bad"}
  <2>1. answers' = answers /\ phase' \in {"loop", "final", "thrown"}
    BY <1>2, <1>8 DEF React
  <2>2. AllEven => segments' # <<>> /\ Len(segments') >= 2
    BY <1>0, <1>4, <1>5
  <2> HIDE DEF k
  <2> QED BY <1>1, <1>4, <1>p, <2>1, <2>2, SilenceKeeps DEF k
<1> QED BY <1>7, <1>8

\* The second read of a response is for a request with a body, or the third piece.
LEMMA FinalKeeps ==
    ASSUME KInv, TInv', ~overtaken', NEW n \in 1..Len(stream), handle_final_read(n)
    PROVE  Kept' /\ Served'
<1>p. PICK q : q = Len(answers) + 1
  OBVIOUS
<1> DEFINE k == sent[q]
<1>0. /\ answers' \in Seq(Answer) /\ TInv /\ Served /\ segments \in Seq(Nat)
  BY DEF KInv, TInv, TypeOK
<1>1. /\ phase = "final" /\ sent' = sent /\ segments' = Append(segments, n)
  BY DEF handle_final_read, Took
<1>r. PICK f \in Found("buffer_", buffer_, n) : Respond("good", TRUE, f.is)
  BY DEF handle_final_read
<1>2. AllEven => Len(sent) = q /\ segments # <<>> /\ (k.body # 0 \/ Len(segments) >= 2)
  BY <1>1, <1>p DEF KInv, Kept
<1>3. ASSUME AllEven, k.body = 0 PROVE segments' # <<k.head + k.body>> /\ Len(segments') # 2
  <2>1. Len(segments') = Len(segments) + 1 /\ Len(segments) \in Nat /\ Len(segments) >= 2
    BY <1>0, <1>1, <1>2, <1>3
  <2>2. Len(segments') # 1 /\ Len(segments') # 2
    BY <2>1
  <2> QED BY <2>2
<1> HIDE DEF k
<1> QED BY <1>0, <1>1, <1>2, <1>3, <1>p, <1>r, ResponseKeeps DEF k

\* BInv is inductive.
LEMMA KeptStep == BInv /\ [Next]_vars => BInv'
<1> SUFFICES ASSUME BInv, [Next]_vars PROVE BInv'
  OBVIOUS
<1>1. TInv'
  BY TypeStep DEF BInv
<1>2. overtaken => overtaken'
  <2>1. CASE UNCHANGED vars
    BY <2>1 DEF vars
  <2>2. CASE Next
    BY <2>2 DEF Next, Send, handle_read, ReadLoop, handle_final_read, Clear, Took
  <2> QED BY <2>1, <2>2
<1>3. SUFFICES ASSUME ~overtaken' PROVE Kept' /\ Served'
  BY <1>1 DEF BInv
<1>4. KInv
  BY <1>2, <1>3 DEF BInv, KInv
<1>5. ASSUME UNCHANGED <<sent, stream, phase, bytes, parser, content_length, segments, answers>>
      PROVE  Kept' /\ Served'
  BY <1>4, <1>5 DEF KInv, Kept, AllEven, Even, Served, Answered, Whole, ShortTail, Text
<1>6. ASSUME NEW a \in Arrays, Clear(a) PROVE Kept' /\ Served'
  BY <1>5, <1>6 DEF Clear
<1>7. CASE Next
  BY <1>1, <1>3, <1>4, <1>6, <1>7, SendKeeps, ReadKeeps, LoopKeeps, FinalKeeps DEF Next
<1>8. CASE UNCHANGED vars
  BY <1>5, <1>8 DEF vars
<1> QED BY <1>7, <1>8

\* On a connection whose requests have no body, whole requests, and split ones whose
\* first piece is the longer, are answered for what they are, whatever the arrays
\* held at first and whatever n_char_parsed counts, as long as every memset (session.cc,
\* line 160) comes before the next read.
THEOREM BodylessAreAnswered == Spec => []BodylessAreServed
<1>1. Init => BInv
  <2> SUFFICES ASSUME Init PROVE BInv
    OBVIOUS
  <2>1. /\ sent = <<>> /\ Len(sent) = 0 /\ stream = <<>> /\ phase = "read" /\ parser = Start
        /\ answers = <<>> /\ Len(answers) = 0
    BY DEF Init
  <2>2. Served /\ Kept
    BY <2>1 DEF Served, Answered, Kept
  <2> QED BY <2>2, TypeInit DEF BInv
<1>2. BInv => BodylessAreServed
  BY DEF BInv, Served, BodylessAreServed
<1> QED BY <1>1, <1>2, KeptStep, PTL DEF Spec
=============================================================================
