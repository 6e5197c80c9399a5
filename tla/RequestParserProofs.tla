------------------------ MODULE RequestParserProofs ------------------------
(***************************************************************************)
(* Proofs about RequestParser and EchoRequests, for any texts of any       *)
(* length and any number of requests: the parser accepts the heads of the  *)
(* grammar and no others, refuses a text only where no head goes on like   *)
(* it, reads the request line and the headers into the request, and reads  *)
(* the same out of the echo of a request.                                  *)
(*                                                                         *)
(* The grammar speaks of lines cut out of a text, the parser of the        *)
(* characters it has seen.  In between stand predicates on positions: the  *)
(* forms below say what the characters up to one position are, in each     *)
(* state of the parser, and Whole says the same of a head.                 *)
(***************************************************************************)
EXTENDS EchoRequests, FiniteSetTheorems, SequenceTheorems, WellFoundedInduction,
        NaturalsInduction, TLAPS

-----------------------------------------------------------------------------
(* Positions of a text                                                       *)

LineEnds(t, s, e) == s <= e /\ t[e] = "CR" /\ \A k \in s..(e - 1) : t[k] # "CR"

\* The request line: a method that ends at i, a URI read up to p or ended at j, m
\* characters of the word HTTP/, the two numbers of the version around the dot at d.
Http == <<"H", "T", "T", "P", "/">>

MethodTo(t, p)  == \A k \in 1..p : Token(t[k])
UriTo(t, i, p)  == /\ 1 < i /\ i <= p /\ t[i] = "SP" /\ MethodTo(t, i - 1)
                   /\ \A k \in (i + 1)..p : Text(t[k]) /\ t[k] # "SP"
UriEnds(t, j)   == t[j] = "SP" /\ \E i \in 1..(j - 1) : UriTo(t, i, j - 1)
HttpTo(t, j, m) == UriEnds(t, j) /\ \A k \in 1..m : t[j + k] = Http[k]
MajorTo(t, j, p) ==
    /\ HttpTo(t, j, 5)
    /\ j + 6 <= p /\ \A k \in (j + 6)..p : is_digit(t[k])
DotAt(t, j, d)  == MajorTo(t, j, d - 1) /\ t[d] = "."
MinorTo(t, j, d, p) ==
    /\ DotAt(t, j, d)
    /\ d < p /\ \A k \in (d + 1)..p : is_digit(t[k])
RequestLineTo(t, p) == \E j \in 1..p : \E d \in 1..p : MinorTo(t, j, d, p)

\* The other lines, from s on: a name and its value, or white space and text.
NameTo(t, s, p) == \A k \in s..p : Token(t[k])
FieldTo(t, s, p) ==
    \E k \in (s + 1)..(p - 1) :
        /\ NameTo(t, s, k - 1) /\ t[k] = ":" /\ t[k + 1] = "SP"
        /\ \A l \in (k + 2)..p : Text(t[l])
WhiteTo(t, s, p) == \A k \in s..p : White(t[k])
FoldTo(t, s, p) ==
    \E k \in s..p :
        /\ WhiteTo(t, s, k)
        /\ \A l \in (k + 1)..p : Text(t[l])
        /\ k < p => ~White(t[k + 1])

\* A header line ends somewhere before b.
HasField(t, b) ==
    \E s \in 3..(b - 1) : t[s - 2] = "CR" /\ \E e \in s..(b - 1) : LineEnds(t, s, e) /\ FieldTo(t, s, e - 1)

HeaderTo(t, s, p) == FieldTo(t, s, p) \/ (FoldTo(t, s, p) /\ HasField(t, s))

\* All lines before s are whole: a request line and headers.
Lines(t, s) ==
    /\ s >= 3 /\ t[s - 2] = "CR" /\ t[s - 1] = "LF"
    /\ \A i \in 1..(s - 1) : t[i] = "CR" => i < s - 1 /\ t[i + 1] = "LF"
    /\ \E e \in 1..(s - 1) : LineEnds(t, 1, e) /\ RequestLineTo(t, e - 1)
    /\ \A b \in 3..(s - 1) : t[b - 2] = "CR" =>
          \E e \in b..(s - 1) : LineEnds(t, b, e) /\ HeaderTo(t, b, e - 1)

Whole(t, n) == n >= 4 /\ Lines(t, n - 1) /\ t[n - 1] = "CR" /\ t[n] = "LF"

\* What was read when the parser has come to p in state q, in the line that begins
\* at s.
InRequestLine(t, p, q) ==
    \/ q = "method_start" /\ p = 0
    \/ q = "method" /\ p >= 1 /\ MethodTo(t, p)
    \/ q = "uri" /\ \E i \in 1..p : UriTo(t, i, p)
    \/ q = "http_version_h" /\ UriEnds(t, p)
    \/ q = "http_version_t_1" /\ HttpTo(t, p - 1, 1)
    \/ q = "http_version_t_2" /\ HttpTo(t, p - 2, 2)
    \/ q = "http_version_p" /\ HttpTo(t, p - 3, 3)
    \/ q = "http_version_slash" /\ HttpTo(t, p - 4, 4)
    \/ q = "http_version_major_start" /\ HttpTo(t, p - 5, 5)
    \/ q = "http_version_major" /\ \E j \in 1..p : MajorTo(t, j, p)
    \/ q = "http_version_minor_start" /\ \E j \in 1..p : DotAt(t, j, p)
    \/ q = "http_version_minor" /\ RequestLineTo(t, p)
    \/ q = "expecting_newline_1" /\ t[p] = "CR" /\ RequestLineTo(t, p - 1)

InHeader(t, s, p, q) ==
    \/ q = "header_line_start" /\ p = s - 1
    \/ q = "header_name" /\ s <= p /\ NameTo(t, s, p)
    \/ q = "space_before_header_value" /\ s < p /\ NameTo(t, s, p - 1) /\ t[p] = ":"
    \/ q = "header_lws" /\ s <= p /\ WhiteTo(t, s, p) /\ HasField(t, s)
    \/ q = "header_value" /\ s <= p /\ HeaderTo(t, s, p) /\ ~WhiteTo(t, s, p)
    \/ q = "expecting_newline_2" /\ s <= p /\ t[p] = "CR" /\ HeaderTo(t, s, p - 1)
    \/ q = "expecting_newline_3" /\ s = p /\ t[p] = "CR"

Newlines == {"expecting_newline_1", "expecting_newline_2", "expecting_newline_3"}

Shape(t, s, p, q) ==
    /\ \A k \in s..p : t[k] = "CR" => k = p /\ q \in Newlines
    /\ \/ s = 1 /\ InRequestLine(t, p, q)
       \/ Lines(t, s) /\ InHeader(t, s, p, q)

-----------------------------------------------------------------------------
(* The invariant                                                             *)

\* The headers entered are those of the lines before s and of the value begun.
InValue == {"header_value", "expecting_newline_2"}

Entered(t, s, q, h) == q = "expecting_newline_3" \/ (h <=> HasField(t, s) \/ q \in InValue)

AgreeTo(t, u, p) == \A k \in 1..p : u[k] = t[k]

\* method_, uri_, http_version_ and headers_ are all there is to a request.
RequestForm ==
    req = [method_ |-> req.method_, uri_ |-> req.uri_, http_version_ |-> req.http_version_,
           headers_ |-> req.headers_]

PInv ==
    /\ TypeOK /\ RequestForm
    /\ result = "indeterminate" =>
          \E s \in 1..(pos + 1) :
              /\ Shape(text, s, pos, state_)
              /\ Entered(text, s, state_, req.headers_ # Fresh.headers_)
    /\ result = "good" => Whole(text, pos)
    /\ result = "bad" =>
          \A u \in Seq(Chars) : pos <= Len(u) /\ AgreeTo(text, u, pos) => ~Whole(u, Len(u))

\* The parser begins with another text.
Anew ==
    /\ reset /\ text' \in Seq(Chars)
    /\ pos' = 0 /\ result' = "indeterminate" /\ req' = Fresh
    /\ requests' \in 1..MaxRequests

LEMMA NextSteps == ASSUME TypeOK, Next PROVE consume \/ Anew
<1>1. ASSUME NextRequest PROVE Anew
  <2>1. text' \in Seq(Chars)
    BY <1>1, RequestParserAssumption DEF NextRequest
  <2>2. requests' \in 1..MaxRequests
    BY <1>1, RequestParserAssumption DEF NextRequest, TypeOK
  <2> QED BY <1>1, <2>1, <2>2 DEF NextRequest, Anew
<1> QED BY <1>1 DEF Next

-----------------------------------------------------------------------------
(* A step of the parser keeps the form of what was read.                     *)

LEMMA HttpStarts ==
    ASSUME NEW t, NEW j \in Int, NEW m, HttpTo(t, j, m)
    PROVE  j >= 3
<1>1. PICK i \in 1..(j - 1) : UriTo(t, i, j - 1)
  BY DEF HttpTo, UriEnds
<1> QED BY <1>1 DEF UriTo

LEMMA HttpStep ==
    ASSUME NEW t, NEW p \in Nat, NEW m \in 1..4, HttpTo(t, p - m, m), t[p + 1] = Http[m + 1]
    PROVE  HttpTo(t, (p + 1) - (m + 1), m + 1)
<1>1. (p + 1) - (m + 1) = p - m /\ (p - m) + (m + 1) = p + 1
  OBVIOUS
<1>2. ASSUME NEW k \in 1..(m + 1) PROVE t[(p - m) + k] = Http[k]
  BY <1>1 DEF HttpTo
<1> QED BY <1>1, <1>2 DEF HttpTo

LEMMA RequestLineStep ==
    ASSUME NEW t, NEW p \in Nat, NEW h \in BOOLEAN, NEW next,
           InRequestLine(t, p, state_),
           next = Leads(t[p + 1], h), next # "bad"
    PROVE  \/ InRequestLine(t, p + 1, next)
           \/ /\ next = "header_line_start"
              /\ t[p] = "CR" /\ t[p + 1] = "LF" /\ RequestLineTo(t, p - 1)
<1> USE DEF InRequestLine, Leads, Branches, Fixed
<1>1. CASE state_ = "method_start"
  BY <1>1 DEF MethodTo
<1>2. CASE state_ = "method"
  <2>1. p >= 1 /\ MethodTo(t, p)
    BY <1>2
  <2>2. CASE t[p + 1] = "SP"
    <3>1. UriTo(t, p + 1, p + 1)
      BY <2>1, <2>2 DEF UriTo
    <3> QED BY <1>2, <2>2, <3>1 DEF Token, is_tspecial
  <2>3. CASE t[p + 1] # "SP"
    <3>1. Token(t[p + 1]) /\ next = "method"
      BY <1>2, <2>3
    <3> QED BY <2>1, <3>1 DEF MethodTo
  <2> QED BY <2>2, <2>3
<1>3. CASE state_ = "uri"
  <2>1. PICK i \in 1..p : UriTo(t, i, p)
    BY <1>3
  <2>2. CASE t[p + 1] = "SP"
    <3>1. UriEnds(t, p + 1)
      BY <2>1, <2>2 DEF UriEnds
    <3> QED BY <1>3, <2>2, <3>1
  <2>3. CASE t[p + 1] # "SP"
    <3>1. ~is_ctl(t[p + 1]) /\ next = "uri"
      BY <1>3, <2>3
    <3>2. UriTo(t, i, p + 1)
      BY <2>1, <2>3, <3>1 DEF UriTo, Text
    <3> QED BY <3>1, <3>2
  <2> QED BY <2>2, <2>3
<1>4. CASE state_ = "http_version_h"
  BY <1>4 DEF HttpTo, Http
<1>5. CASE state_ = "http_version_t_1"
  <2>1. HttpTo(t, p - 1, 1) /\ t[p + 1] = "T" /\ next = "http_version_t_2"
    BY <1>5
  <2>2. HttpTo(t, (p + 1) - 2, 2)
    BY <2>1, HttpStep DEF Http
  <2> QED BY <2>1, <2>2
<1>6. CASE state_ = "http_version_t_2"
  <2>1. HttpTo(t, p - 2, 2) /\ t[p + 1] = "T" /\ next = "http_version_p"
    BY <1>6
  <2>2. HttpTo(t, (p + 1) - 3, 3)
    BY <2>1, HttpStep DEF Http
  <2> QED BY <2>1, <2>2
<1>7. CASE state_ = "http_version_p"
  <2>1. HttpTo(t, p - 3, 3) /\ t[p + 1] = "P" /\ next = "http_version_slash"
    BY <1>7
  <2>2. HttpTo(t, (p + 1) - 4, 4)
    BY <2>1, HttpStep DEF Http
  <2> QED BY <2>1, <2>2
<1>8. CASE state_ = "http_version_slash"
  <2>1. HttpTo(t, p - 4, 4) /\ t[p + 1] = "/" /\ next = "http_version_major_start"
    BY <1>8
  <2>2. HttpTo(t, (p + 1) - 5, 5)
    BY <2>1, HttpStep DEF Http
  <2> QED BY <2>1, <2>2
<1>9. CASE state_ = "http_version_major_start"
  <2>1. HttpTo(t, p - 5, 5) /\ is_digit(t[p + 1]) /\ next = "http_version_major"
    BY <1>9
  <2>2. p - 5 \in 1..(p + 1)
    BY <2>1, HttpStarts
  <2>3. MajorTo(t, p - 5, p + 1)
    BY <2>1, <2>2 DEF MajorTo
  <2> QED BY <2>1, <2>2, <2>3
<1>10. CASE state_ = "http_version_major"
  <2>1. PICK j \in 1..p : MajorTo(t, j, p)
    BY <1>10
  <2>2. CASE t[p + 1] = "."
    <3>1. DotAt(t, j, p + 1)
      BY <2>1, <2>2 DEF DotAt
    <3> QED BY <1>10, <2>2, <3>1
  <2>3. CASE t[p + 1] # "."
    <3>1. is_digit(t[p + 1]) /\ next = "http_version_major"
      BY <1>10, <2>3
    <3>2. MajorTo(t, j, p + 1)
      BY <2>1, <3>1 DEF MajorTo
    <3> QED BY <3>1, <3>2
  <2> QED BY <2>2, <2>3
<1>11. CASE state_ = "http_version_minor_start"
  <2>1. PICK j \in 1..p : DotAt(t, j, p)
    BY <1>11
  <2>2. is_digit(t[p + 1]) /\ next = "http_version_minor"
    BY <1>11
  <2>3. MinorTo(t, j, p, p + 1)
    BY <2>1, <2>2 DEF MinorTo
  <2>4. p >= 1
    BY <2>1
  <2> QED BY <2>2, <2>3, <2>4 DEF RequestLineTo
<1>12. CASE state_ = "http_version_minor"
  <2>1. CASE t[p + 1] = "CR"
    BY <1>12, <2>1
  <2>2. CASE t[p + 1] # "CR"
    <3>1. is_digit(t[p + 1]) /\ next = "http_version_minor"
      BY <1>12, <2>2
    <3>2. PICK j \in 1..p, d \in 1..p : MinorTo(t, j, d, p)
      BY <1>12 DEF RequestLineTo
    <3>3. MinorTo(t, j, d, p + 1)
      BY <3>1, <3>2 DEF MinorTo
    <3> QED BY <3>1, <3>3 DEF RequestLineTo
  <2> QED BY <2>1, <2>2
<1>13. CASE state_ = "expecting_newline_1"
  BY <1>13
<1> QED
  BY <1>1, <1>2, <1>3, <1>4, <1>5, <1>6, <1>7, <1>8, <1>9, <1>10, <1>11, <1>12, <1>13

LEMMA HeaderGrows ==
    ASSUME NEW t, NEW p \in Nat, NEW s \in Nat, HeaderTo(t, s, p), Text(t[p + 1])
    PROVE  HeaderTo(t, s, p + 1)
<1>1. CASE FieldTo(t, s, p)
  <2>1. PICK k \in (s + 1)..(p - 1) :
            /\ NameTo(t, s, k - 1) /\ t[k] = ":" /\ t[k + 1] = "SP"
            /\ \A l \in (k + 2)..p : Text(t[l])
    BY <1>1 DEF FieldTo
  <2>2. \A l \in (k + 2)..(p + 1) : Text(t[l])
    BY <2>1
  <2> QED BY <2>1, <2>2 DEF FieldTo, HeaderTo
<1>2. CASE FoldTo(t, s, p) /\ HasField(t, s)
  <2>1. PICK k \in s..p :
            /\ WhiteTo(t, s, k)
            /\ \A l \in (k + 1)..p : Text(t[l])
            /\ k < p => ~White(t[k + 1])
    BY <1>2 DEF FoldTo
  <2>2. \A l \in (k + 1)..(p + 1) : Text(t[l])
    BY <2>1
  <2>3. CASE k < p
    BY <1>2, <2>1, <2>2, <2>3 DEF FoldTo, HeaderTo
  <2>4. CASE k = p /\ White(t[p + 1])
    <3>1. WhiteTo(t, s, p + 1)
      BY <2>1, <2>4 DEF WhiteTo
    <3> QED BY <1>2, <2>1, <3>1 DEF FoldTo, HeaderTo
  <2>5. CASE k = p /\ ~White(t[p + 1])
    BY <1>2, <2>1, <2>2, <2>5 DEF FoldTo, HeaderTo
  <2> QED BY <2>1, <2>3, <2>4, <2>5
<1> QED BY <1>1, <1>2 DEF HeaderTo

LEMMA HeaderStep ==
    ASSUME NEW t, NEW p \in Nat, NEW s \in Nat, NEW h \in BOOLEAN, NEW next,
           InHeader(t, s, p, state_),
           state_ = "header_line_start" /\ h => HasField(t, s),
           next = Leads(t[p + 1], h), next # "bad", next # "good"
    PROVE  \/ InHeader(t, s, p + 1, next)
           \/ /\ next = "header_line_start" /\ s <= p
              /\ t[p] = "CR" /\ t[p + 1] = "LF" /\ HeaderTo(t, s, p - 1)
<1> USE DEF InHeader, Leads, Branches, Fixed
<1>1. CASE state_ = "header_line_start"
  <2>1. p = s - 1
    BY <1>1
  <2>2. CASE t[p + 1] = "CR"
    BY <1>1, <2>1, <2>2
  <2>3. CASE t[p + 1] # "CR" /\ h /\ White(t[p + 1])
    <3>1. next = "header_lws" /\ HasField(t, s)
      BY <1>1, <2>3
    <3> QED BY <2>1, <2>3, <3>1 DEF WhiteTo
  <2>4. CASE t[p + 1] # "CR" /\ ~(h /\ White(t[p + 1]))
    <3>1. next = "header_name" /\ Token(t[p + 1])
      BY <1>1, <2>4
    <3> QED BY <2>1, <3>1 DEF NameTo
  <2> QED BY <2>2, <2>3, <2>4
<1>2. CASE state_ = "header_name"
  <2>1. s <= p /\ NameTo(t, s, p)
    BY <1>2
  <2>2. CASE t[p + 1] = ":"
    BY <1>2, <2>1, <2>2
  <2>3. CASE t[p + 1] # ":"
    <3>1. next = "header_name" /\ Token(t[p + 1])
      BY <1>2, <2>3
    <3> QED BY <2>1, <3>1 DEF NameTo
  <2> QED BY <2>2, <2>3
<1>3. CASE state_ = "space_before_header_value"
  <2>1. /\ s < p /\ NameTo(t, s, p - 1) /\ t[p] = ":"
        /\ next = "header_value" /\ t[p + 1] = "SP"
    BY <1>3
  <2>2. FieldTo(t, s, p + 1)
    BY <2>1 DEF FieldTo
  <2>3. ~WhiteTo(t, s, p + 1)
    BY <2>1 DEF WhiteTo, White
  <2> QED BY <2>1, <2>2, <2>3 DEF HeaderTo
<1>4. CASE state_ = "header_lws"
  <2>1. s <= p /\ WhiteTo(t, s, p) /\ HasField(t, s)
    BY <1>4
  <2>2. CASE t[p + 1] = "CR"
    <3>1. next = "expecting_newline_2"
      BY <1>4, <2>2
    <3>2. FoldTo(t, s, p)
      BY <2>1 DEF FoldTo
    <3> QED BY <2>1, <2>2, <3>1, <3>2 DEF HeaderTo
  <2>3. CASE t[p + 1] # "CR" /\ White(t[p + 1])
    BY <1>4, <2>1, <2>3 DEF WhiteTo
  <2>4. CASE t[p + 1] # "CR" /\ ~White(t[p + 1])
    <3>1. next = "header_value" /\ Text(t[p + 1])
      BY <1>4, <2>4 DEF Text
    <3>2. FoldTo(t, s, p + 1)
      BY <2>1, <2>4, <3>1 DEF FoldTo
    <3>3. ~WhiteTo(t, s, p + 1)
      BY <2>1, <2>4 DEF WhiteTo
    <3> QED BY <2>1, <3>1, <3>2, <3>3 DEF HeaderTo
  <2> QED BY <2>2, <2>3, <2>4
<1>5. CASE state_ = "header_value"
  <2>1. s <= p /\ HeaderTo(t, s, p) /\ ~WhiteTo(t, s, p)
    BY <1>5
  <2>2. CASE t[p + 1] = "CR"
    BY <1>5, <2>1, <2>2
  <2>3. CASE t[p + 1] # "CR"
    <3>1. next = "header_value" /\ Text(t[p + 1])
      BY <1>5, <2>3 DEF Text
    <3>2. HeaderTo(t, s, p + 1)
      BY <2>1, <3>1, HeaderGrows
    <3>3. ~WhiteTo(t, s, p + 1)
      BY <2>1 DEF WhiteTo
    <3> QED BY <2>1, <3>1, <3>2, <3>3
  <2> QED BY <2>2, <2>3
<1>6. CASE state_ = "expecting_newline_2"
  BY <1>6
<1>7. CASE state_ = "expecting_newline_3"
  BY <1>7
<1> QED
  BY <1>1, <1>2, <1>3, <1>4, <1>5, <1>6, <1>7

\* A line has one end.
LEMMA OneEnd ==
    ASSUME NEW t, NEW s \in Nat, NEW e \in Nat, NEW f \in Nat, LineEnds(t, s, e), LineEnds(t, s, f)
    PROVE  e = f
<1>1. ~(e < f)
  BY DEF LineEnds
<1>2. ~(f < e)
  BY DEF LineEnds
<1> QED BY <1>1, <1>2

\* The line that begins at s and has ended at p, of which the line feed is read.
Ended(t, s, p) ==
    /\ LineEnds(t, s, p) /\ t[p + 1] = "LF"
    /\ \/ s = 1 /\ RequestLineTo(t, p - 1)
       \/ Lines(t, s) /\ HeaderTo(t, s, p - 1)

LEMMA BreaksAt ==
    ASSUME NEW t, NEW p \in Nat, NEW s \in 1..p, Ended(t, s, p),
           NEW i \in 1..(p + 1), t[i] = "CR"
    PROVE  (i < s - 1 /\ t[i + 1] = "LF") \/ i = p
BY DEF Ended, LineEnds, Lines

LEMMA LinesGrow ==
    ASSUME NEW t, NEW p \in Nat, NEW s \in 1..p, Ended(t, s, p)
    PROVE  Lines(t, p + 2)
<1>1. \A i \in 1..(p + 1) : t[i] = "CR" => i < p + 1 /\ t[i + 1] = "LF"
  BY BreaksAt DEF Ended
<1>2. \E e \in 1..(p + 1) : LineEnds(t, 1, e) /\ RequestLineTo(t, e - 1)
  BY DEF Ended, Lines
<1>3. ASSUME NEW b \in 3..(p + 1), t[b - 2] = "CR"
      PROVE  \E e \in b..(p + 1) : LineEnds(t, b, e) /\ HeaderTo(t, b, e - 1)
  <2>1. b - 2 < s - 1
    BY <1>3, BreaksAt
  <2>2. Lines(t, s)
    BY <2>1 DEF Ended
  <2>3. CASE b = s
    BY <2>2, <2>3 DEF Ended, Lines
  <2>4. CASE b # s
    <3>1. b \in 3..(s - 1)
      BY <2>1, <2>4
    <3>2. PICK e \in b..(s - 1) : LineEnds(t, b, e) /\ HeaderTo(t, b, e - 1)
      BY <1>3, <2>2, <3>1 DEF Lines
    <3> QED BY <3>2
  <2> QED BY <2>3, <2>4
<1>4. t[p] = "CR" /\ t[p + 1] = "LF"
  BY DEF Ended, LineEnds
<1>5. (p + 2) - 1 = p + 1 /\ (p + 2) - 2 = p /\ p + 2 >= 3
  OBVIOUS
<1> QED BY <1>1, <1>2, <1>3, <1>4, <1>5 DEF Lines

LEMMA FieldsGrow ==
    ASSUME NEW t, NEW p \in Nat, NEW s \in 1..p, Ended(t, s, p)
    PROVE  HasField(t, p + 2) <=> s # 1 /\ (HasField(t, s) \/ FieldTo(t, s, p - 1))
<1>1. ASSUME HasField(t, p + 2)
      PROVE  s # 1 /\ (HasField(t, s) \/ FieldTo(t, s, p - 1))
  <2>1. PICK b \in 3..(p + 1), e \in 3..(p + 1) :
            b <= e /\ t[b - 2] = "CR" /\ LineEnds(t, b, e) /\ FieldTo(t, b, e - 1)
    BY <1>1 DEF HasField
  <2>2. b - 2 < s - 1
    BY <2>1, BreaksAt
  <2>3. Lines(t, s)
    BY <2>2 DEF Ended
  <2>4. CASE b = s
    <3>1. e = p
      BY <2>1, <2>4, OneEnd DEF Ended
    <3> QED BY <2>1, <2>2, <2>4, <3>1
  <2>5. CASE b # s
    <3>1. b \in 3..(s - 1)
      BY <2>2, <2>5
    <3>2. PICK f \in b..(s - 1) : LineEnds(t, b, f)
      BY <2>1, <2>3, <3>1 DEF Lines
    <3>3. e = f
      BY <2>1, <3>2, OneEnd
    <3> QED BY <2>1, <2>2, <3>1, <3>2, <3>3 DEF HasField
  <2> QED BY <2>4, <2>5
<1>2. ASSUME HasField(t, s) PROVE HasField(t, p + 2)
  <2>1. PICK b \in 3..(s - 1), e \in 3..(s - 1) :
            b <= e /\ t[b - 2] = "CR" /\ LineEnds(t, b, e) /\ FieldTo(t, b, e - 1)
    BY <1>2 DEF HasField
  <2> QED BY <2>1 DEF HasField
<1>3. ASSUME s # 1, FieldTo(t, s, p - 1) PROVE HasField(t, p + 2)
  <2>1. s >= 3 /\ t[s - 2] = "CR" /\ LineEnds(t, s, p)
    BY <1>3 DEF Ended, Lines
  <2> QED BY <1>3, <2>1 DEF HasField
<1> QED BY <1>1, <1>2, <1>3

\* A carriage return is read into no state but those that expect the line feed, and
\* these are left by it.
LEMMA BreakLeads ==
    ASSUME NEW c, NEW h \in BOOLEAN, state_ \in States, Leads(c, h) # "bad"
    PROVE  /\ c = "CR" => Leads(c, h) \in Newlines
           /\ state_ \in Newlines => Leads(c, h) \in {"header_line_start", "good"} /\ c = "LF"
<1>1. CASE state_ \in DOMAIN Fixed
  BY <1>1 DEF Leads, Fixed, Newlines
<1>2. CASE state_ \notin DOMAIN Fixed
  <2>1. CASE c = "CR"
    BY <1>2, <2>1 DEF Leads, Branches, Fixed, States, Newlines, Token, White, is_ctl, is_digit
  <2>2. state_ \notin Newlines
    BY <1>2 DEF Fixed, Newlines
  <2> QED BY <2>1, <2>2
<1> QED BY <1>1, <1>2

LEMMA EnteredStep ==
    ASSUME NEW t, NEW s, NEW p, NEW h \in BOOLEAN, NEW k \in BOOLEAN, NEW next,
           InHeader(t, s, p, state_), Entered(t, s, state_, h),
           k <=> h \/ state_ = "space_before_header_value",
           next = Leads(t[p + 1], h), next # "bad", next # "good", state_ # "expecting_newline_2"
    PROVE  Entered(t, s, next, k)
<1> USE DEF Entered, InHeader, InValue, Leads, Branches, Fixed
<1>1. CASE state_ = "header_line_start"
  BY <1>1
<1>2. CASE state_ = "header_name"
  BY <1>2
<1>3. CASE state_ = "space_before_header_value"
  BY <1>3
<1>4. CASE state_ = "header_lws"
  BY <1>4
<1>5. CASE state_ = "header_value"
  BY <1>5
<1>6. CASE state_ = "expecting_newline_3"
  BY <1>6
<1> QED
  BY <1>1, <1>2, <1>3, <1>4, <1>5, <1>6

LEMMA ShapeStep ==
    ASSUME NEW t, NEW p \in Nat, NEW s \in 1..(p + 1), NEW h \in BOOLEAN, NEW k \in BOOLEAN, NEW next,
           state_ \in States, Shape(t, s, p, state_), Entered(t, s, state_, h),
           k <=> h \/ state_ = "space_before_header_value",
           next = Leads(t[p + 1], h), next # "bad", next # "good"
    PROVE  \E r \in 1..(p + 2) : Shape(t, r, p + 1, next) /\ Entered(t, r, next, k)
<1>0. \A i \in s..p : t[i] = "CR" => i = p /\ state_ \in Newlines
  BY DEF Shape
<1>1. /\ t[p + 1] = "CR" => next \in Newlines
      /\ state_ \in Newlines => next = "header_line_start" /\ t[p + 1] = "LF"
  BY BreakLeads
<1>2. ASSUME Ended(t, s, p), next = "header_line_start",
             k <=> s # 1 /\ (HasField(t, s) \/ FieldTo(t, s, p - 1))
      PROVE  \E r \in 1..(p + 2) : Shape(t, r, p + 1, next) /\ Entered(t, r, next, k)
  <2>1. s \in 1..p
    BY <1>2 DEF Ended, LineEnds
  <2>2. Lines(t, p + 2)
    BY <1>2, <2>1, LinesGrow
  <2>3. Shape(t, p + 2, p + 1, next)
    BY <1>2, <2>2 DEF Shape, InHeader
  <2> QED BY <1>2, <2>1, <2>3, FieldsGrow DEF Entered, InValue
<1>3. ASSUME next # "header_line_start"
      PROVE  \A i \in s..(p + 1) : t[i] = "CR" => i = p + 1 /\ next \in Newlines
  BY <1>0, <1>1, <1>3
<1>4. CASE s = 1 /\ InRequestLine(t, p, state_)
  <2>1. ~HasField(t, s) /\ state_ \notin InValue /\ k = h /\ ~k
    BY <1>4 DEF HasField, InRequestLine, InValue, Entered
  <2>2. CASE InRequestLine(t, p + 1, next)
    <3>1. next \notin InValue /\ next # "header_line_start"
      BY <2>2 DEF InRequestLine, InValue
    <3>2. Shape(t, s, p + 1, next)
      BY <1>3, <1>4, <2>2, <3>1 DEF Shape
    <3> QED BY <2>1, <3>1, <3>2 DEF Entered
  <2>3. CASE /\ next = "header_line_start"
             /\ t[p] = "CR" /\ t[p + 1] = "LF" /\ RequestLineTo(t, p - 1)
    <3>1. p >= 1
      BY <2>3 DEF RequestLineTo
    <3>2. Ended(t, s, p)
      BY <1>0, <1>4, <2>3, <3>1 DEF Ended, LineEnds
    <3> QED BY <1>2, <1>4, <2>1, <2>3, <3>2
  <2> QED BY <1>4, <2>2, <2>3, RequestLineStep
<1>5. CASE Lines(t, s) /\ InHeader(t, s, p, state_)
  <2>1. s # 1
    BY <1>5 DEF Lines
  <2>2. CASE state_ = "expecting_newline_2"
    <3>1. s <= p /\ t[p] = "CR" /\ HeaderTo(t, s, p - 1) /\ k
      BY <1>5, <2>2 DEF InHeader, Entered, InValue
    <3>2. next = "header_line_start" /\ t[p + 1] = "LF"
      BY <1>1, <2>2 DEF Newlines
    <3>3. Ended(t, s, p)
      BY <1>0, <1>5, <3>1, <3>2 DEF Ended, LineEnds
    <3> QED BY <1>2, <2>1, <3>1, <3>2, <3>3 DEF HeaderTo
  <2>3. CASE state_ # "expecting_newline_2"
    <3>1. Entered(t, s, next, k)
      BY <1>5, <2>3, EnteredStep
    <3>2. state_ = "header_line_start" /\ h => HasField(t, s)
      BY DEF Entered, InValue
    <3>3. next # "header_line_start"
      BY <1>5, <2>3 DEF InHeader, Leads, Branches, Fixed
    <3>4. InHeader(t, s, p + 1, next)
      BY <1>5, <3>2, <3>3, HeaderStep
    <3>5. Shape(t, s, p + 1, next)
      BY <1>3, <1>5, <3>3, <3>4 DEF Shape
    <3> QED BY <3>1, <3>5
  <2> QED BY <2>2, <2>3
<1> QED BY <1>4, <1>5 DEF Shape

LEMMA GoodStep ==
    ASSUME NEW t, NEW p \in Nat, NEW s \in 1..(p + 1), NEW h \in BOOLEAN,
           state_ \in States, Shape(t, s, p, state_), Leads(t[p + 1], h) = "good"
    PROVE  Whole(t, p + 1)
<1>1. state_ = "expecting_newline_3" /\ t[p + 1] = "LF"
  <2>1. CASE state_ \in DOMAIN Fixed
    BY <2>1 DEF Leads, Fixed
  <2>2. CASE state_ \notin DOMAIN Fixed
    BY <2>2 DEF Leads, Branches, Fixed, States
  <2> QED BY <2>1, <2>2
<1>2. Lines(t, p) /\ t[p] = "CR" /\ p >= 3
  BY <1>1 DEF Shape, InHeader, InRequestLine, Lines
<1> QED BY <1>1, <1>2 DEF Whole

-----------------------------------------------------------------------------
(* Where a whole head goes on, the parser goes along.                        *)

LEMMA OneUri ==
    ASSUME NEW t, NEW i \in Nat, NEW j \in Nat, NEW p, NEW q, UriTo(t, i, p), UriTo(t, j, q)
    PROVE  i = j
<1>1. ~(i < j)
  BY DEF UriTo, MethodTo, Token, is_tspecial
<1>2. ~(j < i)
  BY DEF UriTo, MethodTo, Token, is_tspecial
<1> QED BY <1>1, <1>2

LEMMA OneUriEnd ==
    ASSUME NEW t, NEW i \in Int, NEW j \in Int, UriEnds(t, i), UriEnds(t, j)
    PROVE  i = j
<1>1. PICK a \in 1..(i - 1) : UriTo(t, a, i - 1)
  BY DEF UriEnds
<1>2. PICK b \in 1..(j - 1) : UriTo(t, b, j - 1)
  BY DEF UriEnds
<1>3. a = b /\ a < i /\ a < j
  BY <1>1, <1>2, OneUri
<1>4. t[i] = "SP" /\ t[j] = "SP"
  BY DEF UriEnds
<1>5. ~(i < j)
  BY <1>2, <1>3, <1>4 DEF UriTo
<1>6. ~(j < i)
  BY <1>1, <1>3, <1>4 DEF UriTo
<1> QED BY <1>5, <1>6

LEMMA OneDot ==
    ASSUME NEW t, NEW j \in Int, NEW c \in Int, NEW d \in Int, DotAt(t, j, c), DotAt(t, j, d)
    PROVE  c = d
<1>1. ~(c < d)
  BY DEF DotAt, MajorTo, is_digit
<1>2. ~(d < c)
  BY DEF DotAt, MajorTo, is_digit
<1> QED BY <1>1, <1>2

LEMMA RequestLineGoesOn ==
    ASSUME NEW t, NEW p \in Nat, NEW e \in Nat, NEW h \in BOOLEAN,
           t[e] = "CR", RequestLineTo(t, e - 1),
           InRequestLine(t, p, state_), state_ # "expecting_newline_1"
    PROVE  p < e /\ Leads(t[p + 1], h) # "bad"
<1>1. PICK j \in 1..(e - 1), d \in 1..(e - 1) : MinorTo(t, j, d, e - 1)
  BY DEF RequestLineTo
<1>2. DotAt(t, j, d) /\ d < e - 1 /\ \A k \in (d + 1)..(e - 1) : is_digit(t[k])
  BY <1>1 DEF MinorTo
<1>3. t[d] = "." /\ MajorTo(t, j, d - 1)
  BY <1>2 DEF DotAt
<1>4. HttpTo(t, j, 5) /\ j + 6 <= d - 1 /\ \A k \in (j + 6)..(d - 1) : is_digit(t[k])
  BY <1>3 DEF MajorTo
<1>5. UriEnds(t, j) /\ \A k \in 1..5 : t[j + k] = Http[k]
  BY <1>4 DEF HttpTo
<1>6. PICK i \in 1..(j - 1) : UriTo(t, i, j - 1)
  BY <1>5 DEF UriEnds
<1>7. t[i] = "SP" /\ t[j] = "SP" /\ 1 < i /\ i < j
  BY <1>5, <1>6 DEF UriEnds, UriTo
<1> USE DEF InRequestLine, Leads, Branches, Fixed
<1>8. CASE state_ = "method_start"
  <2>1. p = 0 /\ Token(t[1])
    BY <1>6, <1>7, <1>8 DEF UriTo, MethodTo
  <2> QED BY <1>8, <2>1
<1>9. CASE state_ = "method"
  <2>1. MethodTo(t, p)
    BY <1>9
  <2>2. p < i
    BY <1>7, <2>1 DEF MethodTo, Token, is_tspecial
  <2>3. t[p + 1] = "SP" \/ Token(t[p + 1])
    BY <1>6, <1>7, <2>2 DEF UriTo, MethodTo
  <2> QED BY <1>2, <1>4, <1>7, <1>9, <2>2, <2>3
<1>10. CASE state_ = "uri"
  <2>1. PICK a \in 1..p : UriTo(t, a, p)
    BY <1>10
  <2>2. a = i
    BY <1>6, <2>1, OneUri
  <2>3. p < j
    BY <1>7, <2>1, <2>2 DEF UriTo
  <2>4. t[p + 1] = "SP" \/ Text(t[p + 1])
    BY <1>6, <1>7, <2>1, <2>2, <2>3 DEF UriTo
  <2> QED BY <1>2, <1>4, <1>10, <2>3, <2>4 DEF Text
<1>11. CASE state_ = "http_version_h"
  <2>1. p = j
    BY <1>5, <1>11, OneUriEnd
  <2>2. t[p + 1] = "H"
    BY <1>5, <2>1 DEF Http
  <2> QED BY <1>2, <1>4, <1>11, <2>1, <2>2
<1>12. CASE state_ = "http_version_t_1"
  <2>1. p - 1 = j
    BY <1>5, <1>12, OneUriEnd DEF HttpTo
  <2>2. t[j + 2] = "T"
    BY <1>5 DEF Http
  <2> QED BY <1>2, <1>4, <1>12, <2>1, <2>2
<1>13. CASE state_ = "http_version_t_2"
  <2>1. p - 2 = j
    BY <1>5, <1>13, OneUriEnd DEF HttpTo
  <2>2. t[j + 3] = "T"
    BY <1>5 DEF Http
  <2> QED BY <1>2, <1>4, <1>13, <2>1, <2>2
<1>14. CASE state_ = "http_version_p"
  <2>1. p - 3 = j
    BY <1>5, <1>14, OneUriEnd DEF HttpTo
  <2>2. t[j + 4] = "P"
    BY <1>5 DEF Http
  <2> QED BY <1>2, <1>4, <1>14, <2>1, <2>2
<1>15. CASE state_ = "http_version_slash"
  <2>1. p - 4 = j
    BY <1>5, <1>15, OneUriEnd DEF HttpTo
  <2>2. t[j + 5] = "/"
    BY <1>5 DEF Http
  <2> QED BY <1>2, <1>4, <1>15, <2>1, <2>2
<1>16. CASE state_ = "http_version_major_start"
  <2>1. p - 5 = j
    BY <1>5, <1>16, OneUriEnd DEF HttpTo
  <2> QED BY <1>2, <1>4, <1>16, <2>1
<1>17. CASE state_ = "http_version_major"
  <2>1. PICK a \in 1..p : MajorTo(t, a, p)
    BY <1>17
  <2>2. a = j
    BY <1>5, <2>1, OneUriEnd DEF MajorTo, HttpTo
  <2>3. p < d
    BY <1>3, <1>4, <2>1, <2>2 DEF MajorTo, is_digit
  <2>4. t[p + 1] = "." \/ is_digit(t[p + 1])
    BY <1>3, <1>4, <2>1, <2>2, <2>3 DEF MajorTo
  <2> QED BY <1>2, <1>17, <2>3, <2>4
<1>18. CASE state_ = "http_version_minor_start"
  <2>1. PICK a \in 1..p : DotAt(t, a, p)
    BY <1>18
  <2>2. a = j
    BY <1>5, <2>1, OneUriEnd DEF DotAt, MajorTo, HttpTo
  <2>3. p = d
    BY <1>2, <2>1, <2>2, OneDot
  <2> QED BY <1>2, <1>18, <2>3
<1>19. CASE state_ = "http_version_minor"
  <2>1. PICK a \in 1..p, b \in 1..p : MinorTo(t, a, b, p)
    BY <1>19 DEF RequestLineTo
  <2>2. a = j
    BY <1>5, <2>1, OneUriEnd DEF MinorTo, DotAt, MajorTo, HttpTo
  <2>3. b = d
    BY <1>2, <2>1, <2>2, OneDot DEF MinorTo
  <2>4. p < e
    BY <1>2, <2>1, <2>3 DEF MinorTo, is_digit
  <2>5. t[p + 1] = "CR" \/ is_digit(t[p + 1])
    BY <1>2, <2>1, <2>3, <2>4 DEF MinorTo
  <2> QED BY <1>19, <2>4, <2>5
<1> QED
  BY <1>8, <1>9, <1>10, <1>11, <1>12, <1>13, <1>14, <1>15, <1>16, <1>17, <1>18, <1>19

\* In a line that begins with white space and is a header, the white space ends where
\* text does.
LEMMA FoldedGoesOn ==
    ASSUME NEW t, NEW s \in Nat, NEW e \in Nat, NEW p \in Nat, s <= p, p <= e, t[e] = "CR",
           WhiteTo(t, s, p), HeaderTo(t, s, e - 1)
    PROVE  p < e /\ (t[p + 1] = "CR" \/ White(t[p + 1]) \/ Text(t[p + 1]))
<1>1. p < e
  BY DEF WhiteTo, White
<1>2. White(t[s])
  BY DEF WhiteTo
<1>3. ~FieldTo(t, s, e - 1)
  BY <1>2 DEF FieldTo, NameTo, Token, White, is_tspecial
<1>4. PICK k \in s..(e - 1) :
          /\ WhiteTo(t, s, k)
          /\ \A l \in (k + 1)..(e - 1) : Text(t[l])
  BY <1>3 DEF HeaderTo, FoldTo
<1>5. CASE p + 1 = e
  BY <1>1, <1>5
<1>6. CASE p + 1 < e /\ p + 1 <= k
  BY <1>4, <1>6 DEF WhiteTo
<1>7. CASE p + 1 < e /\ p + 1 > k
  BY <1>4, <1>7
<1> QED BY <1>1, <1>5, <1>6, <1>7

LEMMA NameGoesOn ==
    ASSUME NEW t, NEW s \in Nat, NEW e \in Nat, NEW p \in Nat, s <= p, t[e] = "CR",
           NameTo(t, s, p), HeaderTo(t, s, e - 1)
    PROVE  p < e /\ (t[p + 1] = ":" \/ Token(t[p + 1]))
<1>1. Token(t[s])
  BY DEF NameTo
<1>2. ~FoldTo(t, s, e - 1)
  BY <1>1 DEF FoldTo, WhiteTo, Token, White, is_tspecial
<1>3. PICK k \in (s + 1)..(e - 2) : NameTo(t, s, k - 1) /\ t[k] = ":"
  BY <1>2 DEF HeaderTo, FieldTo
<1>4. p < k
  BY <1>3 DEF NameTo, Token, is_tspecial
<1>5. t[p + 1] = ":" \/ Token(t[p + 1])
  BY <1>3, <1>4 DEF NameTo
<1> QED BY <1>3, <1>4, <1>5

LEMMA ColonGoesOn ==
    ASSUME NEW t, NEW s \in Nat, NEW e \in Nat, NEW p \in Nat, s < p, t[e] = "CR",
           NameTo(t, s, p - 1), t[p] = ":", HeaderTo(t, s, e - 1)
    PROVE  p < e /\ t[p + 1] = "SP"
<1>1. Token(t[s])
  BY DEF NameTo
<1>2. ~FoldTo(t, s, e - 1)
  BY <1>1 DEF FoldTo, WhiteTo, Token, White, is_tspecial
<1>3. PICK k \in (s + 1)..(e - 2) : NameTo(t, s, k - 1) /\ t[k] = ":" /\ t[k + 1] = "SP"
  BY <1>2 DEF HeaderTo, FieldTo
<1>4. ~(k < p)
  BY <1>3 DEF NameTo, Token, is_tspecial
<1>5. ~(p < k)
  BY <1>3 DEF NameTo, Token, is_tspecial
<1> QED BY <1>3, <1>4, <1>5

\* A header has no control characters but those of its white space.
LEMMA NoBreak ==
    ASSUME NEW t, NEW s \in Nat, NEW p \in Int, HeaderTo(t, s, p), NEW k \in s..p
    PROVE  t[k] # "CR"
<1>1. CASE FieldTo(t, s, p)
  <2>1. PICK c \in (s + 1)..(p - 1) :
            /\ NameTo(t, s, c - 1) /\ t[c] = ":" /\ t[c + 1] = "SP"
            /\ \A l \in (c + 2)..p : Text(t[l])
    BY <1>1 DEF FieldTo
  <2>2. k < c \/ k = c \/ k = c + 1 \/ k > c + 1
    BY <2>1
  <2>3. ASSUME k < c PROVE t[k] # "CR"
    BY <2>1, <2>3 DEF NameTo, Token, is_ctl
  <2>4. ASSUME k > c + 1 PROVE t[k] # "CR"
    BY <2>1, <2>4 DEF Text, is_ctl
  <2> QED BY <2>1, <2>2, <2>3, <2>4
<1>2. CASE FoldTo(t, s, p)
  <2>1. PICK c \in s..p : WhiteTo(t, s, c) /\ \A l \in (c + 1)..p : Text(t[l])
    BY <1>2 DEF FoldTo
  <2>2. ASSUME k <= c PROVE t[k] # "CR"
    BY <2>1, <2>2 DEF WhiteTo, White
  <2>3. ASSUME k > c PROVE t[k] # "CR"
    BY <2>1, <2>3 DEF Text, is_ctl
  <2> QED BY <2>1, <2>2, <2>3
<1> QED BY <1>1, <1>2 DEF HeaderTo

LEMMA ValueGoesOn ==
    ASSUME NEW t, NEW s \in Nat, NEW e \in Nat, NEW p \in Nat, s <= p, p <= e, t[e] = "CR",
           HeaderTo(t, s, p), ~WhiteTo(t, s, p), HeaderTo(t, s, e - 1)
    PROVE  p < e /\ (t[p + 1] = "CR" \/ Text(t[p + 1]))
<1>1. p < e
  BY NoBreak
<1>2. ASSUME p + 1 < e, FieldTo(t, s, e - 1) PROVE Text(t[p + 1])
  <2>1. PICK k \in (s + 1)..(e - 2) :
            NameTo(t, s, k - 1) /\ t[k] = ":" /\ \A l \in (k + 2)..(e - 1) : Text(t[l])
    BY <1>2 DEF FieldTo
  <2>2. ~FoldTo(t, s, p)
    BY <2>1 DEF FoldTo, WhiteTo, NameTo, Token, White, is_tspecial
  <2>3. PICK c \in (s + 1)..(p - 1) : NameTo(t, s, c - 1) /\ t[c] = ":"
    BY <2>2 DEF HeaderTo, FieldTo
  <2>4. k <= p - 1
    <3>1. ~(c < k)
      BY <2>1, <2>3 DEF NameTo, Token, is_tspecial
    <3> QED BY <2>3, <3>1
  <2> QED BY <1>2, <2>1, <2>4
<1>3. ASSUME p + 1 < e, FoldTo(t, s, e - 1) PROVE Text(t[p + 1])
  <2>1. PICK k \in s..(e - 1) : WhiteTo(t, s, k) /\ \A l \in (k + 1)..(e - 1) : Text(t[l])
    BY <1>3 DEF FoldTo
  <2>2. k < p
    BY <2>1 DEF WhiteTo
  <2> QED BY <1>3, <2>1, <2>2
<1>4. p + 1 = e \/ p + 1 < e
  BY <1>1
<1> QED BY <1>1, <1>2, <1>3, <1>4 DEF HeaderTo

\* In a whole head every line but the first is a header or the empty one at the end.
LEMMA LineOfHead ==
    ASSUME NEW t, NEW n \in Nat, Whole(t, n), NEW s \in 3..(n + 1), Lines(t, s)
    PROVE  /\ s < n
           /\ s = n - 1 \/ \E e \in s..(n - 2) : LineEnds(t, s, e) /\ HeaderTo(t, s, e - 1)
<1>1. Lines(t, n - 1) /\ t[n - 1] = "CR" /\ t[n] = "LF" /\ n >= 4
  BY DEF Whole
<1>2. t[s - 2] = "CR"
  BY DEF Lines
<1>3. s # n
  BY <1>1, <1>2 DEF Lines
<1>4. ASSUME s = n + 1 PROVE FALSE
  <2>1. t[(n - 1) - 2] = "CR" /\ n - 1 \in 3..(s - 1)
    BY <1>1, <1>4 DEF Lines
  <2>2. PICK e \in (n - 1)..(s - 1) : HeaderTo(t, n - 1, e - 1)
    BY <2>1 DEF Lines
  <2>3. CASE e = n - 1
    BY <1>1, <2>2, <2>3 DEF HeaderTo, FieldTo, FoldTo
  <2>4. CASE e > n - 1
    <3>1. n - 1 \in (n - 1)..(e - 1) /\ n - 1 \in Nat /\ e - 1 \in Int
      BY <1>1, <2>4
    <3> QED BY <1>1, <2>2, <3>1, NoBreak
  <2> QED BY <2>2, <2>3, <2>4
<1>5. ASSUME s < n - 1
      PROVE  \E e \in s..(n - 2) : LineEnds(t, s, e) /\ HeaderTo(t, s, e - 1)
  <2>1. s \in 3..((n - 1) - 1) /\ (n - 1) - 1 = n - 2
    BY <1>5
  <2> QED BY <1>1, <1>2, <2>1 DEF Lines
<1>6. s < n
  BY <1>3, <1>4
<1> QED BY <1>5, <1>6

LEMMA HeaderGoesOn ==
    ASSUME NEW t, NEW p \in Nat, NEW s \in Nat, NEW e \in Nat, NEW h \in BOOLEAN,
           LineEnds(t, s, e), HeaderTo(t, s, e - 1), InHeader(t, s, p, state_), p <= e,
           Entered(t, s, state_, h), state_ \notin Newlines
    PROVE  p < e /\ Leads(t[p + 1], h) # "bad"
<1>1. s <= e /\ t[e] = "CR"
  BY DEF LineEnds
<1> USE DEF InHeader, Leads, Branches, Fixed
<1>2. CASE state_ = "header_line_start"
  <2>1. p = s - 1 /\ p < e
    BY <1>1, <1>2
  <2>2. CASE FieldTo(t, s, e - 1)
    <3>1. Token(t[s])
      BY <2>2 DEF FieldTo, NameTo
    <3> QED BY <1>2, <2>1, <3>1
  <2>3. CASE FoldTo(t, s, e - 1) /\ HasField(t, s)
    <3>1. White(t[s])
      BY <2>3 DEF FoldTo, WhiteTo
    <3>2. h
      BY <1>2, <2>3 DEF Entered
    <3> QED BY <1>2, <2>1, <3>1, <3>2
  <2> QED BY <2>2, <2>3 DEF HeaderTo
<1>3. CASE state_ = "header_name"
  <2>1. p < e /\ (t[p + 1] = ":" \/ Token(t[p + 1]))
    BY <1>1, <1>3, NameGoesOn
  <2> QED BY <1>3, <2>1
<1>4. CASE state_ = "space_before_header_value"
  <2>1. p < e /\ t[p + 1] = "SP"
    BY <1>1, <1>4, ColonGoesOn
  <2> QED BY <1>4, <2>1
<1>5. CASE state_ = "header_lws"
  <2>1. p < e /\ (t[p + 1] = "CR" \/ White(t[p + 1]) \/ Text(t[p + 1]))
    BY <1>1, <1>5, FoldedGoesOn
  <2> QED BY <1>5, <2>1 DEF Text
<1>6. CASE state_ = "header_value"
  <2>1. p < e /\ (t[p + 1] = "CR" \/ Text(t[p + 1]))
    BY <1>1, <1>6, ValueGoesOn
  <2> QED BY <1>6, <2>1 DEF Text
<1> QED
  BY <1>2, <1>3, <1>4, <1>5, <1>6 DEF Newlines

\* A whole head has not ended, and its next character is not bad, where the parser
\* has come to in it.
LEMMA HeadGoesOn ==
    ASSUME NEW t, NEW n \in Nat, Whole(t, n), NEW p \in 0..n, NEW s \in 1..(p + 1),
           NEW h \in BOOLEAN, state_ \in States,
           Shape(t, s, p, state_), Entered(t, s, state_, h)
    PROVE  p < n /\ Leads(t[p + 1], h) # "bad"
<1>1. Lines(t, n - 1) /\ t[n - 1] = "CR" /\ t[n] = "LF" /\ n >= 4
  BY DEF Whole
<1>2. CASE state_ \in Newlines
  <2>1. t[p] = "CR" /\ p >= 1
    BY <1>2 DEF Shape, InRequestLine, InHeader, Newlines, RequestLineTo, Lines
  <2>2. p < n /\ t[p + 1] = "LF"
    BY <1>1, <2>1 DEF Lines
  <2> QED BY <1>2, <2>2 DEF Newlines, Leads, Fixed
<1>3. CASE state_ \notin Newlines /\ s = 1 /\ InRequestLine(t, p, state_)
  <2>1. PICK e \in 1..((n - 1) - 1) : LineEnds(t, 1, e) /\ RequestLineTo(t, e - 1)
    BY <1>1 DEF Lines
  <2> QED BY <1>1, <1>3, <2>1, RequestLineGoesOn DEF LineEnds, Newlines
<1>4. CASE state_ \notin Newlines /\ Lines(t, s) /\ InHeader(t, s, p, state_)
  <2>1. s \in 3..(n + 1)
    BY <1>4 DEF Lines
  <2>2. CASE s = n - 1
    <3>1. t[s] = "CR"
      BY <1>1, <2>2
    <3>2. p = s - 1 /\ state_ = "header_line_start"
      BY <1>4, <2>1, <2>2, <3>1 DEF Shape, InHeader, Newlines
    <3> QED BY <2>2, <3>1, <3>2 DEF Leads, Branches, Fixed
  <2>3. ASSUME NEW e \in s..(n - 2), LineEnds(t, s, e), HeaderTo(t, s, e - 1)
        PROVE  p < n /\ Leads(t[p + 1], h) # "bad"
    <3>1. p <= e
      BY <1>4, <2>3 DEF Shape, LineEnds
    <3> QED BY <1>4, <2>3, <3>1, HeaderGoesOn
  <2> QED BY <1>4, <2>1, <2>2, <2>3, LineOfHead
<1> QED BY <1>2, <1>3, <1>4 DEF Shape

-----------------------------------------------------------------------------
(* What was read of a text is the same in any that begins like it.           *)

LEMMA SameLineEnds ==
    ASSUME NEW t, NEW u, NEW p \in Nat, AgreeTo(t, u, p),
           NEW s \in Nat \ {0}, NEW e \in 0..p, LineEnds(t, s, e)
    PROVE  LineEnds(u, s, e)
BY DEF AgreeTo, LineEnds

LEMMA SameUri ==
    ASSUME NEW t, NEW u, NEW p \in Nat, AgreeTo(t, u, p), NEW i \in Int, NEW q \in Int, q <= p, UriTo(t, i, q)
    PROVE  UriTo(u, i, q)
BY DEF AgreeTo, UriTo, MethodTo

LEMMA SameUriEnd ==
    ASSUME NEW t, NEW u, NEW p \in Nat, AgreeTo(t, u, p), NEW j \in Int, j <= p, UriEnds(t, j)
    PROVE  UriEnds(u, j)
<1>1. PICK i \in 1..(j - 1) : t[j] = "SP" /\ UriTo(t, i, j - 1)
  BY DEF UriEnds
<1>2. UriTo(u, i, j - 1)
  BY <1>1, SameUri
<1> QED BY <1>1, <1>2 DEF UriEnds, AgreeTo

LEMMA SameHttp ==
    ASSUME NEW t, NEW u, NEW p \in Nat, AgreeTo(t, u, p), NEW j \in Int, NEW m \in Nat, j + m <= p,
           HttpTo(t, j, m)
    PROVE  HttpTo(u, j, m)
<1>1. UriEnds(u, j)
  BY SameUriEnd DEF HttpTo
<1>2. j >= 3
  BY HttpStarts
<1> QED BY <1>1, <1>2 DEF HttpTo, AgreeTo

LEMMA SameMajor ==
    ASSUME NEW t, NEW u, NEW p \in Nat, AgreeTo(t, u, p), NEW j \in Int, NEW q \in Int, q <= p,
           MajorTo(t, j, q)
    PROVE  MajorTo(u, j, q)
<1>1. HttpTo(u, j, 5)
  BY SameHttp DEF MajorTo
<1>2. j >= 3
  BY <1>1, HttpStarts
<1> QED BY <1>1, <1>2 DEF MajorTo, AgreeTo

LEMMA SameDot ==
    ASSUME NEW t, NEW u, NEW p \in Nat, AgreeTo(t, u, p), NEW j \in Int, NEW d \in 1..p, DotAt(t, j, d)
    PROVE  DotAt(u, j, d)
BY SameMajor DEF DotAt, AgreeTo

LEMMA SameRequestLine ==
    ASSUME NEW t, NEW u, NEW p \in Nat, AgreeTo(t, u, p), NEW q \in Int, q <= p, RequestLineTo(t, q)
    PROVE  RequestLineTo(u, q)
<1>1. PICK j \in 1..q, d \in 1..q : MinorTo(t, j, d, q)
  BY DEF RequestLineTo
<1>2. DotAt(u, j, d)
  BY <1>1, SameDot DEF MinorTo
<1>3. MinorTo(u, j, d, q)
  BY <1>1, <1>2 DEF MinorTo, AgreeTo
<1> QED BY <1>3 DEF RequestLineTo

LEMMA SameField ==
    ASSUME NEW t, NEW u, NEW p \in Nat, AgreeTo(t, u, p), NEW s \in Nat \ {0}, NEW q \in Int, q <= p,
           FieldTo(t, s, q)
    PROVE  FieldTo(u, s, q)
<1>1. PICK k \in (s + 1)..(q - 1) :
          /\ NameTo(t, s, k - 1) /\ t[k] = ":" /\ t[k + 1] = "SP"
          /\ \A l \in (k + 2)..q : Text(t[l])
  BY DEF FieldTo
<1>2. NameTo(u, s, k - 1) /\ u[k] = ":" /\ u[k + 1] = "SP"
  BY <1>1 DEF NameTo, AgreeTo
<1>3. \A l \in (k + 2)..q : Text(u[l])
  BY <1>1 DEF AgreeTo
<1> QED BY <1>2, <1>3 DEF FieldTo

LEMMA SameFields ==
    ASSUME NEW t, NEW u, NEW p \in Nat, AgreeTo(t, u, p), NEW b \in Int, b <= p + 1, HasField(t, b)
    PROVE  HasField(u, b)
<1>1. PICK s \in 3..(b - 1), e \in 3..(b - 1) :
          s <= e /\ t[s - 2] = "CR" /\ LineEnds(t, s, e) /\ FieldTo(t, s, e - 1)
  BY DEF HasField
<1>2. LineEnds(u, s, e) /\ FieldTo(u, s, e - 1)
  BY <1>1, SameLineEnds, SameField
<1>3. u[s - 2] = "CR"
  BY <1>1 DEF AgreeTo
<1> QED BY <1>1, <1>2, <1>3 DEF HasField

LEMMA SameHeader ==
    ASSUME NEW t, NEW u, NEW p \in Nat, AgreeTo(t, u, p), NEW s \in 1..(p + 1), NEW q \in Int, q <= p,
           HeaderTo(t, s, q)
    PROVE  HeaderTo(u, s, q)
<1>1. CASE FieldTo(t, s, q)
  BY <1>1, SameField DEF HeaderTo
<1>2. CASE FoldTo(t, s, q) /\ HasField(t, s)
  <2>1. PICK k \in s..q :
            /\ WhiteTo(t, s, k)
            /\ \A l \in (k + 1)..q : Text(t[l])
            /\ k < q => ~White(t[k + 1])
    BY <1>2 DEF FoldTo
  <2>2. WhiteTo(u, s, k)
    BY <2>1 DEF WhiteTo, AgreeTo
  <2>3. \A l \in (k + 1)..q : Text(u[l])
    BY <2>1 DEF AgreeTo
  <2>4. k < q => ~White(u[k + 1])
    BY <2>1 DEF AgreeTo
  <2>5. FoldTo(u, s, q)
    BY <2>2, <2>3, <2>4 DEF FoldTo
  <2> QED BY <1>2, <2>5, SameFields DEF HeaderTo
<1> QED BY <1>1, <1>2 DEF HeaderTo

LEMMA SameLines ==
    ASSUME NEW t, NEW u, NEW p \in Nat, AgreeTo(t, u, p), NEW s \in Nat, s <= p + 1, Lines(t, s)
    PROVE  Lines(u, s)
<1>1. s >= 3 /\ u[s - 2] = "CR" /\ u[s - 1] = "LF"
  BY DEF Lines, AgreeTo
<1>2. \A i \in 1..(s - 1) : u[i] = "CR" => i < s - 1 /\ u[i + 1] = "LF"
  BY DEF Lines, AgreeTo
<1>3. PICK f \in 1..(s - 1) : LineEnds(t, 1, f) /\ RequestLineTo(t, f - 1)
  BY DEF Lines
<1>4. LineEnds(u, 1, f) /\ RequestLineTo(u, f - 1)
  BY <1>3, SameLineEnds, SameRequestLine
<1>5. ASSUME NEW b \in 3..(s - 1), u[b - 2] = "CR"
      PROVE  \E e \in b..(s - 1) : LineEnds(u, b, e) /\ HeaderTo(u, b, e - 1)
  <2>1. t[b - 2] = "CR"
    BY <1>5 DEF AgreeTo
  <2>2. PICK e \in b..(s - 1) : LineEnds(t, b, e) /\ HeaderTo(t, b, e - 1)
    BY <2>1 DEF Lines
  <2>3. LineEnds(u, b, e) /\ HeaderTo(u, b, e - 1)
    BY <2>2, SameLineEnds, SameHeader
  <2> QED BY <2>3
<1> QED BY <1>1, <1>2, <1>4, <1>5 DEF Lines

LEMMA SameWhole ==
    ASSUME NEW t, NEW u, NEW n \in Nat, AgreeTo(t, u, n), Whole(t, n)
    PROVE  Whole(u, n)
<1>1. Lines(t, n - 1) /\ n - 1 \in Nat
  BY DEF Whole
<1>2. Lines(u, n - 1)
  BY <1>1, SameLines
<1> QED BY <1>2 DEF Whole, AgreeTo

LEMMA SameShape ==
    ASSUME NEW t, NEW u, NEW p \in Nat, AgreeTo(t, u, p), NEW s \in 1..(p + 1), state_ \in States,
           Shape(t, s, p, state_)
    PROVE  Shape(u, s, p, state_)
<1>1. \A k \in s..p : u[k] = "CR" => k = p /\ state_ \in Newlines
  BY DEF Shape, AgreeTo
<1>2. ASSUME s = 1, InRequestLine(t, p, state_) PROVE InRequestLine(u, p, state_)
  <2> USE DEF InRequestLine
  <2>1. CASE state_ = "method_start"
    BY <1>2, <2>1
  <2>2. CASE state_ = "method"
    BY <1>2, <2>2 DEF MethodTo, AgreeTo
  <2>3. CASE state_ = "uri"
    BY <1>2, <2>3, SameUri
  <2>4. CASE state_ = "http_version_h"
    BY <1>2, <2>4, SameUriEnd
  <2>5. CASE state_ = "http_version_t_1"
    BY <1>2, <2>5, SameHttp
  <2>6. CASE state_ = "http_version_t_2"
    BY <1>2, <2>6, SameHttp
  <2>7. CASE state_ = "http_version_p"
    BY <1>2, <2>7, SameHttp
  <2>8. CASE state_ = "http_version_slash"
    BY <1>2, <2>8, SameHttp
  <2>9. CASE state_ = "http_version_major_start"
    BY <1>2, <2>9, SameHttp
  <2>10. CASE state_ = "http_version_major"
    BY <1>2, <2>10, SameMajor
  <2>11. CASE state_ = "http_version_minor_start"
    BY <1>2, <2>11, SameDot
  <2>12. CASE state_ = "http_version_minor"
    BY <1>2, <2>12, SameRequestLine
  <2>13. CASE state_ = "expecting_newline_1"
    <3>1. t[p] = "CR" /\ RequestLineTo(t, p - 1)
      BY <1>2, <2>13
    <3>2. RequestLineTo(u, p - 1) /\ p >= 1
      BY <3>1, SameRequestLine DEF RequestLineTo
    <3>3. u[p] = "CR"
      BY <3>1, <3>2 DEF AgreeTo
    <3> QED BY <2>13, <3>2, <3>3
  <2> QED BY <1>2, <2>1, <2>2, <2>3, <2>4, <2>5, <2>6, <2>7, <2>8, <2>9, <2>10, <2>11, <2>12, <2>13
<1>3. ASSUME Lines(t, s), InHeader(t, s, p, state_) PROVE Lines(u, s) /\ InHeader(u, s, p, state_)
  <2>0. Lines(u, s)
    BY <1>3, SameLines
  <2> USE DEF InHeader
  <2>1. CASE state_ = "header_line_start"
    BY <1>3, <2>0, <2>1
  <2>2. CASE state_ = "header_name"
    BY <1>3, <2>0, <2>2 DEF NameTo, AgreeTo
  <2>3. CASE state_ = "space_before_header_value"
    BY <1>3, <2>0, <2>3 DEF NameTo, AgreeTo
  <2>4. CASE state_ = "header_lws"
    <3>1. HasField(u, s)
      BY <1>3, <2>4, SameFields
    <3> QED BY <1>3, <2>0, <2>4, <3>1 DEF WhiteTo, AgreeTo
  <2>5. CASE state_ = "header_value"
    <3>1. HeaderTo(u, s, p)
      BY <1>3, <2>5, SameHeader
    <3>2. ~WhiteTo(u, s, p)
      BY <1>3, <2>5 DEF WhiteTo, AgreeTo
    <3> QED BY <1>3, <2>0, <2>5, <3>1, <3>2
  <2>6. CASE state_ = "expecting_newline_2"
    <3>1. HeaderTo(u, s, p - 1)
      BY <1>3, <2>6, SameHeader
    <3> QED BY <1>3, <2>0, <2>6, <3>1 DEF AgreeTo
  <2>7. CASE state_ = "expecting_newline_3"
    BY <1>3, <2>0, <2>7 DEF AgreeTo
  <2> QED BY <1>3, <2>1, <2>2, <2>3, <2>4, <2>5, <2>6, <2>7
<1> QED BY <1>1, <1>2, <1>3 DEF Shape

LEMMA SameEntered ==
    ASSUME NEW t, NEW u, NEW p \in Nat, AgreeTo(t, u, p), NEW s \in 1..(p + 1), NEW h \in BOOLEAN,
           Entered(t, s, state_, h)
    PROVE  Entered(u, s, state_, h)
<1>1. AgreeTo(u, t, p)
  BY DEF AgreeTo
<1>2. HasField(t, s) <=> HasField(u, s)
  BY <1>1, SameFields
<1> QED BY <1>2 DEF Entered

-----------------------------------------------------------------------------
(* The request.                                                              *)

VersionStates == {"http_version_major_start", "http_version_major", "http_version_minor_start",
                  "http_version_minor"}

LEMMA RequestCases ==
    ASSUME NEW c, NEW next
    PROVE  \/ state_ = "method" /\ next = "uri" /\ Request(c, next) = [req EXCEPT !.method_ = Method]
           \/ state_ = "uri" /\ next = "uri" /\ Request(c, next) = [req EXCEPT !.uri_ = Append(@, c)]
           \/ /\ next = "http_version_major_start"
              /\ Request(c, next) = [req EXCEPT !.http_version_ = <<>>]
           \/ /\ next \in VersionStates \ {"http_version_major_start"}
              /\ Request(c, next) = [req EXCEPT !.http_version_ = Append(@, c)]
           \/ /\ state_ = "space_before_header_value" /\ next = "header_value"
              /\ Request(c, next) = [req EXCEPT !.headers_ = With(@, header_helper, <<>>)]
           \/ /\ state_ = "header_value" /\ next = "header_value"
              /\ Request(c, next) = [req EXCEPT !.headers_ = With(@, header_helper, <<c>>)]
           \/ /\ ~(state_ \in {"space_before_header_value", "header_value"} /\ next = "header_value")
              /\ ~(state_ \in {"method", "uri"} /\ next = "uri") /\ next \notin VersionStates
              /\ Request(c, next) = req
BY Zenon DEF Request, VersionStates

LEMMA MethodType == Method \in {"GET", "POST", "PUT", "UNKNOWN"}
BY Zenon DEF Method

\* The maps from names to values.
HeadersType(headers) == \A n \in DOMAIN headers : n \in Seq(Chars) /\ headers[n] \in Seq(Chars)

LEMMA WithTypes ==
    ASSUME NEW headers, HeadersType(headers), NEW name \in Seq(Chars), NEW more \in Seq(Chars)
    PROVE  HeadersType(With(headers, name, more)) /\ With(headers, name, more) # Fresh.headers_
<1> DEFINE w == With(headers, name, more)
<1>1. DOMAIN w = DOMAIN headers \cup {name}
  BY DEF With
<1>2. ASSUME NEW n \in DOMAIN headers \cup {name} PROVE n \in Seq(Chars) /\ w[n] \in Seq(Chars)
  <2> DEFINE old  == IF n \in DOMAIN headers THEN headers[n] ELSE <<>>
             next == IF n = name THEN more ELSE <<>>
  <2>1. n \in Seq(Chars) /\ old \in Seq(Chars) /\ next \in Seq(Chars)
    BY <1>2 DEF HeadersType
  <2>2. w[n] = old \o next
    BY DEF With
  <2> QED BY <2>1, <2>2, ConcatProperties
<1>3. DOMAIN Fresh.headers_ = {}
  BY DEF Fresh
<1> QED BY <1>1, <1>2, <1>3 DEF HeadersType

RequestType(r) ==
    /\ r = [method_ |-> r.method_, uri_ |-> r.uri_, http_version_ |-> r.http_version_,
            headers_ |-> r.headers_]
    /\ r.method_ \in {"GET", "POST", "PUT", "UNKNOWN"}
    /\ r.uri_ \in Seq(Chars) /\ r.http_version_ \in Seq(Chars)
    /\ HeadersType(r.headers_)

LEMMA RequestStep ==
    ASSUME NEW c \in Chars, NEW next, RequestType(req), header_helper \in Seq(Chars)
    PROVE  /\ RequestType(Request(c, next))
           /\ Request(c, next).headers_ # Fresh.headers_ <=>
                 \/ req.headers_ # Fresh.headers_
                 \/ state_ \in {"space_before_header_value", "header_value"} /\ next = "header_value"
<1> DEFINE r == Request(c, next)
           keeps == state_ \in {"space_before_header_value", "header_value"} /\ next = "header_value"
<1>0. /\ req = [method_ |-> req.method_, uri_ |-> req.uri_, http_version_ |-> req.http_version_,
                headers_ |-> req.headers_]
      /\ req.method_ \in {"GET", "POST", "PUT", "UNKNOWN"}
      /\ req.uri_ \in Seq(Chars) /\ req.http_version_ \in Seq(Chars)
      /\ HeadersType(req.headers_)
  BY DEF RequestType
<1>1. ASSUME ~keeps, r = [req EXCEPT !.method_ = Method]
      PROVE  RequestType(r) /\ r.headers_ = req.headers_
  <2>1. r = [method_ |-> Method, uri_ |-> req.uri_, http_version_ |-> req.http_version_,
             headers_ |-> req.headers_]
    BY <1>0, <1>1
  <2> QED BY <1>0, <1>1, <2>1, MethodType DEF RequestType
<1>2. ASSUME ~keeps, r = [req EXCEPT !.uri_ = Append(@, c)]
      PROVE  RequestType(r) /\ r.headers_ = req.headers_
  <2>1. r = [method_ |-> req.method_, uri_ |-> Append(req.uri_, c),
             http_version_ |-> req.http_version_, headers_ |-> req.headers_]
    BY <1>0, <1>2
  <2>2. Append(req.uri_, c) \in Seq(Chars)
    BY <1>0, AppendProperties
  <2> QED BY <1>0, <1>2, <2>1, <2>2 DEF RequestType
<1>3. ASSUME NEW v \in Seq(Chars), ~keeps, r = [req EXCEPT !.http_version_ = v]
      PROVE  RequestType(r) /\ r.headers_ = req.headers_
  <2>1. r = [method_ |-> req.method_, uri_ |-> req.uri_, http_version_ |-> v,
             headers_ |-> req.headers_]
    BY <1>0, <1>3
  <2> QED BY <1>0, <2>1 DEF RequestType
<1>4. ASSUME ~keeps, r = [req EXCEPT !.http_version_ = Append(@, c)]
      PROVE  RequestType(r) /\ r.headers_ = req.headers_
  <2>1. r = [req EXCEPT !.http_version_ = Append(req.http_version_, c)]
    BY <1>0, <1>4
  <2>2. Append(req.http_version_, c) \in Seq(Chars)
    BY <1>0, AppendProperties
  <2> QED BY <1>3, <1>4, <2>1, <2>2
<1>5. ASSUME NEW more \in Seq(Chars), keeps, r = [req EXCEPT !.headers_ = With(@, header_helper, more)]
      PROVE  RequestType(r) /\ r.headers_ # Fresh.headers_
  <2>1. r = [method_ |-> req.method_, uri_ |-> req.uri_, http_version_ |-> req.http_version_,
             headers_ |-> With(req.headers_, header_helper, more)]
    BY <1>0, <1>5
  <2>2. HeadersType(With(req.headers_, header_helper, more))
        /\ With(req.headers_, header_helper, more) # Fresh.headers_
    BY <1>0, WithTypes
  <2> QED BY <1>0, <2>1, <2>2 DEF RequestType
<1>6. <<>> \in Seq(Chars) /\ <<c>> \in Seq(Chars)
  OBVIOUS
<1>7. ASSUME ~keeps, r = req
      PROVE  RequestType(r) /\ r.headers_ = req.headers_
  BY <1>7
<1> HIDE DEF r, keeps
<1>8. \/ ~keeps /\ r = [req EXCEPT !.method_ = Method]
      \/ ~keeps /\ r = [req EXCEPT !.uri_ = Append(@, c)]
      \/ ~keeps /\ r = [req EXCEPT !.http_version_ = <<>>]
      \/ ~keeps /\ r = [req EXCEPT !.http_version_ = Append(@, c)]
      \/ keeps /\ r = [req EXCEPT !.headers_ = With(@, header_helper, <<>>)]
      \/ keeps /\ r = [req EXCEPT !.headers_ = With(@, header_helper, <<c>>)]
      \/ ~keeps /\ r = req
  BY Zenon, RequestCases DEF r, keeps, VersionStates
<1>9. RequestType(r) /\ (r.headers_ # Fresh.headers_ <=> req.headers_ # Fresh.headers_ \/ keeps)
  BY <1>1, <1>2, <1>3, <1>4, <1>5, <1>6, <1>7, <1>8
<1> QED BY <1>9 DEF r, keeps

LEMMA LeadsType ==
    ASSUME NEW c, NEW h \in BOOLEAN, state_ \in States
    PROVE  Leads(c, h) \in States \cup {"good", "bad"}
<1>1. CASE state_ \in DOMAIN Fixed
  BY <1>1 DEF Leads, Fixed, States
<1>2. CASE state_ \notin DOMAIN Fixed
  <2>1. Branches(c, h)[state_] \in States \cup {"bad"}
    BY <1>2 DEF Branches, Fixed, States
  <2> QED BY <1>2, <2>1 DEF Leads
<1> QED BY <1>1, <1>2

LEMMA RequestTypes == TypeOK /\ RequestForm <=> TypeOK /\ RequestType(req)
BY DEF TypeOK, RequestForm, RequestType, HeadersType

LEMMA ConsumeTypes == ASSUME TypeOK, RequestForm, consume PROVE TypeOK' /\ RequestForm'
<1> DEFINE c == text[pos + 1]
           next == Following(c)
<1>1. /\ text \in Seq(Chars) /\ pos \in 0..Len(text) /\ pos < Len(text)
      /\ state_ \in States /\ requests \in 1..MaxRequests
      /\ method_helper \in Seq(Chars) /\ header_helper \in Seq(Chars)
      /\ RequestType(req)
  BY RequestTypes DEF TypeOK, consume
<1>2. c \in Chars
  <2>1. Len(text) \in Nat /\ pos + 1 \in 1..Len(text)
    BY <1>1, LenProperties
  <2> QED BY <1>1, <2>1, ElementOfSeq
<1>3. /\ pos' = pos + 1 /\ text' = text /\ requests' = requests
      /\ result' = IF next \in {"good", "bad"} THEN next ELSE "indeterminate"
      /\ state_' = IF next \in {"good", "bad"} THEN state_ ELSE next
      /\ method_helper' = IF next = "method" THEN Append(method_helper, c) ELSE method_helper
      /\ header_helper' = HeaderHelper(c, next)
      /\ req' = Request(c, next)
  BY DEF consume
<1>4. next \in States \cup {"good", "bad"}
  BY <1>1, LeadsType DEF Following
<1>5. Append(method_helper, c) \in Seq(Chars) /\ Append(header_helper, c) \in Seq(Chars)
  BY <1>1, <1>2, AppendProperties
<1>6. HeaderHelper(c, next) \in Seq(Chars)
  BY <1>1, <1>5 DEF HeaderHelper
<1>7. RequestType(req')
  BY <1>1, <1>2, <1>3, RequestStep
<1> HIDE DEF c, next
<1>8. pos' \in 0..Len(text') /\ text' \in Seq(Chars)
  BY <1>1, <1>3, LenProperties
<1>9. result' \in {"indeterminate", "good", "bad"} /\ state_' \in States
  BY <1>1, <1>3, <1>4
<1>10. method_helper' \in Seq(Chars) /\ header_helper' \in Seq(Chars) /\ requests' \in 1..MaxRequests
  BY <1>1, <1>3, <1>5, <1>6
<1> QED BY <1>7, <1>8, <1>9, <1>10 DEF TypeOK, RequestForm, RequestType, HeadersType

LEMMA FreshTypes == RequestType(Fresh)
BY DEF Fresh, RequestType, HeadersType

LEMMA AnewTypes == ASSUME Anew PROVE TypeOK' /\ RequestForm'
<1>1. text' \in Seq(Chars) /\ pos' \in 0..Len(text')
  BY LenProperties DEF Anew
<1>2. RequestType(req')
  BY FreshTypes DEF Anew
<1>3. /\ result' \in {"indeterminate", "good", "bad"} /\ state_' \in States
      /\ method_helper' \in Seq(Chars) /\ header_helper' \in Seq(Chars)
      /\ requests' \in 1..MaxRequests
  BY DEF Anew, reset, States
<1> QED BY <1>1, <1>2, <1>3 DEF TypeOK, RequestForm, RequestType, HeadersType

LEMMA TypeInit == Init => TypeOK /\ RequestForm
<1> SUFFICES ASSUME Init PROVE TypeOK /\ RequestForm
  OBVIOUS
<1>1. text \in Seq(Chars)
  BY RequestParserAssumption DEF Init
<1>2. pos \in 0..Len(text)
  BY <1>1, LenProperties DEF Init
<1>3. requests \in 1..MaxRequests
  BY RequestParserAssumption DEF Init
<1>4. RequestType(req)
  BY FreshTypes DEF Init
<1>5. /\ result \in {"indeterminate", "good", "bad"} /\ state_ \in States
      /\ method_helper \in Seq(Chars) /\ header_helper \in Seq(Chars)
  BY DEF Init, States
<1> QED BY <1>1, <1>2, <1>3, <1>4, <1>5 DEF TypeOK, RequestForm, RequestType, HeadersType

-----------------------------------------------------------------------------
(* The invariant holds.                                                      *)

LEMMA ConsumeStep == ASSUME PInv, consume PROVE PInv'
<1> DEFINE c == text[pos + 1]
           next == Following(c)
           h == req.headers_ # Fresh.headers_
<1>1. TypeOK' /\ RequestForm'
  BY ConsumeTypes DEF PInv
<1>2. /\ text \in Seq(Chars) /\ pos \in Nat /\ pos < Len(text)
      /\ state_ \in States /\ header_helper \in Seq(Chars) /\ RequestType(req)
  BY RequestTypes, LenProperties DEF PInv, TypeOK, consume
<1>3. c \in Chars
  <2>1. Len(text) \in Nat /\ pos + 1 \in 1..Len(text)
    BY <1>2, LenProperties
  <2> QED BY <1>2, <2>1, ElementOfSeq
<1>4. /\ pos' = pos + 1 /\ text' = text /\ result = "indeterminate"
      /\ result' = IF next \in {"good", "bad"} THEN next ELSE "indeterminate"
      /\ state_' = IF next \in {"good", "bad"} THEN state_ ELSE next
      /\ req' = Request(c, next)
  BY DEF consume
<1>5. PICK s \in 1..(pos + 1) : Shape(text, s, pos, state_) /\ Entered(text, s, state_, h)
  BY <1>4 DEF PInv
<1>6. next = Leads(c, h) /\ h \in BOOLEAN
  BY DEF Following
<1>7. CASE next \notin {"good", "bad"}
  <2> DEFINE k == Request(c, next).headers_ # Fresh.headers_
  <2>1. k <=> h \/ state_ = "space_before_header_value"
    <3>1. k <=> h \/ (state_ \in {"space_before_header_value", "header_value"} /\ next = "header_value")
      BY <1>2, <1>3, RequestStep
    <3>2. state_ = "space_before_header_value" => next = "header_value"
      BY <1>6, <1>7 DEF Leads, Fixed
    <3>3. state_ = "header_value" => h
      BY <1>5 DEF Entered, InValue
    <3> HIDE DEF h, k, next
    <3> QED BY <3>1, <3>2, <3>3
  <2>2. k \in BOOLEAN /\ next # "good" /\ next # "bad"
    BY <1>7
  <2>3. result' = "indeterminate" /\ state_' = next /\ (k <=> req'.headers_ # Fresh.headers_)
    BY <1>4, <1>7
  <2> HIDE DEF next, h, k
  <2>4. PICK r \in 1..(pos + 2) : Shape(text, r, pos + 1, next) /\ Entered(text, r, next, k)
    BY <1>2, <1>5, <1>6, <2>1, <2>2, ShapeStep
  <2> HIDE DEF c
  <2>5. r \in 1..(pos' + 1) /\ Shape(text', r, pos', state_')
    BY <1>2, <1>4, <2>3, <2>4
  <2>6. Entered(text', r, state_', req'.headers_ # Fresh.headers_)
    BY <1>4, <2>3, <2>4 DEF Entered
  <2> QED BY <1>1, <2>3, <2>5, <2>6 DEF PInv
<1>8. CASE next = "good"
  <2>1. Whole(text, pos + 1)
    BY <1>2, <1>5, <1>6, <1>8, GoodStep
  <2> QED BY <1>1, <1>4, <1>8, <2>1 DEF PInv
<1>9. CASE next = "bad"
  <2>1. ASSUME NEW u, Len(u) \in Nat, pos + 1 <= Len(u), AgreeTo(text, u, pos + 1), Whole(u, Len(u))
        PROVE  FALSE
    <3>1. AgreeTo(text, u, pos) /\ u[pos + 1] = c
      BY <1>2, <2>1 DEF AgreeTo
    <3>2. Shape(u, s, pos, state_) /\ Entered(u, s, state_, h)
      BY <1>2, <1>5, <1>6, <3>1, SameShape, SameEntered
    <3> HIDE DEF c, h
    <3>3. Leads(u[pos + 1], h) # "bad"
      <4>1. pos \in 0..Len(u) /\ s \in 1..(pos + 1)
        BY <1>2, <2>1
      <4> QED BY <1>2, <1>6, <2>1, <3>2, <4>1, HeadGoesOn
    <3> QED BY <1>6, <1>9, <3>1, <3>3
  <2>2. \A u \in Seq(Chars) : Len(u) \in Nat
    BY LenProperties
  <2>3. result' = "bad"
    BY <1>4, <1>9
  <2> HIDE DEF next, c
  <2>4. \A u \in Seq(Chars) : pos' <= Len(u) /\ AgreeTo(text', u, pos') => ~Whole(u, Len(u))
    BY <1>4, <2>1, <2>2
  <2> QED BY <1>1, <2>3, <2>4 DEF PInv
<1> QED BY <1>7, <1>8, <1>9

LEMMA AnewStep == ASSUME Anew PROVE PInv'
<1>1. TypeOK' /\ RequestForm'
  BY AnewTypes
<1>2. pos' = 0 /\ state_' = "method_start" /\ result' = "indeterminate" /\ req' = Fresh
  BY DEF Anew, reset
<1>3. Shape(text', 1, pos', state_') /\ Entered(text', 1, state_', req'.headers_ # Fresh.headers_)
  BY <1>2 DEF Shape, InRequestLine, Entered, HasField, InValue
<1> QED BY <1>1, <1>2, <1>3 DEF PInv

LEMMA PInvInit == Init => PInv
<1> SUFFICES ASSUME Init PROVE PInv
  OBVIOUS
<1>1. pos = 0 /\ state_ = "method_start" /\ result = "indeterminate" /\ req = Fresh
  BY DEF Init
<1>2. Shape(text, 1, pos, state_) /\ Entered(text, 1, state_, req.headers_ # Fresh.headers_)
  BY <1>1 DEF Shape, InRequestLine, Entered, HasField, InValue
<1> QED BY <1>1, <1>2, TypeInit DEF PInv

LEMMA PInvKept == PInv /\ [consume \/ Anew]_vars => PInv'
<1> SUFFICES ASSUME PInv, [consume \/ Anew]_vars PROVE PInv'
  OBVIOUS
<1>1. CASE UNCHANGED vars
  BY <1>1 DEF vars, PInv, TypeOK, RequestForm, Read, Shape, Entered
<1> QED BY <1>1, ConsumeStep, AnewStep

LEMMA PInvStep == PInv /\ [Next]_vars => PInv'
BY PInvKept, NextSteps DEF PInv

\* The parser's state and the request it fills are well formed, for texts of any
\* length and any number of requests.
THEOREM TypeCorrect == Spec => []TypeOK
<1>1. PInv => TypeOK
  BY DEF PInv
<1> QED BY <1>1, PInvInit, PInvStep, PTL DEF Spec

-----------------------------------------------------------------------------
(* The grammar of lines and the positions of a text                          *)

\* A line ends at the first of the carriage returns behind its start: the lines up
\* to them are finite sets, of which one holds no other.
LEMMA EndExists ==
    ASSUME NEW t, NEW s \in Nat, NEW m \in Nat, s <= m, t[m] = "CR"
    PROVE  \E e \in s..m : LineEnds(t, s, e)
<1> DEFINE R == StrictSubsetOrdering(Nat)
           A == {e \in s..m : t[e] = "CR"}
           T == {s..e : e \in A}
<1>1. T \subseteq FiniteSubsetsOf(Nat) /\ T # {}
  <2>1. ASSUME NEW e \in A PROVE s..e \in FiniteSubsetsOf(Nat)
    BY FS_Interval DEF FiniteSubsetsOf
  <2>2. m \in A
    OBVIOUS
  <2> QED BY <2>1, <2>2
<1>2. PICK S \in T : \A Q \in T : ~(<<Q, S>> \in R)
  <2>1. IsWellFoundedOn(R, FiniteSubsetsOf(Nat))
    BY FS_StrictSubsetOrderingWellFounded
  <2> QED BY <1>1, <2>1, WFMin
<1>3. PICK e \in A : S = s..e
  OBVIOUS
<1>4. ASSUME NEW f \in s..(e - 1), t[f] = "CR" PROVE FALSE
  <2>1. s..f \subseteq s..e /\ e \in s..e /\ e \notin s..f /\ s..f \in T
    BY <1>4
  <2>2. <<s..f, s..e>> \in R
    BY <2>1 DEF StrictSubsetOrdering
  <2> QED BY <2>1, <2>2, <1>2, <1>3
<1> QED BY <1>4 DEF LineEnds

LEMMA LineIs ==
    ASSUME NEW t \in Seq(Chars), NEW s \in Nat \ {0}, NEW e \in s..Len(t), LineEnds(t, s, e)
    PROVE  /\ Line(t, s) \in Seq(Chars) /\ Len(Line(t, s)) = e - s
           /\ \A k \in 1..(e - s) : Line(t, s)[k] = t[s + k - 1]
<1> DEFINE A == {i \in s..Len(t) : t[i] = "CR"}
<1>0. Len(t) \in Nat
  BY LenProperties
<1>1. e \in A /\ \A i \in A : e <= i
  BY <1>0 DEF LineEnds
<1>2. Min(A) = e
  <2>1. \E x \in A : \A y \in A : x <= y
    BY <1>1
  <2>2. Min(A) \in A /\ \A y \in A : Min(A) <= y
    BY <2>1 DEF Min
  <2> QED BY <1>0, <1>1, <2>2
<1>3. Line(t, s) = SubSeq(t, s, e - 1)
  BY <1>2 DEF Line
<1>4. \A i \in s..(e - 1) : t[i] \in Chars
  <2>1. \A i \in s..(e - 1) : i \in 1..Len(t)
    BY <1>0
  <2> QED BY <2>1, ElementOfSeq
<1>5. e - 1 \in Int /\ s \in Int
  BY <1>0
<1>6. /\ SubSeq(t, s, e - 1) \in Seq(Chars)
      /\ Len(SubSeq(t, s, e - 1)) = IF s <= e - 1 THEN (e - 1) - s + 1 ELSE 0
      /\ \A i \in 1..((e - 1) - s + 1) : SubSeq(t, s, e - 1)[i] = t[s + i - 1]
  BY <1>4, <1>5, SubSeqProperties
<1> QED BY <1>0, <1>3, <1>6

LEMMA VersionIs ==
    ASSUME NEW v \in Seq(Chars)
    PROVE  Version(v) <=>
              \E k \in 7..(Len(v) - 1) :
                  /\ \A m \in 1..5 : v[m] = Http[m]
                  /\ v[k] = "."
                  /\ \A m \in 6..(k - 1) : is_digit(v[m])
                  /\ \A m \in (k + 1)..Len(v) : is_digit(v[m])
<1>0. Len(v) \in Nat
  BY LenProperties
<1>1. ASSUME Len(v) >= 8
      PROVE  SubSeq(v, 1, 5) = <<"H", "T", "T", "P", "/">> <=> \A m \in 1..5 : v[m] = Http[m]
  <2>1. \A m \in 1..5 : v[m] \in Chars
    BY <1>0, <1>1, ElementOfSeq
  <2>2. /\ SubSeq(v, 1, 5) \in Seq(Chars) /\ Len(SubSeq(v, 1, 5)) = 5
        /\ \A m \in 1..5 : SubSeq(v, 1, 5)[m] = v[m]
    BY <2>1, SubSeqProperties
  <2>3. ASSUME \A m \in 1..5 : v[m] = Http[m] PROVE SubSeq(v, 1, 5) = Http
    <3>1. Http \in Seq(Chars) /\ Len(Http) = 5
      <4>1. Http[1] \in Chars /\ Http[2] \in Chars /\ Http[3] \in Chars /\ Http[4] \in Chars /\ Http[5] \in Chars
        BY <2>1, <2>3
      <4> QED BY <4>1 DEF Http
    <3>2. \A m \in 1..5 : SubSeq(v, 1, 5)[m] = Http[m]
      BY <2>2, <2>3
    <3> HIDE DEF Http
    <3> QED BY Zenon, <2>2, <3>1, <3>2, SeqEqual
  <2>4. ASSUME SubSeq(v, 1, 5) = Http PROVE \A m \in 1..5 : v[m] = Http[m]
    BY <2>2, <2>4
  <2> QED BY <2>3, <2>4 DEF Http
<1>2. \A k \in 7..(Len(v) - 1) : Len(v) >= 8
  BY <1>0
<1> DEFINE W == \A m \in 1..5 : v[m] = Http[m]
           D(k) == /\ v[k] = "."
                   /\ \A m \in 6..(k - 1) : is_digit(v[m])
                   /\ \A m \in (k + 1)..Len(v) : is_digit(v[m])
<1>3. Version(v) <=> /\ Len(v) >= 8 /\ SubSeq(v, 1, 5) = <<"H", "T", "T", "P", "/">>
                    /\ \E k \in 7..(Len(v) - 1) : D(k)
  BY DEF Version, All
<1>4. (\E k \in 7..(Len(v) - 1) : W /\ D(k)) <=>
         /\ Len(v) >= 8 /\ W
         /\ \E k \in 7..(Len(v) - 1) : D(k)
  <2> HIDE DEF W, D
  <2> QED BY <1>2
<1>5. Len(v) >= 8 => (SubSeq(v, 1, 5) = <<"H", "T", "T", "P", "/">> <=> W)
  BY <1>1
<1>6. Version(v) <=> \E k \in 7..(Len(v) - 1) : W /\ D(k)
  <2> HIDE DEF W, D
  <2> QED BY <1>3, <1>4, <1>5
<1> QED BY <1>6

LEMMA TailIs ==
    ASSUME NEW l \in Seq(Chars), NEW j \in 1..Len(l)
    PROVE  /\ SubSeq(l, j + 1, Len(l)) \in Seq(Chars)
           /\ Len(SubSeq(l, j + 1, Len(l))) = Len(l) - j
           /\ \A k \in 1..(Len(l) - j) : SubSeq(l, j + 1, Len(l))[k] = l[j + k]
<1>0. Len(l) \in Nat
  BY LenProperties
<1>1. \A k \in (j + 1)..Len(l) : l[k] \in Chars
  BY <1>0, ElementOfSeq
<1>2. /\ SubSeq(l, j + 1, Len(l)) \in Seq(Chars)
      /\ Len(SubSeq(l, j + 1, Len(l))) = IF j + 1 <= Len(l) THEN Len(l) - (j + 1) + 1 ELSE 0
      /\ \A k \in 1..(Len(l) - (j + 1) + 1) : SubSeq(l, j + 1, Len(l))[k] = l[(j + 1) + k - 1]
  BY <1>0, <1>1, SubSeqProperties
<1> QED BY <1>0, <1>2

\* The first line is a request line.
LEMMA RequestLineIs ==
    ASSUME NEW t, NEW l \in Seq(Chars), \A k \in 1..Len(l) : l[k] = t[k]
    PROVE  RequestLine(l) # {} <=> RequestLineTo(t, Len(l))
<1> DEFINE n == Len(l)
           v(j) == SubSeq(l, j + 1, Len(l))
<1>0. n \in Nat
  BY LenProperties
<1>1. ASSUME NEW x \in RequestLine(l) PROVE RequestLineTo(t, n)
  <2>1. PICK i \in 1..n, j \in 1..n : x = <<i, j>>
    BY <1>1 DEF RequestLine
  <2>2. /\ 1 < i /\ i < j /\ l[i] = "SP" /\ l[j] = "SP"
        /\ All(Token, l, 1, i - 1)
        /\ \A k \in (i + 1)..(j - 1) : Text(l[k]) /\ l[k] # "SP"
        /\ Version(v(j))
    BY <1>1, <2>1 DEF RequestLine
  <2>3. UriTo(t, i, j - 1)
    BY <1>0, <2>2 DEF UriTo, MethodTo, All
  <2>4. v(j) \in Seq(Chars) /\ Len(v(j)) = n - j /\ \A k \in 1..(n - j) : v(j)[k] = t[j + k]
    BY <1>0, TailIs
  <2> HIDE DEF v
  <2>5. PICK k \in 7..((n - j) - 1) :
            /\ \A m \in 1..5 : v(j)[m] = Http[m]
            /\ v(j)[k] = "."
            /\ \A m \in 6..(k - 1) : is_digit(v(j)[m])
            /\ \A m \in (k + 1)..(n - j) : is_digit(v(j)[m])
    BY <2>2, <2>4, VersionIs
  <2>6. HttpTo(t, j, 5)
    <3>1. UriEnds(t, j)
      BY <1>0, <2>2, <2>3 DEF UriEnds
    <3>2. ASSUME NEW m \in 1..5 PROVE t[j + m] = Http[m]
      <4>1. m \in 1..(n - j)
        BY <1>0
      <4> QED BY <2>4, <2>5, <4>1
    <3> QED BY <3>1, <3>2 DEF HttpTo
  <2>7. ASSUME NEW q \in (j + 6)..(j + k - 1) PROVE is_digit(t[q])
    <3>1. q - j \in 6..(k - 1) /\ q - j \in 1..(n - j) /\ j + (q - j) = q
      BY <1>0
    <3> QED BY <2>4, <2>5, <3>1
  <2>8. ASSUME NEW q \in (j + k + 1)..n PROVE is_digit(t[q])
    <3>1. q - j \in (k + 1)..(n - j) /\ q - j \in 1..(n - j) /\ j + (q - j) = q
      BY <1>0
    <3> QED BY <2>4, <2>5, <3>1
  <2>9. t[j + k] = "." /\ j + 7 <= j + k /\ j + k < n
    <3>1. k \in 1..(n - j) /\ j + 7 <= j + k /\ j + k < n
      BY <1>0
    <3> QED BY <2>4, <2>5, <3>1
  <2>10. MinorTo(t, j, j + k, n)
    BY <1>0, <2>6, <2>7, <2>8, <2>9 DEF MinorTo, DotAt, MajorTo
  <2> QED BY <1>0, <2>9, <2>10 DEF RequestLineTo
<1>2. ASSUME RequestLineTo(t, n) PROVE RequestLine(l) # {}
  <2>1. PICK j \in 1..n, d \in 1..n : MinorTo(t, j, d, n)
    BY <1>2 DEF RequestLineTo
  <2>2. DotAt(t, j, d) /\ d < n /\ \A k \in (d + 1)..n : is_digit(t[k])
    BY <2>1 DEF MinorTo
  <2>3. t[d] = "." /\ HttpTo(t, j, 5) /\ j + 6 <= d - 1 /\ \A k \in (j + 6)..(d - 1) : is_digit(t[k])
    BY <2>2 DEF DotAt, MajorTo
  <2>4. t[j] = "SP" /\ \A k \in 1..5 : t[j + k] = Http[k]
    BY <2>3 DEF HttpTo, UriEnds
  <2>5. PICK i \in 1..(j - 1) : UriTo(t, i, j - 1)
    BY <2>3 DEF HttpTo, UriEnds
  <2>6. v(j) \in Seq(Chars) /\ Len(v(j)) = n - j /\ \A k \in 1..(n - j) : v(j)[k] = t[j + k]
    BY <1>0, TailIs
  <2> HIDE DEF v
  <2>7. d - j \in 7..((n - j) - 1) /\ d - j \in 1..(n - j) /\ j + (d - j) = d
    BY <1>0, <2>2, <2>3
  <2>8. v(j)[d - j] = "." /\ \A m \in 1..5 : v(j)[m] = Http[m]
    <3>1. \A m \in 1..5 : m \in 1..(n - j)
      BY <1>0, <2>7
    <3> QED BY <2>3, <2>4, <2>6, <2>7, <3>1
  <2>9. ASSUME NEW m \in 6..((d - j) - 1) PROVE is_digit(v(j)[m])
    <3>1. m \in 1..(n - j) /\ j + m \in (j + 6)..(d - 1)
      BY <1>0, <2>7
    <3> QED BY <2>3, <2>6, <3>1
  <2>10. ASSUME NEW m \in ((d - j) + 1)..(n - j) PROVE is_digit(v(j)[m])
    <3>1. m \in 1..(n - j) /\ j + m \in (d + 1)..n
      BY <1>0, <2>7
    <3> QED BY <2>2, <2>6, <3>1
  <2>11. Version(v(j))
    BY <2>6, <2>7, <2>8, <2>9, <2>10, VersionIs
  <2>12. /\ 1 < i /\ i < j /\ l[i] = "SP" /\ l[j] = "SP"
         /\ All(Token, l, 1, i - 1)
         /\ \A k \in (i + 1)..(j - 1) : Text(l[k]) /\ l[k] # "SP"
    <3>1. l[j] = t[j] /\ \A k \in 1..(j - 1) : l[k] = t[k]
      BY <1>0
    <3>2. 1 < i /\ i < j /\ l[i] = "SP" /\ l[j] = "SP"
      BY <2>4, <2>5, <3>1 DEF UriTo
    <3>3. All(Token, l, 1, i - 1)
      BY <2>5, <3>1 DEF All, UriTo, MethodTo
    <3>4. \A k \in (i + 1)..(j - 1) : Text(l[k]) /\ l[k] # "SP"
      BY <2>5, <3>1 DEF UriTo
    <3> QED BY <3>2, <3>3, <3>4
  <2>13. <<i, j>> \in (1..n) \X (1..n)
    BY <1>0
  <2>14. <<i, j>> \in RequestLine(l)
    BY <2>11, <2>12, <2>13 DEF RequestLine, v
  <2> QED BY <2>14
<1> QED BY <1>1, <1>2

\* The lines behind it are fields or continue them.
LEMMA FieldIs ==
    ASSUME NEW t, NEW s \in Nat, NEW e \in Nat, s <= e,
           NEW l \in Seq(Chars), Len(l) = e - s, \A k \in 1..(e - s) : l[k] = t[s + k - 1]
    PROVE  Field(l) # {} <=> FieldTo(t, s, e - 1)
<1>1. ASSUME NEW k \in Field(l) PROVE FieldTo(t, s, e - 1)
  <2>1. /\ k \in 2..(Len(l) - 1)
        /\ All(Token, l, 1, k - 1)
        /\ l[k] = ":" /\ l[k + 1] = "SP"
        /\ All(Text, l, k + 2, Len(l))
    BY <1>1 DEF Field
  <2>2. ASSUME NEW q \in s..(s + k - 2) PROVE Token(t[q])
    <3>1. q - s + 1 \in 1..(k - 1) /\ q - s + 1 \in 1..(e - s) /\ s + (q - s + 1) - 1 = q
      BY <2>1
    <3> QED BY <2>1, <3>1 DEF All
  <2>3. ASSUME NEW q \in (s + k + 1)..(e - 1) PROVE Text(t[q])
    <3>1. q - s + 1 \in (k + 2)..(e - s) /\ q - s + 1 \in 1..(e - s) /\ s + (q - s + 1) - 1 = q
      BY <2>1
    <3> QED BY <2>1, <3>1 DEF All
  <2>4. PICK d \in (s + 1)..(e - 2) : d = s + k - 1
    BY <2>1
  <2>5. t[d] = ":" /\ t[d + 1] = "SP"
    <3>1. k \in 1..(e - s) /\ k + 1 \in 1..(e - s) /\ s + (k + 1) - 1 = d + 1
      BY <2>1, <2>4
    <3> QED BY <2>1, <2>4, <3>1
  <2>6. NameTo(t, s, d - 1)
    BY <2>1, <2>2, <2>4 DEF NameTo
  <2>7. \A q \in (d + 2)..(e - 1) : Text(t[q])
    BY <2>1, <2>3, <2>4
  <2> QED BY <2>5, <2>6, <2>7 DEF FieldTo
<1>2. ASSUME FieldTo(t, s, e - 1) PROVE Field(l) # {}
  <2>1. PICK k \in (s + 1)..(e - 2) :
            /\ NameTo(t, s, k - 1) /\ t[k] = ":" /\ t[k + 1] = "SP"
            /\ \A q \in (k + 2)..(e - 1) : Text(t[q])
    BY <1>2 DEF FieldTo
  <2>2. k - s + 1 \in 2..(Len(l) - 1) /\ l[k - s + 1] = ":" /\ l[(k - s + 1) + 1] = "SP"
    BY <2>1
  <2>3. All(Token, l, 1, (k - s + 1) - 1)
    BY <2>1 DEF All, NameTo
  <2>4. All(Text, l, (k - s + 1) + 2, Len(l))
    BY <2>1 DEF All
  <2>5. k - s + 1 \in Field(l)
    BY <2>2, <2>3, <2>4 DEF Field
  <2> QED BY <2>5
<1> QED BY <1>1, <1>2

LEMMA FoldIs ==
    ASSUME NEW t, NEW s \in Nat, NEW e \in Nat, s <= e,
           NEW l \in Seq(Chars), Len(l) = e - s, \A k \in 1..(e - s) : l[k] = t[s + k - 1]
    PROVE  Continuation(l) # {} <=> FoldTo(t, s, e - 1)
<1>1. ASSUME NEW k \in Continuation(l) PROVE FoldTo(t, s, e - 1)
  <2>1. /\ k \in 1..Len(l)
        /\ All(White, l, 1, k) /\ All(Text, l, k + 1, Len(l))
        /\ k < Len(l) => ~White(l[k + 1])
    BY <1>1 DEF Continuation
  <2>2. ASSUME NEW q \in s..(s + k - 1) PROVE White(t[q])
    <3>1. q - s + 1 \in 1..k /\ q - s + 1 \in 1..(e - s) /\ s + (q - s + 1) - 1 = q
      BY <2>1
    <3> QED BY <2>1, <3>1 DEF All
  <2>3. ASSUME NEW q \in (s + k)..(e - 1) PROVE Text(t[q])
    <3>1. q - s + 1 \in (k + 1)..(e - s) /\ q - s + 1 \in 1..(e - s) /\ s + (q - s + 1) - 1 = q
      BY <2>1
    <3>2. Text(l[q - s + 1])
      BY <2>1, <3>1 DEF All
    <3>3. l[q - s + 1] = t[q]
      BY <3>1
    <3> QED BY <3>2, <3>3
  <2>4. PICK d \in s..(e - 1) : d = s + k - 1
    BY <2>1
  <2>5. d < e - 1 => ~White(t[d + 1])
    <3>1. d < e - 1 => k < e - s /\ k + 1 \in 1..(e - s) /\ s + (k + 1) - 1 = d + 1
      BY <2>1, <2>4
    <3>2. d < e - 1 => l[k + 1] = t[d + 1]
      BY <3>1
    <3> QED BY <2>1, <3>1, <3>2
  <2>6. WhiteTo(t, s, d)
    BY <2>1, <2>2, <2>4 DEF WhiteTo
  <2>7. \A q \in (d + 1)..(e - 1) : Text(t[q])
    BY <2>1, <2>3, <2>4
  <2> QED BY <2>5, <2>6, <2>7 DEF FoldTo
<1>2. ASSUME FoldTo(t, s, e - 1) PROVE Continuation(l) # {}
  <2>1. PICK k \in s..(e - 1) :
            /\ WhiteTo(t, s, k)
            /\ \A q \in (k + 1)..(e - 1) : Text(t[q])
            /\ k < e - 1 => ~White(t[k + 1])
    BY <1>2 DEF FoldTo
  <2>2. k - s + 1 \in 1..Len(l)
    BY <2>1
  <2>3. All(White, l, 1, k - s + 1)
    BY <2>1 DEF All, WhiteTo
  <2>4. All(Text, l, (k - s + 1) + 1, Len(l))
    BY <2>1 DEF All
  <2>5. k - s + 1 < Len(l) => ~White(l[(k - s + 1) + 1])
    BY <2>1
  <2>6. k - s + 1 \in Continuation(l)
    BY <2>2, <2>3, <2>4, <2>5 DEF Continuation
  <2> QED BY <2>6
<1> QED BY <1>1, <1>2

\* No field is a request line.
LEMMA RequestLineIsNoField ==
    ASSUME NEW t, NEW p \in Nat, RequestLineTo(t, p), FieldTo(t, 1, p)
    PROVE  FALSE
<1>1. PICK j \in 1..p, d \in 1..p : MinorTo(t, j, d, p)
  BY DEF RequestLineTo
<1>2. PICK i \in 1..(j - 1) : UriTo(t, i, j - 1)
  BY <1>1 DEF MinorTo, DotAt, MajorTo, HttpTo, UriEnds
<1>3. t[i] = "SP" /\ \A k \in 1..(i - 1) : Token(t[k])
  BY <1>2 DEF UriTo, MethodTo
<1>4. PICK k \in 2..(p - 1) : t[k] = ":" /\ \A q \in 1..(k - 1) : Token(t[q])
  BY DEF FieldTo, NameTo
<1>5. ~(k < i) /\ ~(i < k)
  BY <1>3, <1>4 DEF Token, is_tspecial
<1> QED BY <1>3, <1>4, <1>5

\* A text whose line ends are in order and that ends with an empty line.
LEMMA CrlfIs ==
    ASSUME NEW t \in Seq(Chars), Crlf(t), Len(t) - 1 \in Starts(t)
    PROVE  /\ Len(t) \in Nat /\ Len(t) >= 4
           /\ \A i \in 1..Len(t) : t[i] = "CR" => i < Len(t) /\ t[i + 1] = "LF"
           /\ t[Len(t) - 3] = "CR" /\ t[Len(t) - 2] = "LF"
           /\ t[Len(t) - 1] = "CR" /\ t[Len(t)] = "LF"
<1> DEFINE n == Len(t)
<1>0. n \in Nat /\ n >= 4 /\ t[n - 1] = "CR"
  BY LenProperties DEF Crlf
<1>1. \A i \in 1..n : t[i] = "CR" => i < n /\ t[i + 1] = "LF"
  BY DEF Crlf
<1>2. PICK i \in 1..(n - 2) : t[i] = "CR" /\ n - 1 = i + 2
  BY <1>0 DEF Starts
<1>3. t[n - 3] = "CR"
  BY <1>0, <1>2
<1>4. t[n - 2] = "LF"
  <2>1. n - 3 \in 1..n /\ (n - 3) + 1 = n - 2
    BY <1>0
  <2> QED BY <1>1, <1>3, <2>1
<1>5. t[n] = "LF"
  <2>1. n - 1 \in 1..n /\ (n - 1) + 1 = n
    BY <1>0
  <2> QED BY <1>0, <1>1, <2>1
<1> QED BY <1>0, <1>1, <1>3, <1>4, <1>5

\* Two lines do not begin next to each other, so one that begins before another ends
\* before it.
LEMMA EndsBefore ==
    ASSUME NEW t, NEW n \in Nat, \A i \in 1..n : t[i] = "CR" => i < n /\ t[i + 1] = "LF",
           NEW b \in 3..n, t[b - 2] = "CR", NEW r \in 1..(b - 1), r = 1 \/ (r >= 3 /\ t[r - 2] = "CR")
    PROVE  \E e \in r..(b - 2) : LineEnds(t, r, e)
<1>1. r <= b - 2
  <2>1. ASSUME r = b - 1 PROVE FALSE
    <3>1. r >= 3 /\ r - 2 \in 1..n /\ (r - 2) + 1 = b - 2
      BY <2>1
    <3> QED BY <3>1
  <2> QED BY <2>1
<1> QED BY <1>1, EndExists

LEMMA WellFormedIsWhole ==
    ASSUME NEW t \in Seq(Chars), WellFormed(t)
    PROVE  Whole(t, Len(t))
<1> DEFINE n == Len(t)
<1>1. Crlf(t) /\ n - 1 \in Starts(t) /\ RequestLine(Line(t, 1)) # {}
  BY DEF WellFormed
<1>2. /\ n \in Nat /\ n >= 4
      /\ \A i \in 1..n : t[i] = "CR" => i < n /\ t[i + 1] = "LF"
      /\ t[n - 3] = "CR" /\ t[n - 2] = "LF" /\ t[n - 1] = "CR" /\ t[n] = "LF"
  BY <1>1, CrlfIs
<1>3. \A r \in Starts(t) : r = 1 \/ (r \in 3..n /\ t[r - 2] = "CR")
  BY <1>2 DEF Starts
<1>4. \A b \in 3..n : t[b - 2] = "CR" => b \in Starts(t)
  <2>1. ASSUME NEW b \in 3..n, t[b - 2] = "CR" PROVE b \in Starts(t)
    <3>1. b - 2 \in 1..(n - 2) /\ (b - 2) + 2 = b
      BY <1>2
    <3> QED BY <2>1, <3>1 DEF Starts
  <2> QED BY <2>1
<1> HIDE DEF n
<1>5. PICK f \in 1..(n - 3) : LineEnds(t, 1, f)
  <2>1. n - 1 \in 3..n /\ t[(n - 1) - 2] = "CR" /\ 1 \in 1..((n - 1) - 1) /\ (n - 1) - 2 = n - 3
    BY <1>2
  <2> QED BY <1>2, <2>1, EndsBefore
<1>6. RequestLineTo(t, f - 1)
  <2>1. f \in 1..Len(t) /\ 1 \in Nat \ {0}
    BY <1>2, <1>5 DEF n
  <2>2. /\ Line(t, 1) \in Seq(Chars) /\ Len(Line(t, 1)) = f - 1
        /\ \A k \in 1..(f - 1) : Line(t, 1)[k] = t[1 + k - 1]
    BY <1>5, <2>1, LineIs
  <2>3. \A k \in 1..(f - 1) : 1 + k - 1 = k
    BY <1>2
  <2> QED BY <1>1, <2>2, <2>3, RequestLineIs
<1>7. ASSUME NEW b \in 3..(n - 2), t[b - 2] = "CR"
      PROVE  \E e \in b..(n - 2) : LineEnds(t, b, e) /\ HeaderTo(t, b, e - 1)
  <2>1. PICK e \in b..(n - 3) : LineEnds(t, b, e)
    <3>1. n - 1 \in 3..n /\ t[(n - 1) - 2] = "CR" /\ b \in 1..((n - 1) - 1) /\ (n - 1) - 2 = n - 3
      BY <1>2
    <3>2. b >= 3 /\ t[b - 2] = "CR"
      BY <1>2, <1>7
    <3>3. \E e \in b..((n - 1) - 2) : LineEnds(t, b, e)
      BY <1>2, <3>1, <3>2, EndsBefore
    <3> QED BY <3>1, <3>3
  <2> DEFINE l == Line(t, b)
  <2>2. l \in Seq(Chars) /\ Len(l) = e - b /\ \A k \in 1..(e - b) : l[k] = t[b + k - 1]
    <3>1. b \in Nat \ {0} /\ e \in b..Len(t)
      BY <1>2, <2>1 DEF n
    <3> QED BY <2>1, <3>1, LineIs
  <2>3. b \in Starts(t) \ {1, n - 1}
    BY <1>2, <1>4, <1>7
  <2>4. \/ Field(l) # {}
        \/ Continuation(l) # {} /\ \E r \in Starts(t) : r < b /\ Field(Line(t, r)) # {}
    BY <2>3 DEF WellFormed, n
  <2>5. (Field(l) # {} <=> FieldTo(t, b, e - 1)) /\ (Continuation(l) # {} <=> FoldTo(t, b, e - 1))
    <3>1. b \in Nat /\ e \in Nat /\ b <= e
      BY <1>2
    <3> HIDE DEF l
    <3> QED BY <2>2, <3>1, FieldIs, FoldIs
  <2>6. ASSUME NEW r \in Starts(t), r < b, Field(Line(t, r)) # {} PROVE HasField(t, b)
    <3>1. r \in 1..(b - 1) /\ (r = 1 \/ (r >= 3 /\ t[r - 2] = "CR"))
      BY <1>3, <2>6
    <3>2. PICK g \in r..(b - 2) : LineEnds(t, r, g)
      <4>1. b \in 3..n
        BY <1>2
      <4> QED BY <1>2, <1>7, <3>1, <4>1, EndsBefore
    <3>3. /\ Line(t, r) \in Seq(Chars) /\ Len(Line(t, r)) = g - r
          /\ \A k \in 1..(g - r) : Line(t, r)[k] = t[r + k - 1]
      <4>1. r \in Nat \ {0} /\ g \in r..Len(t)
        BY <1>2, <3>1, <3>2 DEF n
      <4> QED BY <3>2, <4>1, LineIs
    <3>4. FieldTo(t, r, g - 1)
      <4>1. r \in Nat /\ g \in Nat /\ r <= g
        BY <3>1, <3>2
      <4> QED BY <2>6, <3>3, <4>1, FieldIs
    <3>5. r # 1
      <4>1. ASSUME r = 1 PROVE FALSE
        <5>1. g = f
          BY <1>2, <1>5, <3>2, <4>1, OneEnd
        <5>2. f - 1 \in Nat
          BY <1>2
        <5> QED BY <1>6, <3>4, <4>1, <5>1, <5>2, RequestLineIsNoField
      <4> QED BY <4>1
    <3>6. r \in 3..(b - 1) /\ g \in r..(b - 1) /\ t[r - 2] = "CR"
      BY <3>1, <3>2, <3>5
    <3> QED BY <3>2, <3>4, <3>6 DEF HasField
  <2>7. HeaderTo(t, b, e - 1)
    BY <2>4, <2>5, <2>6 DEF HeaderTo
  <2> QED BY <1>2, <2>1, <2>7
<1>8. ASSUME NEW i \in 1..((n - 1) - 1), t[i] = "CR" PROVE i < (n - 1) - 1 /\ t[i + 1] = "LF"
  <2>1. t[i + 1] = "LF" /\ i \in 1..n
    BY <1>2, <1>8
  <2>2. i # n - 2
    BY <1>2, <1>8
  <2> QED BY <1>2, <2>1, <2>2
<1>9. Lines(t, n - 1)
  <2>1. n - 1 >= 3 /\ t[(n - 1) - 2] = "CR" /\ t[(n - 1) - 1] = "LF" /\ (n - 1) - 1 = n - 2
    BY <1>2
  <2>2. f \in 1..((n - 1) - 1)
    BY <1>2
  <2> QED BY <1>5, <1>6, <1>7, <1>8, <2>1, <2>2 DEF Lines
<1> QED BY <1>2, <1>9 DEF Whole, n

LEMMA WholeIsWellFormed ==
    ASSUME NEW t \in Seq(Chars), Whole(t, Len(t))
    PROVE  WellFormed(t)
<1> DEFINE n == Len(t)
<1>0. n \in Nat
  BY LenProperties
<1>1. /\ n >= 4 /\ Lines(t, n - 1) /\ t[n - 1] = "CR" /\ t[n] = "LF"
      /\ t[(n - 1) - 2] = "CR" /\ n - 1 >= 3
      /\ \A i \in 1..((n - 1) - 1) : t[i] = "CR" => i < (n - 1) - 1 /\ t[i + 1] = "LF"
  BY DEF Whole, Lines
<1>2. \A i \in 1..n : t[i] = "CR" => i < n /\ t[i + 1] = "LF"
  <2>1. ASSUME NEW i \in 1..n, t[i] = "CR" PROVE i < n /\ t[i + 1] = "LF"
    <3>1. i # n
      BY <1>1, <2>1
    <3>2. CASE i = n - 1
      BY <1>0, <1>1, <3>2
    <3>3. CASE i # n - 1
      <4>1. i \in 1..((n - 1) - 1)
        BY <1>0, <3>1, <3>3
      <4> QED BY <1>0, <1>1, <2>1, <4>1
    <3> QED BY <3>2, <3>3
  <2> QED BY <2>1
<1>3. Crlf(t)
  BY <1>1, <1>2 DEF Crlf
<1>4. \A b \in 3..n : t[b - 2] = "CR" => b \in Starts(t)
  <2>1. ASSUME NEW b \in 3..n, t[b - 2] = "CR" PROVE b \in Starts(t)
    <3>1. b - 2 \in 1..(n - 2) /\ (b - 2) + 2 = b
      BY <1>0
    <3> QED BY <2>1, <3>1 DEF Starts
  <2> QED BY <2>1
<1>5. n - 1 \in Starts(t)
  <2>1. n - 1 \in 3..n
    BY <1>0, <1>1
  <2> QED BY <1>1, <1>4, <2>1
<1>6. \A b \in Starts(t) : b = 1 \/ (b \in 3..n /\ t[b - 2] = "CR")
  BY <1>0 DEF Starts
<1> HIDE DEF n
<1>7. RequestLine(Line(t, 1)) # {}
  <2>1. PICK e \in 1..((n - 1) - 1) : LineEnds(t, 1, e) /\ RequestLineTo(t, e - 1)
    BY <1>1 DEF Lines
  <2>2. e \in 1..Len(t) /\ 1 \in Nat \ {0}
    BY <1>0 DEF n
  <2>3. /\ Line(t, 1) \in Seq(Chars) /\ Len(Line(t, 1)) = e - 1
        /\ \A k \in 1..(e - 1) : Line(t, 1)[k] = t[1 + k - 1]
    BY <2>1, <2>2, LineIs
  <2>4. \A k \in 1..(e - 1) : 1 + k - 1 = k
    BY <2>2
  <2> QED BY <2>1, <2>3, <2>4, RequestLineIs
<1>8. ASSUME NEW b \in 3..(n - 2), t[b - 2] = "CR"
      PROVE  \/ Field(Line(t, b)) # {}
             \/ /\ Continuation(Line(t, b)) # {}
                /\ \E r \in Starts(t) : r < b /\ Field(Line(t, r)) # {}
  <2>1. PICK e \in b..((n - 1) - 1) : LineEnds(t, b, e) /\ HeaderTo(t, b, e - 1)
    <3>1. b \in 3..((n - 1) - 1)
      BY <1>0
    <3> QED BY <1>1, <1>8, <3>1 DEF Lines
  <2>2. /\ Line(t, b) \in Seq(Chars) /\ Len(Line(t, b)) = e - b
        /\ \A k \in 1..(e - b) : Line(t, b)[k] = t[b + k - 1]
    <3>1. b \in Nat \ {0} /\ e \in b..Len(t)
      BY <1>0, <2>1 DEF n
    <3> QED BY <2>1, <3>1, LineIs
  <2>3. b \in Nat /\ e \in Nat /\ b <= e
    BY <1>0, <2>1
  <2>4. CASE FieldTo(t, b, e - 1)
    BY <2>2, <2>3, <2>4, FieldIs
  <2>5. CASE FoldTo(t, b, e - 1) /\ HasField(t, b)
    <3>1. Continuation(Line(t, b)) # {}
      BY <2>2, <2>3, <2>5, FoldIs
    <3>2. PICK r \in 3..(b - 1) :
             /\ t[r - 2] = "CR"
             /\ \E g \in r..(b - 1) : LineEnds(t, r, g) /\ FieldTo(t, r, g - 1)
      BY <2>5 DEF HasField
    <3>3. PICK g \in r..(b - 1) : LineEnds(t, r, g) /\ FieldTo(t, r, g - 1)
      BY <3>2
    <3>4. r \in Starts(t)
      <4>1. r \in 3..n
        BY <1>0
      <4> QED BY <1>4, <3>2, <4>1
    <3>5. /\ Line(t, r) \in Seq(Chars) /\ Len(Line(t, r)) = g - r
          /\ \A k \in 1..(g - r) : Line(t, r)[k] = t[r + k - 1]
      <4>1. r \in Nat \ {0} /\ g \in r..Len(t)
        BY <1>0, <3>3 DEF n
      <4> QED BY <3>3, <4>1, LineIs
    <3>6. r \in Nat /\ g \in Nat /\ r <= g /\ r < b
      BY <3>3
    <3>7. Field(Line(t, r)) # {}
      BY <3>3, <3>5, <3>6, FieldIs
    <3> QED BY <3>1, <3>4, <3>6, <3>7
  <2> QED BY <2>1, <2>4, <2>5 DEF HeaderTo
<1>9. ASSUME NEW b \in Starts(t) \ {1, n - 1} PROVE b \in 3..(n - 2) /\ t[b - 2] = "CR"
  <2>1. b \in 3..n /\ t[b - 2] = "CR"
    BY <1>6, <1>9
  <2>2. b # n
    <3>1. ASSUME b = n PROVE FALSE
      <4>1. n - 2 \in 1..((n - 1) - 1) /\ ~(n - 2 < (n - 1) - 1)
        BY <1>0, <1>1
      <4> QED BY <1>1, <2>1, <3>1, <4>1
    <3> QED BY <3>1
  <2> QED BY <1>0, <1>9, <2>1, <2>2
<1>10. \A b \in Starts(t) \ {1, n - 1} :
          \/ Field(Line(t, b)) # {}
          \/ /\ Continuation(Line(t, b)) # {}
             /\ \E r \in Starts(t) : r < b /\ Field(Line(t, r)) # {}
  BY <1>8, <1>9
<1> QED BY <1>3, <1>5, <1>7, <1>10 DEF WellFormed, n

LEMMA ReadIs ==
    ASSUME TypeOK
    PROVE  Read \in Seq(Chars) /\ Len(Read) = pos /\ AgreeTo(text, Read, pos)
<1>1. Len(text) \in Nat /\ \A i \in 1..pos : text[i] \in Chars
  <2>1. Len(text) \in Nat
    BY LenProperties DEF TypeOK
  <2>2. \A i \in 1..pos : i \in 1..Len(text)
    BY <2>1 DEF TypeOK
  <2> QED BY <2>1, <2>2, ElementOfSeq DEF TypeOK
<1>2. pos \in Nat
  BY <1>1 DEF TypeOK
<1>3. /\ SubSeq(text, 1, pos) \in Seq(Chars)
      /\ Len(SubSeq(text, 1, pos)) = IF 1 <= pos THEN pos - 1 + 1 ELSE 0
      /\ \A i \in 1..(pos - 1 + 1) : SubSeq(text, 1, pos)[i] = text[1 + i - 1]
  BY <1>1, <1>2, SubSeqProperties
<1>4. pos - 1 + 1 = pos /\ \A i \in 1..pos : 1 + i - 1 = i
  BY <1>2
<1> QED BY <1>2, <1>3, <1>4 DEF Read, AgreeTo

LEMMA WholeIsRead ==
    ASSUME TypeOK
    PROVE  /\ WellFormed(Read) <=> Whole(Read, Len(Read))
           /\ Whole(Read, Len(Read)) <=> Whole(text, pos)
<1>1. Read \in Seq(Chars) /\ Len(Read) = pos /\ AgreeTo(text, Read, pos)
  BY ReadIs
<1>2. pos \in Nat
  BY LenProperties DEF TypeOK
<1>3. AgreeTo(Read, text, pos)
  BY <1>1 DEF AgreeTo
<1>4. WellFormed(Read) <=> Whole(Read, Len(Read))
  BY <1>1, WellFormedIsWhole, WholeIsWellFormed
<1>5. Whole(Read, pos) <=> Whole(text, pos)
  BY <1>1, <1>2, <1>3, SameWhole
<1> QED BY <1>1, <1>4, <1>5

\* A head that is whole is not waited on, and one that another text goes on to is not
\* refused.
LEMMA PInvAccepts == PInv => AcceptsHeads
<1> SUFFICES ASSUME PInv PROVE AcceptsHeads
  OBVIOUS
<1>0. TypeOK /\ pos \in Nat
  BY LenProperties DEF PInv, TypeOK
<1>1. WellFormed(Read) <=> Whole(text, pos)
  BY <1>0, WholeIsRead
<1>2. result = "good" => WellFormed(Read)
  BY <1>1 DEF PInv
<1>3. ASSUME WellFormed(Read) PROVE result = "good"
  <2>1. result # "bad"
    <3>1. Read \in Seq(Chars) /\ Whole(Read, Len(Read)) /\ pos <= Len(Read) /\ AgreeTo(text, Read, pos)
      BY <1>0, <1>3, ReadIs, WholeIsRead
    <3> QED BY <3>1 DEF PInv
  <2>2. ASSUME result = "indeterminate" PROVE FALSE
    <3> DEFINE h == req.headers_ # Fresh.headers_
    <3>1. PICK s \in 1..(pos + 1) : Shape(text, s, pos, state_) /\ Entered(text, s, state_, h)
      BY <2>2 DEF PInv
    <3>2. state_ \in States /\ h \in BOOLEAN
      BY <1>0 DEF TypeOK
    <3>3. Whole(text, pos) /\ pos \in 0..pos
      BY <1>0, <1>1, <1>3
    <3> HIDE DEF h
    <3>4. pos < pos
      BY <1>0, <3>1, <3>2, <3>3, HeadGoesOn
    <3> QED BY <1>0, <3>4
  <2> QED BY <1>0, <2>1, <2>2 DEF TypeOK
<1>4. ASSUME result = "bad", NEW t \in Texts, IsPrefix(Read, t) PROVE ~WellFormed(t)
  <2>1. t \in Seq(Chars)
    BY RequestParserAssumption
  <2>2. Read \in Seq(Chars) /\ Len(Read) = pos /\ AgreeTo(text, Read, pos)
    BY <1>0, ReadIs
  <2>3. pos <= Len(t) /\ Read = SubSeq(t, 1, pos)
    <3>1. pos <= Len(t) /\ SubSeq(Read, 1, pos) = SubSeq(t, 1, pos)
      BY <1>4, <2>2 DEF IsPrefix
    <3>2. SubSeq(Read, 1, pos) = Read
      BY <2>2
    <3> QED BY <3>1, <3>2
  <2>4. AgreeTo(text, t, pos)
    <3>1. \A i \in 1..pos : i \in 1..Len(t) /\ 1 + i - 1 = i
      BY <1>0, <2>1, <2>3, LenProperties
    <3>2. \A i \in 1..pos : t[i] \in Chars
      BY <2>1, <3>1, ElementOfSeq
    <3>3. \A i \in 1..(pos - 1 + 1) : SubSeq(t, 1, pos)[i] = t[1 + i - 1]
      BY <1>0, <3>2, SubSeqProperties
    <3>4. pos - 1 + 1 = pos
      BY <1>0
    <3> QED BY <2>2, <2>3, <3>1, <3>3, <3>4 DEF AgreeTo
  <2>5. ~Whole(t, Len(t))
    BY <1>4, <2>1, <2>3, <2>4 DEF PInv
  <2> QED BY <2>1, <2>5, WellFormedIsWhole
<1> QED BY <1>2, <1>3, <1>4 DEF AcceptsHeads

\* The parser says good at the end of a head of the grammar and nowhere else, and bad
\* only where no head goes on from what it has read: what consume decides one
\* character at a time is the grammar, whatever was parsed before (consume,
\* expecting_newline_3, reset).
THEOREM HeadsAreAccepted == Spec => []AcceptsHeads
BY PInvInit, PInvStep, PInvAccepts, PTL DEF Spec

-----------------------------------------------------------------------------
(* The request line                                                          *)

\* The method before i, the URI between i and j, and the version, as far as it was read
\* in state q, are those of the request r.
Behind == [http_version_h |-> 0, http_version_t_1 |-> 1, http_version_t_2 |-> 2,
           http_version_p |-> 3, http_version_slash |-> 4, http_version_major_start |-> 5]

InLine == {"method_start", "method", "uri"} \cup DOMAIN Behind \cup VersionStates

MethodOf(word) ==
    CASE word = Post -> "POST"
      [] word = Put  -> "PUT"
      [] word = Get  -> "GET"
      [] OTHER -> "UNKNOWN"

MethodIs(t, i, r) == r.method_ = MethodOf(SubSeq(t, 1, i - 1))

UriRead(t, i, j, r) ==
    /\ UriTo(t, i, j - 1) /\ t[j] = "SP"
    /\ MethodIs(t, i, r)
    /\ r.uri_ = SubSeq(t, i + 1, j - 1)

VersionRead(t, j, p, q, r) ==
    \/ q \in DOMAIN Behind /\ p = j + Behind[q]
       /\ (q = "http_version_major_start" => r.http_version_ = <<>>)
    \/ q \in VersionStates \ DOMAIN Behind /\ p >= j + 6 /\ r.http_version_ = SubSeq(t, j + 6, p)
    \/ q \notin InLine
       /\ \E e \in 1..p : LineEnds(t, 1, e) /\ r.http_version_ = SubSeq(t, j + 6, e - 1)

LineRead(t, p, q, m, r) ==
    \/ q = "method_start" /\ p = 0 /\ m = <<>> /\ r.uri_ = <<>>
    \/ q = "method" /\ p >= 1 /\ MethodTo(t, p) /\ m = SubSeq(t, 1, p) /\ r.uri_ = <<>>
    \/ q = "uri" /\ \E i \in 1..p : UriTo(t, i, p) /\ MethodIs(t, i, r) /\ r.uri_ = SubSeq(t, i + 1, p)
    \/ \E i \in 1..p : \E j \in 1..p : UriRead(t, i, j, r) /\ VersionRead(t, j, p, q, r)

\* What a character adds is what it adds to the part of the text it stands in.
LEMMA SubSeqGrows ==
    ASSUME NEW t \in Seq(Chars), NEW p \in Nat, p < Len(t), NEW a \in 1..(p + 1)
    PROVE  SubSeq(t, a, p + 1) = Append(SubSeq(t, a, p), t[p + 1])
<1> DEFINE u == SubSeq(t, a, p)
           v == SubSeq(t, a, p + 1)
<1>1. Len(t) \in Nat /\ \A i \in 1..Len(t) : t[i] \in Chars
  BY LenProperties, ElementOfSeq
<1>2. /\ u \in Seq(Chars) /\ Len(u) = p + 1 - a
      /\ \A i \in 1..(p + 1 - a) : u[i] = t[a + i - 1]
  <2>1. (\A i \in a..p : t[i] \in Chars) /\ p - a + 1 = p + 1 - a
    BY <1>1
  <2>2. /\ SubSeq(t, a, p) \in Seq(Chars)
        /\ Len(SubSeq(t, a, p)) = IF a <= p THEN p - a + 1 ELSE 0
        /\ \A i \in 1..(p - a + 1) : SubSeq(t, a, p)[i] = t[a + i - 1]
    BY <2>1, SubSeqProperties
  <2> QED BY <2>1, <2>2
<1>3. /\ v \in Seq(Chars) /\ Len(v) = p + 2 - a
      /\ \A i \in 1..(p + 2 - a) : v[i] = t[a + i - 1]
  <2>1. (\A i \in a..(p + 1) : t[i] \in Chars) /\ (p + 1) - a + 1 = p + 2 - a /\ p + 1 \in Int
    BY <1>1
  <2>2. /\ SubSeq(t, a, p + 1) \in Seq(Chars)
        /\ Len(SubSeq(t, a, p + 1)) = IF a <= p + 1 THEN (p + 1) - a + 1 ELSE 0
        /\ \A i \in 1..((p + 1) - a + 1) : SubSeq(t, a, p + 1)[i] = t[a + i - 1]
    BY <2>1, SubSeqProperties
  <2> QED BY <2>1, <2>2
<1> DEFINE w == Append(u, t[p + 1])
<1>4. t[p + 1] \in Chars
  BY <1>1
<1>5. /\ w \in Seq(Chars) /\ Len(w) = Len(u) + 1
      /\ \A i \in 1..Len(u) : w[i] = u[i]
      /\ w[Len(u) + 1] = t[p + 1]
  BY <1>2, <1>4, AppendProperties
<1> HIDE DEF u, v, w
<1>6. ASSUME NEW i \in 1..Len(v) PROVE v[i] = w[i]
  <2>1. CASE i = p + 2 - a
    <3>1. a + i - 1 = p + 1 /\ i = Len(u) + 1
      BY <1>2, <2>1
    <3> QED BY <1>3, <1>5, <3>1
  <2>2. CASE i # p + 2 - a
    <3>1. i \in 1..(p + 1 - a)
      BY <1>3, <2>2
    <3> QED BY <1>2, <1>3, <1>5, <3>1
  <2> QED BY <2>1, <2>2
<1>7. v = w
  <2>1. Len(v) = Len(w)
    BY <1>2, <1>3, <1>5
  <2>2. v \in Seq(Chars) /\ w \in Seq(Chars) /\ \A i \in 1..Len(v) : v[i] = w[i]
    BY <1>3, <1>5, <1>6
  <2> QED BY Zenon, <2>1, <2>2, SeqEqual
<1> QED BY <1>7 DEF u, v, w

LEMMA SubSeqNone == ASSUME NEW t, NEW a \in Int PROVE SubSeq(t, a, a - 1) = <<>>
BY SubSeqEmpty

\* A sequence that agrees with another has the same parts.
LEMMA SameSubSeq ==
    ASSUME NEW t \in Seq(Chars), NEW l \in Seq(Chars), NEW n \in Nat, n <= Len(t), n <= Len(l),
           \A k \in 1..n : l[k] = t[k],
           NEW a \in Nat \ {0}, NEW b \in 0..n
    PROVE  SubSeq(l, a, b) = SubSeq(t, a, b)
<1>1. Len(t) \in Nat /\ Len(l) \in Nat
  BY LenProperties
<1>2. \A k \in a..b : l[k] = t[k] /\ k \in 1..Len(t) /\ k \in 1..Len(l)
  BY <1>1
<1>3. \A k \in a..b : l[k] \in Chars /\ t[k] \in Chars
  BY <1>2, ElementOfSeq
<1>4. /\ SubSeq(l, a, b) \in Seq(Chars)
      /\ Len(SubSeq(l, a, b)) = IF a <= b THEN b - a + 1 ELSE 0
      /\ \A i \in 1..(b - a + 1) : SubSeq(l, a, b)[i] = l[a + i - 1]
  BY <1>3, SubSeqProperties
<1>5. /\ SubSeq(t, a, b) \in Seq(Chars)
      /\ Len(SubSeq(t, a, b)) = IF a <= b THEN b - a + 1 ELSE 0
      /\ \A i \in 1..(b - a + 1) : SubSeq(t, a, b)[i] = t[a + i - 1]
  BY <1>3, SubSeqProperties
<1>6. \A i \in 1..Len(SubSeq(l, a, b)) : i \in 1..(b - a + 1) /\ a + i - 1 \in a..b
  BY <1>4
<1>7. \A i \in 1..Len(SubSeq(l, a, b)) : SubSeq(l, a, b)[i] = SubSeq(t, a, b)[i]
  BY <1>2, <1>4, <1>5, <1>6
<1> QED BY <1>4, <1>5, <1>7, SeqEqual

LEMMA RequestFields ==
    ASSUME NEW c \in Chars, NEW next, RequestType(req)
    PROVE  /\ Request(c, next).method_ = IF state_ = "method" /\ next = "uri" THEN Method ELSE req.method_
           /\ Request(c, next).uri_ = IF state_ = "uri" /\ next = "uri" THEN Append(req.uri_, c) ELSE req.uri_
           /\ Request(c, next).http_version_ =
                 IF next = "http_version_major_start" THEN <<>>
                 ELSE IF next \in VersionStates THEN Append(req.http_version_, c)
                 ELSE req.http_version_
<1> DEFINE r == Request(c, next)
<1>0. req = [method_ |-> req.method_, uri_ |-> req.uri_, http_version_ |-> req.http_version_,
             headers_ |-> req.headers_]
  BY DEF RequestType
<1>1. \/ state_ = "method" /\ next = "uri" /\ r = [req EXCEPT !.method_ = Method]
      \/ state_ = "uri" /\ next = "uri" /\ r = [req EXCEPT !.uri_ = Append(@, c)]
      \/ /\ next = "http_version_major_start"
         /\ r = [req EXCEPT !.http_version_ = <<>>]
      \/ /\ next \in VersionStates \ {"http_version_major_start"}
         /\ r = [req EXCEPT !.http_version_ = Append(@, c)]
      \/ /\ state_ = "space_before_header_value" /\ next = "header_value"
         /\ r = [req EXCEPT !.headers_ = With(@, header_helper, <<>>)]
      \/ /\ state_ = "header_value" /\ next = "header_value"
         /\ r = [req EXCEPT !.headers_ = With(@, header_helper, <<c>>)]
      \/ /\ ~(state_ \in {"space_before_header_value", "header_value"} /\ next = "header_value")
         /\ ~(state_ \in {"method", "uri"} /\ next = "uri") /\ next \notin VersionStates
         /\ r = req
  BY Zenon, RequestCases
<1> HIDE DEF r
<1>2. /\ r.method_ = IF state_ = "method" /\ next = "uri" THEN Method ELSE req.method_
      /\ r.uri_ = IF state_ = "uri" /\ next = "uri" THEN Append(req.uri_, c) ELSE req.uri_
      /\ r.http_version_ =
            IF next = "http_version_major_start" THEN <<>>
            ELSE IF next \in VersionStates THEN Append(req.http_version_, c)
            ELSE req.http_version_
  BY <1>0, <1>1 DEF VersionStates
<1> QED BY <1>2 DEF r

LEMMA MethodIsOf == Method = MethodOf(method_helper)
BY Zenon DEF Method, MethodOf

LEMMA MethodIsKnown ==
    ASSUME NEW word
    PROVE  MethodOf(word) \in {"GET", "POST", "PUT"} <=> word \in {Get, Post, Put}
<1>1. (word = Get) \/ (word = Post) \/ (word = Put) => MethodOf(word) \in {"GET", "POST", "PUT"}
  BY Zenon DEF MethodOf
<1>2. ~(word = Get) /\ ~(word = Post) /\ ~(word = Put) => MethodOf(word) = "UNKNOWN"
  BY Zenon DEF MethodOf
<1> HIDE DEF MethodOf
<1> QED BY <1>1, <1>2

\* A step of consume reads on in the request line.
LEMMA LineStep ==
    ASSUME NEW t \in Seq(Chars), NEW p \in Nat, p < Len(t), NEW h \in BOOLEAN, NEW next,
           state_ \in States, RequestType(req), method_helper \in Seq(Chars),
           next = Leads(t[p + 1], h), next # "bad", next # "good",
           state_ = "http_version_minor" => \A k \in 1..p : t[k] # "CR",
           LineRead(t, p, state_, method_helper, req)
    PROVE  LineRead(t, p + 1, next,
                    IF next = "method" THEN Append(method_helper, t[p + 1]) ELSE method_helper,
                    Request(t[p + 1], next))
<1> DEFINE c == t[p + 1]
           r == Request(c, next)
           m == IF next = "method" THEN Append(method_helper, c) ELSE method_helper
<1>1. c \in Chars
  <2>1. p + 1 \in 1..Len(t)
    BY LenProperties
  <2> QED BY <2>1, ElementOfSeq
<1>2. /\ r.method_ = IF state_ = "method" /\ next = "uri" THEN Method ELSE req.method_
      /\ r.uri_ = IF state_ = "uri" /\ next = "uri" THEN Append(req.uri_, c) ELSE req.uri_
      /\ r.http_version_ = IF next = "http_version_major_start" THEN <<>>
                           ELSE IF next \in VersionStates THEN Append(req.http_version_, c)
                           ELSE req.http_version_
  BY <1>1, RequestFields
<1>3. next = Leads(c, h) /\ m = IF next = "method" THEN Append(method_helper, c) ELSE method_helper
  OBVIOUS
<1>4. c = t[p + 1]
  OBVIOUS
<1> HIDE DEF r, c, m
<1>5. ASSUME state_ = "method_start" PROVE LineRead(t, p + 1, next, m, r)
  <2>1. p = 0 /\ method_helper = <<>> /\ req.uri_ = <<>>
    BY <1>5 DEF LineRead, UriRead, VersionRead, Behind, VersionStates, InLine
  <2>2. next = "method" /\ Token(c)
    BY <1>3, <1>5 DEF Leads, Branches, Fixed
  <2>3. SubSeq(t, 1, p + 1) = Append(SubSeq(t, 1, p), c) /\ SubSeq(t, 1, p) = <<>>
    BY <1>4, <2>1, SubSeqGrows, SubSeqEmpty
  <2>4. MethodTo(t, p + 1)
    BY <1>4, <2>1, <2>2 DEF MethodTo
  <2> QED BY <1>2, <1>3, <1>5, <2>1, <2>2, <2>3, <2>4 DEF LineRead
<1>6. ASSUME state_ = "method" PROVE LineRead(t, p + 1, next, m, r)
  <2>1. p >= 1 /\ MethodTo(t, p) /\ method_helper = SubSeq(t, 1, p) /\ req.uri_ = <<>>
    BY <1>6 DEF LineRead, UriRead, VersionRead, Behind, VersionStates, InLine
  <2>2. (next = "uri" /\ c = "SP") \/ (next = "method" /\ Token(c))
    BY <1>3, <1>6 DEF Leads, Branches, Fixed
  <2>3. CASE next = "method" /\ Token(c)
    <3>1. SubSeq(t, 1, p + 1) = Append(SubSeq(t, 1, p), c)
      BY <1>4, SubSeqGrows
    <3>2. MethodTo(t, p + 1)
      BY <1>4, <2>1, <2>3 DEF MethodTo
    <3> QED BY <1>2, <1>3, <2>1, <2>3, <3>1, <3>2 DEF LineRead
  <2>4. CASE next = "uri" /\ c = "SP"
    <3>1. UriTo(t, p + 1, p + 1)
      BY <1>4, <2>1, <2>4 DEF UriTo
    <3>2. (p + 1) - 1 = p /\ SubSeq(t, (p + 1) + 1, p + 1) = <<>>
      BY SubSeqEmpty
    <3>3. MethodIs(t, p + 1, r)
      BY <1>2, <1>6, <2>1, <2>4, <3>2, MethodIsOf DEF MethodIs
    <3>4. r.uri_ = SubSeq(t, (p + 1) + 1, p + 1)
      BY <1>2, <1>6, <2>1, <3>2
    <3>5. p + 1 \in 1..(p + 1)
      BY <1>4
    <3>6. next = "uri" /\ \E i \in 1..(p + 1) : /\ UriTo(t, i, p + 1) /\ MethodIs(t, i, r)
                                               /\ r.uri_ = SubSeq(t, i + 1, p + 1)
      BY <2>4, <3>1, <3>3, <3>4, <3>5
    <3> QED BY <3>6 DEF LineRead
  <2> QED BY <2>2, <2>3, <2>4
<1>7. ASSUME state_ = "uri" PROVE LineRead(t, p + 1, next, m, r)
  <2>1. PICK i \in 1..p : UriTo(t, i, p) /\ MethodIs(t, i, req) /\ req.uri_ = SubSeq(t, i + 1, p)
    BY <1>7 DEF LineRead, UriRead, VersionRead, Behind, VersionStates, InLine
  <2>2. (next = "http_version_h" /\ c = "SP") \/ (next = "uri" /\ c # "SP" /\ ~is_ctl(c))
    BY <1>3, <1>7 DEF Leads, Branches, Fixed
  <2>3. MethodIs(t, i, r)
    BY <1>2, <1>7, <2>1 DEF MethodIs
  <2>4. CASE next = "uri" /\ c # "SP" /\ ~is_ctl(c)
    <3>1. UriTo(t, i, p + 1)
      BY <1>4, <2>1, <2>4 DEF UriTo, Text
    <3>2. SubSeq(t, i + 1, p + 1) = Append(SubSeq(t, i + 1, p), c)
      BY <1>4, SubSeqGrows
    <3>3. r.uri_ = SubSeq(t, i + 1, p + 1)
      BY <1>2, <1>7, <2>1, <2>4, <3>2
    <3> QED BY <2>3, <2>4, <3>1, <3>3 DEF LineRead
  <2>5. CASE next = "http_version_h" /\ c = "SP"
    <3>1. (p + 1) - 1 = p
      OBVIOUS
    <3>2. UriRead(t, i, p + 1, r)
      BY <1>2, <1>4, <1>7, <2>1, <2>3, <2>5, <3>1 DEF UriRead
    <3>3. VersionRead(t, p + 1, p + 1, next, r)
      BY <2>5 DEF VersionRead, Behind
    <3>4. i \in 1..(p + 1) /\ p + 1 \in 1..(p + 1)
      OBVIOUS
    <3> QED BY <3>2, <3>3, <3>4 DEF LineRead
  <2> QED BY <2>2, <2>4, <2>5
<1>8. ASSUME state_ \notin {"method_start", "method", "uri"} PROVE LineRead(t, p + 1, next, m, r)
  <2>1. PICK i \in 1..p : \E j \in 1..p : UriRead(t, i, j, req) /\ VersionRead(t, j, p, state_, req)
    BY <1>8 DEF LineRead
  <2>2. PICK j \in 1..p : UriRead(t, i, j, req) /\ VersionRead(t, j, p, state_, req)
    BY <2>1
  <2>3. UriRead(t, i, j, r)
    BY <1>2, <1>8, <2>2 DEF UriRead, MethodIs
  <2>4. VersionRead(t, j, p + 1, next, r)
    <3>1. CASE state_ \in DOMAIN Behind \ {"http_version_major_start"}
      <4>1. p = j + Behind[state_]
        BY <2>2, <3>1 DEF VersionRead, VersionStates, InLine
      <4>2. next \in DOMAIN Behind /\ Behind[next] = Behind[state_] + 1
        BY <1>3, <3>1 DEF Leads, Fixed, Behind
      <4>3. next = "http_version_major_start" => r.http_version_ = <<>>
        BY <1>2
      <4>4. Behind[state_] \in Int
        BY <3>1 DEF Behind
      <4> QED BY <4>1, <4>2, <4>3, <4>4 DEF VersionRead
    <3>2. CASE state_ = "http_version_major_start"
      <4>1. p = j + 5 /\ req.http_version_ = <<>>
        BY <2>2, <3>2 DEF VersionRead, VersionStates, InLine, Behind
      <4>2. next = "http_version_major"
        BY <1>3, <3>2 DEF Leads, Branches, Fixed
      <4>3. SubSeq(t, j + 6, p + 1) = Append(SubSeq(t, j + 6, p), c) /\ SubSeq(t, j + 6, p) = <<>>
        BY <1>4, <4>1, SubSeqGrows, SubSeqEmpty
      <4>4. r.http_version_ = SubSeq(t, j + 6, p + 1)
        BY <1>2, <4>1, <4>2, <4>3 DEF VersionStates
      <4> QED BY <4>1, <4>2, <4>4 DEF VersionRead, VersionStates, Behind
    <3>3. CASE state_ \in VersionStates \ DOMAIN Behind /\ next # "expecting_newline_1"
      <4>1. p >= j + 6 /\ req.http_version_ = SubSeq(t, j + 6, p)
        BY <2>2, <3>3 DEF VersionRead, InLine
      <4>2. next \in VersionStates \ DOMAIN Behind
        BY <1>3, <3>3 DEF Leads, Branches, Fixed, VersionStates, Behind
      <4>3. SubSeq(t, j + 6, p + 1) = Append(SubSeq(t, j + 6, p), c)
        BY <1>4, <4>1, SubSeqGrows
      <4>4. r.http_version_ = SubSeq(t, j + 6, p + 1)
        BY <1>2, <4>1, <4>2, <4>3 DEF VersionStates, Behind
      <4> QED BY <4>1, <4>2, <4>4 DEF VersionRead
    <3>4. CASE state_ \in VersionStates \ DOMAIN Behind /\ next = "expecting_newline_1"
      <4>1. p >= j + 6 /\ req.http_version_ = SubSeq(t, j + 6, p)
        BY <2>2, <3>4 DEF VersionRead, InLine
      <4>2. state_ = "http_version_minor" /\ c = "CR"
        BY <1>3, <3>4 DEF Leads, Branches, Fixed, VersionStates, Behind
      <4>3. LineEnds(t, 1, p + 1) /\ (p + 1) - 1 = p
        BY <1>4, <4>2 DEF LineEnds
      <4>4. r.http_version_ = SubSeq(t, j + 6, (p + 1) - 1)
        BY <1>2, <3>4, <4>1, <4>3 DEF VersionStates
      <4>5. next \notin InLine /\ p + 1 \in 1..(p + 1)
        BY <3>4 DEF InLine, Behind, VersionStates
      <4> QED BY <4>3, <4>4, <4>5 DEF VersionRead
    <3>5. CASE state_ \notin InLine
      <4>1. PICK e \in 1..p : LineEnds(t, 1, e) /\ req.http_version_ = SubSeq(t, j + 6, e - 1)
        BY <2>2, <3>5 DEF VersionRead, InLine
      <4>2. next \notin InLine
        BY <1>3, <3>5 DEF Leads, Branches, Fixed, InLine, Behind, VersionStates, States
      <4>3. r.http_version_ = req.http_version_
        BY <1>2, <4>2 DEF InLine, VersionStates
      <4> QED BY <4>1, <4>2, <4>3 DEF VersionRead
    <3> QED BY <1>8, <3>1, <3>2, <3>3, <3>4, <3>5 DEF InLine
  <2>5. i \in 1..(p + 1) /\ j \in 1..(p + 1)
    OBVIOUS
  <2> QED BY Zenon, <2>3, <2>4, <2>5 DEF LineRead
<1>9. LineRead(t, p + 1, next, m, r)
  BY <1>5, <1>6, <1>7, <1>8
<1> QED BY <1>9 DEF r, c, m

LInv ==
    /\ PInv
    /\ result \in {"indeterminate", "good"} => LineRead(text, pos, state_, method_helper, req)
    /\ result = "good" => state_ = "expecting_newline_3"

LEMMA LInvInit == Init => LInv
<1> SUFFICES ASSUME Init PROVE LInv
  OBVIOUS
<1>1. state_ = "method_start" /\ pos = 0 /\ method_helper = <<>> /\ req.uri_ = <<>>
  BY DEF Init, Fresh
<1>2. result = "indeterminate"
  BY DEF Init
<1> QED BY <1>1, <1>2, PInvInit DEF LInv, LineRead

LEMMA LInvKept == LInv /\ [consume \/ Anew]_vars => LInv'
<1> SUFFICES ASSUME LInv, [consume \/ Anew]_vars PROVE LInv'
  OBVIOUS
<1>0. PInv /\ PInv'
  BY PInvKept DEF LInv
<1>1. CASE UNCHANGED vars
  BY <1>0, <1>1 DEF vars, LInv
<1>2. CASE Anew
  <2>1. /\ state_' = "method_start" /\ pos' = 0 /\ method_helper' = <<>> /\ req'.uri_ = <<>>
        /\ result' = "indeterminate"
    BY <1>2 DEF Anew, reset, Fresh
  <2> QED BY <1>0, <2>1 DEF LInv, LineRead
<1>3. CASE consume
  <2> DEFINE c == text[pos + 1]
             next == Following(c)
             h == req.headers_ # Fresh.headers_
  <2>1. /\ text \in Seq(Chars) /\ pos \in Nat /\ pos < Len(text)
        /\ state_ \in States /\ method_helper \in Seq(Chars) /\ RequestType(req)
    BY <1>0, <1>3, RequestTypes, LenProperties DEF PInv, TypeOK, consume
  <2>2. /\ pos' = pos + 1 /\ text' = text /\ result = "indeterminate"
        /\ result' = IF next \in {"good", "bad"} THEN next ELSE "indeterminate"
        /\ state_' = IF next \in {"good", "bad"} THEN state_ ELSE next
        /\ method_helper' = IF next = "method" THEN Append(method_helper, c) ELSE method_helper
        /\ req' = Request(c, next)
    BY <1>3 DEF consume
  <2>3. next = Leads(c, h) /\ h \in BOOLEAN
    BY DEF Following
  <2>4. LineRead(text, pos, state_, method_helper, req)
    BY <2>2 DEF LInv
  <2>5. c = text[pos + 1]
    OBVIOUS
  <2> HIDE DEF c, next, h
  <2>6. CASE next = "bad"
    BY <1>0, <2>2, <2>6 DEF LInv
  <2>7. CASE next = "good"
    <3>1. state_ = "expecting_newline_3"
      BY <2>1, <2>3, <2>7 DEF Leads, Branches, Fixed, States
    <3>2. PICK i \in 1..pos : \E j \in 1..pos : UriRead(text, i, j, req) /\ VersionRead(text, j, pos, state_, req)
      BY <2>4, <3>1 DEF LineRead
    <3>3. PICK j \in 1..pos : UriRead(text, i, j, req) /\ VersionRead(text, j, pos, state_, req)
      BY <3>2
    <3>4. c \in Chars
      <4>1. pos + 1 \in 1..Len(text)
        BY <2>1, LenProperties
      <4> QED BY <2>1, <2>5, <4>1, ElementOfSeq
    <3>5. req'.method_ = req.method_ /\ req'.uri_ = req.uri_ /\ req'.http_version_ = req.http_version_
      BY <2>1, <2>2, <2>7, <3>4, RequestFields DEF VersionStates
    <3>6. UriRead(text, i, j, req')
      BY <3>3, <3>5 DEF UriRead, MethodIs
    <3>7. state_ \notin InLine /\ state_ \notin DOMAIN Behind /\ state_ \notin VersionStates
      BY <3>1 DEF InLine, Behind, VersionStates
    <3>8. PICK e \in 1..pos : LineEnds(text, 1, e) /\ req.http_version_ = SubSeq(text, j + 6, e - 1)
      BY <3>3, <3>7 DEF VersionRead
    <3>9. VersionRead(text, j, pos + 1, state_, req')
      <4>1. e \in 1..(pos + 1) /\ req'.http_version_ = SubSeq(text, j + 6, e - 1)
        BY <2>1, <3>5, <3>8
      <4> QED BY Zenon, <3>7, <3>8, <4>1 DEF VersionRead
    <3>10. LineRead(text, pos + 1, state_, method_helper', req')
      BY <2>1, <3>6, <3>9 DEF LineRead
    <3> QED BY <1>0, <2>2, <2>7, <3>1, <3>10 DEF LInv
  <2>8. CASE next # "bad" /\ next # "good"
    <3>1. state_ = "http_version_minor" => \A k \in 1..pos : text[k] # "CR"
      <4>1. PICK s \in 1..(pos + 1) : Shape(text, s, pos, state_)
        BY <1>0, <2>2 DEF PInv
      <4> QED BY <4>1 DEF Shape, InHeader, Newlines
    <3>2. LineRead(text, pos + 1, next,
                   IF next = "method" THEN Append(method_helper, c) ELSE method_helper, Request(c, next))
      BY <2>1, <2>3, <2>4, <2>5, <2>8, <3>1, LineStep
    <3>3. LineRead(text', pos', state_', method_helper', req')
      BY <2>2, <2>8, <3>2
    <3>4. result' = "indeterminate"
      BY <2>2, <2>8
    <3> QED BY <1>0, <3>3, <3>4 DEF LInv
  <2> QED BY <2>6, <2>7, <2>8
<1> QED BY <1>1, <1>2, <1>3

LEMMA LInvStep == LInv /\ [Next]_vars => LInv'
BY LInvKept, NextSteps DEF LInv, PInv

\* The request line of a head that was read ends where its first line does, and its
\* method and its URI end where the parser saw them end.
LEMMA LInvReads == LInv => ReadsLine
<1> SUFFICES ASSUME LInv, result = "good" PROVE ReadsLine
  BY DEF ReadsLine
<1>0. /\ TypeOK /\ pos \in Nat /\ text \in Seq(Chars) /\ Len(text) \in Nat /\ pos <= Len(text)
      /\ Read \in Seq(Chars) /\ Len(Read) = pos /\ AgreeTo(text, Read, pos)
  BY ReadIs, LenProperties DEF LInv, PInv, TypeOK
<1>1. PICK i \in 1..pos : \E j \in 1..pos : UriRead(text, i, j, req) /\ VersionRead(text, j, pos, state_, req)
  BY DEF LInv, LineRead
<1>2. PICK j \in 1..pos : UriRead(text, i, j, req) /\ VersionRead(text, j, pos, state_, req)
  BY <1>1
<1>3. PICK f \in 1..pos : LineEnds(text, 1, f) /\ req.http_version_ = SubSeq(text, j + 6, f - 1)
  BY <1>2 DEF VersionRead, LInv, Behind, VersionStates
<1> DEFINE l == Line(Read, 1)
<1>4. l \in Seq(Chars) /\ Len(l) = f - 1 /\ \A k \in 1..(f - 1) : l[k] = text[k]
  <2>1. LineEnds(Read, 1, f)
    BY <1>0, <1>3, SameLineEnds
  <2>2. /\ Line(Read, 1) \in Seq(Chars) /\ Len(Line(Read, 1)) = f - 1
        /\ \A k \in 1..(f - 1) : Line(Read, 1)[k] = Read[1 + k - 1]
    BY <1>0, <2>1, LineIs
  <2>3. \A k \in 1..(f - 1) : 1 + k - 1 = k /\ Read[k] = text[k]
    BY <1>0 DEF AgreeTo
  <2> QED BY <2>2, <2>3
<1>5. RequestLine(l) # {}
  <2>1. Whole(text, pos)
    BY DEF LInv, PInv
  <2> QED BY <1>0, <2>1, WholeIsRead DEF WellFormed
<1> HIDE DEF l
<1> DEFINE e == CHOOSE x \in RequestLine(l) : TRUE
<1>6. e \in RequestLine(l)
  BY <1>5
<1> HIDE DEF e
<1>7. PICK a \in 1..(f - 1), b \in 1..(f - 1) : e = <<a, b>>
  BY <1>4, <1>6 DEF RequestLine
<1>8. UriTo(text, a, b - 1) /\ text[b] = "SP"
  <2>1. /\ 1 < a /\ a < b /\ l[a] = "SP" /\ l[b] = "SP"
        /\ All(Token, l, 1, a - 1)
        /\ \A k \in (a + 1)..(b - 1) : Text(l[k]) /\ l[k] # "SP"
    BY <1>6, <1>7 DEF RequestLine
  <2>2. text[a] = "SP" /\ text[b] = "SP" /\ a <= b - 1
    BY <1>4, <2>1
  <2>3. MethodTo(text, a - 1)
    <3>1. \A k \in 1..(a - 1) : k \in 1..(f - 1) /\ Token(l[k])
      BY <2>1 DEF All
    <3> QED BY <1>4, <3>1 DEF MethodTo
  <2>4. \A k \in (a + 1)..(b - 1) : Text(text[k]) /\ text[k] # "SP"
    <3>1. \A k \in (a + 1)..(b - 1) : k \in 1..(f - 1)
      OBVIOUS
    <3> QED BY <1>4, <2>1, <3>1
  <2> QED BY <2>1, <2>2, <2>3, <2>4 DEF UriTo
<1>9. a = i /\ b = j
  <2>1. UriTo(text, i, j - 1) /\ text[j] = "SP"
    BY <1>2 DEF UriRead
  <2>2. a < b /\ i < j
    BY <1>8, <2>1 DEF UriTo
  <2>3. UriEnds(text, b) /\ UriEnds(text, j)
    BY <1>8, <2>1, <2>2 DEF UriEnds
  <2> QED BY <1>8, <2>1, <2>3, OneUri, OneUriEnd
<1>10. /\ SubSeq(l, 1, i - 1) = SubSeq(text, 1, i - 1)
       /\ SubSeq(l, i + 1, j - 1) = SubSeq(text, i + 1, j - 1)
       /\ SubSeq(l, j + 6, f - 1) = SubSeq(text, j + 6, f - 1)
  <2>1. f - 1 \in Nat /\ f - 1 <= Len(text) /\ f - 1 <= Len(l) /\ i - 1 \in 0..(f - 1) /\ j - 1 \in 0..(f - 1)
    BY <1>0, <1>4, <1>9
  <2>2. 1 \in Nat \ {0} /\ i + 1 \in Nat \ {0} /\ j + 6 \in Nat \ {0} /\ f - 1 \in 0..(f - 1)
    BY <2>1
  <2> QED BY <1>0, <1>4, <2>1, <2>2, SameSubSeq
<1>11. e[1] = i /\ e[2] = j
  BY <1>7, <1>9
<1>12. /\ req.uri_ = SubSeq(l, e[1] + 1, e[2] - 1)
       /\ req.http_version_ = SubSeq(l, e[2] + 6, Len(l))
       /\ req.method_ \in {"GET", "POST", "PUT"} <=> SubSeq(l, 1, e[1] - 1) \in {Get, Post, Put}
  BY <1>2, <1>3, <1>4, <1>10, <1>11, MethodIsKnown DEF UriRead, MethodIs
<1> QED BY <1>12 DEF ReadsLine, e, l

\* Of a head that is read the method, the URI and the version are in the request, from
\* this head and from no earlier one (consume, reset): the first half of ReadsRequest.
THEOREM RequestLinesAreRead == Spec => []ReadsLine
BY LInvInit, LInvStep, LInvReads, PTL DEF Spec

-----------------------------------------------------------------------------
(* What FlattenSeq joins                                                     *)

\* A set of numbers has a least one.
LEMMA LeastExists == ASSUME NEW A \in SUBSET Nat, A # {} PROVE \E x \in A : \A y \in A : x =< y
<1> DEFINE R == StrictSubsetOrdering(Nat)
           T == {0..x : x \in A}
<1>1. T \subseteq FiniteSubsetsOf(Nat)
  <2>1. ASSUME NEW x \in A PROVE 0..x \in FiniteSubsetsOf(Nat)
    <3>1. IsFiniteSet(0..x)
      BY FS_Interval
    <3> QED BY <3>1 DEF FiniteSubsetsOf
  <2> QED BY <2>1
<1>2. PICK s \in T : \A r \in T : ~(<<r, s>> \in R)
  <2>1. T # {}
    OBVIOUS
  <2>2. IsWellFoundedOn(R, FiniteSubsetsOf(Nat))
    BY FS_StrictSubsetOrderingWellFounded
  <2> QED BY <1>1, <2>1, <2>2, WFMin
<1>3. PICK x \in A : s = 0..x
  OBVIOUS
<1>4. ASSUME NEW y \in A, y < x PROVE FALSE
  <2>1. 0..y \subseteq 0..x /\ 0..y # 0..x
    <3>1. x \in 0..x /\ x \notin 0..y
      BY <1>4
    <3> QED BY <3>1, <1>4
  <2>2. <<0..y, 0..x>> \in R
    BY <2>1 DEF StrictSubsetOrdering
  <2> QED BY <2>2, <1>2, <1>3
<1> QED BY <1>4

\* Induction, for a set of numbers.
LEMMA Induction ==
    ASSUME NEW A, 0 \in A, \A n \in Nat : n \in A => n + 1 \in A
    PROVE  Nat \subseteq A
<1> DEFINE B == Nat \ A
<1> SUFFICES ASSUME B # {} PROVE FALSE
  OBVIOUS
<1>1. PICK x \in B : \A y \in B : x =< y
  BY LeastExists
<1>2. x \in Nat /\ x # 0
  OBVIOUS
<1>3. x - 1 \in Nat /\ x - 1 \in A
  BY <1>1, <1>2
<1> QED BY <1>2, <1>3

\* A recursive definition on D with values in V: what it makes of a function f is
\* G[f], and its value at d depends on those of lower rank.
Recursive(D, V, N, rank, G) ==
    /\ N \in Nat /\ rank \in [D -> 0..N] /\ [D -> V] # {}
    /\ G \in [[D -> V] -> [D -> V]]
    /\ \A g, h \in [D -> V] : \A d \in D :
          (\A e \in D : rank[e] < rank[d] => g[e] = h[e]) => G[g][d] = G[h][d]

\* Some function satisfies it.
Defines(D, V, G) == \E f \in [D -> V] : f = G[f]

LEMMA Recursion ==
    ASSUME NEW D, NEW V, NEW N, NEW rank, NEW G, Recursive(D, V, N, rank, G)
    PROVE  Defines(D, V, G)
<1> USE DEF Recursive, Defines
<1> DEFINE A == {n \in Nat : \E f \in [D -> V] : \A d \in D : rank[d] < n => G[f][d] = f[d]}
<1>1. 0 \in A
  <2>1. PICK f \in [D -> V] : TRUE
    OBVIOUS
  <2>2. \A d \in D : ~(rank[d] < 0)
    OBVIOUS
  <2> QED BY <2>1, <2>2
<1>2. ASSUME NEW n \in Nat, n \in A PROVE n + 1 \in A
  <2>1. PICK f \in [D -> V] : \A d \in D : rank[d] < n => G[f][d] = f[d]
    BY <1>2
  <2>2. G[f] \in [D -> V]
    OBVIOUS
  <2>3. ASSUME NEW d \in D, rank[d] < n + 1 PROVE G[G[f]][d] = G[f][d]
    <3>1. \A e \in D : rank[e] < rank[d] => rank[e] < n
      BY <2>3
    <3> QED BY <2>1, <2>2, <3>1
  <2> QED BY <2>2, <2>3
<1> HIDE DEF A
<1>3. N + 1 \in A
  BY <1>1, <1>2, Induction
<1>4. PICK f \in [D -> V] : \A d \in D : rank[d] < N + 1 => G[f][d] = f[d]
  BY <1>3 DEF A
<1>5. \A d \in D : G[f][d] = f[d]
  BY <1>4
<1>6. G[f] = f
  <2>1. G[f] \in [D -> V]
    OBVIOUS
  <2> QED BY <1>5, <2>1
<1> QED BY <1>6

\* The sequences of ss one after the other, as far as the k-th.
Joined(T, ss, a) ==
    /\ a \in [0..Len(ss) -> Seq(T)]
    /\ a[0] = <<>>
    /\ \A k \in 0..(Len(ss) - 1) : a[k + 1] = a[k] \o ss[k + 1]

JoinsTo(T, ss, s) == \E a : Joined(T, ss, a) /\ s = a[Len(ss)]

FlatStep(ss, g, i) == IF i = 1 THEN ss[i] ELSE g[i - 1] \o ss[i]

FlatTable(ss, g) == g = [i \in 1..Len(ss) |-> FlatStep(ss, g, i)]

LEMMA FlattenIs ==
    ASSUME NEW ss
    PROVE  FlattenSeq(ss) = IF Len(ss) = 0 THEN ss ELSE (CHOOSE g : FlatTable(ss, g))[Len(ss)]
BY Zenon DEF FlattenSeq, FlatTable, FlatStep

LEMMA FlatExists ==
    ASSUME NEW T, NEW ss \in Seq(Seq(T))
    PROVE  \E g : FlatTable(ss, g)
<1> DEFINE n == Len(ss)
           D == 1..n
           V == Seq(T)
           rank == [i \in D |-> i]
           G == [f \in [D -> V] |-> [i \in D |-> FlatStep(ss, f, i)]]
<1>1. n \in Nat /\ \A i \in D : ss[i] \in V
  BY LenProperties, ElementOfSeq
<1> HIDE DEF n
<1>2. ASSUME NEW f \in [D -> V], NEW i \in D PROVE FlatStep(ss, f, i) \in V
  <2>1. CASE i = 1
    BY <1>1, <2>1 DEF FlatStep
  <2>2. CASE i # 1
    <3>1. i - 1 \in D
      BY <1>1, <2>2
    <3>2. f[i - 1] \in Seq(T) /\ ss[i] \in Seq(T)
      BY <1>1, <3>1
    <3> QED BY <2>2, <3>2, ConcatProperties DEF FlatStep
  <2> QED BY <2>1, <2>2
<1>3. rank \in [D -> 0..n]
  BY <1>1
<1> HIDE DEF V
<1>4. G \in [[D -> V] -> [D -> V]]
  BY <1>2
<1>5. [D -> V] # {}
  <2>1. [i \in D |-> ss[i]] \in [D -> V]
    BY <1>1
  <2> QED BY <2>1
<1>6. ASSUME NEW g \in [D -> V], NEW h \in [D -> V], NEW d \in D,
             \A e \in D : rank[e] < rank[d] => g[e] = h[e]
      PROVE  G[g][d] = G[h][d]
  <2>1. d # 1 => d - 1 \in D /\ d - 1 < d
    BY <1>1
  <2>2. d # 1 => g[d - 1] = h[d - 1]
    BY <1>6, <2>1
  <2>3. FlatStep(ss, g, d) = FlatStep(ss, h, d)
    BY <2>2 DEF FlatStep
  <2> QED BY <2>3
<1>7. Recursive(D, V, n, rank, G)
  <2> HIDE DEF G, rank
  <2> QED BY <1>1, <1>3, <1>4, <1>5, <1>6 DEF Recursive
<1>8. Defines(D, V, G)
  <2> HIDE DEF G, rank, D
  <2> QED BY <1>7, Recursion
<1>9. PICK f \in [D -> V] : f = G[f]
  <2> HIDE DEF G
  <2> QED BY <1>8 DEF Defines
<1>10. f = [i \in D |-> FlatStep(ss, f, i)]
  BY <1>9
<1> QED BY <1>10 DEF FlatTable, n

\* What FlattenSeq computes.
LEMMA Flattened == ASSUME NEW T, NEW ss \in Seq(Seq(T)) PROVE JoinsTo(T, ss, FlattenSeq(ss))
<1>1. PICK n \in Nat : n = Len(ss)
  BY LenProperties
<1>2. \A i \in 1..n : ss[i] \in Seq(T)
  BY <1>1, ElementOfSeq
<1>3. PICK g : g = CHOOSE f : FlatTable(ss, f)
  OBVIOUS
<1>4. FlatTable(ss, g)
  BY <1>3, FlatExists
<1>5. \A i \in 1..n : g[i] = FlatStep(ss, g, i)
  BY <1>1, <1>4 DEF FlatTable
<1> DEFINE a == [k \in 0..n |-> IF k = 0 THEN <<>> ELSE g[k]]
           A == {k \in Nat : k <= n => a[k] \in Seq(T)}
<1>6. ASSUME NEW k \in 0..(n - 1) PROVE a[k + 1] = a[k] \o ss[k + 1]
  <2>1. k + 1 \in 1..n /\ k + 1 # 0 /\ k \in 0..n /\ k + 1 \in 0..n /\ (k + 1) - 1 = k /\ (k + 1 = 1 <=> k = 0)
    OBVIOUS
  <2>2. a[k + 1] = FlatStep(ss, g, k + 1)
    BY <1>5, <2>1
  <2>3. CASE k = 0
    <3>1. a[k] = <<>> /\ a[k + 1] = ss[k + 1] /\ ss[k + 1] \in Seq(T)
      BY <1>2, <2>1, <2>2, <2>3 DEF FlatStep
    <3> HIDE DEF a
    <3> QED BY <3>1, ConcatEmptySeq
  <2>4. CASE k # 0
    BY <2>1, <2>2, <2>4 DEF FlatStep
  <2> QED BY <2>3, <2>4
<1>7. a[0] = <<>> /\ <<>> \in Seq(T)
  OBVIOUS
<1>8. a = [k \in 0..n |-> a[k]]
  OBVIOUS
<1>9. Len(ss) = 0 => ss = <<>>
  BY EmptySeq
<1>10. FlattenSeq(ss) = a[n]
  BY <1>1, <1>3, <1>7, <1>9, FlattenIs
<1> HIDE DEF a
<1>11. 0 \in A
  BY <1>7
<1>12. ASSUME NEW k \in Nat, k \in A PROVE k + 1 \in A
  <2> SUFFICES ASSUME k + 1 <= n PROVE a[k + 1] \in Seq(T)
    OBVIOUS
  <2>1. k \in 0..(n - 1) /\ k + 1 \in 1..n /\ k <= n
    OBVIOUS
  <2>2. a[k] \in Seq(T) /\ ss[k + 1] \in Seq(T) /\ a[k + 1] = a[k] \o ss[k + 1]
    BY <1>2, <1>6, <1>12, <2>1
  <2> QED BY <2>2, ConcatProperties
<1> HIDE DEF A
<1>13. Nat \subseteq A
  BY <1>11, <1>12, Induction
<1>14. \A k \in 0..n : a[k] \in Seq(T)
  BY <1>13 DEF A
<1>15. a \in [0..n -> Seq(T)]
  BY <1>8, <1>14
<1> QED BY <1>1, <1>6, <1>7, <1>10, <1>15 DEF Joined, JoinsTo

\* What is joined of two sequences that begin the same is the same as far as that.
Alike(u, v, m) ==
    /\ m \in Nat /\ Len(u) \in Nat /\ Len(v) \in Nat /\ m <= Len(u) /\ m <= Len(v)
    /\ \A k \in 1..m : u[k] = v[k]

LEMMA JoinedSame ==
    ASSUME NEW T, NEW u, NEW v, NEW a, NEW b, Joined(T, u, a), Joined(T, v, b),
           NEW m, Alike(u, v, m)
    PROVE  a[m] = b[m]
<1> USE DEF Alike
<1> DEFINE A == {k \in Nat : k <= m => a[k] = b[k]}
<1>1. 0 \in A
  BY DEF Joined
<1>2. ASSUME NEW k \in Nat, k \in A PROVE k + 1 \in A
  <2> SUFFICES ASSUME k + 1 <= m PROVE a[k + 1] = b[k + 1]
    OBVIOUS
  <2>1. k \in 0..(Len(u) - 1) /\ k \in 0..(Len(v) - 1) /\ k <= m /\ k + 1 \in 1..m
    OBVIOUS
  <2>2. a[k + 1] = a[k] \o u[k + 1] /\ b[k + 1] = b[k] \o v[k + 1]
    BY <2>1 DEF Joined
  <2> QED BY <1>2, <2>1, <2>2
<1> HIDE DEF A
<1>3. m \in A
  BY <1>1, <1>2, Induction
<1> QED BY <1>3 DEF A

\* One more is put at the end.
LEMMA FlattenMore ==
    ASSUME NEW T, NEW u \in Seq(Seq(T)), NEW v \in Seq(Seq(T)), NEW m \in Nat,
           Len(u) = m, Len(v) = m + 1, \A k \in 1..m : u[k] = v[k]
    PROVE  /\ FlattenSeq(u) \in Seq(T) /\ FlattenSeq(v) \in Seq(T)
           /\ FlattenSeq(v) = FlattenSeq(u) \o v[m + 1]
<1>1. PICK a : Joined(T, u, a) /\ FlattenSeq(u) = a[m]
  BY Flattened DEF JoinsTo
<1>2. PICK b : Joined(T, v, b) /\ FlattenSeq(v) = b[m + 1]
  BY Flattened DEF JoinsTo
<1>3. a[m] = b[m]
  <2>1. Alike(u, v, m)
    <3>1. m \in Nat /\ Len(u) \in Nat /\ Len(v) \in Nat /\ m <= Len(u) /\ m <= Len(v)
      OBVIOUS
    <3>2. \A k \in 1..m : u[k] = v[k]
      OBVIOUS
    <3> QED BY <3>1, <3>2, Zenon DEF Alike
  <2>2. Joined(T, u, a) /\ Joined(T, v, b)
    BY <1>1, <1>2
  <2>3. \A c, d : Joined(T, u, c) /\ Joined(T, v, d) => c[m] = d[m]
    BY <2>1, JoinedSame
  <2> QED BY <2>2, <2>3
<1>4. m \in 0..(Len(v) - 1) /\ m + 1 \in 0..Len(v) /\ m \in 0..Len(u)
  OBVIOUS
<1>5. b[m + 1] = b[m] \o v[m + 1]
  BY <1>2, <1>4 DEF Joined
<1>6. a[m] \in Seq(T) /\ b[m + 1] \in Seq(T)
  BY <1>1, <1>2, <1>4 DEF Joined
<1> QED BY <1>1, <1>2, <1>3, <1>5, <1>6

\* Of nothing but empty sequences nothing is joined.
LEMMA FlattenNothing ==
    ASSUME NEW T, NEW u \in Seq(Seq(T)), \A k \in 1..Len(u) : u[k] = <<>>
    PROVE  FlattenSeq(u) = <<>>
<1>1. PICK m \in Nat : m = Len(u)
  BY LenProperties
<1>2. PICK a : Joined(T, u, a) /\ FlattenSeq(u) = a[m]
  BY <1>1, Flattened DEF JoinsTo
<1> DEFINE A == {k \in Nat : k <= m => a[k] = <<>>}
<1>3. 0 \in A
  BY <1>2 DEF Joined
<1>4. ASSUME NEW k \in Nat, k \in A PROVE k + 1 \in A
  <2> SUFFICES ASSUME k + 1 <= m PROVE a[k + 1] = <<>>
    OBVIOUS
  <2>1. k \in 0..(Len(u) - 1) /\ k <= m /\ k + 1 \in 1..Len(u)
    BY <1>1
  <2>2. a[k + 1] = a[k] \o u[k + 1] /\ u[k + 1] = <<>> /\ a[k] = <<>>
    BY <1>2, <1>4, <2>1 DEF Joined
  <2>3. <<>> \in Seq(T)
    OBVIOUS
  <2> QED BY <2>2, <2>3, ConcatEmptySeq
<1> HIDE DEF A
<1>5. m \in A
  BY <1>3, <1>4, Induction
<1> QED BY <1>2, <1>5 DEF A

-----------------------------------------------------------------------------
(* The headers of the lines so far                                           *)

\* l stands in t from r on.
StandsAt(l, t, r) ==
    /\ l \in Seq(Chars) /\ t \in Seq(Chars) /\ r \in Nat \ {0}
    /\ Len(l) \in Nat /\ Len(t) \in Nat /\ r + Len(l) - 1 <= Len(t)
    /\ \A k \in 1..Len(l) : l[k] = t[r + k - 1]

LEMMA LineStands ==
    ASSUME NEW t \in Seq(Chars), NEW s \in Nat \ {0}, NEW e \in s..Len(t), LineEnds(t, s, e)
    PROVE  StandsAt(Line(t, s), t, s) /\ Len(Line(t, s)) = e - s
<1>1. Len(t) \in Nat
  BY LenProperties
<1> QED BY <1>1, LineIs DEF StandsAt

Shifted(l, t, r) ==
    \A a \in Nat \ {0} : \A b \in 0..Len(l) : SubSeq(l, a, b) = SubSeq(t, r + a - 1, r + b - 1)

LEMMA PartStands == ASSUME NEW l, NEW t, NEW r, StandsAt(l, t, r) PROVE Shifted(l, t, r)
<1> SUFFICES ASSUME NEW a \in Nat \ {0}, NEW b \in 0..Len(l)
             PROVE  SubSeq(l, a, b) = SubSeq(t, r + a - 1, r + b - 1)
  BY DEF Shifted
<1> DEFINE u == SubSeq(l, a, b)
           x == r + a - 1
           y == r + b - 1
           v == SubSeq(t, x, y)
<1>0. /\ l \in Seq(Chars) /\ t \in Seq(Chars) /\ r \in Nat \ {0}
      /\ Len(l) \in Nat /\ Len(t) \in Nat /\ r + Len(l) - 1 <= Len(t)
      /\ \A k \in 1..Len(l) : l[k] = t[r + k - 1]
  BY DEF StandsAt
<1>1. \A k \in a..b : l[k] \in Chars
  <2>1. \A k \in a..b : k \in 1..Len(l)
    BY <1>0
  <2> QED BY <1>0, <2>1, ElementOfSeq
<1>2. \A k \in x..y : t[k] \in Chars
  <2>1. \A k \in x..y : k \in 1..Len(t)
    BY <1>0
  <2> QED BY <1>0, <2>1, ElementOfSeq
<1>3. /\ u \in Seq(Chars) /\ Len(u) = IF a <= b THEN b - a + 1 ELSE 0
      /\ \A k \in 1..(b - a + 1) : u[k] = l[a + k - 1]
  BY <1>1, SubSeqProperties
<1>4. x \in Int /\ y \in Int /\ y - x = b - a /\ (x <= y <=> a <= b)
  BY <1>0
<1> HIDE DEF x, y
<1>5. /\ v \in Seq(Chars) /\ Len(v) = IF a <= b THEN b - a + 1 ELSE 0
      /\ \A k \in 1..(b - a + 1) : v[k] = t[x + k - 1]
  <2>1. /\ SubSeq(t, x, y) \in Seq(Chars)
        /\ Len(SubSeq(t, x, y)) = IF x <= y THEN y - x + 1 ELSE 0
        /\ \A k \in 1..(y - x + 1) : SubSeq(t, x, y)[k] = t[x + k - 1]
    BY <1>2, <1>4, SubSeqProperties
  <2> QED BY <1>4, <2>1
<1>6. ASSUME NEW k \in 1..Len(u) PROVE u[k] = v[k]
  <2>1. k \in 1..(b - a + 1) /\ a + k - 1 \in 1..Len(l) /\ r + (a + k - 1) - 1 = x + k - 1
    BY <1>0, <1>3 DEF x
  <2>2. l[a + k - 1] = t[r + (a + k - 1) - 1]
    BY <1>0, <2>1
  <2> QED BY <1>3, <1>5, <2>1, <2>2
<1> HIDE DEF u, v
<1>7. u = v
  <2>1. Len(u) = Len(v)
    BY <1>3, <1>5
  <2>2. u \in Seq(Chars) /\ v \in Seq(Chars)
    BY <1>3, <1>5
  <2> QED BY Zenon, <1>6, <2>1, <2>2, SeqEqual
<1> QED BY <1>7 DEF u, v, x, y

LEMMA MinOfOne == ASSUME NEW i \in Nat PROVE Min({i}) = i
<1>1. \A x \in {i} : (\A y \in {i} : x <= y) <=> x = i
  OBVIOUS
<1> QED BY <1>1 DEF Min

\* A line that is a field.
FieldAt(t, s, k) == s < k /\ NameTo(t, s, k - 1) /\ t[k] = ":" /\ t[k + 1] = "SP"

\* A line that continues a field, for the grammar.
FoldAt(t, s, k) == s <= k /\ WhiteTo(t, s, k) /\ ~White(t[k + 1])

LEMMA FieldEntry ==
    ASSUME NEW l, NEW t, NEW s, StandsAt(l, t, s), NEW k \in Nat, FieldAt(t, s, k), k + 2 <= s + Len(l),
           \A q \in (k + 2)..(s + Len(l) - 1) : Text(t[q])
    PROVE  /\ Enters(l)
           /\ Entry(l) = [name |-> SubSeq(t, s, k - 1), value |-> SubSeq(t, k + 2, s + Len(l) - 1)]
<1> DEFINE n == Len(l)
           i == k - s + 1
<1>0. /\ l \in Seq(Chars) /\ t \in Seq(Chars) /\ s \in Nat \ {0}
      /\ n \in Nat /\ Len(t) \in Nat /\ s + n - 1 <= Len(t)
      /\ \A q \in 1..n : l[q] = t[s + q - 1]
  BY DEF StandsAt
<1>1. s < k /\ (\A q \in s..(k - 1) : Token(t[q])) /\ t[k] = ":" /\ t[k + 1] = "SP"
  BY DEF FieldAt, NameTo
<1> HIDE DEF n
<1>2. i \in 2..(n - 1) /\ i \in Nat
  BY <1>0, <1>1 DEF n
<1>3. \A q \in 1..(i - 1) : Token(l[q])
  <2> SUFFICES ASSUME NEW q \in 1..(i - 1) PROVE Token(l[q])
    OBVIOUS
  <2>1. q \in 1..n /\ s + q - 1 \in s..(k - 1)
    BY <1>0, <1>1, <1>2
  <2> QED BY <1>0, <1>1, <2>1
<1>4. l[i] = ":" /\ l[i + 1] = "SP"
  <2>1. i \in 1..n /\ i + 1 \in 1..n /\ s + i - 1 = k /\ s + (i + 1) - 1 = k + 1
    BY <1>0, <1>2
  <2> QED BY <1>0, <1>1, <2>1
<1>5. \A q \in (i + 2)..n : Text(l[q])
  <2> SUFFICES ASSUME NEW q \in (i + 2)..n PROVE Text(l[q])
    OBVIOUS
  <2>1. q \in 1..n /\ s + q - 1 \in (k + 2)..(s + n - 1)
    BY <1>0, <1>2
  <2> QED BY <1>0, <2>1 DEF n
<1> HIDE DEF i
<1>6. Field(l) = {i}
  <2>1. i \in Field(l)
    BY <1>2, <1>3, <1>4, <1>5 DEF Field, All, n
  <2>2. ASSUME NEW j \in Field(l) PROVE j = i
    <3>1. j \in 2..(n - 1) /\ (\A q \in 1..(j - 1) : Token(l[q])) /\ l[j] = ":"
      BY <2>2 DEF Field, All, n
    <3>2. ~(j < i) /\ ~(i < j)
      BY <1>0, <1>2, <1>3, <1>4, <3>1 DEF Token, is_tspecial
    <3> QED BY <1>0, <1>2, <3>1, <3>2
  <2> QED BY <2>1, <2>2
<1>7. Continuation(l) = {}
  <2> SUFFICES ASSUME NEW j \in Continuation(l) PROVE FALSE
    OBVIOUS
  <2>1. White(l[1])
    <3>1. j \in 1..Len(l) /\ \A q \in 1..j : White(l[q])
      BY DEF Continuation, All
    <3> QED BY <3>1, <1>0 DEF n
  <2>2. Token(l[1])
    BY <1>2, <1>3
  <2> QED BY <2>1, <2>2 DEF White, Token, is_tspecial
<1>8. Entry(l) = [name |-> SubSeq(l, 1, i - 1), value |-> SubSeq(l, i + 2, n)]
  <2>1. Min(Field(l)) = i
    BY <1>2, <1>6, MinOfOne
  <2> QED BY <1>7, <2>1 DEF Entry, n
<1>9. /\ SubSeq(l, 1, i - 1) = SubSeq(t, s, k - 1)
      /\ SubSeq(l, i + 2, n) = SubSeq(t, k + 2, s + n - 1)
  <2>1. 1 \in Nat \ {0} /\ i - 1 \in 0..Len(l) /\ i + 2 \in Nat \ {0} /\ n \in 0..Len(l)
    BY <1>0, <1>2 DEF n
  <2>2. s + 1 - 1 = s /\ s + (i - 1) - 1 = k - 1 /\ s + (i + 2) - 1 = k + 2
    BY <1>0 DEF i
  <2>0. Shifted(l, t, s)
    BY PartStands
  <2>3. \A a \in Nat \ {0} : \A b \in 0..Len(l) : SubSeq(l, a, b) = SubSeq(t, s + a - 1, s + b - 1)
    BY <2>0 DEF Shifted
  <2> QED BY <2>1, <2>2, <2>3
<1>10. Enters(l)
  BY <1>6 DEF Enters
<1> QED BY <1>8, <1>9, <1>10 DEF n

LEMMA FoldEntry ==
    ASSUME NEW l, NEW t, NEW s, StandsAt(l, t, s), NEW k \in Nat, FoldAt(t, s, k), k + 2 <= s + Len(l),
           \A q \in (k + 1)..(s + Len(l) - 1) : Text(t[q])
    PROVE  /\ Enters(l) <=> k + 2 < s + Len(l)
           /\ Entry(l) = [name |-> SubSeq(t, k + 1, k + 1), value |-> SubSeq(t, k + 2, s + Len(l) - 1)]
<1> DEFINE n == Len(l)
           i == k - s + 1
<1>0. /\ l \in Seq(Chars) /\ t \in Seq(Chars) /\ s \in Nat \ {0}
      /\ n \in Nat /\ Len(t) \in Nat /\ s + n - 1 <= Len(t)
      /\ \A q \in 1..n : l[q] = t[s + q - 1]
  BY DEF StandsAt
<1>1. s <= k /\ (\A q \in s..k : White(t[q])) /\ ~White(t[k + 1])
  BY DEF FoldAt, WhiteTo
<1> HIDE DEF n
<1>2. i \in 1..(n - 1) /\ i \in Nat
  BY <1>0, <1>1 DEF n
<1>3. \A q \in 1..i : White(l[q])
  <2> SUFFICES ASSUME NEW q \in 1..i PROVE White(l[q])
    OBVIOUS
  <2>1. q \in 1..n /\ s + q - 1 \in s..k
    BY <1>0, <1>1, <1>2
  <2> QED BY <1>0, <1>1, <2>1
<1>4. ~White(l[i + 1])
  <2>1. i + 1 \in 1..n /\ s + (i + 1) - 1 = k + 1
    BY <1>0, <1>2
  <2> QED BY <1>0, <1>1, <2>1
<1>5. \A q \in (i + 1)..n : Text(l[q])
  <2> SUFFICES ASSUME NEW q \in (i + 1)..n PROVE Text(l[q])
    OBVIOUS
  <2>1. q \in 1..n /\ s + q - 1 \in (k + 1)..(s + n - 1)
    BY <1>0, <1>2
  <2> QED BY <1>0, <2>1 DEF n
<1> HIDE DEF i
<1>6. Continuation(l) = {i}
  <2>1. i \in Continuation(l)
    BY <1>0, <1>2, <1>3, <1>4, <1>5 DEF Continuation, All, n
  <2>2. ASSUME NEW j \in Continuation(l) PROVE j = i
    <3>1. j \in 1..n /\ (\A q \in 1..j : White(l[q])) /\ (j < n => ~White(l[j + 1]))
      BY <2>2 DEF Continuation, All, n
    <3>2. ~(j < i)
      <4> SUFFICES ASSUME j < i PROVE FALSE
        OBVIOUS
      <4>0. i \in Nat /\ i <= n /\ n \in Nat /\ j \in Nat /\ j >= 1
        BY <1>0, <1>2, <3>1
      <4>1. j < n /\ j + 1 \in 1..i
        BY <4>0
      <4> QED BY <1>3, <3>1, <4>1
    <3>3. ~(i < j)
      <4> SUFFICES ASSUME i < j PROVE FALSE
        OBVIOUS
      <4>1. i + 1 \in 1..j
        BY <1>0, <1>2, <3>1
      <4> QED BY <1>4, <3>1, <4>1
    <3> QED BY <1>0, <1>2, <3>1, <3>2, <3>3
  <2> QED BY <2>1, <2>2
<1>7. Field(l) = {}
  <2> SUFFICES ASSUME NEW j \in Field(l) PROVE FALSE
    OBVIOUS
  <2>1. Token(l[1])
    <3>1. j \in 2..(Len(l) - 1) /\ \A q \in 1..(j - 1) : Token(l[q])
      BY DEF Field, All
    <3>2. 1 \in 1..(j - 1)
      BY <1>0, <3>1 DEF n
    <3> QED BY <3>1, <3>2
  <2>2. White(l[1])
    BY <1>2, <1>3
  <2> QED BY <2>1, <2>2 DEF White, Token, is_tspecial
<1>8. Entry(l) = [name |-> SubSeq(l, i + 1, i + 1), value |-> SubSeq(l, (i + 1) + 1, n)]
  <2>1. Min(Continuation(l)) = i /\ Continuation(l) # {}
    BY <1>2, <1>6, MinOfOne
  <2> QED BY <2>1 DEF Entry, n
<1>9. /\ SubSeq(l, i + 1, i + 1) = SubSeq(t, k + 1, k + 1)
      /\ SubSeq(l, (i + 1) + 1, n) = SubSeq(t, k + 2, s + n - 1)
  <2>1. i + 1 \in Nat \ {0} /\ i + 1 \in 0..Len(l) /\ (i + 1) + 1 \in Nat \ {0} /\ n \in 0..Len(l)
    BY <1>0, <1>2 DEF n
  <2>2. s + (i + 1) - 1 = k + 1 /\ s + ((i + 1) + 1) - 1 = k + 2
    BY <1>0 DEF i
  <2>0. Shifted(l, t, s)
    BY PartStands
  <2>3. \A a \in Nat \ {0} : \A b \in 0..Len(l) : SubSeq(l, a, b) = SubSeq(t, s + a - 1, s + b - 1)
    BY <2>0 DEF Shifted
  <2> QED BY <2>1, <2>2, <2>3
<1>10. Enters(l) <=> i + 1 < n
  BY <1>6, <1>7 DEF Enters, n
<1>11. i + 1 < n <=> k + 2 < s + n
  BY <1>0 DEF i
<1> QED BY <1>8, <1>9, <1>10, <1>11 DEF n

\* A line of white space enters nothing.
LEMMA WhiteEnters ==
    ASSUME NEW l, NEW t, NEW s, StandsAt(l, t, s), NEW e, e = s + Len(l), WhiteTo(t, s, e - 1)
    PROVE  ~Enters(l)
<1>0. /\ s \in Nat \ {0} /\ Len(l) \in Nat /\ \A q \in 1..Len(l) : l[q] = t[s + q - 1]
  BY DEF StandsAt
<1>1. \A q \in 1..Len(l) : White(l[q])
  <2> SUFFICES ASSUME NEW q \in 1..Len(l) PROVE White(l[q])
    OBVIOUS
  <2>1. s + q - 1 \in s..(e - 1)
    BY <1>0
  <2> QED BY <1>0, <2>1 DEF WhiteTo
<1>2. Field(l) = {}
  <2> SUFFICES ASSUME NEW j \in Field(l) PROVE FALSE
    OBVIOUS
  <2>1. j \in 2..(Len(l) - 1) /\ l[j] = ":"
    BY DEF Field
  <2>2. White(l[j])
    BY <1>0, <1>1, <2>1
  <2> QED BY <2>1, <2>2 DEF White
<1>3. ASSUME NEW k \in Continuation(l), k + 1 < Len(l) PROVE FALSE
  <2>1. k \in 1..Len(l) /\ (k < Len(l) => ~White(l[k + 1]))
    BY DEF Continuation
  <2>2. k < Len(l) /\ k + 1 \in 1..Len(l)
    BY <1>0, <1>3, <2>1
  <2> QED BY <1>1, <2>1, <2>2
<1> QED BY <1>2, <1>3 DEF Enters

-----------------------------------------------------------------------------
(* The headers entered by the lines that begin up to m                       *)

EntersAt(t, r) ==
    /\ r \in 3..Len(t) /\ t[r - 2] = "CR"
    /\ \E e \in r..Len(t) : LineEnds(t, r, e)
    /\ Enters(Line(t, r))

Part(t, r, n) == IF EntersAt(t, r) /\ Entry(Line(t, r)).name = n THEN Entry(Line(t, r)).value ELSE <<>>

Parts(t, m, n) == [r \in 1..m |-> Part(t, r, n)]

Names(t, m) == {Entry(Line(t, r)).name : r \in {x \in 1..m : EntersAt(t, x)}}

Got(t, m) == [n \in Names(t, m) |-> FlattenSeq(Parts(t, m, n))]

LEMMA MinIn == ASSUME NEW A \in SUBSET Nat, A # {} PROVE Min(A) \in A /\ \A y \in A : Min(A) <= y
<1>1. \E x \in A : \A y \in A : x <= y
  BY LeastExists
<1> QED BY <1>1 DEF Min

\* A value that can be read.
Value(v) == v \in Seq(Chars) /\ \A i \in 1..Len(v) : Text(v[i])

LEMMA SubSeqType ==
    ASSUME NEW l \in Seq(Chars), NEW a \in Nat \ {0}, NEW b \in 0..Len(l)
    PROVE  SubSeq(l, a, b) \in Seq(Chars) /\ (a <= b => SubSeq(l, a, b) # <<>>)
<1>1. Len(l) \in Nat
  BY LenProperties
<1>2. \A k \in a..b : k \in 1..Len(l)
  BY <1>1
<1>3. \A k \in a..b : l[k] \in Chars
  BY <1>2, ElementOfSeq
<1>4. a \in Int /\ b \in Int
  BY <1>1
<1>5. /\ SubSeq(l, a, b) \in Seq(Chars)
      /\ Len(SubSeq(l, a, b)) = IF a <= b THEN b - a + 1 ELSE 0
  BY <1>3, <1>4, SubSeqProperties
<1>6. a <= b => Len(SubSeq(l, a, b)) # 0
  BY <1>4, <1>5
<1>7. Len(<<>>) = 0
  OBVIOUS
<1> QED BY <1>5, <1>6, <1>7

LEMMA SubSeqValue ==
    ASSUME NEW l \in Seq(Chars), NEW a \in Nat \ {0}, NEW b \in 0..Len(l), \A q \in a..b : Text(l[q])
    PROVE  Value(SubSeq(l, a, b))
<1>1. Len(l) \in Nat /\ a \in Int /\ b \in Int
  BY LenProperties
<1>2. \A k \in a..b : k \in 1..Len(l)
  BY <1>1
<1>3. \A k \in a..b : l[k] \in Chars
  BY <1>2, ElementOfSeq
<1>4. /\ SubSeq(l, a, b) \in Seq(Chars)
      /\ Len(SubSeq(l, a, b)) = IF a <= b THEN b - a + 1 ELSE 0
      /\ \A i \in 1..(b - a + 1) : SubSeq(l, a, b)[i] = l[a + i - 1]
  BY <1>1, <1>3, SubSeqProperties
<1>5. \A i \in 1..Len(SubSeq(l, a, b)) : i \in 1..(b - a + 1) /\ a + i - 1 \in a..b
  BY <1>1, <1>4
<1> QED BY <1>4, <1>5 DEF Value

LEMMA EntryTypes ==
    ASSUME NEW l \in Seq(Chars), Enters(l)
    PROVE  Entry(l).name \in Seq(Chars) /\ Entry(l).name # <<>> /\ Value(Entry(l).value)
<1>1. PICK n \in Nat : n = Len(l)
  BY LenProperties
<1>2. CASE Continuation(l) # {}
  <2>1. Continuation(l) \in SUBSET Nat
    <3>1. \A j \in Continuation(l) : j \in 1..n
      BY <1>1 DEF Continuation
    <3> QED BY <3>1
  <2>2. PICK k : k = Min(Continuation(l))
    OBVIOUS
  <2>3. k \in Continuation(l) /\ \A y \in Continuation(l) : k <= y
    BY <1>2, <2>1, <2>2, MinIn
  <2>4. White(l[1])
    BY <1>1, <2>3 DEF Continuation, All
  <2>5. Field(l) = {}
    <3> SUFFICES ASSUME NEW j \in Field(l) PROVE FALSE
      OBVIOUS
    <3>1. j \in 2..(n - 1) /\ \A q \in 1..(j - 1) : Token(l[q])
      BY <1>1 DEF Field, All
    <3>2. 1 \in 1..(j - 1)
      BY <3>1
    <3> QED BY <2>4, <3>1, <3>2 DEF Token, White, is_tspecial
  <2>6. PICK j \in Continuation(l) : j + 1 < n
    BY <1>1, <2>5 DEF Enters
  <2>7. k \in Nat /\ j \in Nat /\ k <= j /\ k + 1 \in 0..n /\ (k + 1) + 1 \in Nat \ {0} /\ n \in 0..n
    BY <2>1, <2>3, <2>6
  <2>8. SubSeq(l, k + 1, k + 1) \in Seq(Chars) /\ SubSeq(l, k + 1, k + 1) # <<>>
    BY <1>1, <2>7, SubSeqType
  <2>9. Value(SubSeq(l, (k + 1) + 1, n))
    <3>1. \A q \in ((k + 1) + 1)..n : Text(l[q])
      BY <1>1, <2>3, <2>7 DEF Continuation, All
    <3> QED BY <1>1, <2>7, <3>1, SubSeqValue
  <2>10. Entry(l) = [name |-> SubSeq(l, k + 1, k + 1), value |-> SubSeq(l, (k + 1) + 1, n)]
    BY <1>1, <1>2, <2>2 DEF Entry
  <2> QED BY <2>8, <2>9, <2>10
<1>3. CASE Continuation(l) = {}
  <2>1. Field(l) \in SUBSET Nat /\ Field(l) # {}
    BY <1>1, <1>3 DEF Field, Enters
  <2>2. PICK k : k = Min(Field(l))
    OBVIOUS
  <2>3. k \in 2..(n - 1)
    BY <1>1, <2>1, <2>2, MinIn DEF Field
  <2>4. k - 1 \in 0..n /\ 1 \in Nat \ {0} /\ k + 2 \in Nat \ {0} /\ n \in 0..n
    BY <2>3
  <2>5. SubSeq(l, 1, k - 1) \in Seq(Chars) /\ SubSeq(l, 1, k - 1) # <<>>
    BY <1>1, <2>3, <2>4, SubSeqType
  <2>6. Value(SubSeq(l, k + 2, n))
    <3>1. \A q \in (k + 2)..n : Text(l[q])
      BY <1>1, <2>1, <2>2, MinIn DEF Field, All
    <3> QED BY <1>1, <2>4, <3>1, SubSeqValue
  <2>7. Entry(l) = [name |-> SubSeq(l, 1, k - 1), value |-> SubSeq(l, k + 2, n)]
    BY <1>1, <1>3, <2>2 DEF Entry
  <2> QED BY <2>5, <2>6, <2>7
<1> QED BY <1>2, <1>3

LEMMA EntersTypes ==
    ASSUME NEW t \in Seq(Chars), NEW r, EntersAt(t, r)
    PROVE  /\ Entry(Line(t, r)).name \in Seq(Chars) /\ Entry(Line(t, r)).name # <<>>
           /\ Entry(Line(t, r)).value \in Seq(Chars) /\ Value(Entry(Line(t, r)).value)
<1>1. PICK e \in r..Len(t) : LineEnds(t, r, e)
  BY DEF EntersAt
<1>2. r \in Nat \ {0}
  BY LenProperties DEF EntersAt
<1>3. Line(t, r) \in Seq(Chars)
  BY <1>1, <1>2, LineStands DEF StandsAt
<1> QED BY <1>3, EntryTypes DEF EntersAt, Value

LEMMA PartsType ==
    ASSUME NEW t \in Seq(Chars), NEW m \in Nat, NEW n
    PROVE  /\ \A r : Part(t, r, n) \in Seq(Chars)
           /\ Parts(t, m, n) \in Seq(Seq(Chars)) /\ Len(Parts(t, m, n)) = m
           /\ \A r \in 1..m : Parts(t, m, n)[r] = Part(t, r, n)
<1>1. ASSUME NEW r PROVE Part(t, r, n) \in Seq(Chars)
  <2>1. CASE EntersAt(t, r)
    <3>1. Entry(Line(t, r)).value \in Seq(Chars) /\ <<>> \in Seq(Chars)
      BY <2>1, EntersTypes
    <3> QED BY <3>1 DEF Part
  <2>2. CASE ~EntersAt(t, r)
    <3>1. Part(t, r, n) = <<>>
      BY <2>2 DEF Part
    <3> QED BY <3>1
  <2> QED BY <2>1, <2>2
<1>2. Parts(t, m, n) \in [1..m -> Seq(Chars)]
  BY <1>1 DEF Parts
<1>3. Parts(t, m, n) \in Seq(Seq(Chars)) /\ Len(Parts(t, m, n)) = m
  <2> HIDE DEF Parts
  <2> QED BY <1>2
<1>4. \A r \in 1..m : Parts(t, m, n)[r] = Part(t, r, n)
  BY DEF Parts
<1> QED BY <1>1, <1>3, <1>4

LEMMA JoinedParts ==
    ASSUME NEW t \in Seq(Chars), NEW m \in Nat, NEW n
    PROVE  /\ FlattenSeq(Parts(t, m, n)) \in Seq(Chars)
           /\ FlattenSeq(Parts(t, m + 1, n)) = FlattenSeq(Parts(t, m, n)) \o Part(t, m + 1, n)
           /\ n \notin Names(t, m) => FlattenSeq(Parts(t, m, n)) = <<>>
<1> DEFINE u == Parts(t, m, n)
           v == Parts(t, m + 1, n)
<1>1. /\ u \in Seq(Seq(Chars)) /\ Len(u) = m
      /\ \A r \in 1..m : u[r] = Part(t, r, n)
  BY PartsType
<1>2. /\ v \in Seq(Seq(Chars)) /\ Len(v) = m + 1
      /\ \A r \in 1..(m + 1) : v[r] = Part(t, r, n)
  <2>1. m + 1 \in Nat
    OBVIOUS
  <2> QED BY <2>1, PartsType
<1> HIDE DEF u, v
<1>3. \A r \in 1..m : u[r] = v[r]
  <2>1. \A r \in 1..m : r \in 1..(m + 1)
    OBVIOUS
  <2> QED BY <1>1, <1>2, <2>1
<1>4. FlattenSeq(u) \in Seq(Chars) /\ FlattenSeq(v) = FlattenSeq(u) \o v[m + 1]
  BY <1>1, <1>2, <1>3, FlattenMore
<1>5. v[m + 1] = Part(t, m + 1, n)
  BY <1>2
<1>6. ASSUME n \notin Names(t, m) PROVE FlattenSeq(u) = <<>>
  <2>1. \A r \in 1..m : Part(t, r, n) = <<>>
    BY <1>6 DEF Names, Part
  <2>2. \A r \in 1..Len(u) : u[r] = <<>>
    BY <1>1, <2>1
  <2> QED BY <1>1, <2>2, FlattenNothing
<1> QED BY <1>4, <1>5, <1>6 DEF u, v

LEMMA GotType == ASSUME NEW t \in Seq(Chars), NEW m \in Nat PROVE HeadersType(Got(t, m))
<1>1. ASSUME NEW n \in Names(t, m) PROVE n \in Seq(Chars) /\ FlattenSeq(Parts(t, m, n)) \in Seq(Chars)
  <2>1. PICK r \in 1..m : EntersAt(t, r) /\ n = Entry(Line(t, r)).name
    BY DEF Names
  <2> QED BY <2>1, EntersTypes, JoinedParts
<1> QED BY <1>1 DEF HeadersType, Got

\* A line that enters a header adds its value to the name's.
LEMMA GotGrows ==
    ASSUME NEW t \in Seq(Chars), NEW m \in Nat
    PROVE  /\ EntersAt(t, m + 1) =>
                 Got(t, m + 1) = With(Got(t, m), Entry(Line(t, m + 1)).name, Entry(Line(t, m + 1)).value)
           /\ ~EntersAt(t, m + 1) => Got(t, m + 1) = Got(t, m)
<1> DEFINE F(n) == FlattenSeq(Parts(t, m, n))
           name == Entry(Line(t, m + 1)).name
           value == Entry(Line(t, m + 1)).value
           g == Got(t, m)
<1>0. m + 1 \in 1..(m + 1) /\ 1..m \subseteq 1..(m + 1) /\ \A x \in 1..(m + 1) : x = m + 1 \/ x \in 1..m
  OBVIOUS
<1>1. ASSUME NEW n
      PROVE  /\ F(n) \in Seq(Chars) /\ FlattenSeq(Parts(t, m + 1, n)) = F(n) \o Part(t, m + 1, n)
             /\ n \notin Names(t, m) => F(n) = <<>>
  BY JoinedParts
<1>2. DOMAIN g = Names(t, m) /\ \A n \in Names(t, m) : g[n] = F(n)
  BY DEF Got
<1>3. Got(t, m + 1) = [n \in Names(t, m + 1) |-> FlattenSeq(Parts(t, m + 1, n))]
  BY DEF Got
<1>4. ASSUME EntersAt(t, m + 1) PROVE Got(t, m + 1) = With(g, name, value)
  <2>1. Names(t, m + 1) = DOMAIN g \cup {name}
    BY <1>0, <1>2, <1>4 DEF Names
  <2>2. ASSUME NEW n
        PROVE  FlattenSeq(Parts(t, m + 1, n)) =
                  (IF n \in DOMAIN g THEN g[n] ELSE <<>>) \o (IF n = name THEN value ELSE <<>>)
    <3>1. Part(t, m + 1, n) = IF n = name THEN value ELSE <<>>
      BY <1>4 DEF Part
    <3>2. F(n) = IF n \in DOMAIN g THEN g[n] ELSE <<>>
      BY <1>1, <1>2
    <3> HIDE DEF F, g, name, value
    <3> QED BY <1>1, <3>1, <3>2
  <2> HIDE DEF g, name, value, F
  <2> QED BY <1>3, <2>1, <2>2 DEF With
<1>5. ASSUME ~EntersAt(t, m + 1) PROVE Got(t, m + 1) = g
  <2>1. Names(t, m + 1) = Names(t, m)
    BY <1>0, <1>5 DEF Names
  <2>2. ASSUME NEW n PROVE FlattenSeq(Parts(t, m + 1, n)) = F(n)
    <3>1. Part(t, m + 1, n) = <<>>
      BY <1>5 DEF Part
    <3> HIDE DEF F
    <3> QED BY <1>1, <3>1, ConcatEmptySeq
  <2> HIDE DEF F
  <2>3. g = [n \in Names(t, m) |-> F(n)]
    BY DEF Got, F
  <2> HIDE DEF g
  <2> QED BY <1>3, <2>1, <2>2, <2>3
<1> QED BY <1>4, <1>5

LEMMA GotNothing == ASSUME NEW t PROVE Got(t, 0) = Fresh.headers_
<1>1. Names(t, 0) = {}
  BY DEF Names
<1> QED BY <1>1 DEF Got, Fresh

\* Where no line enters one the headers stay.
LEMMA GotStays ==
    ASSUME NEW t \in Seq(Chars), NEW a \in Nat, NEW b \in Nat, a <= b, \A r \in (a + 1)..b : ~EntersAt(t, r)
    PROVE  Got(t, b) = Got(t, a)
<1> DEFINE A == {k \in Nat : a + k <= b => Got(t, a + k) = Got(t, a)}
<1>1. 0 \in A
  OBVIOUS
<1>2. ASSUME NEW k \in Nat, k \in A PROVE k + 1 \in A
  <2> SUFFICES ASSUME a + (k + 1) <= b PROVE Got(t, a + (k + 1)) = Got(t, a)
    OBVIOUS
  <2>1. PICK m \in Nat : m = a + k
    OBVIOUS
  <2>2. m + 1 \in (a + 1)..b /\ a + (k + 1) = m + 1 /\ a + k <= b
    BY <2>1
  <2>3. Got(t, m + 1) = Got(t, m)
    BY <2>2, GotGrows
  <2>4. Got(t, m) = Got(t, a)
    BY <1>2, <2>1, <2>2
  <2> QED BY <2>2, <2>3, <2>4
<1> HIDE DEF A
<1>3. b - a \in A
  BY <1>1, <1>2, Induction
<1>4. a + (b - a) = b
  OBVIOUS
<1> QED BY <1>3, <1>4 DEF A

\* Two texts with the same lines have the same headers.
LEMMA GotSame ==
    ASSUME NEW t, NEW u, NEW m \in Nat,
           \A r \in 1..m : EntersAt(t, r) <=> EntersAt(u, r),
           \A r \in 1..m : EntersAt(t, r) => Line(t, r) = Line(u, r)
    PROVE  Got(t, m) = Got(u, m)
<1>1. Names(t, m) = Names(u, m)
  BY DEF Names
<1>2. ASSUME NEW n PROVE Parts(t, m, n) = Parts(u, m, n)
  <2>1. \A r \in 1..m : Part(t, r, n) = Part(u, r, n)
    BY DEF Part
  <2> QED BY <2>1 DEF Parts
<1> QED BY <1>1, <1>2 DEF Got

-----------------------------------------------------------------------------
(* A value that grows                                                        *)

LEMMA WithMore ==
    ASSUME NEW h, HeadersType(h), NEW n \in Seq(Chars), NEW a \in Seq(Chars), NEW c \in Chars
    PROVE  With(With(h, n, a), n, <<c>>) = With(h, n, Append(a, c))
<1> DEFINE w == With(h, n, a)
           z == With(h, n, Append(a, c))
           old(m) == IF m \in DOMAIN h THEN h[m] ELSE <<>>
<1>0. <<>> \in Seq(Chars) /\ <<c>> \in Seq(Chars) /\ Append(a, c) = a \o <<c>>
  BY AppendIsConcat
<1>1. \A m : old(m) \in Seq(Chars)
  BY <1>0 DEF HeadersType
<1>2. DOMAIN w = DOMAIN h \cup {n} /\ \A m \in DOMAIN h \cup {n} : w[m] = old(m) \o (IF m = n THEN a ELSE <<>>)
  BY DEF With
<1>3. z = [m \in DOMAIN h \cup {n} |-> old(m) \o (IF m = n THEN Append(a, c) ELSE <<>>)]
  BY DEF With
<1> HIDE DEF w, z, old
<1>4. With(w, n, <<c>>) = [m \in DOMAIN h \cup {n} |-> w[m] \o (IF m = n THEN <<c>> ELSE <<>>)]
  <2>1. DOMAIN w \cup {n} = DOMAIN h \cup {n}
    BY <1>2
  <2>2. n \in DOMAIN w /\ \A m \in DOMAIN w \cup {n} : m \in DOMAIN w
    BY <1>2
  <2>3. With(w, n, <<c>>) = [m \in DOMAIN w \cup {n} |->
            (IF m \in DOMAIN w THEN w[m] ELSE <<>>) \o (IF m = n THEN <<c>> ELSE <<>>)]
    BY DEF With
  <2> QED BY <2>1, <2>2, <2>3
<1>5. ASSUME NEW m \in DOMAIN h \cup {n}
      PROVE  w[m] \o (IF m = n THEN <<c>> ELSE <<>>) = old(m) \o (IF m = n THEN Append(a, c) ELSE <<>>)
  <2>1. CASE m = n
    <3>1. w[m] = old(m) \o a
      BY <1>2, <2>1
    <3>2. (old(m) \o a) \o <<c>> = old(m) \o (a \o <<c>>)
      BY <1>0, <1>1, ConcatAssociative
    <3> QED BY <1>0, <2>1, <3>1, <3>2
  <2>2. CASE m # n
    <3>1. w[m] = old(m) \o <<>>
      BY <1>2, <2>2
    <3>2. old(m) \o <<>> = old(m)
      BY <1>1, ConcatEmptySeq
    <3> QED BY <2>2, <3>1, <3>2
  <2> QED BY <2>1, <2>2
<1>6. With(w, n, <<c>>) = z
  BY <1>3, <1>4, <1>5
<1> QED BY <1>6 DEF w, z

-----------------------------------------------------------------------------
(* The headers as far as they were read                                      *)

\* The line that begins at s goes on to p, or has its end there.
LineTo(t, s, p, q) ==
    /\ s = 1 \/ (s >= 3 /\ t[s - 2] = "CR" /\ t[s - 1] = "LF")
    /\ IF q \in Newlines THEN LineEnds(t, s, p) ELSE \A k \in s..p : t[k] # "CR"

\* The value behind the field's name, or behind the one character that a continuation
\* has for a name, entered with the first of its characters.
FieldRead(t, s, p, name, headers) ==
    \E k \in s..(p - 1) :
        /\ FieldAt(t, s, k) /\ \A i \in (k + 2)..p : Text(t[i])
        /\ name = SubSeq(t, s, k - 1)
        /\ headers = With(Got(t, s - 1), name, SubSeq(t, k + 2, p))

FoldRead(t, s, p, name, headers) ==
    \E k \in s..(p - 1) :
        /\ FoldAt(t, s, k) /\ \A i \in (k + 1)..p : Text(t[i])
        /\ name = SubSeq(t, k + 1, k + 1)
        /\ headers = IF k + 2 <= p THEN With(Got(t, s - 1), name, SubSeq(t, k + 2, p)) ELSE Got(t, s - 1)

HeaderRead(t, s, p, q, name, headers) ==
    \/ q = "header_line_start" /\ p = s - 1 /\ name = <<>> /\ headers = Got(t, s - 1)
    \/ q = "header_name" /\ s <= p /\ NameTo(t, s, p) /\ name = SubSeq(t, s, p) /\ headers = Got(t, s - 1)
    \/ /\ q = "space_before_header_value" /\ s < p /\ NameTo(t, s, p - 1) /\ t[p] = ":"
       /\ name = SubSeq(t, s, p - 1) /\ headers = Got(t, s - 1)
    \/ q = "header_lws" /\ s <= p /\ WhiteTo(t, s, p) /\ name = <<>> /\ headers = Got(t, s - 1)
    \/ q = "header_value" /\ (FieldRead(t, s, p, name, headers) \/ FoldRead(t, s, p, name, headers))
    \/ q = "expecting_newline_2" /\ name = <<>> /\ headers = Got(t, s)
    \/ q = "expecting_newline_3" /\ p = s /\ headers = Got(t, s - 1)

HeadersRead(t, s, p, q, name, headers) ==
    /\ LineTo(t, s, p, q)
    /\ \/ s = 1 /\ q \in InLine \cup {"expecting_newline_1"} /\ name = <<>> /\ headers = Fresh.headers_
       \/ s >= 3 /\ HeaderRead(t, s, p, q, name, headers)

LEMMA RequestHeaders ==
    ASSUME NEW c, NEW next, RequestType(req)
    PROVE  Request(c, next).headers_ =
              IF state_ = "space_before_header_value" /\ next = "header_value"
              THEN With(req.headers_, header_helper, <<>>)
              ELSE IF state_ = "header_value" /\ next = "header_value"
              THEN With(req.headers_, header_helper, <<c>>)
              ELSE req.headers_
<1> DEFINE r == Request(c, next)
<1>0. req = [method_ |-> req.method_, uri_ |-> req.uri_, http_version_ |-> req.http_version_,
             headers_ |-> req.headers_]
  BY DEF RequestType
<1>1. \/ state_ = "method" /\ next = "uri" /\ r = [req EXCEPT !.method_ = Method]
      \/ state_ = "uri" /\ next = "uri" /\ r = [req EXCEPT !.uri_ = Append(@, c)]
      \/ /\ next = "http_version_major_start"
         /\ r = [req EXCEPT !.http_version_ = <<>>]
      \/ /\ next \in VersionStates \ {"http_version_major_start"}
         /\ r = [req EXCEPT !.http_version_ = Append(@, c)]
      \/ /\ state_ = "space_before_header_value" /\ next = "header_value"
         /\ r = [req EXCEPT !.headers_ = With(@, header_helper, <<>>)]
      \/ /\ state_ = "header_value" /\ next = "header_value"
         /\ r = [req EXCEPT !.headers_ = With(@, header_helper, <<c>>)]
      \/ /\ ~(state_ \in {"space_before_header_value", "header_value"} /\ next = "header_value")
         /\ ~(state_ \in {"method", "uri"} /\ next = "uri") /\ next \notin VersionStates
         /\ r = req
  BY Zenon, RequestCases
<1> HIDE DEF r
<1>2. r.headers_ = IF state_ = "space_before_header_value" /\ next = "header_value"
                   THEN With(req.headers_, header_helper, <<>>)
                   ELSE IF state_ = "header_value" /\ next = "header_value"
                   THEN With(req.headers_, header_helper, <<c>>)
                   ELSE req.headers_
  BY <1>0, <1>1 DEF VersionStates
<1> QED BY <1>2 DEF r

LEMMA LineToStep ==
    ASSUME NEW t, NEW p \in Nat, NEW s \in 1..(p + 1), NEW h \in BOOLEAN, NEW next,
           state_ \in States, LineTo(t, s, p, state_),
           next = Leads(t[p + 1], h), next # "bad", next # "good"
    PROVE  /\ state_ \notin Newlines => LineTo(t, s, p + 1, next) /\ (next \in Newlines => t[p + 1] = "CR")
           /\ state_ \in Newlines => /\ next = "header_line_start" /\ p \in Nat \ {0} /\ s <= p
                                     /\ LineTo(t, p + 2, p + 1, next)
<1>1. (t[p + 1] = "CR" => next \in Newlines)
      /\ (state_ \in Newlines => next = "header_line_start" /\ t[p + 1] = "LF")
  BY BreakLeads
<1>2. ASSUME state_ \notin Newlines, next \in Newlines PROVE t[p + 1] = "CR"
  BY <1>2 DEF Newlines, Leads, Branches, Fixed, States
<1>3. ASSUME state_ \notin Newlines PROVE LineTo(t, s, p + 1, next)
  <2>1. \A k \in s..p : t[k] # "CR"
    BY <1>3 DEF LineTo
  <2>2. CASE next \in Newlines
    <3>1. LineEnds(t, s, p + 1)
      <4>1. (p + 1) - 1 = p
        OBVIOUS
      <4> QED BY <1>2, <1>3, <2>1, <2>2, <4>1 DEF LineEnds
    <3> QED BY <2>2, <3>1 DEF LineTo
  <2>3. CASE next \notin Newlines
    <3>1. \A k \in s..(p + 1) : t[k] # "CR"
      BY <1>1, <2>1, <2>3
    <3> QED BY <2>3, <3>1 DEF LineTo
  <2> QED BY <2>2, <2>3
<1>4. ASSUME state_ \in Newlines PROVE p \in Nat \ {0} /\ s <= p /\ LineTo(t, p + 2, p + 1, next)
  <2>1. s <= p /\ t[p] = "CR"
    BY <1>4 DEF LineTo, LineEnds
  <2>2. "header_line_start" \notin Newlines
    BY DEF Newlines
  <2>3. p + 2 >= 3 /\ (p + 2) - 2 = p /\ (p + 2) - 1 = p + 1 /\ \A k \in (p + 2)..(p + 1) : FALSE
    BY <2>1
  <2> QED BY <1>1, <1>4, <2>1, <2>2, <2>3 DEF LineTo
<1> QED BY <1>1, <1>2, <1>3, <1>4

\* No other line begins before the end of one.
LEMMA NoneBegins ==
    ASSUME NEW t, NEW p \in Nat, NEW s \in 1..p, LineEnds(t, s, p),
           s = 1 \/ (s >= 3 /\ t[s - 1] = "LF"), NEW r \in (s + 1)..(p + 1)
    PROVE  ~EntersAt(t, r)
<1> SUFFICES ASSUME r >= 3, t[r - 2] = "CR" PROVE FALSE
  BY DEF EntersAt
<1>1. \A k \in s..(p - 1) : t[k] # "CR"
  BY DEF LineEnds
<1>2. CASE r - 2 \in s..(p - 1)
  BY <1>1, <1>2
<1>3. CASE r - 2 \notin s..(p - 1)
  <2>1. r - 2 = s - 1 /\ s >= 3
    BY <1>3
  <2> QED BY <2>1
<1> QED BY <1>2, <1>3

LEMMA LineGot ==
    ASSUME NEW t \in Seq(Chars), NEW p \in Nat, NEW s \in 1..p, LineEnds(t, s, p),
           s = 1 \/ (s >= 3 /\ t[s - 1] = "LF")
    PROVE  /\ Got(t, p + 1) = Got(t, s)
           /\ s = 1 => Got(t, p + 1) = Fresh.headers_
<1>1. \A r \in (s + 1)..(p + 1) : ~EntersAt(t, r)
  BY NoneBegins
<1>2. s \in Nat /\ p + 1 \in Nat /\ s <= p + 1
  OBVIOUS
<1>3. Got(t, p + 1) = Got(t, s)
  BY <1>1, <1>2, GotStays
<1>4. ASSUME s = 1 PROVE Got(t, s) = Fresh.headers_
  <2>1. ~EntersAt(t, 0 + 1)
    <3>1. 0 + 1 = 1 /\ ~(1 >= 3)
      OBVIOUS
    <3>2. EntersAt(t, 0 + 1) => 0 + 1 \in 3..Len(t)
      BY DEF EntersAt
    <3> QED BY <3>1, <3>2
  <2>2. Got(t, 0 + 1) = Got(t, 0)
    BY <2>1, GotGrows
  <2> QED BY <1>4, <2>2, GotNothing
<1> QED BY <1>3, <1>4

\* What is got with the end of a line.
LEMMA FieldGot ==
    ASSUME NEW t \in Seq(Chars), NEW e \in 1..Len(t), NEW s \in 3..e, LineEnds(t, s, e), t[s - 2] = "CR",
           NEW name, NEW headers, FieldRead(t, s, e - 1, name, headers)
    PROVE  headers = Got(t, s)
<1>0. Len(t) \in Nat /\ s \in Nat \ {0} /\ e \in s..Len(t)
  BY LenProperties
<1>1. PICK k \in s..((e - 1) - 1) :
          /\ FieldAt(t, s, k) /\ \A i \in (k + 2)..(e - 1) : Text(t[i])
          /\ name = SubSeq(t, s, k - 1)
          /\ headers = With(Got(t, s - 1), name, SubSeq(t, k + 2, e - 1))
  BY DEF FieldRead
<1>2. PICK l : l = Line(t, s)
  OBVIOUS
<1>3. StandsAt(l, t, s) /\ Len(l) = e - s
  BY <1>0, <1>2, LineStands
<1>4. s + Len(l) = e /\ s + Len(l) - 1 = e - 1 /\ k + 2 <= s + Len(l) /\ k \in Nat
  BY <1>0, <1>3
<1>5. Enters(l) /\ Entry(l) = [name |-> SubSeq(t, s, k - 1), value |-> SubSeq(t, k + 2, s + Len(l) - 1)]
  BY <1>1, <1>3, <1>4, FieldEntry
<1>6. Entry(l).name = name /\ Entry(l).value = SubSeq(t, k + 2, e - 1)
  BY <1>1, <1>4, <1>5
<1>7. EntersAt(t, s)
  BY <1>0, <1>2, <1>5 DEF EntersAt
<1>8. s - 1 \in Nat /\ (s - 1) + 1 = s
  BY <1>0
<1>9. Got(t, s) = With(Got(t, s - 1), Entry(l).name, Entry(l).value)
  BY <1>2, <1>7, <1>8, GotGrows
<1> QED BY <1>1, <1>6, <1>9

LEMMA FoldGot ==
    ASSUME NEW t \in Seq(Chars), NEW e \in 1..Len(t), NEW s \in 3..e, LineEnds(t, s, e), t[s - 2] = "CR",
           NEW name, NEW headers, FoldRead(t, s, e - 1, name, headers)
    PROVE  headers = Got(t, s)
<1>0. Len(t) \in Nat /\ s \in Nat \ {0} /\ e \in s..Len(t)
  BY LenProperties
<1>1. PICK k \in s..((e - 1) - 1) :
          /\ FoldAt(t, s, k) /\ \A i \in (k + 1)..(e - 1) : Text(t[i])
          /\ name = SubSeq(t, k + 1, k + 1)
          /\ headers = IF k + 2 <= e - 1 THEN With(Got(t, s - 1), name, SubSeq(t, k + 2, e - 1))
                       ELSE Got(t, s - 1)
  BY DEF FoldRead
<1>2. PICK l : l = Line(t, s)
  OBVIOUS
<1>3. StandsAt(l, t, s) /\ Len(l) = e - s
  BY <1>0, <1>2, LineStands
<1>4. s + Len(l) = e /\ s + Len(l) - 1 = e - 1 /\ k + 2 <= s + Len(l) /\ k \in Nat
  BY <1>0, <1>3
<1>5. /\ Enters(l) <=> k + 2 < s + Len(l)
      /\ Entry(l) = [name |-> SubSeq(t, k + 1, k + 1), value |-> SubSeq(t, k + 2, s + Len(l) - 1)]
  BY <1>1, <1>3, <1>4, FoldEntry
<1>6. Entry(l).name = name /\ Entry(l).value = SubSeq(t, k + 2, e - 1)
  BY <1>1, <1>4, <1>5
<1>7. EntersAt(t, s) <=> k + 2 <= e - 1
  BY <1>0, <1>2, <1>4, <1>5 DEF EntersAt
<1>8. s - 1 \in Nat /\ (s - 1) + 1 = s
  BY <1>0
<1>9. /\ EntersAt(t, s) => Got(t, s) = With(Got(t, s - 1), Entry(l).name, Entry(l).value)
      /\ ~EntersAt(t, s) => Got(t, s) = Got(t, s - 1)
  BY <1>2, <1>8, GotGrows
<1> QED BY <1>1, <1>6, <1>7, <1>9

LEMMA WhiteGot ==
    ASSUME NEW t \in Seq(Chars), NEW e \in 1..Len(t), NEW s \in 3..e, LineEnds(t, s, e),
           WhiteTo(t, s, e - 1)
    PROVE  Got(t, s) = Got(t, s - 1)
<1>0. Len(t) \in Nat /\ s \in Nat \ {0} /\ e \in s..Len(t)
  BY LenProperties
<1>1. StandsAt(Line(t, s), t, s) /\ e = s + Len(Line(t, s))
  BY <1>0, LineStands
<1>2. ~Enters(Line(t, s))
  BY <1>1, WhiteEnters
<1>3. ~EntersAt(t, s) /\ s - 1 \in Nat /\ (s - 1) + 1 = s
  BY <1>0, <1>2 DEF EntersAt
<1> QED BY <1>3, GotGrows

-----------------------------------------------------------------------------
(* A step of the parser reads on in the headers                              *)

LEMMA OneOf ==
    ASSUME NEW t \in Seq(Chars), NEW p \in Nat, p < Len(t)
    PROVE  t[p + 1] \in Chars /\ SubSeq(t, p + 1, p + 1) = Append(<<>>, t[p + 1])
<1>1. p + 1 \in 1..Len(t) /\ p + 1 \in 1..(p + 1) /\ (p + 1) - 1 = p
  BY LenProperties
<1>2. SubSeq(t, p + 1, p) = <<>>
  BY <1>1, SubSeqNone
<1> QED BY <1>1, <1>2, SubSeqGrows, ElementOfSeq

LEMMA ValueStep ==
    ASSUME NEW t \in Seq(Chars), NEW p \in Nat, p < Len(t), NEW s \in 3..(p + 1), NEW name \in Seq(Chars),
           NEW headers, Text(t[p + 1])
    PROVE  /\ FieldRead(t, s, p, name, headers) =>
                 FieldRead(t, s, p + 1, name, With(headers, name, <<t[p + 1]>>))
           /\ FoldRead(t, s, p, name, headers) =>
                 FoldRead(t, s, p + 1, name, With(headers, name, <<t[p + 1]>>))
<1> DEFINE c == t[p + 1]
           g == Got(t, s - 1)
<1>0. /\ c \in Chars /\ SubSeq(t, p + 1, p + 1) = <<c>> /\ (p + 1) - 1 = p
      /\ Len(t) \in Nat /\ s - 1 \in Nat
  BY OneOf, LenProperties
<1>1. HeadersType(g)
  BY <1>0, GotType
<1>2. ASSUME NEW a \in 1..(p + 1)
      PROVE  With(With(g, name, SubSeq(t, a, p)), name, <<c>>) = With(g, name, SubSeq(t, a, p + 1))
  <2>1. SubSeq(t, a, p) \in Seq(Chars)
    <3>1. a \in Nat \ {0} /\ p \in 0..Len(t)
      BY <1>0
    <3> QED BY <3>1, SubSeqType
  <2>2. SubSeq(t, a, p + 1) = Append(SubSeq(t, a, p), c)
    BY SubSeqGrows
  <2> HIDE DEF c, g
  <2>3. \A v \in Seq(Chars) : With(With(g, name, v), name, <<c>>) = With(g, name, Append(v, c))
    BY <1>0, <1>1, WithMore
  <2> QED BY <2>1, <2>2, <2>3
<1>3. c = t[p + 1] /\ g = Got(t, s - 1)
  OBVIOUS
<1> HIDE DEF c, g
<1>4. ASSUME FieldRead(t, s, p, name, headers) PROVE FieldRead(t, s, p + 1, name, With(headers, name, <<c>>))
  <2>1. PICK k \in s..(p - 1) :
            /\ FieldAt(t, s, k) /\ \A i \in (k + 2)..p : Text(t[i])
            /\ name = SubSeq(t, s, k - 1)
            /\ headers = With(g, name, SubSeq(t, k + 2, p))
    BY <1>3, <1>4 DEF FieldRead
  <2>2. k + 2 \in 1..(p + 1) /\ k \in s..((p + 1) - 1)
    OBVIOUS
  <2>3. With(headers, name, <<c>>) = With(g, name, SubSeq(t, k + 2, p + 1))
    BY <1>2, <2>1, <2>2
  <2>4. \A i \in (k + 2)..(p + 1) : Text(t[i])
    BY <2>1
  <2> QED BY Zenon, <1>3, <2>1, <2>2, <2>3, <2>4 DEF FieldRead
<1>5. ASSUME FoldRead(t, s, p, name, headers) PROVE FoldRead(t, s, p + 1, name, With(headers, name, <<c>>))
  <2>1. PICK k \in s..(p - 1) :
            /\ FoldAt(t, s, k) /\ \A i \in (k + 1)..p : Text(t[i])
            /\ name = SubSeq(t, k + 1, k + 1)
            /\ headers = IF k + 2 <= p THEN With(g, name, SubSeq(t, k + 2, p)) ELSE g
    BY <1>3, <1>5 DEF FoldRead
  <2>2. k + 2 \in 1..(p + 1) /\ k \in s..((p + 1) - 1) /\ k + 2 <= p + 1
    OBVIOUS
  <2>3. With(headers, name, <<c>>) = With(g, name, SubSeq(t, k + 2, p + 1))
    <3>1. CASE k + 2 <= p
      BY <1>2, <2>1, <2>2, <3>1
    <3>2. CASE ~(k + 2 <= p)
      <4>1. k + 2 = p + 1
        BY <3>2
      <4>2. headers = g
        BY <2>1, <3>2
      <4> QED BY <1>0, <4>1, <4>2
    <3> QED BY <3>1, <3>2
  <2>4. \A i \in (k + 1)..(p + 1) : Text(t[i])
    BY <2>1
  <2>5. With(headers, name, <<c>>) =
            IF k + 2 <= p + 1 THEN With(g, name, SubSeq(t, k + 2, p + 1)) ELSE g
    BY <2>2, <2>3
  <2> QED BY Zenon, <1>3, <2>1, <2>2, <2>4, <2>5 DEF FoldRead
<1> QED BY <1>3, <1>4, <1>5

LEMMA HeaderReadStep ==
    ASSUME NEW t \in Seq(Chars), NEW p \in Nat, p < Len(t), NEW s \in 3..(p + 1), t[s - 2] = "CR",
           NEW h \in BOOLEAN, NEW next,
           state_ \in States \ Newlines, RequestType(req), header_helper \in Seq(Chars),
           next = Leads(t[p + 1], h), next # "bad", next # "good",
           next \in Newlines => LineEnds(t, s, p + 1),
           HeaderRead(t, s, p, state_, header_helper, req.headers_)
    PROVE  HeaderRead(t, s, p + 1, next, HeaderHelper(t[p + 1], next), Request(t[p + 1], next).headers_)
<1> DEFINE c == t[p + 1]
           name == HeaderHelper(c, next)
           headers == Request(c, next).headers_
           g == Got(t, s - 1)
<1>0. /\ c \in Chars /\ SubSeq(t, p + 1, p + 1) = Append(<<>>, c) /\ SubSeq(t, p + 1, p + 1) = <<c>>
      /\ (p + 1) - 1 = p /\ Len(t) \in Nat /\ p + 1 \in 1..Len(t)
  BY OneOf, LenProperties
<1>1. headers = IF state_ = "space_before_header_value" /\ next = "header_value"
                THEN With(req.headers_, header_helper, <<>>)
                ELSE IF state_ = "header_value" /\ next = "header_value"
                THEN With(req.headers_, header_helper, <<c>>)
                ELSE req.headers_
  BY RequestHeaders
<1>2. name = IF next = "header_name" \/ (state_ = "header_lws" /\ next = "header_value")
             THEN Append(header_helper, c)
             ELSE IF state_ = "header_value" /\ next = "expecting_newline_2" THEN <<>>
             ELSE header_helper
  BY DEF HeaderHelper
<1>3. next = Leads(c, h) /\ c = t[p + 1] /\ g = Got(t, s - 1)
  OBVIOUS
<1> HIDE DEF c, name, headers, g
<1>4. ASSUME state_ = "header_line_start" PROVE HeaderRead(t, s, p + 1, next, name, headers)
  <2>1. p = s - 1 /\ header_helper = <<>> /\ req.headers_ = g
    BY <1>3, <1>4 DEF HeaderRead
  <2>2. \/ next = "expecting_newline_3"
        \/ next = "header_lws" /\ White(c)
        \/ next = "header_name" /\ Token(c)
    BY <1>3, <1>4 DEF Leads, Branches, Fixed
  <2>3. headers = g
    BY <1>1, <1>4, <2>1
  <2>4. CASE next = "expecting_newline_3"
    <3>1. p + 1 = s
      BY <2>1
    <3> QED BY <1>3, <2>3, <2>4, <3>1 DEF HeaderRead
  <2>5. CASE next = "header_lws" /\ White(c)
    <3>1. WhiteTo(t, s, p + 1) /\ s <= p + 1
      BY <1>3, <2>1, <2>5 DEF WhiteTo
    <3>2. name = <<>>
      BY <1>2, <1>4, <2>1, <2>5
    <3> QED BY <1>3, <2>3, <2>5, <3>1, <3>2 DEF HeaderRead
  <2>6. CASE next = "header_name" /\ Token(c)
    <3>1. NameTo(t, s, p + 1) /\ s <= p + 1
      BY <1>3, <2>1, <2>6 DEF NameTo
    <3>2. name = SubSeq(t, s, p + 1)
      <4>1. s = p + 1 /\ name = Append(<<>>, c)
        BY <1>2, <2>1, <2>6
      <4> QED BY <1>0, <4>1
    <3> QED BY <1>3, <2>3, <2>6, <3>1, <3>2 DEF HeaderRead
  <2> QED BY <2>2, <2>4, <2>5, <2>6
<1>5. ASSUME state_ = "header_name" PROVE HeaderRead(t, s, p + 1, next, name, headers)
  <2>1. s <= p /\ NameTo(t, s, p) /\ header_helper = SubSeq(t, s, p) /\ req.headers_ = g
    BY <1>3, <1>5 DEF HeaderRead
  <2>2. \/ next = "space_before_header_value" /\ c = ":"
        \/ next = "header_name" /\ Token(c)
    BY <1>3, <1>5 DEF Leads, Branches, Fixed
  <2>3. headers = g
    BY <1>1, <1>5, <2>1
  <2>4. CASE next = "space_before_header_value" /\ c = ":"
    <3>1. name = SubSeq(t, s, (p + 1) - 1) /\ NameTo(t, s, (p + 1) - 1) /\ s < p + 1
      BY <1>0, <1>2, <1>5, <2>1, <2>4
    <3> QED BY <1>3, <2>3, <2>4, <3>1 DEF HeaderRead
  <2>5. CASE next = "header_name" /\ Token(c)
    <3>1. NameTo(t, s, p + 1) /\ s <= p + 1
      BY <1>3, <2>1, <2>5 DEF NameTo
    <3>2. name = SubSeq(t, s, p + 1)
      <4>1. s \in 1..(p + 1)
        OBVIOUS
      <4> QED BY <1>2, <1>3, <2>1, <2>5, <4>1, SubSeqGrows
    <3> QED BY <1>3, <2>3, <2>5, <3>1, <3>2 DEF HeaderRead
  <2> QED BY <2>2, <2>4, <2>5
<1>6. ASSUME state_ = "space_before_header_value" PROVE HeaderRead(t, s, p + 1, next, name, headers)
  <2>1. /\ s < p /\ NameTo(t, s, p - 1) /\ t[p] = ":"
        /\ header_helper = SubSeq(t, s, p - 1) /\ req.headers_ = g
    BY <1>3, <1>6 DEF HeaderRead
  <2>2. next = "header_value" /\ c = "SP"
    BY <1>3, <1>6 DEF Leads, Fixed
  <2>3. name = SubSeq(t, s, p - 1) /\ headers = With(g, name, <<>>)
    BY <1>1, <1>2, <1>6, <2>1, <2>2
  <2>4. SubSeq(t, p + 2, p + 1) = <<>>
    <3>1. p + 2 \in Int /\ (p + 2) - 1 = p + 1
      OBVIOUS
    <3> QED BY <3>1, SubSeqNone
  <2>5. FieldAt(t, s, p)
    BY <1>3, <2>1, <2>2 DEF FieldAt
  <2>6. p \in s..((p + 1) - 1) /\ \A i \in (p + 2)..(p + 1) : Text(t[i])
    BY <2>1
  <2>7. headers = With(g, name, SubSeq(t, p + 2, p + 1))
    BY <2>3, <2>4
  <2>8. FieldRead(t, s, p + 1, name, headers)
    BY Zenon, <1>3, <2>3, <2>5, <2>6, <2>7 DEF FieldRead
  <2> QED BY <1>3, <2>2, <2>8 DEF HeaderRead
<1>7. ASSUME state_ = "header_lws" PROVE HeaderRead(t, s, p + 1, next, name, headers)
  <2>1. s <= p /\ WhiteTo(t, s, p) /\ header_helper = <<>> /\ req.headers_ = g
    BY <1>3, <1>7 DEF HeaderRead
  <2>2. \/ next = "expecting_newline_2"
        \/ next = "header_lws" /\ White(c)
        \/ next = "header_value" /\ ~White(c) /\ ~is_ctl(c)
    BY <1>3, <1>7 DEF Leads, Branches, Fixed
  <2>3. headers = g
    BY <1>1, <1>7, <2>1
  <2>4. CASE next = "expecting_newline_2"
    <3>1. name = <<>>
      BY <1>2, <1>7, <2>1, <2>4
    <3>2. LineEnds(t, s, p + 1) /\ WhiteTo(t, s, (p + 1) - 1) /\ s \in 3..(p + 1)
      BY <1>0, <2>1, <2>4 DEF Newlines
    <3>3. Got(t, s) = g
      BY <1>0, <1>3, <3>2, WhiteGot
    <3> QED BY <1>3, <2>3, <2>4, <3>1, <3>3 DEF HeaderRead
  <2>5. CASE next = "header_lws" /\ White(c)
    <3>1. WhiteTo(t, s, p + 1) /\ s <= p + 1
      BY <1>3, <2>1, <2>5 DEF WhiteTo
    <3>2. name = <<>>
      BY <1>2, <1>7, <2>1, <2>5
    <3> QED BY <1>3, <2>3, <2>5, <3>1, <3>2 DEF HeaderRead
  <2>6. CASE next = "header_value" /\ ~White(c) /\ ~is_ctl(c)
    <3>1. name = SubSeq(t, p + 1, p + 1)
      BY <1>0, <1>2, <1>7, <2>1, <2>6
    <3>2. FoldAt(t, s, p)
      BY <1>3, <2>1, <2>6 DEF FoldAt
    <3>3. p \in s..((p + 1) - 1) /\ ~(p + 2 <= p + 1)
      BY <2>1
    <3>4. \A i \in (p + 1)..(p + 1) : Text(t[i])
      BY <1>3, <2>6 DEF Text
    <3>5. headers = IF p + 2 <= p + 1 THEN With(g, name, SubSeq(t, p + 2, p + 1)) ELSE g
      BY <2>3, <3>3
    <3>6. FoldRead(t, s, p + 1, name, headers)
      BY Zenon, <1>3, <3>1, <3>2, <3>3, <3>4, <3>5 DEF FoldRead
    <3> QED BY <1>3, <2>6, <3>6 DEF HeaderRead
  <2> QED BY <2>2, <2>4, <2>5, <2>6
<1>8. ASSUME state_ = "header_value" PROVE HeaderRead(t, s, p + 1, next, name, headers)
  <2>1. FieldRead(t, s, p, header_helper, req.headers_) \/ FoldRead(t, s, p, header_helper, req.headers_)
    BY <1>8 DEF HeaderRead
  <2>2. \/ next = "expecting_newline_2"
        \/ next = "header_value" /\ ~is_ctl(c)
    BY <1>3, <1>8 DEF Leads, Branches, Fixed
  <2>3. CASE next = "expecting_newline_2"
    <3>1. name = <<>> /\ headers = req.headers_
      BY <1>1, <1>2, <1>8, <2>3
    <3>2. LineEnds(t, s, p + 1) /\ s \in 3..(p + 1)
      BY <2>3 DEF Newlines
    <3>3. \/ FieldRead(t, s, (p + 1) - 1, header_helper, req.headers_)
          \/ FoldRead(t, s, (p + 1) - 1, header_helper, req.headers_)
      BY <1>0, <2>1
    <3>4. req.headers_ = Got(t, s)
      BY <1>0, <3>2, <3>3, FieldGot, FoldGot
    <3> QED BY <1>3, <2>3, <3>1, <3>4 DEF HeaderRead
  <2>4. CASE next = "header_value" /\ ~is_ctl(c)
    <3>1. name = header_helper /\ headers = With(req.headers_, header_helper, <<c>>)
      BY <1>1, <1>2, <1>8, <2>4
    <3>2. Text(t[p + 1])
      BY <1>3, <2>4 DEF Text
    <3>3. FieldRead(t, s, p + 1, name, headers) \/ FoldRead(t, s, p + 1, name, headers)
      BY <1>3, <2>1, <3>1, <3>2, ValueStep
    <3> QED BY <1>3, <2>4, <3>3 DEF HeaderRead
  <2> QED BY <2>2, <2>3, <2>4
<1>9. state_ \in {"header_line_start", "header_name", "space_before_header_value", "header_lws", "header_value"}
  BY DEF HeaderRead, Newlines
<1>10. HeaderRead(t, s, p + 1, next, name, headers)
  BY <1>4, <1>5, <1>6, <1>7, <1>8, <1>9
<1> QED BY <1>10 DEF name, headers, c

-----------------------------------------------------------------------------

(* What is read is in the request                                            *)

HInv ==
    /\ LInv
    /\ result = "indeterminate" =>
          \E s \in 1..(pos + 1) : HeadersRead(text, s, pos, state_, header_helper, req.headers_)
    /\ result = "good" => req.headers_ = Got(text, pos - 2)

LEMMA HeadersReadStep ==
    ASSUME NEW t \in Seq(Chars), NEW p \in Nat, p < Len(t), NEW s \in 1..(p + 1), NEW h \in BOOLEAN, NEW next,
           state_ \in States, RequestType(req), header_helper \in Seq(Chars),
           next = Leads(t[p + 1], h), next # "bad", next # "good",
           HeadersRead(t, s, p, state_, header_helper, req.headers_)
    PROVE  \E r \in 1..(p + 2) :
              HeadersRead(t, r, p + 1, next, HeaderHelper(t[p + 1], next), Request(t[p + 1], next).headers_)
<1> DEFINE c == t[p + 1]
           name == HeaderHelper(c, next)
           headers == Request(c, next).headers_
<1>0. /\ LineTo(t, s, p, state_)
      /\ \/ /\ s = 1 /\ state_ \in InLine \cup {"expecting_newline_1"}
            /\ header_helper = <<>> /\ req.headers_ = Fresh.headers_
         \/ s >= 3 /\ HeaderRead(t, s, p, state_, header_helper, req.headers_)
  BY DEF HeadersRead
<1>1. headers = IF state_ = "space_before_header_value" /\ next = "header_value"
                THEN With(req.headers_, header_helper, <<>>)
                ELSE IF state_ = "header_value" /\ next = "header_value"
                THEN With(req.headers_, header_helper, <<c>>)
                ELSE req.headers_
  BY RequestHeaders
<1>2. name = IF next = "header_name" \/ (state_ = "header_lws" /\ next = "header_value")
             THEN Append(header_helper, c)
             ELSE IF state_ = "header_value" /\ next = "expecting_newline_2" THEN <<>>
             ELSE header_helper
  BY DEF HeaderHelper
<1>3. next = Leads(c, h) /\ c = t[p + 1]
  OBVIOUS
<1>4. /\ state_ \notin Newlines => LineTo(t, s, p + 1, next) /\ (next \in Newlines => c = "CR")
      /\ state_ \in Newlines => /\ next = "header_line_start" /\ p \in Nat \ {0} /\ s <= p
                                /\ LineTo(t, p + 2, p + 1, next)
  BY <1>0, LineToStep
<1> HIDE DEF c, name, headers
<1>5. ASSUME state_ \in Newlines PROVE HeadersRead(t, p + 2, p + 1, next, name, headers)
  <2>1. next = "header_line_start" /\ s \in 1..p /\ LineTo(t, p + 2, p + 1, next)
    BY <1>4, <1>5
  <2>2. name = header_helper /\ headers = req.headers_
    BY <1>1, <1>2, <1>5, <2>1 DEF Newlines
  <2>3. LineEnds(t, s, p) /\ (s = 1 \/ (s >= 3 /\ t[s - 1] = "LF"))
    BY <1>0, <1>5 DEF LineTo
  <2>4. Got(t, p + 1) = Got(t, s) /\ (s = 1 => Got(t, p + 1) = Fresh.headers_)
    BY <2>1, <2>3, LineGot
  <2>5. state_ # "expecting_newline_3"
    BY <1>3, <2>1 DEF Leads, Fixed
  <2>6. name = <<>> /\ headers = Got(t, p + 1)
    <3>1. CASE s = 1
      <4>1. ~(s >= 3)
        BY <3>1
      <4> QED BY <1>0, <2>2, <2>4, <3>1, <4>1
    <3>2. CASE s # 1
      BY <1>0, <1>5, <2>2, <2>4, <2>5, <3>2 DEF HeaderRead, Newlines, InLine, Behind, VersionStates
    <3> QED BY <3>1, <3>2
  <2>7. p + 1 = (p + 2) - 1 /\ p + 2 >= 3
    BY <2>1
  <2>8. HeaderRead(t, p + 2, p + 1, next, name, headers)
    BY <2>1, <2>6, <2>7 DEF HeaderRead
  <2> QED BY <2>1, <2>7, <2>8 DEF HeadersRead
<1>6. ASSUME state_ \notin Newlines, s = 1 PROVE HeadersRead(t, s, p + 1, next, name, headers)
  <2>1. state_ \in InLine /\ header_helper = <<>> /\ req.headers_ = Fresh.headers_
    <3>1. ~(s >= 3)
      BY <1>6
    <3> QED BY <1>0, <1>6, <3>1 DEF Newlines
  <2>2. next \in InLine \cup {"expecting_newline_1"}
    <3>1. CASE state_ \in DOMAIN Fixed
      BY <1>3, <2>1, <3>1 DEF Leads, Fixed, InLine, Behind, VersionStates
    <3>2. CASE state_ \notin DOMAIN Fixed
      BY <1>3, <2>1, <3>2 DEF Leads, Branches, Fixed, InLine, Behind, VersionStates
    <3> QED BY <3>1, <3>2
  <2>3. name = <<>> /\ headers = Fresh.headers_
    BY <1>1, <1>2, <2>1, <2>2 DEF InLine, Behind, VersionStates
  <2> QED BY <1>4, <1>6, <2>2, <2>3 DEF HeadersRead
<1>7. ASSUME state_ \notin Newlines, s # 1 PROVE HeadersRead(t, s, p + 1, next, name, headers)
  <2>1. s \in 3..(p + 1) /\ t[s - 2] = "CR" /\ HeaderRead(t, s, p, state_, header_helper, req.headers_)
    BY <1>0, <1>7 DEF LineTo
  <2>2. LineTo(t, s, p + 1, next) /\ (next \in Newlines => LineEnds(t, s, p + 1))
    BY <1>4, <1>7 DEF LineTo
  <2>3. state_ \in States \ Newlines
    BY <1>7
  <2>4. HeaderRead(t, s, p + 1, next, HeaderHelper(t[p + 1], next), Request(t[p + 1], next).headers_)
    BY <2>1, <2>2, <2>3, HeaderReadStep
  <2>5. HeaderRead(t, s, p + 1, next, name, headers)
    BY <2>4 DEF name, headers, c
  <2> QED BY <2>1, <2>2, <2>5 DEF HeadersRead
<1>8. \E r \in 1..(p + 2) : HeadersRead(t, r, p + 1, next, name, headers)
  <2>1. p + 2 \in 1..(p + 2) /\ s \in 1..(p + 2)
    OBVIOUS
  <2> QED BY <1>5, <1>6, <1>7, <2>1
<1> QED BY <1>8 DEF name, headers, c

LEMMA HInvInit == Init => HInv
<1> SUFFICES ASSUME Init PROVE HInv
  OBVIOUS
<1>1. /\ pos = 0 /\ state_ = "method_start" /\ result = "indeterminate"
      /\ header_helper = <<>> /\ req.headers_ = Fresh.headers_
  BY DEF Init
<1>2. HeadersRead(text, 1, pos, state_, header_helper, req.headers_)
  <2>1. state_ \notin Newlines /\ state_ \in InLine /\ \A k \in 1..pos : FALSE
    BY <1>1 DEF Newlines, InLine
  <2> QED BY <1>1, <2>1 DEF HeadersRead, LineTo
<1> QED BY <1>1, <1>2, LInvInit DEF HInv

LEMMA HInvKept == HInv /\ [consume \/ Anew]_vars => HInv'
<1> SUFFICES ASSUME HInv, [consume \/ Anew]_vars PROVE HInv'
  OBVIOUS
<1>0. LInv /\ LInv' /\ TypeOK /\ RequestForm
  BY LInvKept DEF HInv, LInv, PInv
<1>1. CASE UNCHANGED vars
  BY <1>0, <1>1 DEF vars, HInv
<1>2. CASE Anew
  <2>1. /\ pos' = 0 /\ state_' = "method_start" /\ result' = "indeterminate"
        /\ header_helper' = <<>> /\ req'.headers_ = Fresh.headers_
    BY <1>2 DEF Anew, reset
  <2>2. HeadersRead(text', 1, pos', state_', header_helper', req'.headers_)
    <3>1. state_' \notin Newlines /\ state_' \in InLine /\ \A k \in 1..pos' : FALSE
      BY <2>1 DEF Newlines, InLine
    <3> QED BY <2>1, <3>1 DEF HeadersRead, LineTo
  <2> QED BY <1>0, <2>1, <2>2 DEF HInv
<1>3. CASE consume
  <2> DEFINE c == text[pos + 1]
             next == Following(c)
             h == req.headers_ # Fresh.headers_
  <2>1. /\ text \in Seq(Chars) /\ pos \in Nat /\ pos < Len(text)
        /\ state_ \in States /\ header_helper \in Seq(Chars) /\ RequestType(req)
    BY <1>0, <1>3, RequestTypes, LenProperties DEF TypeOK, consume
  <2>2. /\ pos' = pos + 1 /\ text' = text /\ result = "indeterminate"
        /\ result' = IF next \in {"good", "bad"} THEN next ELSE "indeterminate"
        /\ state_' = IF next \in {"good", "bad"} THEN state_ ELSE next
        /\ header_helper' = HeaderHelper(c, next)
        /\ req' = Request(c, next)
    BY <1>3 DEF consume
  <2>3. next = Leads(c, h) /\ h \in BOOLEAN /\ c = text[pos + 1]
    BY DEF Following
  <2>4. PICK s \in 1..(pos + 1) : HeadersRead(text, s, pos, state_, header_helper, req.headers_)
    BY <2>2 DEF HInv
  <2> HIDE DEF c, next, h
  <2>5. CASE next = "bad"
    BY <1>0, <2>2, <2>5 DEF HInv
  <2>6. CASE next = "good"
    <3>1. state_ = "expecting_newline_3"
      BY <2>1, <2>3, <2>6 DEF Leads, Branches, Fixed, States
    <3>2. pos = s /\ req.headers_ = Got(text, s - 1)
      BY <2>4, <3>1 DEF HeadersRead, HeaderRead, InLine, Behind, VersionStates
    <3>3. req'.headers_ = req.headers_
      BY <2>1, <2>2, <2>6, RequestHeaders
    <3>4. pos' - 2 = s - 1 /\ text' = text /\ result' = "good"
      BY <2>1, <2>2, <2>6, <3>2
    <3>5. req'.headers_ = Got(text', pos' - 2)
      BY <3>2, <3>3, <3>4
    <3> QED BY <1>0, <3>4, <3>5 DEF HInv
  <2>7. CASE next # "bad" /\ next # "good"
    <3>1. \E r \in 1..(pos + 2) :
              HeadersRead(text, r, pos + 1, next, HeaderHelper(c, next), Request(c, next).headers_)
      BY <2>1, <2>3, <2>4, <2>7, HeadersReadStep
    <3>2. result' = "indeterminate" /\ state_' = next /\ pos' + 1 = pos + 2
      BY <2>1, <2>2, <2>7
    <3>3. \E r \in 1..(pos' + 1) : HeadersRead(text', r, pos', state_', header_helper', req'.headers_)
      BY <2>2, <3>1, <3>2
    <3> QED BY <1>0, <3>2, <3>3 DEF HInv
  <2> QED BY <2>5, <2>6, <2>7
<1> QED BY <1>1, <1>2, <1>3

LEMMA HInvStep == HInv /\ [Next]_vars => HInv'
BY HInvKept, NextSteps DEF HInv, LInv, PInv

-----------------------------------------------------------------------------
(* The headers of a head                                                     *)

\* Of a line that ends the text up to its end tells all.
LEMMA SameLine ==
    ASSUME NEW t \in Seq(Chars), NEW u \in Seq(Chars), NEW n \in Nat, n <= Len(t), n <= Len(u), AgreeTo(t, u, n),
           NEW r \in 1..n, NEW e \in r..n, LineEnds(t, r, e)
    PROVE  LineEnds(u, r, e) /\ Line(t, r) = Line(u, r)
<1>0. Len(t) \in Nat /\ Len(u) \in Nat /\ r \in Nat \ {0} /\ e \in 0..n /\ e \in r..Len(t) /\ e \in r..Len(u)
  BY LenProperties
<1>1. LineEnds(u, r, e)
  BY <1>0, SameLineEnds
<1>2. /\ Line(t, r) \in Seq(Chars) /\ Len(Line(t, r)) = e - r
      /\ \A k \in 1..(e - r) : Line(t, r)[k] = t[r + k - 1]
  BY <1>0, LineIs
<1>3. /\ Line(u, r) \in Seq(Chars) /\ Len(Line(u, r)) = e - r
      /\ \A k \in 1..(e - r) : Line(u, r)[k] = u[r + k - 1]
  BY <1>0, <1>1, LineIs
<1>4. \A k \in 1..(e - r) : r + k - 1 \in 1..n
  BY <1>0
<1>5. \A k \in 1..Len(Line(t, r)) : Line(t, r)[k] = Line(u, r)[k]
  BY <1>2, <1>3, <1>4 DEF AgreeTo
<1> QED BY <1>1, <1>2, <1>3, <1>5, SeqEqual

LEMMA HeadersAre ==
    ASSUME NEW u \in Seq(Chars), WellFormed(u), NEW t \in Seq(Chars), Len(u) <= Len(t), AgreeTo(u, t, Len(u))
    PROVE  Headers(u) = Got(t, Len(u) - 2)
<1>1. PICK n \in Nat : n = Len(u)
  BY LenProperties
<1>2. /\ n >= 4
      /\ \A i \in 1..n : u[i] = "CR" => i < n /\ u[i + 1] = "LF"
      /\ u[n - 3] = "CR" /\ u[n - 2] = "LF" /\ u[n - 1] = "CR" /\ u[n] = "LF"
  BY <1>1, CrlfIs DEF WellFormed
<1>3. ASSUME NEW r \in 3..(n - 2), u[r - 2] = "CR" PROVE \E e \in r..(n - 3) : LineEnds(u, r, e)
  <2>1. n - 1 \in 3..n /\ u[(n - 1) - 2] = "CR" /\ r \in 1..((n - 1) - 1) /\ (n - 1) - 2 = n - 3 /\ r >= 3
    BY <1>2
  <2> QED BY <1>2, <1>3, <2>1, EndsBefore
<1>4. ~EntersAt(u, n - 1) /\ ~EntersAt(u, n)
  <2>1. LineEnds(u, n - 1, n - 1) /\ WhiteTo(u, n - 1, (n - 1) - 1)
    BY <1>2 DEF LineEnds, WhiteTo
  <2>2. StandsAt(Line(u, n - 1), u, n - 1) /\ n - 1 = (n - 1) + Len(Line(u, n - 1))
    <3>1. n - 1 \in Nat \ {0} /\ n - 1 \in (n - 1)..Len(u)
      BY <1>1, <1>2
    <3>2. StandsAt(Line(u, n - 1), u, n - 1) /\ Len(Line(u, n - 1)) = (n - 1) - (n - 1)
      BY <2>1, <3>1, LineStands
    <3> QED BY <3>2
  <2>3. ~Enters(Line(u, n - 1))
    BY <2>1, <2>2, WhiteEnters
  <2> QED BY <1>2, <2>3 DEF EntersAt
<1> DEFINE at == {s \in Starts(u) \ {1, n - 1} : Enters(Line(u, s))}
           A == {x \in 1..n : EntersAt(u, x)}
<1>5. at = A
  <2>1. ASSUME NEW s \in at PROVE s \in A
    <3>1. s \in 3..n /\ u[s - 2] = "CR" /\ s # n - 1 /\ Enters(Line(u, s))
      BY <1>1, <1>2 DEF Starts
    <3>2. s \in 3..(n - 2)
      BY <1>2, <3>1
    <3>3. PICK e \in s..(n - 3) : LineEnds(u, s, e)
      BY <1>3, <3>1, <3>2
    <3>4. e \in s..Len(u)
      BY <1>1
    <3> QED BY <1>1, <3>1, <3>3, <3>4 DEF EntersAt
  <2>2. ASSUME NEW s \in A PROVE s \in at
    <3>1. s \in 3..n /\ u[s - 2] = "CR" /\ Enters(Line(u, s)) /\ s # n - 1
      BY <1>1, <1>4 DEF EntersAt
    <3>2. s - 2 \in 1..(n - 2) /\ (s - 2) + 2 = s
      BY <3>1
    <3>3. s \in Starts(u)
      BY <1>1, <3>1, <3>2 DEF Starts
    <3> QED BY <3>1, <3>3
  <2> QED BY <2>1, <2>2
<1>6. Headers(u) = [m \in {Entry(Line(u, s)).name : s \in at} |->
                       FlattenSeq([s \in 1..n |->
                           IF s \in at /\ Entry(Line(u, s)).name = m THEN Entry(Line(u, s)).value ELSE <<>>])]
  BY <1>1 DEF Headers
<1>7. Headers(u) = Got(u, n)
  <2>1. ASSUME NEW m
        PROVE  [s \in 1..n |-> IF s \in A /\ Entry(Line(u, s)).name = m THEN Entry(Line(u, s)).value ELSE <<>>]
                  = Parts(u, n, m)
    BY DEF Parts, Part
  <2>2. {Entry(Line(u, s)).name : s \in A} = Names(u, n)
    BY DEF Names
  <2> HIDE DEF at, A
  <2>3. Headers(u) = [m \in Names(u, n) |-> FlattenSeq(Parts(u, n, m))]
    BY <1>5, <1>6, <2>1, <2>2
  <2> QED BY <2>3 DEF Got
<1>8. Got(u, n) = Got(u, n - 2)
  <2>1. n - 2 \in Nat /\ n - 2 <= n /\ \A r \in ((n - 2) + 1)..n : r = n - 1 \/ r = n
    BY <1>2
  <2>2. \A r \in ((n - 2) + 1)..n : ~EntersAt(u, r)
    BY <1>4, <2>1
  <2> QED BY <2>1, <2>2, GotStays
<1>9. ASSUME NEW r \in 1..(n - 2)
      PROVE  (EntersAt(u, r) <=> EntersAt(t, r)) /\ (EntersAt(u, r) => Line(u, r) = Line(t, r))
  <2>0. Len(t) \in Nat /\ n <= Len(t) /\ \A i \in 1..n : t[i] = u[i]
    BY <1>1, LenProperties DEF AgreeTo
  <2>1. CASE r >= 3 /\ u[r - 2] = "CR"
    <3>1. PICK e \in r..(n - 3) : LineEnds(u, r, e)
      BY <1>3, <2>1
    <3>2. LineEnds(t, r, e) /\ Line(u, r) = Line(t, r)
      <4>1. r \in 1..n /\ e \in r..n /\ n <= Len(u) /\ AgreeTo(u, t, n)
        BY <1>1
      <4> QED BY <2>0, <3>1, <4>1, SameLine
    <3>3. r \in 3..Len(u) /\ r \in 3..Len(t) /\ e \in r..Len(u) /\ e \in r..Len(t) /\ t[r - 2] = "CR"
      BY <1>1, <2>0, <2>1
    <3> QED BY <2>1, <3>1, <3>2, <3>3 DEF EntersAt
  <2>2. CASE ~(r >= 3 /\ u[r - 2] = "CR")
    <3>1. r >= 3 => t[r - 2] = u[r - 2]
      BY <2>0
    <3>2. ~EntersAt(u, r) /\ ~EntersAt(t, r)
      BY <2>0, <2>2, <3>1 DEF EntersAt
    <3> QED BY <3>2
  <2> QED BY <2>1, <2>2
<1>10. Got(u, n - 2) = Got(t, n - 2)
  <2>1. n - 2 \in Nat
    BY <1>2
  <2> QED BY <1>9, <2>1, GotSame
<1> QED BY <1>1, <1>7, <1>8, <1>10

\* Of every head that is read, lines that begin with white space included.
LEMMA HInvReads == HInv => ReadsLine /\ (result = "good" => req.headers_ = Headers(Read))
<1> SUFFICES ASSUME HInv, result = "good" PROVE req.headers_ = Headers(Read)
  BY LInvReads DEF HInv
<1>1. TypeOK /\ Whole(text, pos) /\ text \in Seq(Chars) /\ pos \in Nat /\ pos <= Len(text)
  BY LenProperties DEF HInv, LInv, PInv, TypeOK
<1>2. Read \in Seq(Chars) /\ Len(Read) = pos /\ AgreeTo(text, Read, pos)
  BY <1>1, ReadIs
<1>3. WellFormed(Read)
  BY <1>1, WholeIsRead
<1>4. AgreeTo(Read, text, Len(Read)) /\ Len(Read) <= Len(text)
  BY <1>1, <1>2 DEF AgreeTo
<1>5. Headers(Read) = Got(text, pos - 2)
  BY <1>1, <1>2, <1>3, <1>4, HeadersAre
<1> QED BY <1>5 DEF HInv

\* Of a head that is read the method, the URI and the version are in the request and,
\* if no line begins with white space, the headers, from this head and from no earlier
\* one (consume, reset).
THEOREM RequestsAreRead == Spec => []ReadsRequest
<1>1. HInv => ReadsRequest
  BY HInvReads DEF ReadsRequest
<1> QED BY <1>1, HInvInit, HInvStep, PTL DEF Spec

-----------------------------------------------------------------------------
(* Where the parts of an echo stand                                          *)

LEMMA StandsFirst ==
    ASSUME NEW u \in Seq(Chars), NEW v \in Seq(Chars)
    PROVE  /\ u \o v \in Seq(Chars) /\ Len(u \o v) = Len(u) + Len(v)
           /\ StandsAt(u, u \o v, 1) /\ StandsAt(v, u \o v, Len(u) + 1)
<1> DEFINE w == u \o v
<1>1. Len(u) \in Nat /\ Len(v) \in Nat
  BY LenProperties
<1>2. /\ w \in Seq(Chars) /\ Len(w) = Len(u) + Len(v)
      /\ \A i \in 1..(Len(u) + Len(v)) : w[i] = IF i <= Len(u) THEN u[i] ELSE v[i - Len(u)]
  BY ConcatProperties
<1> HIDE DEF w
<1>3. \A k \in 1..Len(u) : u[k] = w[1 + k - 1]
  BY <1>1, <1>2
<1>4. \A k \in 1..Len(v) : v[k] = w[(Len(u) + 1) + k - 1]
  <2> SUFFICES ASSUME NEW k \in 1..Len(v) PROVE v[k] = w[(Len(u) + 1) + k - 1]
    OBVIOUS
  <2>1. (Len(u) + 1) + k - 1 = Len(u) + k /\ Len(u) + k \in 1..(Len(u) + Len(v)) /\ ~(Len(u) + k <= Len(u))
        /\ (Len(u) + k) - Len(u) = k
    BY <1>1
  <2> QED BY <1>2, <2>1
<1>5. StandsAt(u, w, 1) /\ StandsAt(v, w, Len(u) + 1)
  BY <1>1, <1>2, <1>3, <1>4 DEF StandsAt
<1> QED BY <1>2, <1>5 DEF w

LEMMA StandsWithin ==
    ASSUME NEW l, NEW u, NEW t, NEW r, NEW s, StandsAt(l, u, r), StandsAt(u, t, s)
    PROVE  StandsAt(l, t, s + r - 1)
<1>1. /\ l \in Seq(Chars) /\ u \in Seq(Chars) /\ r \in Nat \ {0}
      /\ Len(l) \in Nat /\ Len(u) \in Nat /\ r + Len(l) - 1 <= Len(u)
      /\ \A k \in 1..Len(l) : l[k] = u[r + k - 1]
  BY DEF StandsAt
<1>2. /\ t \in Seq(Chars) /\ s \in Nat \ {0} /\ Len(t) \in Nat /\ s + Len(u) - 1 <= Len(t)
      /\ \A k \in 1..Len(u) : u[k] = t[s + k - 1]
  BY DEF StandsAt
<1>3. ASSUME NEW k \in 1..Len(l) PROVE l[k] = t[(s + r - 1) + k - 1]
  <2>1. r + k - 1 \in 1..Len(u) /\ s + (r + k - 1) - 1 = (s + r - 1) + k - 1
    BY <1>1, <1>2
  <2> QED BY <1>1, <1>2, <2>1
<1>4. s + r - 1 \in Nat \ {0} /\ (s + r - 1) + Len(l) - 1 <= Len(t)
  BY <1>1, <1>2
<1> QED BY <1>1, <1>2, <1>3, <1>4 DEF StandsAt

LEMMA StandsAll ==
    ASSUME NEW l, NEW t, NEW r, StandsAt(l, t, r)
    PROVE  /\ SubSeq(t, r, r + Len(l) - 1) = l
           /\ \A k \in r..(r + Len(l) - 1) : k - r + 1 \in 1..Len(l) /\ t[k] = l[k - r + 1]
<1>1. /\ l \in Seq(Chars) /\ Len(l) \in Nat /\ r \in Nat \ {0}
      /\ \A k \in 1..Len(l) : l[k] = t[r + k - 1]
  BY DEF StandsAt
<1>2. Shifted(l, t, r)
  BY PartStands
<1>3. SubSeq(l, 1, Len(l)) = SubSeq(t, r + 1 - 1, r + Len(l) - 1)
  BY <1>1, <1>2 DEF Shifted
<1>4. SubSeq(l, 1, Len(l)) = l
  BY <1>1, SubSeqFull
<1>5. ASSUME NEW k \in r..(r + Len(l) - 1) PROVE k - r + 1 \in 1..Len(l) /\ t[k] = l[k - r + 1]
  <2>1. k - r + 1 \in 1..Len(l) /\ r + (k - r + 1) - 1 = k
    BY <1>1
  <2> QED BY <1>1, <2>1
<1>6. r + 1 - 1 = r
  BY <1>1
<1> QED BY <1>3, <1>4, <1>5, <1>6

\* The k-th of the sequences that are joined stands behind those before it.
LEMMA JoinedStands ==
    ASSUME NEW ss, Len(ss) \in Nat, \A i \in 1..Len(ss) : ss[i] \in Seq(Chars),
           NEW a, Joined(Chars, ss, a), NEW k \in 1..Len(ss)
    PROVE  /\ StandsAt(ss[k], a[Len(ss)], Len(a[k - 1]) + 1)
           /\ Len(a[k]) = Len(a[k - 1]) + Len(ss[k])
<1>0. /\ \A j \in 0..Len(ss) : a[j] \in Seq(Chars)
      /\ \A j \in 0..(Len(ss) - 1) : a[j + 1] = a[j] \o ss[j + 1]
  BY DEF Joined
<1> DEFINE r == Len(a[k - 1]) + 1
           A == {j \in Nat : k + j <= Len(ss) => StandsAt(ss[k], a[k + j], r)}
<1>1. a[k] = a[k - 1] \o ss[k] /\ a[k - 1] \in Seq(Chars) /\ ss[k] \in Seq(Chars)
  <2>1. k - 1 \in 0..(Len(ss) - 1) /\ (k - 1) + 1 = k /\ k - 1 \in 0..Len(ss)
    OBVIOUS
  <2> QED BY <1>0, <2>1
<1>2. StandsAt(ss[k], a[k], r) /\ Len(a[k]) = Len(a[k - 1]) + Len(ss[k])
  BY <1>1, StandsFirst
<1>3. 0 \in A
  <2>1. k + 0 = k
    OBVIOUS
  <2> QED BY <1>2, <2>1
<1>4. ASSUME NEW j \in Nat, j \in A PROVE j + 1 \in A
  <2> SUFFICES ASSUME k + (j + 1) <= Len(ss) PROVE StandsAt(ss[k], a[k + (j + 1)], r)
    OBVIOUS
  <2>1. PICK m \in Nat : m = k + j
    OBVIOUS
  <2>2. k + (j + 1) = m + 1 /\ m \in 0..(Len(ss) - 1) /\ m \in 0..Len(ss) /\ m + 1 \in 1..Len(ss) /\ k + j <= Len(ss)
    BY <2>1
  <2>3. StandsAt(ss[k], a[m], r)
    BY <1>4, <2>1, <2>2
  <2>4. a[m + 1] = a[m] \o ss[m + 1] /\ a[m] \in Seq(Chars) /\ ss[m + 1] \in Seq(Chars)
    BY <1>0, <2>2
  <2>5. StandsAt(a[m], a[m + 1], 1)
    BY <2>4, StandsFirst
  <2>6. StandsAt(ss[k], a[m + 1], 1 + r - 1)
    BY <2>3, <2>5, StandsWithin
  <2>7. 1 + r - 1 = r
    <3>1. r \in Nat
      BY <2>3 DEF StandsAt
    <3> HIDE DEF r
    <3> QED BY <3>1
  <2> QED BY <2>2, <2>6, <2>7
<1> HIDE DEF A
<1>5. Len(ss) - k \in A
  <2>1. Len(ss) - k \in Nat
    OBVIOUS
  <2> QED BY <1>3, <1>4, <2>1, Induction
<1>6. k + (Len(ss) - k) = Len(ss)
  OBVIOUS
<1> QED BY <1>2, <1>5, <1>6 DEF A

-----------------------------------------------------------------------------
(* A line of an echo                                                         *)

\* A header that an echo can hold.
Name(n)  == n \in Seq(Chars) /\ n # <<>> /\ \A i \in DOMAIN n : Token(n[i])

HeaderLine(n, v) == n \o <<":", "SP">> \o v \o NewLine

\* The header stands in t, in a line that begins at s.
HeaderStands(t, s, n, v) ==
    LET k == s + Len(n)
        e == k + 2 + Len(v)
    IN  /\ FieldAt(t, s, k) /\ SubSeq(t, s, k - 1) = n
        /\ SubSeq(t, k + 2, e - 1) = v /\ \A i \in (k + 2)..(e - 1) : Text(t[i])
        /\ LineEnds(t, s, e) /\ t[e + 1] = "LF" /\ e + 1 <= Len(t)

LEMMA CharsOf ==
    /\ NewLine \in Seq(Chars) /\ Len(NewLine) = 2 /\ NewLine[1] = "CR" /\ NewLine[2] = "LF"
    /\ <<":", "SP">> \in Seq(Chars) /\ <<"SP">> \in Seq(Chars)
    /\ <<"SP", "H", "T", "T", "P", "/">> \in Seq(Chars)
<1>1. /\ "CR" \in Chars /\ "LF" \in Chars /\ "SP" \in Chars /\ ":" \in Chars /\ "/" \in Chars
      /\ "H" \in Chars /\ "T" \in Chars /\ "P" \in Chars
  BY EchoRequestsAssumption
<1>2. NewLine \in Seq(Chars) /\ Len(NewLine) = 2 /\ NewLine[1] = "CR" /\ NewLine[2] = "LF"
  BY <1>1 DEF NewLine
<1>3. <<":", "SP">> \in Seq(Chars) /\ <<"SP">> \in Seq(Chars)
  BY <1>1
<1>4. <<"SP", "H", "T", "T", "P", "/">> \in Seq(Chars)
  BY <1>1
<1> QED BY <1>2, <1>3, <1>4

LEMMA HeaderLineParts ==
    ASSUME NEW n \in Seq(Chars), NEW v \in Seq(Chars)
    PROVE  /\ HeaderLine(n, v) \in Seq(Chars) /\ Len(HeaderLine(n, v)) = Len(n) + Len(v) + 4
           /\ StandsAt(n, HeaderLine(n, v), 1)
           /\ StandsAt(<<":", "SP">>, HeaderLine(n, v), Len(n) + 1)
           /\ StandsAt(v, HeaderLine(n, v), Len(n) + 3)
           /\ StandsAt(NewLine, HeaderLine(n, v), Len(n) + Len(v) + 3)
<1> DEFINE c == <<":", "SP">>
<1>0. c \in Seq(Chars) /\ Len(c) = 2 /\ NewLine \in Seq(Chars) /\ Len(NewLine) = 2
  BY CharsOf
<1>1. Len(n) \in Nat /\ Len(v) \in Nat
  BY LenProperties
<1> HIDE DEF c
<1> DEFINE x == n \o c
           y == x \o v
           z == y \o NewLine
<1>2. x \in Seq(Chars) /\ Len(x) = Len(n) + 2 /\ StandsAt(n, x, 1) /\ StandsAt(c, x, Len(n) + 1)
  BY <1>0, StandsFirst
<1> HIDE DEF x
<1>3. y \in Seq(Chars) /\ Len(y) = Len(x) + Len(v) /\ StandsAt(x, y, 1) /\ StandsAt(v, y, Len(x) + 1)
  BY <1>2, StandsFirst
<1> HIDE DEF y
<1>4. z \in Seq(Chars) /\ Len(z) = Len(y) + 2 /\ StandsAt(y, z, 1) /\ StandsAt(NewLine, z, Len(y) + 1)
  <2>1. y \in Seq(Chars) /\ NewLine \in Seq(Chars)
    BY <1>0, <1>3
  <2>2. /\ z \in Seq(Chars) /\ Len(z) = Len(y) + Len(NewLine)
        /\ StandsAt(y, z, 1) /\ StandsAt(NewLine, z, Len(y) + 1)
    BY <2>1, StandsFirst
  <2> QED BY <1>0, <2>2
<1> HIDE DEF z
<1>5. StandsAt(n, z, 1 + (1 + 1 - 1) - 1)
  <2>1. StandsAt(n, y, 1 + 1 - 1)
    BY <1>2, <1>3, StandsWithin
  <2> QED BY <1>4, <2>1, StandsWithin
<1>6. StandsAt(c, z, 1 + (1 + (Len(n) + 1) - 1) - 1)
  <2>1. StandsAt(c, y, 1 + (Len(n) + 1) - 1)
    BY <1>2, <1>3, StandsWithin
  <2> QED BY <1>4, <2>1, StandsWithin
<1>7. StandsAt(v, z, 1 + (Len(x) + 1) - 1)
  BY <1>3, <1>4, StandsWithin
<1>8. /\ 1 + (1 + 1 - 1) - 1 = 1 /\ 1 + (1 + (Len(n) + 1) - 1) - 1 = Len(n) + 1
      /\ 1 + (Len(x) + 1) - 1 = Len(n) + 3 /\ Len(y) + 1 = Len(n) + Len(v) + 3
      /\ Len(z) = Len(n) + Len(v) + 4
  BY <1>1, <1>2, <1>3, <1>4
<1>9. z = HeaderLine(n, v)
  BY DEF x, y, z, c, HeaderLine
<1>10. /\ StandsAt(n, z, 1) /\ StandsAt(c, z, Len(n) + 1) /\ StandsAt(v, z, Len(n) + 3)
       /\ StandsAt(NewLine, z, Len(n) + Len(v) + 3)
  BY <1>4, <1>5, <1>6, <1>7, <1>8
<1> QED BY <1>4, <1>8, <1>9, <1>10 DEF c

LEMMA NoBreaks == \A c : Token(c) \/ Text(c) => c # "CR"
BY DEF Token, Text, is_ctl

LEMMA HeaderLineStands ==
    ASSUME NEW n, NEW v, Name(n), Value(v), NEW t, NEW s, StandsAt(HeaderLine(n, v), t, s)
    PROVE  HeaderStands(t, s, n, v)
<1>0. /\ n \in Seq(Chars) /\ v \in Seq(Chars) /\ Len(n) \in Nat /\ Len(n) # 0 /\ Len(v) \in Nat
      /\ (\A i \in 1..Len(n) : Token(n[i])) /\ (\A i \in 1..Len(v) : Text(v[i]))
  <2>1. n \in Seq(Chars) /\ n # <<>> /\ v \in Seq(Chars)
    BY DEF Name, Value
  <2>2. Len(n) \in Nat /\ Len(v) \in Nat /\ DOMAIN n = 1..Len(n) /\ DOMAIN v = 1..Len(v)
    BY <2>1, LenProperties
  <2>3. Len(n) # 0
    BY <2>1, EmptySeq
  <2> QED BY <2>1, <2>2, <2>3 DEF Name, Value
<1> DEFINE L == HeaderLine(n, v)
           c == <<":", "SP">>
           k == s + Len(n)
           e == k + 2 + Len(v)
<1>1. /\ L \in Seq(Chars) /\ Len(L) = Len(n) + Len(v) + 4
      /\ StandsAt(n, L, 1) /\ StandsAt(c, L, Len(n) + 1) /\ StandsAt(v, L, Len(n) + 3)
      /\ StandsAt(NewLine, L, Len(n) + Len(v) + 3)
  BY <1>0, HeaderLineParts
<1>2. StandsAt(L, t, s)
  OBVIOUS
<1> HIDE DEF L
<1>3. s \in Nat \ {0} /\ t \in Seq(Chars) /\ Len(t) \in Nat /\ s + Len(L) - 1 <= Len(t)
  BY <1>2 DEF StandsAt
<1>4. /\ StandsAt(n, t, s + 1 - 1) /\ StandsAt(c, t, s + (Len(n) + 1) - 1)
      /\ StandsAt(v, t, s + (Len(n) + 3) - 1) /\ StandsAt(NewLine, t, s + (Len(n) + Len(v) + 3) - 1)
  BY <1>1, <1>2, StandsWithin
<1>5. /\ s + 1 - 1 = s /\ s + (Len(n) + 1) - 1 = k /\ s + (Len(n) + 3) - 1 = k + 2
      /\ s + (Len(n) + Len(v) + 3) - 1 = e /\ e = k + 2 + Len(v) /\ k = s + Len(n)
      /\ e + 1 <= Len(t) /\ k \in Nat /\ e \in Nat
  BY <1>0, <1>1, <1>3
<1> HIDE DEF k, e
<1>6. StandsAt(n, t, s) /\ StandsAt(c, t, k) /\ StandsAt(v, t, k + 2) /\ StandsAt(NewLine, t, e)
  BY <1>4, <1>5
<1> HIDE DEF c
<1>7. /\ SubSeq(t, s, k - 1) = n /\ \A i \in s..(k - 1) : Token(t[i])
  <2>1. /\ SubSeq(t, s, s + Len(n) - 1) = n
        /\ \A i \in s..(s + Len(n) - 1) : i - s + 1 \in 1..Len(n) /\ t[i] = n[i - s + 1]
    BY <1>6, StandsAll
  <2>2. s + Len(n) - 1 = k - 1
    BY <1>0, <1>3, <1>5
  <2> QED BY <1>0, <2>1, <2>2
<1>8. t[k] = ":" /\ t[k + 1] = "SP"
  <2>1. Len(c) = 2 /\ c[1] = ":" /\ c[2] = "SP"
    BY DEF c
  <2>2. c[1] = t[k + 1 - 1] /\ c[2] = t[k + 2 - 1]
    <3>1. \A i \in 1..2 : c[i] = t[k + i - 1]
      BY <1>6, <2>1 DEF StandsAt
    <3> QED BY <3>1
  <2>3. k + 1 - 1 = k /\ k + 2 - 1 = k + 1
    BY <1>5
  <2> QED BY <2>1, <2>2, <2>3
<1>9. /\ SubSeq(t, k + 2, e - 1) = v /\ \A i \in (k + 2)..(e - 1) : Text(t[i])
  <2>1. /\ SubSeq(t, k + 2, (k + 2) + Len(v) - 1) = v
        /\ \A i \in (k + 2)..((k + 2) + Len(v) - 1) :
              i - (k + 2) + 1 \in 1..Len(v) /\ t[i] = v[i - (k + 2) + 1]
    BY <1>6, StandsAll
  <2>2. (k + 2) + Len(v) - 1 = e - 1
    BY <1>0, <1>5
  <2> QED BY <1>0, <2>1, <2>2
<1>10. t[e] = "CR" /\ t[e + 1] = "LF"
  <2>1. NewLine[1] = t[e + 1 - 1] /\ NewLine[2] = t[e + 2 - 1]
    <3>1. \A i \in 1..2 : NewLine[i] = t[e + i - 1]
      BY <1>6, CharsOf DEF StandsAt
    <3> QED BY <3>1
  <2>2. e + 1 - 1 = e /\ e + 2 - 1 = e + 1
    BY <1>5
  <2> QED BY <2>1, <2>2, CharsOf
<1>11. LineEnds(t, s, e)
  <2>1. ASSUME NEW i \in s..(e - 1) PROVE t[i] # "CR"
    <3>1. CASE i \in s..(k - 1)
      BY <1>7, <3>1, NoBreaks
    <3>2. CASE i = k \/ i = k + 1
      BY <1>8, <3>2
    <3>3. CASE i \in (k + 2)..(e - 1)
      BY <1>9, <3>3, NoBreaks
    <3>4. i \in s..(k - 1) \/ i = k \/ i = k + 1 \/ i \in (k + 2)..(e - 1)
      BY <1>3, <1>5
    <3> QED BY <3>1, <3>2, <3>3, <3>4
  <2>2. s <= e
    BY <1>0, <1>3, <1>5
  <2> QED BY <1>10, <2>1, <2>2 DEF LineEnds
<1>12. FieldAt(t, s, k)
  <2>1. s < k
    BY <1>0, <1>3, <1>5
  <2> QED BY <1>7, <1>8, <2>1 DEF FieldAt, NameTo
<1>13. /\ FieldAt(t, s, k) /\ SubSeq(t, s, k - 1) = n
       /\ SubSeq(t, k + 2, e - 1) = v /\ \A i \in (k + 2)..(e - 1) : Text(t[i])
       /\ LineEnds(t, s, e) /\ t[e + 1] = "LF" /\ e + 1 <= Len(t)
  BY <1>5, <1>7, <1>9, <1>10, <1>11, <1>12
<1> QED BY <1>13 DEF HeaderStands, e, k

-----------------------------------------------------------------------------
(* The request line of an echo                                               *)

LEMMA StandsOn ==
    ASSUME NEW l, NEW u \in Seq(Chars), NEW v \in Seq(Chars), NEW r, StandsAt(l, u, r)
    PROVE  StandsAt(l, u \o v, r)
<1>1. StandsAt(u, u \o v, 1)
  BY StandsFirst
<1>2. StandsAt(l, u \o v, 1 + r - 1)
  BY <1>1, StandsWithin
<1>3. 1 + r - 1 = r
  BY DEF StandsAt
<1> QED BY <1>2, <1>3

Uri(u) == u \in Seq(Chars) /\ \A i \in 1..Len(u) : Text(u[i]) /\ u[i] # "SP"
VersionForm(v) ==
    /\ v \in Seq(Chars)
    /\ \E d \in 2..(Len(v) - 1) : v[d] = "." /\ \A i \in 1..Len(v) : i # d => is_digit(v[i])

HttpWord == <<"SP", "H", "T", "T", "P", "/">>

FirstLine(w, u, v) == w \o <<"SP">> \o u \o HttpWord \o v \o NewLine

RequestStands(t, w, u, v) ==
    LET i == Len(w) + 1
        j == i + Len(u) + 1
        f == j + 6 + Len(v)
    IN  /\ UriTo(t, i, j - 1) /\ t[j] = "SP"
        /\ SubSeq(t, 1, i - 1) = w /\ SubSeq(t, i + 1, j - 1) = u /\ SubSeq(t, j + 6, f - 1) = v
        /\ RequestLineTo(t, f - 1) /\ LineEnds(t, 1, f) /\ t[f + 1] = "LF" /\ f + 1 <= Len(t)

LEMMA FirstLineParts ==
    ASSUME NEW w \in Seq(Chars), NEW u \in Seq(Chars), NEW v \in Seq(Chars)
    PROVE  LET L == FirstLine(w, u, v)
               i == Len(w) + 1
               j == i + Len(u) + 1
           IN  /\ L \in Seq(Chars) /\ Len(L) = j + Len(v) + 7
               /\ StandsAt(w, L, 1) /\ StandsAt(<<"SP">>, L, i) /\ StandsAt(u, L, i + 1)
               /\ StandsAt(HttpWord, L, j) /\ StandsAt(v, L, j + 6) /\ StandsAt(NewLine, L, j + 6 + Len(v))
<1> DEFINE s == <<"SP">>
           i == Len(w) + 1
           j == i + Len(u) + 1
<1>0. /\ s \in Seq(Chars) /\ Len(s) = 1 /\ HttpWord \in Seq(Chars) /\ Len(HttpWord) = 6
      /\ NewLine \in Seq(Chars) /\ Len(NewLine) = 2
  BY CharsOf DEF HttpWord
<1>1. Len(w) \in Nat /\ Len(u) \in Nat /\ Len(v) \in Nat
  BY LenProperties
<1> HIDE DEF s
<1> DEFINE a == w \o s
           b == a \o u
           c == b \o HttpWord
           d == c \o v
           L == d \o NewLine
<1>2. /\ a \in Seq(Chars) /\ Len(a) = Len(w) + Len(s)
      /\ StandsAt(w, a, 1) /\ StandsAt(s, a, Len(w) + 1)
  BY <1>0, StandsFirst
<1> HIDE DEF a
<1>3. b \in Seq(Chars) /\ Len(b) = Len(a) + Len(u) /\ StandsAt(u, b, Len(a) + 1)
  BY <1>2, StandsFirst
<1>4. StandsAt(w, b, 1) /\ StandsAt(s, b, Len(w) + 1)
  BY <1>2, StandsOn
<1> HIDE DEF b
<1>5. c \in Seq(Chars) /\ Len(c) = Len(b) + Len(HttpWord) /\ StandsAt(HttpWord, c, Len(b) + 1)
  BY <1>0, <1>3, StandsFirst
<1>6. StandsAt(w, c, 1) /\ StandsAt(s, c, Len(w) + 1) /\ StandsAt(u, c, Len(a) + 1)
  BY <1>0, <1>3, <1>4, StandsOn
<1> HIDE DEF c
<1>7. d \in Seq(Chars) /\ Len(d) = Len(c) + Len(v) /\ StandsAt(v, d, Len(c) + 1)
  BY <1>5, StandsFirst
<1>8. /\ StandsAt(w, d, 1) /\ StandsAt(s, d, Len(w) + 1) /\ StandsAt(u, d, Len(a) + 1)
      /\ StandsAt(HttpWord, d, Len(b) + 1)
  BY <1>5, <1>6, StandsOn
<1> HIDE DEF d
<1>9. L \in Seq(Chars) /\ Len(L) = Len(d) + Len(NewLine) /\ StandsAt(NewLine, L, Len(d) + 1)
  <2>1. d \in Seq(Chars) /\ NewLine \in Seq(Chars)
    BY <1>0, <1>7
  <2> QED BY <2>1, StandsFirst
<1>10. /\ StandsAt(w, L, 1) /\ StandsAt(s, L, Len(w) + 1) /\ StandsAt(u, L, Len(a) + 1)
       /\ StandsAt(HttpWord, L, Len(b) + 1) /\ StandsAt(v, L, Len(c) + 1)
  <2>1. d \in Seq(Chars) /\ NewLine \in Seq(Chars)
    BY <1>0, <1>7
  <2> QED BY <1>7, <1>8, <2>1, StandsOn
<1> HIDE DEF L
<1>11. /\ Len(w) + 1 = i /\ Len(a) + 1 = i + 1 /\ Len(b) + 1 = j /\ Len(c) + 1 = j + 6
       /\ Len(d) + 1 = j + 6 + Len(v) /\ Len(L) = j + Len(v) + 7
  BY <1>0, <1>1, <1>2, <1>3, <1>5, <1>7, <1>9
<1>12. L = FirstLine(w, u, v)
  BY DEF L, d, c, b, a, s, FirstLine
<1> HIDE DEF i, j
<1>13. /\ L \in Seq(Chars) /\ Len(L) = j + Len(v) + 7
       /\ StandsAt(w, L, 1) /\ StandsAt(s, L, i) /\ StandsAt(u, L, i + 1)
       /\ StandsAt(HttpWord, L, j) /\ StandsAt(v, L, j + 6) /\ StandsAt(NewLine, L, j + 6 + Len(v))
  BY <1>9, <1>10, <1>11
<1> QED BY <1>12, <1>13 DEF i, j, s

LEMMA FirstLineStands ==
    ASSUME NEW w, NEW u, NEW v, Name(w), Uri(u), VersionForm(v),
           NEW t, StandsAt(FirstLine(w, u, v), t, 1)
    PROVE  RequestStands(t, w, u, v)
<1> DEFINE L == FirstLine(w, u, v)
           i == Len(w) + 1
           j == i + Len(u) + 1
           f == j + 6 + Len(v)
           s == <<"SP">>
<1>0. /\ w \in Seq(Chars) /\ u \in Seq(Chars) /\ v \in Seq(Chars)
      /\ Len(w) \in Nat /\ Len(w) # 0 /\ Len(u) \in Nat /\ Len(v) \in Nat
      /\ (\A k \in 1..Len(w) : Token(w[k])) /\ (\A k \in 1..Len(u) : Text(u[k]) /\ u[k] # "SP")
  <2>1. w \in Seq(Chars) /\ w # <<>> /\ u \in Seq(Chars) /\ v \in Seq(Chars)
    BY DEF Name, Uri, VersionForm
  <2>2. /\ Len(w) \in Nat /\ Len(u) \in Nat /\ Len(v) \in Nat
        /\ DOMAIN w = 1..Len(w) /\ DOMAIN u = 1..Len(u)
    BY <2>1, LenProperties
  <2>3. Len(w) # 0
    BY <2>1, EmptySeq
  <2> QED BY <2>1, <2>2, <2>3 DEF Name, Uri
<1>1. PICK d \in 2..(Len(v) - 1) : v[d] = "." /\ \A k \in 1..Len(v) : k # d => is_digit(v[k])
  BY DEF VersionForm
<1>2. /\ L \in Seq(Chars) /\ Len(L) = j + Len(v) + 7
      /\ StandsAt(w, L, 1) /\ StandsAt(s, L, i) /\ StandsAt(u, L, i + 1)
      /\ StandsAt(HttpWord, L, j) /\ StandsAt(v, L, j + 6) /\ StandsAt(NewLine, L, j + 6 + Len(v))
  BY <1>0, FirstLineParts
<1>3. StandsAt(L, t, 1)
  OBVIOUS
<1> HIDE DEF L
<1>4. /\ i \in Nat /\ j \in Nat /\ f \in Nat /\ 1 < i /\ i < j /\ i = Len(w) + 1 /\ j = i + Len(u) + 1
      /\ f = j + 6 + Len(v) /\ 2 < Len(v)
  BY <1>0, <1>1
<1> HIDE DEF i, j, f
<1>5. t \in Seq(Chars) /\ Len(t) \in Nat /\ f + 1 <= Len(t)
  <2>1. t \in Seq(Chars) /\ Len(t) \in Nat /\ 1 + Len(L) - 1 <= Len(t)
    BY <1>3 DEF StandsAt
  <2> QED BY <1>0, <1>2, <1>4, <2>1
<1>6. /\ StandsAt(w, t, 1) /\ StandsAt(s, t, i) /\ StandsAt(u, t, i + 1)
      /\ StandsAt(HttpWord, t, j) /\ StandsAt(v, t, j + 6) /\ StandsAt(NewLine, t, f)
  <2>1. /\ StandsAt(w, t, 1 + 1 - 1) /\ StandsAt(s, t, 1 + i - 1) /\ StandsAt(u, t, 1 + (i + 1) - 1)
        /\ StandsAt(HttpWord, t, 1 + j - 1) /\ StandsAt(v, t, 1 + (j + 6) - 1)
        /\ StandsAt(NewLine, t, 1 + (j + 6 + Len(v)) - 1)
    BY <1>2, <1>3, StandsWithin
  <2>2. /\ 1 + 1 - 1 = 1 /\ 1 + i - 1 = i /\ 1 + (i + 1) - 1 = i + 1 /\ 1 + j - 1 = j
        /\ 1 + (j + 6) - 1 = j + 6 /\ 1 + (j + 6 + Len(v)) - 1 = f
    BY <1>0, <1>4
  <2> QED BY <2>1, <2>2
<1> HIDE DEF s
<1>7. SubSeq(t, 1, i - 1) = w /\ \A k \in 1..(i - 1) : Token(t[k])
  <2>0. PICK r : r = 1
    OBVIOUS
  <2>1. /\ SubSeq(t, r, r + Len(w) - 1) = w
        /\ \A k \in r..(r + Len(w) - 1) : k - r + 1 \in 1..Len(w) /\ t[k] = w[k - r + 1]
    <3>1. StandsAt(w, t, r)
      BY <1>6, <2>0
    <3> QED BY <3>1, StandsAll
  <2>2. r + Len(w) - 1 = i - 1
    BY <1>0, <1>4, <2>0
  <2>3. SubSeq(t, r, i - 1) = w /\ \A k \in r..(i - 1) : Token(t[k])
    BY <1>0, <2>1, <2>2
  <2> QED BY <2>0, <2>3
<1>8. SubSeq(t, i + 1, j - 1) = u /\ \A k \in (i + 1)..(j - 1) : Text(t[k]) /\ t[k] # "SP"
  <2>1. /\ SubSeq(t, i + 1, (i + 1) + Len(u) - 1) = u
        /\ \A k \in (i + 1)..((i + 1) + Len(u) - 1) :
              k - (i + 1) + 1 \in 1..Len(u) /\ t[k] = u[k - (i + 1) + 1]
    BY <1>6, StandsAll
  <2>2. (i + 1) + Len(u) - 1 = j - 1
    BY <1>0, <1>4
  <2> QED BY <1>0, <2>1, <2>2
<1>9. /\ SubSeq(t, j + 6, f - 1) = v
      /\ \A k \in (j + 6)..(f - 1) : k - (j + 6) + 1 \in 1..Len(v) /\ t[k] = v[k - (j + 6) + 1]
  <2>1. /\ SubSeq(t, j + 6, (j + 6) + Len(v) - 1) = v
        /\ \A k \in (j + 6)..((j + 6) + Len(v) - 1) :
              k - (j + 6) + 1 \in 1..Len(v) /\ t[k] = v[k - (j + 6) + 1]
    BY <1>6, StandsAll
  <2>2. (j + 6) + Len(v) - 1 = f - 1
    BY <1>0, <1>4
  <2> QED BY <2>1, <2>2
<1>10. t[i] = "SP"
  <2>1. Len(s) = 1 /\ s[1] = "SP"
    BY DEF s
  <2>2. s[1] = t[i + 1 - 1]
    BY <1>6, <2>1 DEF StandsAt
  <2>3. i + 1 - 1 = i
    BY <1>4
  <2> QED BY <2>1, <2>2, <2>3
<1>11. t[j] = "SP" /\ \A k \in 1..5 : t[j + k] = Http[k]
  <2>1. /\ Len(HttpWord) = 6 /\ HttpWord[1] = "SP" /\ \A k \in 1..5 : HttpWord[k + 1] = Http[k]
    BY DEF HttpWord, Http
  <2>2. \A k \in 1..6 : HttpWord[k] = t[j + k - 1]
    BY <1>6, <2>1 DEF StandsAt
  <2>3. HttpWord[1] = t[j]
    <3>1. HttpWord[1] = t[j + 1 - 1] /\ j + 1 - 1 = j
      BY <1>4, <2>2
    <3> QED BY <3>1
  <2>4. ASSUME NEW k \in 1..5 PROVE t[j + k] = Http[k]
    <3>1. k + 1 \in 1..6 /\ j + (k + 1) - 1 = j + k
      BY <1>4
    <3> QED BY <2>1, <2>2, <3>1
  <2> QED BY <2>1, <2>3, <2>4
<1>12. t[f] = "CR" /\ t[f + 1] = "LF"
  <2>1. \A k \in 1..2 : NewLine[k] = t[f + k - 1]
    BY <1>6, CharsOf DEF StandsAt
  <2>2. f + 1 - 1 = f /\ f + 2 - 1 = f + 1
    BY <1>4
  <2>3. NewLine[1] = t[f + 1 - 1] /\ NewLine[2] = t[f + 2 - 1]
    BY <2>1
  <2> QED BY <2>2, <2>3, CharsOf
<1>13. UriTo(t, i, j - 1)
  <2>1. MethodTo(t, i - 1)
    BY <1>7 DEF MethodTo
  <2>2. i <= j - 1
    BY <1>4
  <2> QED BY <1>4, <1>8, <1>10, <2>1, <2>2 DEF UriTo
<1> DEFINE e == j + 5 + d
<1>14. /\ e \in Nat /\ j + 6 < e /\ e < f - 1 /\ t[e] = "."
       /\ \A k \in (j + 6)..(f - 1) : k # e => is_digit(t[k])
  <2>1. e \in Nat /\ j + 6 < e /\ e < f - 1 /\ e - (j + 6) + 1 = d /\ e \in (j + 6)..(f - 1)
    BY <1>0, <1>1, <1>4
  <2>2. t[e] = "."
    BY <1>1, <1>9, <2>1
  <2>3. ASSUME NEW k \in (j + 6)..(f - 1), k # e PROVE is_digit(t[k])
    <3>1. k - (j + 6) + 1 \in 1..Len(v) /\ t[k] = v[k - (j + 6) + 1] /\ k - (j + 6) + 1 # d
      BY <1>4, <1>9, <2>1, <2>3
    <3> QED BY <1>1, <3>1
  <2> QED BY <2>1, <2>2, <2>3
<1> HIDE DEF e
<1>15. RequestLineTo(t, f - 1)
  <2>1. UriEnds(t, j)
    <3>1. i \in 1..(j - 1)
      BY <1>4
    <3> QED BY <1>11, <1>13, <3>1 DEF UriEnds
  <2>2. HttpTo(t, j, 5)
    BY <1>11, <2>1 DEF HttpTo
  <2>3. MajorTo(t, j, e - 1)
    <3>1. j + 6 <= e - 1 /\ \A k \in (j + 6)..(e - 1) : k \in (j + 6)..(f - 1) /\ k # e
      BY <1>4, <1>14
    <3> QED BY <1>14, <2>2, <3>1 DEF MajorTo
  <2>4. DotAt(t, j, e)
    BY <1>14, <2>3 DEF DotAt
  <2>5. MinorTo(t, j, e, f - 1)
    <3>1. \A k \in (e + 1)..(f - 1) : k \in (j + 6)..(f - 1) /\ k # e
      BY <1>4, <1>14
    <3> QED BY <1>14, <2>4, <3>1 DEF MinorTo
  <2>6. j \in 1..(f - 1) /\ e \in 1..(f - 1)
    BY <1>4, <1>14
  <2> QED BY <2>5, <2>6 DEF RequestLineTo
<1>16. LineEnds(t, 1, f)
  <2>1. ASSUME NEW k \in 1..(f - 1) PROVE t[k] # "CR"
    <3>1. CASE k \in 1..(i - 1)
      BY <1>7, <3>1, NoBreaks
    <3>2. CASE k = i \/ k = j
      BY <1>10, <1>11, <3>2
    <3>3. CASE k \in (i + 1)..(j - 1)
      BY <1>8, <3>3, NoBreaks
    <3>4. CASE k \in (j + 1)..(j + 5)
      <4>1. k - j \in 1..5 /\ j + (k - j) = k
        BY <1>4, <3>4
      <4>2. t[k] = Http[k - j]
        BY <1>11, <4>1
      <4> QED BY <4>1, <4>2 DEF Http
    <3>5. CASE k \in (j + 6)..(f - 1)
      BY <1>14, <3>5 DEF is_digit
    <3>6. \/ k \in 1..(i - 1) \/ k = i \/ k = j \/ k \in (i + 1)..(j - 1) \/ k \in (j + 1)..(j + 5)
          \/ k \in (j + 6)..(f - 1)
      BY <1>4
    <3> QED BY <3>1, <3>2, <3>3, <3>4, <3>5, <3>6
  <2> QED BY <1>4, <1>12, <2>1 DEF LineEnds
<1>17. /\ UriTo(t, i, j - 1) /\ t[j] = "SP"
       /\ SubSeq(t, 1, i - 1) = w /\ SubSeq(t, i + 1, j - 1) = u /\ SubSeq(t, j + 6, f - 1) = v
       /\ RequestLineTo(t, f - 1) /\ LineEnds(t, 1, f) /\ t[f + 1] = "LF" /\ f + 1 <= Len(t)
  BY <1>5, <1>7, <1>8, <1>9, <1>11, <1>12, <1>13, <1>15, <1>16
<1> QED BY <1>17 DEF RequestStands, i, j, f

-----------------------------------------------------------------------------
(* The headers of an echo                                                    *)

\* SetToSeq lists a finite set, and each element once.
Lists(names, n, S) ==
    /\ n \in Nat /\ names \in [1..n -> S]
    /\ \A i \in 1..n : \A k \in 1..n : names[i] = names[k] => i = k
    /\ S = {names[i] : i \in 1..n}

LEMMA Enumerated == ASSUME NEW S, IsFiniteSet(S) PROVE Lists(SetToSeq(S), Cardinality(S), S)
<1> DEFINE n == Cardinality(S)
           names == SetToSeq(S)
<1>1. n \in Nat /\ ExistsBijection(1..n, S)
  BY FS_CardinalityType
<1>2. PICK b : b \in Bijection(1..n, S)
  BY <1>1 DEF ExistsBijection
<1>3. b \in [1..n -> S] /\ IsInjective(b)
  BY <1>2 DEF Bijection, Injection
<1>4. names \in [1..n -> S] /\ IsInjective(names)
  BY <1>3 DEF SetToSeq
<1> HIDE DEF names
<1>5. names \in Injection(1..n, S)
  BY <1>4 DEF Injection
<1>6. names \in Surjection(1..n, S)
  <2>1. IsFiniteSet(1..n) /\ Cardinality(1..n) = n
    BY <1>1, FS_Interval
  <2> QED BY <1>5, <2>1, FS_Injection
<1>7. S = {names[i] : i \in 1..n}
  BY <1>4, <1>6 DEF Surjection
<1> QED BY <1>1, <1>4, <1>7 DEF Lists, IsInjective, names

\* The headers headers, listed by names, stand in t: the i-th between at[i - 1] and at[i].
HeadersStand(t, names, n, headers, at) ==
    /\ at \in [0..n -> Nat]
    /\ \A i \in 1..n :
          /\ HeaderStands(t, at[i - 1], names[i], headers[names[i]])
          /\ at[i] = at[i - 1] + Len(names[i]) + Len(headers[names[i]]) + 4

\* A header that stands behind whole lines is one line more, and enters its value.
LEMMA HeaderIsRead ==
    ASSUME NEW t \in Seq(Chars), NEW s \in Nat, Lines(t, s),
           NEW n \in Seq(Chars), n # <<>>, NEW v \in Seq(Chars), HeaderStands(t, s, n, v)
    PROVE  LET q == s + Len(n) + Len(v) + 4
           IN  Lines(t, q) /\ Got(t, q - 1) = With(Got(t, s - 1), n, v)
<1>1. Len(n) \in Nat /\ Len(n) # 0 /\ Len(v) \in Nat /\ Len(t) \in Nat
  BY LenProperties, EmptySeq
<1>2. s >= 3 /\ t[s - 2] = "CR" /\ t[s - 1] = "LF"
  BY DEF Lines
<1> DEFINE k == s + Len(n)
           e == k + 2 + Len(v)
<1>3. /\ FieldAt(t, s, k) /\ SubSeq(t, s, k - 1) = n
      /\ SubSeq(t, k + 2, e - 1) = v /\ \A i \in (k + 2)..(e - 1) : Text(t[i])
      /\ LineEnds(t, s, e) /\ t[e + 1] = "LF" /\ e + 1 <= Len(t)
  BY DEF HeaderStands
<1>4. k \in Nat /\ e \in Nat /\ s < k /\ k + 2 <= e /\ s + Len(n) + Len(v) + 4 = e + 2
  BY <1>1
<1> HIDE DEF k, e
<1>5. HeaderTo(t, s, e - 1)
  <2>1. k \in (s + 1)..((e - 1) - 1)
    BY <1>4
  <2>2. FieldTo(t, s, e - 1)
    BY <1>3, <2>1 DEF FieldTo, FieldAt
  <2> QED BY <2>2 DEF HeaderTo
<1>6. Lines(t, e + 2)
  <2>1. Ended(t, s, e)
    BY <1>3, <1>5 DEF Ended
  <2>2. s \in 1..e
    BY <1>2, <1>4
  <2> QED BY <1>4, <2>1, <2>2, LinesGrow
<1>7. With(Got(t, s - 1), n, v) = Got(t, s)
  <2>1. k \in s..((e - 1) - 1)
    BY <1>4
  <2>2. FieldRead(t, s, e - 1, n, With(Got(t, s - 1), n, v))
    BY <1>3, <2>1 DEF FieldRead
  <2>3. e \in 1..Len(t) /\ s \in 3..e
    BY <1>1, <1>2, <1>3, <1>4
  <2> QED BY <1>2, <1>3, <2>2, <2>3, FieldGot
<1>8. Got(t, e + 1) = Got(t, s)
  <2>1. s \in 1..e
    BY <1>2, <1>4
  <2> QED BY <1>2, <1>3, <1>4, <2>1, LineGot
<1>9. (e + 2) - 1 = e + 1
  BY <1>4
<1> QED BY <1>4, <1>6, <1>7, <1>8, <1>9

Adds(S, n, headers) == With([m \in S |-> headers[m]], n, headers[n]) = [m \in S \cup {n} |-> headers[m]]

LEMMA WithNew ==
    ASSUME NEW S, NEW n, n \notin S, NEW headers, headers[n] \in Seq(Chars),
           \A m \in S : headers[m] \in Seq(Chars)
    PROVE  Adds(S, n, headers)
<1> DEFINE g == [m \in S |-> headers[m]]
<1>1. ASSUME NEW m \in S \cup {n}
      PROVE  (IF m \in DOMAIN g THEN g[m] ELSE <<>>) \o (IF m = n THEN headers[n] ELSE <<>>) = headers[m]
  <2>1. headers[m] \in Seq(Chars)
    OBVIOUS
  <2>2. headers[m] \o <<>> = headers[m] /\ <<>> \o headers[m] = headers[m]
    BY <2>1, ConcatEmptySeq
  <2>3. CASE m = n
    BY <2>2, <2>3
  <2>4. CASE m # n
    BY <2>2, <2>4
  <2> QED BY <2>3, <2>4
<1>2. DOMAIN g = S
  OBVIOUS
<1> HIDE DEF g
<1> QED BY <1>1, <1>2 DEF Adds, With, g

\* Whole lines up to q enter headers.
Enter(t, q, headers) == Lines(t, q) /\ Got(t, q - 1) = [m \in DOMAIN headers |-> headers[m]]

LEMMA HeadersAreRead ==
    ASSUME NEW t \in Seq(Chars), NEW names, NEW n, NEW headers, Lists(names, n, DOMAIN headers),
           \A m \in DOMAIN headers : m \in Seq(Chars) /\ m # <<>> /\ headers[m] \in Seq(Chars),
           NEW at, HeadersStand(t, names, n, headers, at),
           Lines(t, at[0]), Got(t, at[0] - 1) = Fresh.headers_
    PROVE  Enter(t, at[n], headers)
<1> DEFINE S(i) == {names[k] : k \in 1..i}
           A == {i \in Nat : i <= n => Lines(t, at[i]) /\ Got(t, at[i] - 1) = [m \in S(i) |-> headers[m]]}
<1>0. /\ n \in Nat /\ names \in [1..n -> DOMAIN headers]
      /\ \A i \in 1..n : \A k \in 1..n : names[i] = names[k] => i = k
      /\ DOMAIN headers = S(n)
  BY DEF Lists
<1>1. 0 \in A
  <2>1. S(0) = {}
    OBVIOUS
  <2>2. Fresh.headers_ = [m \in {} |-> headers[m]]
    BY DEF Fresh
  <2> QED BY <2>1, <2>2
<1>2. ASSUME NEW i \in Nat, i \in A PROVE i + 1 \in A
  <2> SUFFICES ASSUME i + 1 <= n
               PROVE  /\ Lines(t, at[i + 1])
                      /\ Got(t, at[i + 1] - 1) = [m \in S(i + 1) |-> headers[m]]
    OBVIOUS
  <2>1. i <= n /\ i \in 0..n /\ i + 1 \in 1..n /\ (i + 1) - 1 = i
    BY <1>0
  <2> DEFINE m1 == names[i + 1]
             v1 == headers[m1]
  <2>2. m1 \in DOMAIN headers /\ m1 \in Seq(Chars) /\ m1 # <<>> /\ v1 \in Seq(Chars)
    BY <1>0, <2>1
  <2>3. /\ HeaderStands(t, at[i], m1, v1) /\ at[i + 1] = at[i] + Len(m1) + Len(v1) + 4
        /\ at[i] \in Nat
    BY <2>1 DEF HeadersStand
  <2>4. Lines(t, at[i]) /\ Got(t, at[i] - 1) = [m \in S(i) |-> headers[m]]
    BY <1>2, <2>1
  <2>5. m1 \notin S(i) /\ S(i + 1) = S(i) \cup {m1} /\ S(i) \subseteq DOMAIN headers
    <3>1. \A k \in 1..i : k \in 1..n /\ k # i + 1 /\ k \in 1..(i + 1)
      BY <1>0, <2>1
    <3>2. \A k \in 1..(i + 1) : k \in 1..i \/ k = i + 1
      OBVIOUS
    <3>3. i + 1 \in 1..(i + 1)
      OBVIOUS
    <3> QED BY <1>0, <2>1, <3>1, <3>2, <3>3
  <2> HIDE DEF m1, S
  <2>6. Lines(t, at[i + 1]) /\ Got(t, at[i + 1] - 1) = With(Got(t, at[i] - 1), m1, v1)
    BY <2>2, <2>3, <2>4, HeaderIsRead
  <2>7. With([m \in S(i) |-> headers[m]], m1, headers[m1]) = [m \in S(i) \cup {m1} |-> headers[m]]
    <3>1. \A m \in S(i) : headers[m] \in Seq(Chars)
      BY <2>5
    <3>2. Adds(S(i), m1, headers)
      BY <2>2, <2>5, <3>1, WithNew
    <3> QED BY <3>2 DEF Adds
  <2> QED BY <2>4, <2>5, <2>6, <2>7
<1> HIDE DEF A
<1>3. n \in A
  BY <1>0, <1>1, <1>2, Induction
<1> QED BY <1>0, <1>3 DEF A, Enter

-----------------------------------------------------------------------------
(* An echo is a whole head                                                   *)

\* A request that can be sent.
Sendable(r) ==
    /\ RequestType(r) /\ Uri(r.uri_) /\ VersionForm(r.http_version_)
    /\ IsFiniteSet(DOMAIN r.headers_)
    /\ \A m \in DOMAIN r.headers_ : m # <<>> /\ Value(r.headers_[m])

LineList(headers, names, n) == [i \in 1..n |-> HeaderLine(names[i], headers[names[i]])]

LEMMA HeaderLinesAre ==
    ASSUME NEW headers, IsFiniteSet(DOMAIN headers), HeadersType(headers)
    PROVE  LET names == SetToSeq(DOMAIN headers)
               n     == Cardinality(DOMAIN headers)
               ss    == LineList(headers, names, n)
           IN  /\ Lists(names, n, DOMAIN headers)
               /\ ss \in Seq(Seq(Chars)) /\ Len(ss) = n
               /\ JoinsTo(Chars, ss, HeaderLines(headers))
<1> DEFINE names == SetToSeq(DOMAIN headers)
           n     == Cardinality(DOMAIN headers)
           ss    == LineList(headers, names, n)
<1>1. Lists(names, n, DOMAIN headers)
  BY Enumerated
<1>2. HeaderLines(headers) = FlattenSeq(ss)
  BY Zenon DEF HeaderLines, LineList, HeaderLine
<1> HIDE DEF names, n
<1>3. n \in Nat /\ names \in [1..n -> DOMAIN headers]
  BY <1>1 DEF Lists
<1>4. ASSUME NEW i \in 1..n PROVE HeaderLine(names[i], headers[names[i]]) \in Seq(Chars)
  <2>1. names[i] \in DOMAIN headers
    BY <1>3
  <2>2. names[i] \in Seq(Chars) /\ headers[names[i]] \in Seq(Chars)
    BY <2>1 DEF HeadersType
  <2> QED BY <2>2, HeaderLineParts
<1>5. ss \in [1..n -> Seq(Chars)]
  BY <1>4 DEF LineList
<1> HIDE DEF ss
<1>6. ss \in Seq(Seq(Chars)) /\ Len(ss) = n
  BY <1>3, <1>5
<1>7. JoinsTo(Chars, ss, HeaderLines(headers))
  BY <1>2, <1>6, Flattened
<1> QED BY <1>1, <1>6, <1>7 DEF ss, names, n

LEMMA HeaderLinesType ==
    ASSUME NEW headers, IsFiniteSet(DOMAIN headers), HeadersType(headers)
    PROVE  HeaderLines(headers) \in Seq(Chars)
<1>1. PICK ss : Len(ss) \in Nat /\ JoinsTo(Chars, ss, HeaderLines(headers))
  <2>1. PICK ss : ss \in Seq(Seq(Chars)) /\ JoinsTo(Chars, ss, HeaderLines(headers))
    BY HeaderLinesAre
  <2> QED BY <2>1, LenProperties
<1>2. PICK a : Joined(Chars, ss, a) /\ HeaderLines(headers) = a[Len(ss)]
  BY <1>1 DEF JoinsTo
<1>3. Len(ss) \in 0..Len(ss)
  BY <1>1
<1> QED BY <1>2, <1>3 DEF Joined

\* Its header lines stand in the text one behind the other.
HeadersStandFrom(t, headers, q) ==
    LET names == SetToSeq(DOMAIN headers)
        n     == Cardinality(DOMAIN headers)
    IN  /\ Lists(names, n, DOMAIN headers)
        /\ \E at : /\ HeadersStand(t, names, n, headers, at)
                   /\ at[0] = q /\ at[n] = q + Len(HeaderLines(headers))

LEMMA HeaderLinesStand ==
    ASSUME NEW headers, IsFiniteSet(DOMAIN headers),
           \A m \in DOMAIN headers : Name(m) /\ Value(headers[m]),
           NEW t, NEW q, StandsAt(HeaderLines(headers), t, q)
    PROVE  HeadersStandFrom(t, headers, q)
<1> DEFINE names == SetToSeq(DOMAIN headers)
           n     == Cardinality(DOMAIN headers)
           ss    == LineList(headers, names, n)
<1>1. /\ Lists(names, n, DOMAIN headers)
      /\ Len(ss) = n /\ JoinsTo(Chars, ss, HeaderLines(headers))
  <2>1. HeadersType(headers)
    BY DEF HeadersType, Name, Value
  <2> QED BY <2>1, HeaderLinesAre
<1>2. \A i \in 1..n : ss[i] = HeaderLine(names[i], headers[names[i]])
  BY DEF LineList
<1> HIDE DEF names, n, ss
<1>3. n \in Nat /\ names \in [1..n -> DOMAIN headers]
  BY <1>1 DEF Lists
<1>4. PICK a : Joined(Chars, ss, a) /\ HeaderLines(headers) = a[n]
  BY <1>1 DEF JoinsTo
<1> DEFINE at == [i \in 0..n |-> q + Len(a[i])]
<1>5. q \in Nat \ {0}
  BY DEF StandsAt
<1>6. /\ \A i \in 0..n : a[i] \in Seq(Chars) /\ Len(a[i]) \in Nat
      /\ Len(a[0]) = 0
  <2>1. a \in [0..n -> Seq(Chars)] /\ a[0] = <<>>
    BY <1>1, <1>4 DEF Joined
  <2>2. \A i \in 0..n : a[i] \in Seq(Chars)
    BY <2>1
  <2> QED BY <2>1, <2>2, LenProperties
<1>7. at \in [0..n -> Nat]
  BY <1>5, <1>6
<1>8. ASSUME NEW i \in 1..n
      PROVE  /\ HeaderStands(t, at[i - 1], names[i], headers[names[i]])
             /\ at[i] = at[i - 1] + Len(names[i]) + Len(headers[names[i]]) + 4
  <2> DEFINE m == names[i]
             v == headers[m]
  <2>1. m \in DOMAIN headers /\ Name(m) /\ Value(v)
    BY <1>3
  <2>2. m \in Seq(Chars) /\ v \in Seq(Chars) /\ Len(m) \in Nat /\ Len(v) \in Nat
    BY <2>1, LenProperties DEF Name, Value
  <2>3. ss[i] = HeaderLine(m, v) /\ ss[i] \in Seq(Chars) /\ Len(ss[i]) = Len(m) + Len(v) + 4
    BY <1>2, <2>2, HeaderLineParts
  <2> HIDE DEF m, v
  <2>4. StandsAt(ss[i], a[n], Len(a[i - 1]) + 1) /\ Len(a[i]) = Len(a[i - 1]) + Len(ss[i])
    <3>1. \A k \in 1..Len(ss) : ss[k] \in Seq(Chars)
      <4> SUFFICES ASSUME NEW k \in 1..n PROVE ss[k] \in Seq(Chars)
        BY <1>1
      <4>1. names[k] \in DOMAIN headers
        BY <1>3
      <4>2. names[k] \in Seq(Chars) /\ headers[names[k]] \in Seq(Chars)
        BY <4>1 DEF Name, Value
      <4> QED BY <1>2, <4>2, HeaderLineParts
    <3>2. i \in 1..Len(ss) /\ Len(ss) \in Nat
      BY <1>1, <1>3
    <3> QED BY <1>1, <1>4, <3>1, <3>2, JoinedStands
  <2>5. StandsAt(ss[i], t, q + (Len(a[i - 1]) + 1) - 1)
    BY <1>4, <2>4, StandsWithin
  <2>6. i - 1 \in 0..n /\ i \in 0..n
    BY <1>3
  <2>7. at[i - 1] = q + Len(a[i - 1]) /\ at[i] = q + Len(a[i]) /\ Len(a[i - 1]) \in Nat
    BY <1>6, <2>6
  <2> HIDE DEF at
  <2>8. q + (Len(a[i - 1]) + 1) - 1 = at[i - 1]
    BY <1>5, <2>7
  <2>9. HeaderStands(t, at[i - 1], m, v)
    BY <2>1, <2>3, <2>5, <2>8, HeaderLineStands
  <2>10. at[i] = at[i - 1] + Len(m) + Len(v) + 4
    <3>1. Len(a[i]) = Len(a[i - 1]) + (Len(m) + Len(v) + 4)
      BY <2>3, <2>4
    <3>2. PICK x \in Nat, y \in Nat, z \in Nat : x = Len(a[i - 1]) /\ y = Len(m) /\ z = Len(v)
      BY <2>2, <2>7
    <3>3. at[i - 1] = q + x /\ at[i] = q + (x + (y + z + 4))
      BY <2>7, <3>1, <3>2
    <3>4. q + (x + (y + z + 4)) = (q + x) + y + z + 4
      BY <1>5
    <3> QED BY <3>2, <3>3, <3>4
  <2> QED BY <2>9, <2>10 DEF m, v
<1>9. at[0] = q /\ at[n] = q + Len(HeaderLines(headers))
  <2>1. 0 \in 0..n /\ n \in 0..n
    BY <1>3
  <2>2. at[0] = q + Len(a[0]) /\ at[n] = q + Len(a[n])
    BY <2>1
  <2>3. q + 0 = q
    BY <1>5
  <2> QED BY <1>4, <1>6, <2>2, <2>3
<1> HIDE DEF at
<1>10. HeadersStand(t, names, n, headers, at)
  BY <1>7, <1>8 DEF HeadersStand
<1> QED BY <1>1, <1>9, <1>10 DEF HeadersStandFrom, names, n

LEMMA FilledIs ==
    ASSUME NEW headers, IsFiniteSet(DOMAIN headers)
    PROVE  /\ DOMAIN Filled(headers) \subseteq DOMAIN headers
           /\ IsFiniteSet(DOMAIN Filled(headers))
           /\ \A m \in DOMAIN Filled(headers) : Filled(headers)[m] = headers[m]
           /\ Filled(headers) = [m \in DOMAIN Filled(headers) |-> Filled(headers)[m]]
<1> DEFINE S == {m \in DOMAIN headers : headers[m] # <<>>}
<1>1. Filled(headers) = [m \in S |-> headers[m]]
  BY DEF Filled, Restrict
<1>2. S \subseteq DOMAIN headers
  OBVIOUS
<1> HIDE DEF S
<1>3. IsFiniteSet(S)
  BY <1>2, FS_Subset
<1> QED BY <1>1, <1>2, <1>3

LEMMA WordIs == ASSUME NEW m PROVE Name(Word(m))
<1>1. Word(m) = Get \/ Word(m) = Post \/ Word(m) = Put \/ Word(m) = Unknown
  BY Zenon DEF Word
<1>2. PICK w \in {Get, Post, Put, Unknown} : w = Word(m)
  BY <1>1
<1> QED BY <1>2, EchoRequestsAssumption DEF Name

\* The four words are four.
LEMMA FourWords ==
    /\ Get # Post /\ Get # Put /\ Get # Unknown
    /\ Post # Put /\ Post # Unknown /\ Put # Unknown
<1>1. ASSUME NEW a, NEW b, NEW c PROVE Cardinality({a, b, c}) <= 3 /\ IsFiniteSet({a, b, c})
  <2>1. IsFiniteSet({}) /\ Cardinality({}) = 0
    BY FS_EmptySet
  <2>2. ASSUME NEW S, NEW x, IsFiniteSet(S)
        PROVE  IsFiniteSet(S \cup {x}) /\ Cardinality(S \cup {x}) <= Cardinality(S) + 1
    <3>1. Cardinality(S) \in Nat
      BY <2>2, FS_CardinalityType
    <3> QED BY <2>2, <3>1, FS_AddElement
  <2>3. PICK A : A = {} \cup {a}
    OBVIOUS
  <2>4. IsFiniteSet(A) /\ Cardinality(A) <= 1
    <3>1. IsFiniteSet({} \cup {a}) /\ Cardinality({} \cup {a}) <= Cardinality({}) + 1
      BY <2>1, <2>2
    <3> QED BY <2>1, <2>3, <3>1
  <2>5. PICK B : B = A \cup {b}
    OBVIOUS
  <2>6. IsFiniteSet(B) /\ Cardinality(B) <= 2
    <3>1. IsFiniteSet(B) /\ Cardinality(B) <= Cardinality(A) + 1
      BY <2>2, <2>4, <2>5
    <3>2. Cardinality(A) \in Nat /\ Cardinality(B) \in Nat
      BY <2>4, <3>1, FS_CardinalityType
    <3> QED BY <2>4, <3>1, <3>2
  <2>7. PICK C : C = B \cup {c}
    OBVIOUS
  <2>8. IsFiniteSet(C) /\ Cardinality(C) <= 3
    <3>1. IsFiniteSet(C) /\ Cardinality(C) <= Cardinality(B) + 1
      BY <2>2, <2>6, <2>7
    <3>2. Cardinality(B) \in Nat /\ Cardinality(C) \in Nat
      BY <2>6, <3>1, FS_CardinalityType
    <3> QED BY <2>6, <3>1, <3>2
  <2>9. C = {a, b, c}
    BY <2>3, <2>5, <2>7
  <2> QED BY <2>8, <2>9
<1>2. ASSUME NEW a, NEW b, NEW c, {Get, Post, Put, Unknown} = {a, b, c} PROVE FALSE
  <2>1. Cardinality({a, b, c}) = 4
    BY <1>2, EchoRequestsAssumption
  <2>2. Cardinality({a, b, c}) <= 3
    BY <1>1
  <2>3. ~(4 <= 3)
    OBVIOUS
  <2> QED BY <2>1, <2>2, <2>3
<1>3. Get # Post /\ Get # Put /\ Get # Unknown
  <2>1. Get = Post \/ Get = Put \/ Get = Unknown => {Get, Post, Put, Unknown} = {Post, Put, Unknown}
    OBVIOUS
  <2> QED BY <1>2, <2>1
<1>4. Post # Put /\ Post # Unknown
  <2>1. Post = Put \/ Post = Unknown => {Get, Post, Put, Unknown} = {Get, Put, Unknown}
    OBVIOUS
  <2> QED BY <1>2, <2>1
<1>5. Put # Unknown
  <2>1. Put = Unknown => {Get, Post, Put, Unknown} = {Get, Post, Unknown}
    OBVIOUS
  <2> QED BY <1>2, <2>1
<1> QED BY <1>3, <1>4, <1>5

LEMMA WordOfMethod ==
    ASSUME NEW m \in {"GET", "POST", "PUT", "UNKNOWN"}
    PROVE  MethodOf(Word(m)) = m
<1>1. CASE m = "GET"
  <2>1. Word(m) = Get
    BY <1>1, Zenon DEF Word
  <2>2. Get # Post /\ Get # Put
    BY FourWords
  <2> QED BY <1>1, <2>1, <2>2 DEF MethodOf
<1>2. CASE m = "POST"
  <2>1. Word(m) = Post
    BY <1>2 DEF Word
  <2>2. Get # Post /\ Put # Post
    BY FourWords
  <2> QED BY <1>2, <2>1, <2>2 DEF MethodOf
<1>3. CASE m = "PUT"
  <2>1. Word(m) = Put
    BY <1>3 DEF Word
  <2>2. Put # Post /\ Get # Put
    BY FourWords
  <2> QED BY <1>3, <2>1, <2>2 DEF MethodOf
<1>4. CASE m = "UNKNOWN"
  <2>1. Word(m) = Unknown
    BY <1>4 DEF Word
  <2>2. Unknown # Post /\ Unknown # Put /\ Unknown # Get
    BY FourWords
  <2> QED BY <1>4, <2>1, <2>2 DEF MethodOf
<1> QED BY <1>1, <1>2, <1>3, <1>4

\* What the text of an echo consists of.
LEMMA EchoIs ==
    ASSUME NEW r
    PROVE  convert_to_rawbody(r) =
              FirstLine(Word(r.method_), r.uri_, r.http_version_) \o HeaderLines(Filled(r.headers_)) \o NewLine
BY Zenon DEF convert_to_rawbody, FirstLine, HttpWord

LEMMA EchoParts ==
    ASSUME NEW r, Sendable(r)
    PROVE  /\ HeadersType(Filled(r.headers_)) /\ IsFiniteSet(DOMAIN Filled(r.headers_))
           /\ FirstLine(Word(r.method_), r.uri_, r.http_version_) \in Seq(Chars)
           /\ HeaderLines(Filled(r.headers_)) \in Seq(Chars)
           /\ convert_to_rawbody(r) \in Seq(Chars)
<1> DEFINE h == Filled(r.headers_)
           L == FirstLine(Word(r.method_), r.uri_, r.http_version_)
           H == HeaderLines(h)
<1>1. HeadersType(h) /\ IsFiniteSet(DOMAIN h)
  BY FilledIs DEF Sendable, RequestType, HeadersType
<1>2. L \in Seq(Chars)
  <2>1. Word(r.method_) \in Seq(Chars) /\ r.uri_ \in Seq(Chars) /\ r.http_version_ \in Seq(Chars)
    BY WordIs DEF Name, Sendable, RequestType
  <2> QED BY <2>1, FirstLineParts
<1> HIDE DEF h, L
<1>3. H \in Seq(Chars)
  BY <1>1, HeaderLinesType
<1>4. NewLine \in Seq(Chars)
  BY CharsOf
<1> HIDE DEF H
<1>5. (L \o H) \o NewLine \in Seq(Chars)
  <2>1. L \o H \in Seq(Chars)
    BY <1>2, <1>3, StandsFirst
  <2> QED BY <1>4, <2>1, StandsFirst
<1> QED BY <1>1, <1>2, <1>3, <1>5, EchoIs DEF h, L, H

\* The text is a whole head that says what the request does.
EchoRead(t, r) ==
    /\ t \in Seq(Chars) /\ RequestStands(t, Word(r.method_), r.uri_, r.http_version_)
    /\ Whole(t, Len(t)) /\ Got(t, Len(t) - 2) = Filled(r.headers_)

LEMMA EchoStands ==
    ASSUME NEW r, Sendable(r), \A m \in DOMAIN r.headers_ : \A i \in DOMAIN m : Token(m[i])
    PROVE  EchoRead(convert_to_rawbody(r), r)
<1> DEFINE w == Word(r.method_)
           u == r.uri_
           v == r.http_version_
           h == Filled(r.headers_)
           L == FirstLine(w, u, v)
           H == HeaderLines(h)
           t == convert_to_rawbody(r)
           f == Len(w) + 1 + Len(u) + 1 + 6 + Len(v)
<1>1. L \in Seq(Chars) /\ H \in Seq(Chars) /\ t \in Seq(Chars) /\ HeadersType(h)
  BY EchoParts
<1>2. t = (L \o H) \o NewLine
  BY EchoIs
<1>3. Name(w) /\ Uri(u) /\ VersionForm(v)
  BY WordIs DEF Sendable
<1>4. /\ IsFiniteSet(DOMAIN h) /\ h = [m \in DOMAIN h |-> h[m]]
      /\ \A m \in DOMAIN h : Name(m) /\ Value(h[m])
  <2>1. IsFiniteSet(DOMAIN r.headers_)
    BY DEF Sendable
  <2>2. /\ DOMAIN h \subseteq DOMAIN r.headers_ /\ IsFiniteSet(DOMAIN h)
        /\ \A m \in DOMAIN h : h[m] = r.headers_[m]
        /\ h = [m \in DOMAIN h |-> h[m]]
    BY <2>1, FilledIs
  <2>3. \A m \in DOMAIN h : m \in Seq(Chars)
    BY <1>1 DEF HeadersType
  <2> HIDE DEF h
  <2> QED BY <2>2, <2>3 DEF Sendable, Name
<1>5. Len(w) \in Nat /\ Len(u) \in Nat /\ Len(v) \in Nat /\ Len(L) = f + 1 /\ f \in Nat
  <2>1. w \in Seq(Chars) /\ u \in Seq(Chars) /\ v \in Seq(Chars)
    BY <1>3 DEF Name, Uri, VersionForm
  <2>2. Len(L) = ((Len(w) + 1) + Len(u) + 1) + Len(v) + 7
    BY <2>1, FirstLineParts
  <2>3. Len(w) \in Nat /\ Len(u) \in Nat /\ Len(v) \in Nat
    BY <2>1, LenProperties
  <2> HIDE DEF w, u, v, L
  <2> QED BY <2>2, <2>3
<1> HIDE DEF L, H, t, h
<1>6. /\ StandsAt(L, t, 1) /\ StandsAt(H, t, Len(L) + 1)
      /\ StandsAt(NewLine, t, Len(L) + Len(H) + 1) /\ Len(t) = Len(L) + Len(H) + 2
  <2>1. PICK x : x = L \o H
    OBVIOUS
  <2>2. /\ x \in Seq(Chars) /\ Len(x) = Len(L) + Len(H)
        /\ StandsAt(L, x, 1) /\ StandsAt(H, x, Len(L) + 1)
    BY <1>1, <2>1, StandsFirst
  <2>3. NewLine \in Seq(Chars) /\ Len(NewLine) = 2
    BY CharsOf
  <2>4. t = x \o NewLine
    BY <1>2, <2>1
  <2>5. Len(t) = Len(x) + Len(NewLine) /\ StandsAt(NewLine, t, Len(x) + 1)
    BY <2>2, <2>3, <2>4, StandsFirst
  <2>6. StandsAt(L, t, 1) /\ StandsAt(H, t, Len(L) + 1)
    BY <2>2, <2>3, <2>4, StandsOn
  <2> QED BY <2>2, <2>3, <2>5, <2>6
<1>7. RequestStands(t, w, u, v)
  <2>1. StandsAt(FirstLine(w, u, v), t, 1)
    BY <1>6 DEF L
  <2> HIDE DEF w, u, v
  <2> QED BY <1>3, <2>1, FirstLineStands
<1>8. RequestLineTo(t, f - 1) /\ LineEnds(t, 1, f) /\ t[f + 1] = "LF" /\ f + 1 <= Len(t)
  <2> HIDE DEF w, u, v
  <2> QED BY <1>7 DEF RequestStands
<1> HIDE DEF w, u, v, f
<1>9. Lines(t, f + 2) /\ Got(t, f + 1) = Fresh.headers_
  <2>1. f \in Nat /\ 1 \in 1..f
    BY <1>5, <1>8 DEF LineEnds
  <2>2. Ended(t, 1, f)
    BY <1>8 DEF Ended
  <2> QED BY <1>1, <1>8, <2>1, <2>2, LinesGrow, LineGot
<1>10. Lines(t, Len(t) - 1) /\ Got(t, Len(t) - 2) = h
  <2> DEFINE names == SetToSeq(DOMAIN h)
             n     == Cardinality(DOMAIN h)
  <2>1. HeadersStandFrom(t, h, Len(L) + 1)
    <3>1. StandsAt(HeaderLines(h), t, Len(L) + 1)
      BY <1>6 DEF H
    <3> QED BY <1>4, <3>1, HeaderLinesStand
  <2>2. Lists(names, n, DOMAIN h)
    BY <2>1 DEF HeadersStandFrom
  <2>3. PICK at : HeadersStand(t, names, n, h, at) /\ at[0] = Len(L) + 1 /\ at[n] = (Len(L) + 1) + Len(H)
    BY <2>1 DEF HeadersStandFrom, H
  <2> HIDE DEF names, n
  <2>4. at[0] = f + 2 /\ at[0] - 1 = f + 1 /\ at[n] = Len(t) - 1 /\ at[n] - 1 = Len(t) - 2
    <3>1. Len(H) \in Nat
      BY <1>1, LenProperties
    <3> QED BY <1>5, <1>6, <2>3, <3>1
  <2>5. Lines(t, at[0]) /\ Got(t, at[0] - 1) = Fresh.headers_
    BY <1>9, <2>4
  <2>6. \A m \in DOMAIN h : m \in Seq(Chars) /\ m # <<>> /\ h[m] \in Seq(Chars)
    BY <1>4 DEF Name, Value
  <2>7. Enter(t, at[n], h)
    BY <1>1, <2>2, <2>3, <2>5, <2>6, HeadersAreRead
  <2> QED BY <1>4, <2>4, <2>7 DEF Enter
<1>11. Whole(t, Len(t))
  <2>1. Len(t) \in Nat /\ Len(t) >= 4
    <3>1. Len(L) \in Nat /\ Len(H) \in Nat /\ Len(t) \in Nat
      BY <1>1, LenProperties
    <3>2. Len(t) - 1 >= 3
      BY <1>10 DEF Lines
    <3> QED BY <3>1, <3>2
  <2>2. PICK q : q = Len(t) - 1
    OBVIOUS
  <2>3. StandsAt(NewLine, t, q)
    <3>1. Len(L) \in Nat /\ Len(H) \in Nat
      BY <1>1, LenProperties
    <3>2. Len(L) + Len(H) + 1 = q
      BY <1>6, <2>2, <3>1
    <3> QED BY <1>6, <3>2
  <2>4. \A k \in 1..2 : NewLine[k] = t[q + k - 1]
    BY <2>3, CharsOf DEF StandsAt
  <2>5. NewLine[1] = t[q + 1 - 1] /\ NewLine[2] = t[q + 2 - 1]
    BY <2>4
  <2>6. q + 1 - 1 = Len(t) - 1 /\ q + 2 - 1 = Len(t)
    BY <2>1, <2>2
  <2>7. t[Len(t) - 1] = "CR" /\ t[Len(t)] = "LF"
    BY <2>5, <2>6, CharsOf
  <2> QED BY <1>10, <2>1, <2>7 DEF Whole
<1> QED BY <1>1, <1>7, <1>10, <1>11 DEF EchoRead, w, u, v, h, t

-----------------------------------------------------------------------------
(* What was read can be sent                                                 *)

LEMMA NamesAreFinite ==
    ASSUME NEW t \in Seq(Chars), NEW p \in Nat PROVE IsFiniteSet(Names(t, p))
<1> DEFINE A == {x \in 1..p : EntersAt(t, x)}
           f == [x \in A |-> Entry(Line(t, x)).name]
<1>1. IsFiniteSet(A)
  <2>1. IsFiniteSet(1..p)
    BY FS_Interval
  <2> QED BY <2>1, FS_Subset
<1>2. Names(t, p) = {f[x] : x \in A}
  BY DEF Names
<1> HIDE DEF A
<1>3. f \in Surjection(A, {f[x] : x \in A})
  <2> HIDE DEF f
  <2>1. f = [x \in A |-> f[x]]
    BY DEF f
  <2> QED BY <2>1 DEF Surjection
<1> HIDE DEF f
<1> QED BY <1>1, <1>2, <1>3, FS_Surjection

\* A header's value is text.
LEMMA GotValues ==
    ASSUME NEW t \in Seq(Chars), NEW p \in Nat, NEW m \in Names(t, p)
    PROVE  m # <<>> /\ Value(FlattenSeq(Parts(t, p, m)))
<1> DEFINE T == {c \in Chars : Text(c)}
           ss == Parts(t, p, m)
<1>1. m # <<>>
  <2>1. PICK r \in 1..p : EntersAt(t, r) /\ m = Entry(Line(t, r)).name
    BY DEF Names
  <2> QED BY <2>1, EntersTypes
<1>2. ASSUME NEW r PROVE Part(t, r, m) \in Seq(T)
  <2>1. CASE EntersAt(t, r)
    <3>1. PICK v : v = Entry(Line(t, r)).value
      OBVIOUS
    <3>2. v \in Seq(Chars) /\ \A i \in 1..Len(v) : Text(v[i])
      BY <2>1, <3>1, EntersTypes DEF Value
    <3>3. Len(v) \in Nat /\ v = [i \in 1..Len(v) |-> v[i]] /\ \A i \in 1..Len(v) : v[i] \in Chars
      BY <3>2
    <3>4. \A i \in 1..Len(v) : v[i] \in T
      BY <3>2, <3>3
    <3> HIDE DEF T
    <3>5. v \in [1..Len(v) -> T]
      BY <3>3, <3>4
    <3>6. v \in Seq(T)
      BY <3>3, <3>5
    <3>7. Part(t, r, m) = v \/ Part(t, r, m) = <<>>
      BY <3>1 DEF Part
    <3>8. <<>> \in Seq(T)
      OBVIOUS
    <3> QED BY <3>6, <3>7, <3>8
  <2>2. CASE ~EntersAt(t, r)
    <3>1. Part(t, r, m) = <<>>
      BY <2>2 DEF Part
    <3> HIDE DEF T
    <3> QED BY <3>1
  <2> QED BY <2>1, <2>2
<1>3. ss \in Seq(Seq(T)) /\ Len(ss) \in Nat
  <2>1. ss \in [1..p -> Seq(T)]
    BY <1>2 DEF Parts
  <2> HIDE DEF ss, T
  <2>2. ss \in Seq(Seq(T))
    BY <2>1
  <2> QED BY <2>2, LenProperties
<1> HIDE DEF ss, T
<1>4. FlattenSeq(ss) \in Seq(T)
  <2>1. PICK a : Joined(T, ss, a) /\ FlattenSeq(ss) = a[Len(ss)]
    BY <1>3, Flattened DEF JoinsTo
  <2>2. Len(ss) \in 0..Len(ss)
    BY <1>3
  <2> QED BY <2>1, <2>2 DEF Joined
<1>5. ASSUME NEW v \in Seq(T) PROVE Value(v)
  <2>1. Len(v) \in Nat /\ \A i \in 1..Len(v) : v[i] \in T
    BY LenProperties, ElementOfSeq
  <2>2. \A i \in 1..Len(v) : v[i] \in Chars /\ Text(v[i])
    BY <2>1 DEF T
  <2>3. v = [i \in 1..Len(v) |-> v[i]]
    OBVIOUS
  <2>4. v \in Seq(Chars)
    BY <2>1, <2>2, <2>3
  <2> QED BY <2>2, <2>4 DEF Value
<1> QED BY <1>1, <1>4, <1>5 DEF ss

LEMMA GoodIsSendable ==
    ASSUME HInv, result = "good" PROVE Sendable(req)
<1>0. /\ LInv /\ TypeOK /\ RequestForm /\ text \in Seq(Chars) /\ pos \in Nat /\ Whole(text, pos)
      /\ Len(text) \in Nat /\ pos <= Len(text)
  BY LenProperties DEF HInv, LInv, PInv, TypeOK
<1>1. RequestType(req)
  BY <1>0, RequestTypes
<1>2. PICK i \in 1..pos : \E j \in 1..pos : UriRead(text, i, j, req) /\ VersionRead(text, j, pos, state_, req)
  BY <1>0 DEF LInv, LineRead
<1>3. PICK j \in 1..pos : UriRead(text, i, j, req) /\ VersionRead(text, j, pos, state_, req)
  BY <1>2
<1>4. PICK f \in 1..pos : LineEnds(text, 1, f) /\ req.http_version_ = SubSeq(text, j + 6, f - 1)
  BY <1>0, <1>3 DEF VersionRead, LInv, Behind, VersionStates
<1>5. UriTo(text, i, j - 1) /\ text[j] = "SP" /\ req.uri_ = SubSeq(text, i + 1, j - 1)
  BY <1>3 DEF UriRead
<1>6. Uri(req.uri_)
  <2>1. /\ i + 1 \in Nat \ {0} /\ j - 1 \in Nat /\ j - 1 <= Len(text)
        /\ \A k \in (i + 1)..(j - 1) : Text(text[k]) /\ text[k] # "SP"
    BY <1>0, <1>5 DEF UriTo
  <2>2. \A k \in (i + 1)..(j - 1) : k \in 1..Len(text)
    BY <1>0, <2>1
  <2>3. \A k \in (i + 1)..(j - 1) : text[k] \in Chars
    BY <1>0, <2>2, ElementOfSeq
  <2>4. i + 1 \in Int /\ j - 1 \in Int
    OBVIOUS
  <2> DEFINE u == SubSeq(text, i + 1, j - 1)
             a == i + 1
             b == j - 1
  <2>5. /\ u \in Seq(Chars)
        /\ Len(u) = IF a <= b THEN b - a + 1 ELSE 0
        /\ \A k \in 1..(b - a + 1) : u[k] = text[a + k - 1]
    BY <2>3, <2>4, SubSeqProperties
  <2> HIDE DEF u
  <2>6. \A k \in 1..Len(u) : k \in 1..(b - a + 1) /\ a + k - 1 \in (i + 1)..(j - 1)
    BY <2>5
  <2>7. \A k \in 1..Len(u) : Text(u[k]) /\ u[k] # "SP"
    BY <2>1, <2>5, <2>6
  <2> QED BY <1>5, <2>5, <2>7 DEF Uri, u
<1>7. VersionForm(req.http_version_)
  <2>1. PICK e \in 1..pos : LineEnds(text, 1, e) /\ RequestLineTo(text, e - 1)
    <3>1. Lines(text, pos - 1)
      BY <1>0 DEF Whole
    <3>2. PICK e \in 1..((pos - 1) - 1) : LineEnds(text, 1, e) /\ RequestLineTo(text, e - 1)
      BY <3>1 DEF Lines
    <3>3. e \in 1..pos
      BY <1>0
    <3> QED BY <3>2, <3>3
  <2>2. e = f
    <3>1. 1 \in Nat /\ e \in Nat /\ f \in Nat
      OBVIOUS
    <3> QED BY <1>4, <2>1, <3>1, OneEnd
  <2>3. PICK y \in 1..(f - 1), d \in 1..(f - 1) : MinorTo(text, y, d, f - 1)
    BY <2>1, <2>2 DEF RequestLineTo
  <2>4. UriEnds(text, y) /\ UriEnds(text, j)
    <3>1. UriEnds(text, y)
      BY <2>3 DEF MinorTo, DotAt, MajorTo, HttpTo
    <3>2. i \in 1..(j - 1)
      BY <1>5 DEF UriTo
    <3> QED BY <1>5, <3>1, <3>2 DEF UriEnds
  <2>5. y = j
    BY <2>4, OneUriEnd
  <2>6. /\ j + 6 < d /\ d < f - 1 /\ text[d] = "."
        /\ \A k \in (j + 6)..(d - 1) : is_digit(text[k])
        /\ \A k \in (d + 1)..(f - 1) : is_digit(text[k])
    <3>1. DotAt(text, j, d) /\ d < f - 1 /\ \A k \in (d + 1)..(f - 1) : is_digit(text[k])
      BY <2>3, <2>5 DEF MinorTo
    <3>2. j + 6 <= d - 1 /\ \A k \in (j + 6)..(d - 1) : is_digit(text[k])
      BY <3>1 DEF DotAt, MajorTo
    <3> QED BY <3>1, <3>2 DEF DotAt
  <2> DEFINE a == j + 6
             b == f - 1
             v == SubSeq(text, j + 6, f - 1)
  <2>7. \A k \in a..b : k \in 1..Len(text)
    BY <1>0
  <2>8. \A k \in a..b : text[k] \in Chars
    BY <1>0, <2>7, ElementOfSeq
  <2>9. a \in Int /\ b \in Int
    OBVIOUS
  <2>10. /\ v \in Seq(Chars)
         /\ Len(v) = IF a <= b THEN b - a + 1 ELSE 0
         /\ \A k \in 1..(b - a + 1) : v[k] = text[a + k - 1]
    BY <2>8, <2>9, SubSeqProperties
  <2> HIDE DEF v
  <2>11. Len(v) = b - a + 1 /\ d - a + 1 \in 2..(Len(v) - 1)
    BY <2>6, <2>10
  <2>12. v[d - a + 1] = "."
    <3>1. d - a + 1 \in 1..(b - a + 1) /\ a + (d - a + 1) - 1 = d
      BY <2>6
    <3> QED BY <2>6, <2>10, <3>1
  <2>13. ASSUME NEW k \in 1..Len(v), k # d - a + 1 PROVE is_digit(v[k])
    <3>1. k \in 1..(b - a + 1) /\ (a + k - 1 \in (j + 6)..(d - 1) \/ a + k - 1 \in (d + 1)..(f - 1))
      BY <2>6, <2>11, <2>13
    <3> QED BY <2>6, <2>10, <3>1
  <2> HIDE DEF a
  <2>14. \E x \in 2..(Len(v) - 1) : v[x] = "." /\ \A k \in 1..Len(v) : k # x => is_digit(v[k])
    BY <2>11, <2>12, <2>13
  <2> QED BY <1>4, <2>10, <2>14 DEF VersionForm, v
<1>8. pos - 2 \in Nat /\ req.headers_ = Got(text, pos - 2)
  BY <1>0 DEF HInv, Whole
<1>9. /\ IsFiniteSet(DOMAIN req.headers_)
      /\ \A m \in DOMAIN req.headers_ : m # <<>> /\ Value(req.headers_[m])
  <2>1. /\ DOMAIN req.headers_ = Names(text, pos - 2)
        /\ \A m \in Names(text, pos - 2) : req.headers_[m] = FlattenSeq(Parts(text, pos - 2, m))
    BY <1>8 DEF Got
  <2> QED BY <1>0, <1>8, <2>1, NamesAreFinite, GotValues
<1> QED BY <1>1, <1>6, <1>7, <1>9 DEF Sendable

-----------------------------------------------------------------------------
(* An echo is the request it is of                                           *)

EInv == HInv /\ (echoed # None => Sendable(echoed) /\ text = convert_to_rawbody(echoed))

LEMMA EInvInit == EchoInit => EInv
BY HInvInit DEF EchoInit, EInv

LEMMA EInvStep == EInv /\ [EchoNext]_echoVars => EInv'
<1> SUFFICES ASSUME EInv, [EchoNext]_echoVars PROVE EInv'
  OBVIOUS
<1>0. HInv /\ TypeOK
  BY DEF EInv, HInv, LInv, PInv
<1>1. CASE consume /\ UNCHANGED echoed
  <2>1. HInv'
    BY <1>0, <1>1, HInvKept
  <2>2. text' = text /\ echoed' = echoed
    BY <1>1 DEF consume
  <2> QED BY <2>1, <2>2 DEF EInv
<1>2. CASE NextRequest /\ echoed' = None
  <2>1. HInv'
    <3>1. Next
      BY <1>2 DEF Next
    <3> QED BY <1>0, <3>1, HInvStep
  <2> QED BY <1>2, <2>1 DEF EInv
<1>3. CASE handle_request
  <2>1. /\ result = "good" /\ requests < MaxRequests /\ reset
        /\ echoed' = req /\ text' = convert_to_rawbody(req)
        /\ pos' = 0 /\ result' = "indeterminate" /\ req' = Fresh /\ requests' = requests + 1
    BY <1>3 DEF handle_request
  <2>2. Sendable(req)
    BY <1>0, <2>1, GoodIsSendable
  <2>3. text' \in Seq(Chars)
    BY <2>1, <2>2, EchoParts
  <2>4. requests' \in 1..MaxRequests
    BY <1>0, <2>1, RequestParserAssumption DEF TypeOK
  <2>5. Anew
    BY <2>1, <2>3, <2>4 DEF Anew
  <2>6. HInv'
    BY <1>0, <2>5, HInvKept
  <2>7. Sendable(echoed') /\ text' = convert_to_rawbody(echoed')
    BY <2>1, <2>2
  <2> QED BY <2>6, <2>7 DEF EInv, Sendable
<1>4. CASE UNCHANGED echoVars
  <2>1. UNCHANGED vars /\ echoed' = echoed
    BY <1>4 DEF echoVars
  <2>2. HInv' /\ text' = text
    BY <1>0, <2>1, HInvKept DEF vars
  <2> QED BY <2>1, <2>2 DEF EInv
<1> QED BY <1>1, <1>2, <1>3, <1>4 DEF EchoNext

\* No head goes on behind a whole one that is whole again.
LEMMA WholeOnce ==
    ASSUME NEW t, NEW n \in Nat, NEW p \in Nat, Whole(t, p), Whole(t, n), p <= n PROVE p = n
<1> SUFFICES ASSUME p < n PROVE FALSE
  OBVIOUS
<1>1. p >= 4 /\ Lines(t, p - 1) /\ t[p - 1] = "CR" /\ Lines(t, n - 1)
  BY DEF Whole
<1>2. PICK b : b = p - 1
  OBVIOUS
<1>3. b \in 3..((n - 1) - 1) /\ t[b - 2] = "CR" /\ t[b] = "CR"
  BY <1>1, <1>2 DEF Lines
<1>4. PICK e \in b..((n - 1) - 1) : LineEnds(t, b, e) /\ HeaderTo(t, b, e - 1)
  BY <1>1, <1>3 DEF Lines
<1>5. e = b
  BY <1>3, <1>4 DEF LineEnds
<1>6. ~FieldTo(t, b, b - 1) /\ ~FoldTo(t, b, b - 1)
  BY <1>3 DEF FieldTo, FoldTo
<1> QED BY <1>4, <1>5, <1>6 DEF HeaderTo

LEMMA EchoIsRead ==
    ASSUME HInv, result = "good", NEW r, Sendable(r), EchoRead(text, r), pos = Len(text)
    PROVE  req = [r EXCEPT !.headers_ = Filled(@)]
<1>0. /\ LInv /\ TypeOK /\ RequestForm /\ text \in Seq(Chars) /\ pos \in Nat
  BY LenProperties DEF HInv, LInv, PInv, TypeOK
<1>1. PICK i \in 1..pos : \E j \in 1..pos : UriRead(text, i, j, req) /\ VersionRead(text, j, pos, state_, req)
  BY <1>0 DEF LInv, LineRead
<1>2. PICK j \in 1..pos : UriRead(text, i, j, req) /\ VersionRead(text, j, pos, state_, req)
  BY <1>1
<1>3. PICK f \in 1..pos : LineEnds(text, 1, f) /\ req.http_version_ = SubSeq(text, j + 6, f - 1)
  BY <1>0, <1>2 DEF VersionRead, LInv, Behind, VersionStates
<1>4. /\ UriTo(text, i, j - 1) /\ text[j] = "SP" /\ req.uri_ = SubSeq(text, i + 1, j - 1)
      /\ req.method_ = MethodOf(SubSeq(text, 1, i - 1))
  BY <1>2 DEF UriRead, MethodIs
<1> DEFINE w == Word(r.method_)
           u == r.uri_
           v == r.http_version_
           a == Len(w) + 1
           b == a + Len(u) + 1
           g == b + 6 + Len(v)
<1>5. /\ UriTo(text, a, b - 1) /\ text[b] = "SP"
      /\ SubSeq(text, 1, a - 1) = w /\ SubSeq(text, a + 1, b - 1) = u /\ SubSeq(text, b + 6, g - 1) = v
      /\ LineEnds(text, 1, g)
  BY DEF EchoRead, RequestStands
<1>6. a \in Nat /\ b \in Nat /\ g \in Nat
  <2>1. w \in Seq(Chars) /\ u \in Seq(Chars) /\ v \in Seq(Chars)
    BY WordIs DEF Name, Sendable, RequestType
  <2>2. Len(w) \in Nat /\ Len(u) \in Nat /\ Len(v) \in Nat
    BY <2>1, LenProperties
  <2> HIDE DEF w, u, v
  <2> QED BY <2>2
<1> HIDE DEF a, b, g
<1>7. i = a
  BY <1>4, <1>5, <1>6, OneUri
<1>8. j = b
  <2>1. i \in 1..(j - 1) /\ a \in 1..(b - 1)
    BY <1>4, <1>5, <1>6 DEF UriTo
  <2>2. UriEnds(text, j) /\ UriEnds(text, b)
    BY <1>4, <1>5, <2>1 DEF UriEnds
  <2> QED BY <1>6, <2>2, OneUriEnd
<1>9. f = g
  <2>1. 1 \in Nat /\ f \in Nat
    OBVIOUS
  <2> QED BY <1>3, <1>5, <1>6, <2>1, OneEnd
<1>10. req.uri_ = u /\ req.http_version_ = v /\ req.method_ = MethodOf(w)
  BY <1>3, <1>4, <1>5, <1>7, <1>8, <1>9
<1>11. MethodOf(w) = r.method_
  BY WordOfMethod DEF Sendable, RequestType
<1>12. req.headers_ = Filled(r.headers_)
  BY DEF HInv, EchoRead
<1>13. req = [method_ |-> r.method_, uri_ |-> u, http_version_ |-> v, headers_ |-> Filled(r.headers_)]
  BY <1>0, <1>10, <1>11, <1>12 DEF RequestForm
<1>14. r = [method_ |-> r.method_, uri_ |-> u, http_version_ |-> v, headers_ |-> r.headers_]
  BY DEF Sendable, RequestType
<1> QED BY <1>13, <1>14

LEMMA EInvEchoes == EInv => EchoIsTheRequest
<1> SUFFICES ASSUME EInv, echoed # None, \A n \in DOMAIN echoed.headers_ : \A i \in DOMAIN n : Token(n[i])
             PROVE  /\ result = "good" <=> pos = Len(text)
                    /\ result # "bad"
                    /\ result = "good" => req = [echoed EXCEPT !.headers_ = Filled(@)]
  BY DEF EchoIsTheRequest
<1>1. EchoRead(text, echoed) /\ Sendable(echoed)
  BY EchoStands DEF EInv
<1>2. /\ HInv /\ PInv /\ TypeOK /\ text \in Seq(Chars) /\ pos \in Nat /\ Len(text) \in Nat /\ pos <= Len(text)
  BY LenProperties DEF EInv, HInv, LInv, PInv, TypeOK
<1>3. Whole(text, Len(text))
  BY <1>1 DEF EchoRead
<1>4. result # "bad"
  <2>1. AgreeTo(text, text, pos)
    BY DEF AgreeTo
  <2> QED BY <1>2, <1>3, <2>1 DEF PInv
<1>5. ASSUME result = "good" PROVE pos = Len(text)
  <2>1. Whole(text, pos)
    BY <1>2, <1>5 DEF PInv
  <2> QED BY <1>2, <1>3, <2>1, WholeOnce
<1>6. ASSUME pos = Len(text) PROVE result = "good"
  <2>1. WellFormed(Read)
    BY <1>2, <1>3, <1>6, WholeIsRead
  <2> QED BY <1>2, <2>1, PInvAccepts DEF AcceptsHeads
<1>7. ASSUME result = "good" PROVE req = [echoed EXCEPT !.headers_ = Filled(@)]
  BY <1>1, <1>2, <1>5, <1>7, EchoIsRead
<1> QED BY <1>4, <1>5, <1>6, <1>7

\* The echo of a request is a request that says the same: the parser accepts all of it,
\* refuses none of it and reads the same method, URI, version and headers, for texts of
\* any length and any headers whose names are tokens (convert_to_rawbody, consume).
THEOREM EchoesAreRequests == EchoSpec => []EchoIsTheRequest
BY EInvInit, EInvStep, EInvEchoes, PTL DEF EchoSpec

=============================================================================
