--------------------------- MODULE RequestParser ---------------------------
(***************************************************************************)
(* The parser of request heads, one character at a time                    *)
(* (request_parser.cc), against the grammar of the heads it accepts.       *)
(*                                                                         *)
(* Characters are named: "SP", "TAB", "CR", "LF" and "ctl" stand for those *)
(* characters, "high" for any beyond 127, "tspecial" for any separator     *)
(* without a use of its own; the others stand for themselves.              *)
(***************************************************************************)
EXTENDS Naturals, SequencesExt

CONSTANTS
    Chars,       \* the characters
    Texts,       \* what a client may send as the head of its first request
    LaterTexts,  \* and of the next ones
    Get, Post, Put, \* the words for the methods, as sequences of characters
    MaxRequests  \* bound on the requests of a connection

ASSUME RequestParserAssumption ==
    /\ \A t \in Texts : t \in Seq(Chars)
    /\ LaterTexts \subseteq Texts
    /\ MaxRequests \in Nat \ {0}

VARIABLES
    text,          \* the characters of the request
    pos,           \* how many were parsed
    result,        \* the last result of consume
    state_,
    method_helper,
    header_helper,
    req,           \* the Request: method_, uri_, http_version_, headers_
    requests       \* how many requests have begun

vars == <<text, pos, result, state_, method_helper, header_helper, req, requests>>

States == {"method_start", "method", "uri", "http_version_h", "http_version_t_1",
           "http_version_t_2", "http_version_p", "http_version_slash",
           "http_version_major_start", "http_version_major", "http_version_minor_start",
           "http_version_minor", "expecting_newline_1", "header_line_start", "header_lws",
           "header_name", "space_before_header_value", "header_value",
           "expecting_newline_2", "expecting_newline_3"}

is_char(c)     == c # "high"
is_ctl(c)      == c \in {"TAB", "CR", "LF", "ctl"}
is_tspecial(c) == c \in {"SP", "TAB", ":", "/", "tspecial"}
is_digit(c)    == c \in {"0", "1", "2"}

Token(c) == is_char(c) /\ ~is_ctl(c) /\ ~is_tspecial(c)
White(c) == c \in {"SP", "TAB"}

\* Request(); headers_ maps the names entered to their values.
Fresh == [method_ |-> "GET", uri_ |-> <<>>, http_version_ |-> <<>>,
          headers_ |-> [n \in {} |-> <<>>]]

TypeOK ==
    /\ text \in Seq(Chars) /\ pos \in 0..Len(text)
    /\ result \in {"indeterminate", "good", "bad"}
    /\ state_ \in States
    /\ method_helper \in Seq(Chars) /\ header_helper \in Seq(Chars)
    /\ req.method_ \in {"GET", "POST", "PUT", "UNKNOWN"}
    /\ req.uri_ \in Seq(Chars) /\ req.http_version_ \in Seq(Chars)
    /\ \A n \in DOMAIN req.headers_ : n \in Seq(Chars) /\ req.headers_[n] \in Seq(Chars)
    /\ requests \in 1..MaxRequests

Init ==
    /\ text \in Texts /\ pos = 0
    /\ result = "indeterminate"
    /\ state_ = "method_start"
    /\ method_helper = <<>> /\ header_helper = <<>>
    /\ req = Fresh
    /\ requests = 1

-----------------------------------------------------------------------------
\* The word HTTP/ and the two line ends: the character each state wants and the
\* state that follows.
Fixed ==
    [http_version_h      |-> <<"H", "http_version_t_1">>,
     http_version_t_1    |-> <<"T", "http_version_t_2">>,
     http_version_t_2    |-> <<"T", "http_version_p">>,
     http_version_p      |-> <<"P", "http_version_slash">>,
     http_version_slash  |-> <<"/", "http_version_major_start">>,
     expecting_newline_1 |-> <<"LF", "header_line_start">>,
     expecting_newline_2 |-> <<"LF", "header_line_start">>,
     expecting_newline_3 |-> <<"LF", "good">>,
     space_before_header_value |-> <<"SP", "header_value">>]

\* Where a character leads from the other states; entered says whether a header was
\* entered already, which white space at the start of a line continues.
Branches(c, entered) ==
    [method_start |-> IF Token(c) THEN "method" ELSE "bad",
     method |-> IF c = "SP" THEN "uri" ELSE IF Token(c) THEN "method" ELSE "bad",
     uri |-> IF c = "SP" THEN "http_version_h" ELSE IF is_ctl(c) THEN "bad" ELSE "uri",
     http_version_major_start |-> IF is_digit(c) THEN "http_version_major" ELSE "bad",
     http_version_major |-> IF c = "." THEN "http_version_minor_start"
                            ELSE IF is_digit(c) THEN "http_version_major" ELSE "bad",
     http_version_minor_start |-> IF is_digit(c) THEN "http_version_minor" ELSE "bad",
     http_version_minor |-> IF c = "CR" THEN "expecting_newline_1"
                            ELSE IF is_digit(c) THEN "http_version_minor" ELSE "bad",
     header_line_start |-> IF c = "CR" THEN "expecting_newline_3"
                           ELSE IF entered /\ White(c) THEN "header_lws"
                           ELSE IF Token(c) THEN "header_name" ELSE "bad",
     header_lws |-> IF c = "CR" THEN "expecting_newline_2"
                    ELSE IF White(c) THEN "header_lws"
                    ELSE IF is_ctl(c) THEN "bad" ELSE "header_value",
     header_name |-> IF c = ":" THEN "space_before_header_value"
                     ELSE IF Token(c) THEN "header_name" ELSE "bad",
     header_value |-> IF c = "CR" THEN "expecting_newline_2"
                      ELSE IF is_ctl(c) THEN "bad" ELSE "header_value"]

Leads(c, entered) ==
    IF state_ \notin DOMAIN Fixed THEN Branches(c, entered)[state_]
    ELSE IF c = Fixed[state_][1] THEN Fixed[state_][2] ELSE "bad"

\* Mutant of Following: white space continues a header that there is none of.
FollowingFolds(c) == Leads(c, TRUE)

Following(c) == Leads(c, req.headers_ # Fresh.headers_)

Method ==
    CASE method_helper = Post -> "POST"
      [] method_helper = Put  -> "PUT"
      [] method_helper = Get  -> "GET"
      [] OTHER -> "UNKNOWN"

\* headers_[name], which enters the name if it is new, followed by more.
With(headers, name, more) ==
    [n \in DOMAIN headers \cup {name} |->
        (IF n \in DOMAIN headers THEN headers[n] ELSE <<>>) \o (IF n = name THEN more ELSE <<>>)]

\* Mutant of Request: a header is entered when its value begins.
RequestLate(c, next) ==
    CASE state_ = "method" /\ next = "uri" -> [req EXCEPT !.method_ = Method]
      [] state_ = "uri" /\ next = "uri" -> [req EXCEPT !.uri_ = Append(@, c)]
      [] next = "http_version_major_start" -> [req EXCEPT !.http_version_ = <<>>]
      [] next \in {"http_version_major", "http_version_minor_start", "http_version_minor"} ->
            [req EXCEPT !.http_version_ = Append(@, c)]
      [] state_ = "header_value" /\ next = "header_value" ->
            [req EXCEPT !.headers_ = With(@, header_helper, <<c>>)]
      [] OTHER -> req

\* What a character that leads to next adds to the request.
Request(c, next) ==
    CASE state_ = "method" /\ next = "uri" -> [req EXCEPT !.method_ = Method]
      [] state_ = "uri" /\ next = "uri" -> [req EXCEPT !.uri_ = Append(@, c)]
      [] next = "http_version_major_start" -> [req EXCEPT !.http_version_ = <<>>]
      [] next \in {"http_version_major", "http_version_minor_start", "http_version_minor"} ->
            [req EXCEPT !.http_version_ = Append(@, c)]
      [] state_ = "space_before_header_value" /\ next = "header_value" ->
            [req EXCEPT !.headers_ = With(@, header_helper, <<>>)]
      [] state_ = "header_value" /\ next = "header_value" ->
            [req EXCEPT !.headers_ = With(@, header_helper, <<c>>)]
      [] OTHER -> req

\* The name being read; a value's end clears it, and the first character of a
\* continuation is pushed onto it.
HeaderHelper(c, next) ==
    IF next = "header_name" \/ (state_ = "header_lws" /\ next = "header_value")
    THEN Append(header_helper, c)
    ELSE IF state_ = "header_value" /\ next = "expecting_newline_2" THEN <<>>
    ELSE header_helper

consume ==
    /\ result = "indeterminate" /\ pos < Len(text)
    /\ pos' = pos + 1
    /\ LET c == text[pos + 1]
           next == Following(c)
       IN  /\ result' = IF next \in {"good", "bad"} THEN next ELSE "indeterminate"
           /\ state_' = IF next \in {"good", "bad"} THEN state_ ELSE next
           /\ method_helper' = IF next = "method" THEN Append(method_helper, c) ELSE method_helper
           /\ header_helper' = HeaderHelper(c, next)
           /\ req' = Request(c, next)
    /\ UNCHANGED <<text, requests>>

reset ==
    /\ state_' = "method_start"
    /\ method_helper' = <<>> /\ header_helper' = <<>>

\* Mutant of NextRequest: it goes on where the last request ended.
NextRequestOn ==
    /\ result # "indeterminate" /\ requests < MaxRequests
    /\ reset
    /\ text' \in LaterTexts
    /\ result' = "indeterminate" /\ req' = Fresh
    /\ requests' = requests + 1
    /\ UNCHANGED pos

\* The session resets the parser and starts over with the next request.
NextRequest ==
    /\ result # "indeterminate" /\ requests < MaxRequests
    /\ reset
    /\ text' \in LaterTexts
    /\ pos' = 0 /\ result' = "indeterminate" /\ req' = Fresh
    /\ requests' = requests + 1

Next == consume \/ NextRequest

Spec == Init /\ [][Next]_vars

-----------------------------------------------------------------------------
\* The grammar.

\* Where the lines of t begin, and the line that begins at s.
Starts(t)  == {1} \cup {i + 2 : i \in {j \in 1..(Len(t) - 2) : t[j] = "CR"}}
Line(t, s) == SubSeq(t, s, Min({i \in s..Len(t) : t[i] = "CR"}) - 1)

All(P(_), l, i, j) == \A k \in i..j : P(l[k])
Text(c) == ~is_ctl(c)

Version(l) ==
    /\ Len(l) >= 8 /\ SubSeq(l, 1, 5) = <<"H", "T", "T", "P", "/">>
    /\ \E k \in 7..(Len(l) - 1) :
          l[k] = "." /\ All(is_digit, l, 6, k - 1) /\ All(is_digit, l, k + 1, Len(l))

\* Where the method and the URI end, in a line that is a request line.
RequestLine(l) ==
    {e \in (1..Len(l)) \X (1..Len(l)) :
        /\ 1 < e[1] /\ e[1] < e[2] /\ l[e[1]] = "SP" /\ l[e[2]] = "SP"
        /\ All(Token, l, 1, e[1] - 1)
        /\ \A k \in (e[1] + 1)..(e[2] - 1) : Text(l[k]) /\ l[k] # "SP"
        /\ Version(SubSeq(l, e[2] + 1, Len(l)))}

\* Where the name ends, in a line that is a header.
Field(l) ==
    {k \in 2..(Len(l) - 1) :
        /\ All(Token, l, 1, k - 1)
        /\ l[k] = ":" /\ l[k + 1] = "SP"
        /\ All(Text, l, k + 2, Len(l))}

\* Where the white space ends, in a line that continues a header.
Continuation(l) ==
    {k \in 1..Len(l) : /\ All(White, l, 1, k) /\ All(Text, l, k + 1, Len(l))
                       /\ (k < Len(l) => ~White(l[k + 1]))}

Crlf(t) ==
    /\ Len(t) >= 4
    /\ \A i \in 1..Len(t) : t[i] = "CR" => i < Len(t) /\ t[i + 1] = "LF"
    /\ t[Len(t) - 1] = "CR"

WellFormed(t) ==
    /\ Crlf(t)
    /\ Len(t) - 1 \in Starts(t)
    /\ RequestLine(Line(t, 1)) # {}
    /\ \A s \in Starts(t) \ {1, Len(t) - 1} :
          LET l == Line(t, s)
          IN  \/ Field(l) # {}
              \/ Continuation(l) # {} /\ \E r \in Starts(t) : r < s /\ Field(Line(t, r)) # {}

\* Name and value the code enters for a line.  Of a line that begins with white space
\* it takes the first character behind it for the name (header_lws), which is entered
\* with the next; no property says that this is right, see ReadsRequest.
Entry(l) ==
    IF Continuation(l) # {}
    THEN LET k == Min(Continuation(l)) + 1
         IN  [name |-> SubSeq(l, k, k), value |-> SubSeq(l, k + 1, Len(l))]
    ELSE [name |-> SubSeq(l, 1, Min(Field(l)) - 1), value |-> SubSeq(l, Min(Field(l)) + 2, Len(l))]

Enters(l) == Field(l) # {} \/ \E k \in Continuation(l) : k + 1 < Len(l)

\* The headers of a well-formed head: a name that comes twice has its values one
\* after the other.
Headers(t) ==
    LET at == {s \in Starts(t) \ {1, Len(t) - 1} : Enters(Line(t, s))}
    IN  [n \in {Entry(Line(t, s)).name : s \in at} |->
            FlattenSeq([s \in 1..Len(t) |->
                IF s \in at /\ Entry(Line(t, s)).name = n THEN Entry(Line(t, s)).value ELSE <<>>])]

-----------------------------------------------------------------------------

Read == SubSeq(text, 1, pos)

\* The parser reports a complete request at the end of a well-formed head and
\* nowhere else, and refuses one only when no well-formed head goes on like that,
\* whatever was parsed before it (consume, expecting_newline_3, reset).
AcceptsHeads ==
    /\ result = "good" <=> WellFormed(Read)
    /\ result = "bad" => \A t \in Texts : IsPrefix(Read, t) => ~WellFormed(t)

\* The request line is in the request.
ReadsLine ==
    result = "good" =>
        LET l == Line(Read, 1)
            e == CHOOSE e \in RequestLine(l) : TRUE
            method == SubSeq(l, 1, e[1] - 1)
        IN  /\ req.uri_ = SubSeq(l, e[1] + 1, e[2] - 1)
            /\ req.http_version_ = SubSeq(l, e[2] + 6, Len(l))
            /\ req.method_ \in {"GET", "POST", "PUT"} <=> method \in {Get, Post, Put}

\* No line of t begins with white space.
Unfolded(t) == \A s \in Starts(t) : ~White(t[s])

\* What it has read is in the request: method, URI, version and, if no line begins
\* with white space, the headers of this head and of no earlier one (consume, reset).
\* The code is at odds with request_parser_test.cc about the other lines: line 355 of
\* the test has 'Correctly skip whitespace in front of header names if there are any',
\* but a header behind white space does not come out under its name
\* (request_parser.cc:266-269).
ReadsRequest ==
    /\ ReadsLine
    /\ result = "good" /\ Unfolded(Read) => req.headers_ = Headers(Read)
=============================================================================
