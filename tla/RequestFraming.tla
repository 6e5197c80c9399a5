-------------------------- MODULE RequestFraming --------------------------
(***************************************************************************)
(* How one connection cuts the bytes it receives into requests: the read   *)
(* handlers of session.cc (http_session.cc has the same) around parse_data *)
(* of request_parser.cc.                                                   *)
(*                                                                         *)
(* A byte is <<q, i>>, the i-th of the q-th request; a request is a head   *)
(* followed by a body.  data_ and buffer_ stand for the string a char      *)
(* array holds, which ends before its first zero byte: a read overwrites   *)
(* the front and leaves the rest.  Neither array is initialized, so a new  *)
(* session finds Junk in them.                                             *)
(*                                                                         *)
(* The parser accepts the bytes of a head in order.  Bytes out of order    *)
(* may be anything to it, so any result is possible for them; they are     *)
(* assumed to hold no Content-Length.  The client sends a request at once  *)
(* and waits for the response; TCP delivers it in pieces of any size.      *)
(*                                                                         *)
(* A handler starts the write of its response and only then clears the     *)
(* arrays.  Until it does (due), another thread may handle the end of the  *)
(* write and the next read, which the memset then destroys or spares.      *)
(***************************************************************************)
EXTENDS Naturals, SequencesExt

CONSTANTS
    Kinds,       \* requests: [head, body, known, flaw], see the assumption below
    JunkLengths, \* lengths of the strings in uninitialized arrays
    MaxRequests  \* bound on the requests of a connection

\* known: the byte that completes the Content-Length header, 0 without one;
\* flaw: the first byte that is not HTTP, 0 in a valid head.
ASSUME RequestFramingAssumption ==
    /\ Kinds \subseteq [head : Nat \ {0}, body : Nat, known : Nat, flaw : Nat]
    /\ \A k \in Kinds :
          /\ k.known < k.head /\ (k.known = 0 <=> k.body = 0)
          /\ k.flaw <= k.head
    /\ JunkLengths \subseteq Nat
    /\ MaxRequests \in Nat

VARIABLES
    sent,          \* the requests the client has sent
    stream,        \* bytes sent and not yet read
    phase,         \* "read", "loop", "final": the read under way; or "thrown"
    data_,
    buffer_,
    bytes,         \* bytes_transferred of the handler
    parser,        \* the last byte the parser accepted, Start or Stray
    n_char_parsed,
    content_length, \* of request_, 0 if it has none
    due,           \* per array, the handlers that have responded and not yet cleared it
    overtaken,     \* history: a read came before a memset that was due
    zeroed,        \* history: both arrays held only zeros at first
    segments,      \* history: sizes of the reads of the request
    answers        \* history: what was responded

vars == <<sent, stream, phase, data_, buffer_, bytes, parser, n_char_parsed,
          content_length, due, overtaken, zeroed, segments, answers>>

Arrays == {"data_", "buffer_"}

Junk  == <<0, 0>>
Start == <<0, 0>>
Stray == <<0, 1>>

Byte     == Nat \X Nat
Text(q, k) == [i \in 1..(k.head + k.body) |-> <<q, i>>]
Body(q)    == [i \in 1..sent[q].body |-> <<q, sent[q].head + i>>]

Answer == [result : {"good", "bad"}, final : BOOLEAN, body : Seq(Byte), segments : Seq(Nat)]

TypeOK ==
    /\ sent \in Seq(Kinds) /\ Len(sent) <= MaxRequests
    /\ stream \in Seq(Byte) /\ data_ \in Seq(Byte) /\ buffer_ \in Seq(Byte)
    /\ phase \in {"read", "loop", "final", "thrown"}
    /\ bytes \in Nat /\ (phase = "loop" /\ ~overtaken => bytes <= Len(data_))
    /\ parser \in Byte
    /\ n_char_parsed \in Nat /\ content_length \in Nat
    /\ segments \in Seq(Nat)
    /\ due \in [Arrays -> Nat]
    /\ zeroed \in BOOLEAN /\ overtaken \in BOOLEAN
    /\ answers \in Seq(Answer) /\ Len(answers) <= Len(sent)

Init ==
    /\ sent = <<>> /\ stream = <<>>
    /\ phase = "read"
    /\ \E n \in JunkLengths : data_ = [i \in 1..n |-> Junk]
    /\ \E n \in JunkLengths : buffer_ = [i \in 1..n |-> Junk]
    /\ bytes = 0
    /\ parser = Start /\ n_char_parsed = 0
    /\ content_length = 0
    /\ due = [a \in Arrays |-> 0] /\ overtaken = FALSE
    /\ zeroed = (data_ = <<>> /\ buffer_ = <<>>)
    /\ segments = <<>> /\ answers = <<>>

-----------------------------------------------------------------------------
\* The parser.

Ends(c)  == c[1] > 0 /\ c[2] = sent[c[1]].head
Flawed(c) == c[1] > 0 /\ c[2] = sent[c[1]].flaw
Knows(c) == c[1] > 0 /\ c[2] = sent[c[1]].known

\* The byte a parser in state p expects i bytes on, if d begins with its next.
Expected(p, d, i) == IF p = Start THEN <<d[1][1], i>> ELSE <<p[1], p[2] + i>>

\* How many of the first n bytes of d continue the head p stands in.
Matched(p, d, n) ==
    LET runs == {k \in 0..n : k <= Len(d) /\ \A i \in 1..k : d[i] # Junk /\ d[i] = Expected(p, d, i)}
    IN  Max(runs)

\* The outcomes of RequestParser::parse on the first n bytes of d.  Behind the end
\* of d are zeros, which it refuses.
parse(p, d, n) ==
    LET m == Matched(p, d, n)
        stops == {i \in 1..m : Ends(d[i]) \/ Flawed(d[i])}
    IN  IF stops # {}
        THEN LET i == Min(stops)
             IN  {[result |-> IF Flawed(d[i]) THEN "bad" ELSE "good", at |-> d[i], used |-> i]}
        ELSE IF m = n
        THEN {[result |-> "indeterminate", at |-> IF n = 0 THEN p ELSE d[n], used |-> n]}
        ELSE IF m = Len(d)
        THEN {[result |-> "bad", at |-> Stray, used |-> m + 1]}
        ELSE [result : {"good", "bad"}, at : {Stray}, used : (m + 1)..n]
             \cup [result : {"indeterminate"}, at : {Stray}, used : {n}]

\* Content-Length of request_ after a parse that used u bytes of d.
get_content_length(p, d, u, length) ==
    LET found == {i \in 1..Matched(p, d, u) : Knows(d[i])}
    IN  IF found = {} THEN length ELSE sent[d[Min(found)][1]].body

\* The outcomes of parse_data: substr throws when its position is negative.
parse_data(p, d, n, length) ==
    {LET l == get_content_length(p, d, o.used, length)
         result == IF l > 0 /\ n_char_parsed + o.used = Len(d) THEN "missing_data"
                   ELSE IF l > Len(d) THEN "throw"
                   ELSE o.result
     IN  [result |-> result, at |-> o.at, used |-> o.used, length |-> l,
          body |-> IF result \in {"good", "bad"} THEN SubSeq(d, Len(d) - l + 1, Len(d)) ELSE <<>>] :
        o \in parse(p, d, n)}

-----------------------------------------------------------------------------
\* The client and the network.

Send(k) ==
    /\ Len(sent) < MaxRequests /\ Len(answers) = Len(sent)
    /\ phase # "thrown"
    /\ sent' = Append(sent, k)
    /\ stream' = stream \o Text(Len(sent) + 1, k)
    /\ UNCHANGED <<phase, data_, buffer_, bytes, parser, n_char_parsed,
                   content_length, due, overtaken, zeroed, segments, answers>>

\* What an array that held s holds after the next n bytes were read into it.
Over(s, n) == SubSeq(stream, 1, n) \o SubSeq(s, n + 1, Len(s))

Took(n) ==
    /\ n \in 1..Len(stream)
    /\ stream' = SubSeq(stream, n + 1, Len(stream))
    /\ overtaken' = (overtaken \/ \E a \in Arrays : due[a] > 0)
    /\ UNCHANGED <<sent, zeroed>>

\* What a handler finds in array a, which held s, after it read n bytes into it, and
\* the memsets of a then due: one of them may have come in between.
Found(a, s, n) ==
    {[is |-> Over(s, n), due |-> due[a]]}
    \cup {[is |-> <<>>, due |-> k] : k \in {j \in 0..due[a] : j + 1 = due[a]}}

\* A response beyond the requests that were sent is not recorded.
Respond(result, final, body) ==
    /\ answers' = IF Len(answers) >= Len(sent) THEN answers
                  ELSE Append(answers, [result |-> result, final |-> final, body |-> body,
                                        segments |-> segments'])
    /\ phase' = "read"

-----------------------------------------------------------------------------
\* The handlers.

\* Mutant of React: the memset comes before the loop.
ReactClears(o, f) ==
    /\ n_char_parsed' = n_char_parsed + o.used
    /\ content_length' = o.length
    /\ data_' = <<>>
    /\ due' = [due EXCEPT !["data_"] = f.due]
    /\ \/ /\ o.result \in {"indeterminate", "missing_data", "throw"}
          /\ phase' = (CASE o.result = "indeterminate" -> "loop"
                         [] o.result = "missing_data"  -> "final"
                         [] o.result = "throw"         -> "thrown")
          /\ UNCHANGED answers
       \/ o.result \in {"good", "bad"} /\ Respond(o.result, FALSE, o.body)

\* What follows parse_data on f, the contents of data_: the loop, the branches on
\* the result; after a response a memset is due.
React(o, f) ==
    /\ n_char_parsed' = n_char_parsed + o.used
    /\ content_length' = o.length
    /\ data_' = f.is
    /\ \/ /\ o.result \in {"indeterminate", "missing_data", "throw"}
          /\ phase' = (CASE o.result = "indeterminate" -> "loop"
                         [] o.result = "missing_data"  -> "final"
                         [] o.result = "throw"         -> "thrown")
          /\ due' = [due EXCEPT !["data_"] = f.due]
          /\ UNCHANGED answers
       \/ /\ o.result \in {"good", "bad"}
          /\ due' = [due EXCEPT !["data_"] = f.due + 1]
          /\ Respond(o.result, FALSE, o.body)

\* handle_read up to the first parse.  The parser is reset unless it is to go on.
handle_read(n) ==
    /\ phase = "read" /\ Took(n)
    /\ bytes' = n
    /\ segments' = <<n>>
    /\ \E f \in Found("data_", data_, n) : \E o \in parse_data(parser, f.is, n, 0) :
          /\ React(o, f)
          /\ parser' = IF o.result \in {"indeterminate", "throw"} THEN o.at ELSE Start
    /\ UNCHANGED buffer_

\* Mutant of ReadLoop: the parser is reset before it parses.
ReadLoopResets(n) ==
    /\ phase = "loop" /\ Took(n)
    /\ segments' = Append(segments, n)
    /\ \E f \in Found("data_", data_, n) : \E o \in parse_data(Start, f.is, bytes, content_length) :
          /\ React(o, f)
          /\ parser' = IF o.result = "throw" THEN o.at ELSE Start
    /\ UNCHANGED <<buffer_, bytes>>

\* A turn of the loop: it parses as many bytes as the first read returned, and
\* resets the parser whatever the result.
ReadLoop(n) ==
    /\ phase = "loop" /\ Took(n)
    /\ segments' = Append(segments, n)
    /\ \E f \in Found("data_", data_, n) : \E o \in parse_data(parser, f.is, bytes, content_length) :
          /\ React(o, f)
          /\ parser' = IF o.result = "throw" THEN o.at ELSE Start
    /\ UNCHANGED <<buffer_, bytes>>

\* Mutant of handle_final_read: buffer_ is appended to data_.
handle_final_readAppends(n) ==
    /\ phase = "final" /\ Took(n)
    /\ segments' = Append(segments, n)
    /\ \E f \in Found("buffer_", buffer_, n) :
          /\ Respond("good", TRUE, data_ \o f.is)
          /\ buffer_' = f.is
          /\ due' = [data_ |-> due["data_"] + 1, buffer_ |-> f.due + 1]
    /\ UNCHANGED <<data_, bytes, parser, n_char_parsed, content_length>>

\* The additional read is answered; then memsets of both arrays are due.
handle_final_read(n) ==
    /\ phase = "final" /\ Took(n)
    /\ segments' = Append(segments, n)
    /\ \E f \in Found("buffer_", buffer_, n) :
          /\ Respond("good", TRUE, f.is)
          /\ buffer_' = f.is
          /\ due' = [data_ |-> due["data_"] + 1, buffer_ |-> f.due + 1]
    /\ UNCHANGED <<data_, bytes, parser, n_char_parsed, content_length>>

\* memset(data_, 0, ...), memset(buffer_, 0, ...) of a handler that has responded.
Clear(a) ==
    /\ due[a] > 0
    /\ due' = [due EXCEPT ![a] = @ - 1]
    /\ data_' = IF a = "data_" THEN <<>> ELSE data_
    /\ buffer_' = IF a = "buffer_" THEN <<>> ELSE buffer_
    /\ UNCHANGED <<sent, stream, phase, bytes, parser, n_char_parsed, content_length,
                   overtaken, zeroed, segments, answers>>

Next ==
    \/ \E k \in Kinds : Send(k)
    \/ \E n \in 1..Len(stream) : handle_read(n) \/ ReadLoop(n) \/ handle_final_read(n)
    \/ \E a \in Arrays : Clear(a)

Spec == Init /\ [][Next]_vars

-----------------------------------------------------------------------------

Answered == DOMAIN answers

Whole(i) == answers[i].segments = <<sent[i].head + sent[i].body>>

\* The second read of a split request is no longer than the first.
ShortTail(i) ==
    /\ sent[i].flaw = 0
    /\ Len(answers[i].segments) = 2
    /\ answers[i].segments[2] <= answers[i].segments[1]
    /\ answers[i].segments[1] + answers[i].segments[2] = sent[i].head

\* On a connection whose requests have no body, requests that arrive whole, or in
\* two pieces with the longer first, are answered for what they are: the count of
\* characters that outlives a request, the stale bytes of data_ and the stale
\* bytes_transferred do no harm.  It holds until a read overtakes a memset, which two
\* threads can bring about (RefusedOnlyIfBad of ServerSessions).
BodylessAreServed ==
    ~overtaken =>
    \A i \in Answered :
        (\A j \in 1..i : sent[j].body = 0 /\ (Whole(j) \/ ShortTail(j))) =>
            /\ answers[i].result = IF sent[i].flaw = 0 THEN "good" ELSE "bad"
            /\ answers[i].body = <<>>

\* The first request of a connection gets its own body, whether it arrives whole
\* or head first, if data_ and buffer_ were zero.
FirstIsServed ==
    zeroed /\ 1 \in Answered /\ sent[1].flaw = 0
    /\ (Whole(1) \/ answers[1].segments = <<sent[1].head, sent[1].body>>) =>
        answers[1].result = "good" /\ answers[1].body = Body(1)

\* A request whose body has not arrived with the head is read for again (parse_data;
\* the test PostRequestNoData expects missing_data).
HeadAloneIsMissing ==
    ~overtaken =>
    \A i \in Answered :
        /\ sent[i].flaw = 0 /\ sent[i].body > 0
        /\ answers[i].segments[1] = sent[i].head
        => answers[i].final
=============================================================================
