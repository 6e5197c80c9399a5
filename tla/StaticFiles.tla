---------------------------- MODULE StaticFiles ----------------------------
(***************************************************************************)
(* Which file StaticRequestHandler opens for a URI                         *)
(* (static_request_handler.cc): url_decode, check_request_path,            *)
(* replace_path and get_extension.  Whether the visitor may see it is in   *)
(* Accounts.  A string is the sequence of its characters' codes; h is the  *)
(* handler, with the path of its location and its directory, both with a   *)
(* final slash.                                                            *)
(***************************************************************************)
EXTENDS Naturals, Sequences, SequencesExt

Space == 32  Plus == 43  Minus == 45  Dot == 46  Slash == 47  Percent == 37

\* "index.html"
Index == <<105, 110, 100, 101, 120, 46, 104, 116, 109, 108>>

\* What a function that returns false leaves; no string.
Failed == <<256>>

Digit(c) ==
    CASE c \in 48..57  -> c - 48
      [] c \in 65..70  -> c - 55
      [] c \in 97..102 -> c - 87
      [] OTHER         -> 16

IsHex(c) == Digit(c) < 16

\* What is read from the two characters by is >> std::hex, as a char; 256 if
\* nothing is.  One digit is enough, and so is a sign before it.
HexValue(c, d) ==
    CASE IsHex(c) /\ IsHex(d)               -> 16 * Digit(c) + Digit(d)
      [] IsHex(c) /\ ~IsHex(d)              -> IF c = 48 /\ d \in {88, 120} THEN 256 ELSE Digit(c)
      [] c \in {Space, Plus} /\ IsHex(d)    -> Digit(d)
      [] c = Minus /\ IsHex(d)              -> (256 - Digit(d)) % 256
      [] OTHER                              -> 256

url_decode(in) ==
    LET After(c, rest) == IF rest = Failed THEN Failed ELSE <<c>> \o rest
        out[i \in 1..(Len(in) + 3)] ==
            IF i > Len(in) THEN <<>>
            ELSE CASE in[i] = Plus    -> After(Space, out[i + 1])
                   [] in[i] = Percent -> IF i + 2 > Len(in) \/ HexValue(in[i + 1], in[i + 2]) = 256
                                         THEN Failed
                                         ELSE After(HexValue(in[i + 1], in[i + 2]), out[i + 3])
                   [] OTHER           -> After(in[i], out[i + 1])
    IN  out[1]

HasDotDot(p) == \E i \in 1..(Len(p) - 1) : p[i] = Dot /\ p[i + 1] = Dot

\* Mutant of check_request_path: the URI is searched for "..", not the path.
check_request_pathRaw(uri) ==
    LET p == url_decode(uri)
    IN  IF p = Failed \/ p = <<>> \/ Head(p) # Slash \/ HasDotDot(uri) THEN Failed
        ELSE IF Last(p) = Slash THEN p \o Index ELSE p

check_request_path(uri) ==
    LET p == url_decode(uri)
    IN  IF p = Failed \/ p = <<>> \/ Head(p) # Slash \/ HasDotDot(p) THEN Failed
        ELSE IF Last(p) = Slash THEN p \o Index ELSE p

\* The first place at which the string s has the string t, 0 if there is none.
Find(s, t) ==
    SelectInSeq([i \in DOMAIN s |-> i],
                LAMBDA i : i + Len(t) - 1 <= Len(s) /\ SubSeq(s, i, i + Len(t) - 1) = t)

replace_path(h, p) ==
    IF Find(p, h.path_) = 0 THEN Failed
    ELSE ReplaceSubSeqAt(Find(p, h.path_), h.root_, h.path_, p)

\* The characters after the last dot, if it is in the last segment.
get_extension(p) ==
    LET dot   == SelectLastInSeq(p, LAMBDA c : c = Dot)
        slash == SelectLastInSeq(p, LAMBDA c : c = Slash)
    IN  IF dot > slash THEN SubSeq(p, dot + 1, Len(p)) ELSE <<>>

\* What a C string has of s: the characters before the first NUL.
c_str(s) ==
    LET nul == SelectInSeq(s, LAMBDA c : c = 0)
    IN  IF nul = 0 THEN s ELSE SubSeq(s, 1, nul - 1)

\* handle_request, once the visitor's cookie has been looked at: the status, the
\* file that it opens, found there or not, and the extension that decides on the
\* type of what is found.  The extension is that of the whole path.
handle_request(h, uri, found) ==
    LET p == check_request_path(uri)
        f == replace_path(h, p)
    IN  CASE p = Failed                -> [code |-> "400", file |-> <<>>, extension |-> <<>>]
          [] p # Failed /\ f = Failed  -> [code |-> "500", file |-> <<>>, extension |-> <<>>]
          [] OTHER -> [code |-> IF found THEN "200" ELSE "404", file |-> c_str(f),
                       extension |-> get_extension(f)]
=============================================================================
