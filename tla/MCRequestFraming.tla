------------------------- MODULE MCRequestFraming -------------------------
(* Instances of RequestFraming for TLC.  The sizes are the smallest that    *)
(* split heads, bodies and both, and let a body be as long as a head.       *)
EXTENDS RequestFraming

MCGet      == [head |-> 2, body |-> 0, known |-> 0, flaw |-> 0]
MCLongGet  == [head |-> 4, body |-> 0, known |-> 0, flaw |-> 0]
MCFlawed   == [head |-> 2, body |-> 0, known |-> 0, flaw |-> 2]
MCPost     == [head |-> 3, body |-> 2, known |-> 2, flaw |-> 0]
MCLongPost == [head |-> 3, body |-> 3, known |-> 1, flaw |-> 0]
MCFlawedPost == [head |-> 3, body |-> 2, known |-> 1, flaw |-> 2]

\* A connection is followed up to the first read that overtakes a memset: nothing but
\* TypeOK is claimed of what comes after.
MCUpToOvertaking == ~overtaken

MCBodies   == {MCLongPost, MCPost, MCGet}
MCAll      == {MCGet, MCLongGet, MCFlawed, MCPost, MCFlawedPost}
=============================================================================
