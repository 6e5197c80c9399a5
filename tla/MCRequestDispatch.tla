------------------------- MODULE MCRequestDispatch -------------------------
(* Instances of RequestDispatch for TLC.  A segment is a number, and stands  *)
(* for a name of that many letters; names are ordered as the numbers are, so *)
(* that a path may be longer than another with more segments.                *)
EXTENDS RequestDispatch, Functions

MCSegments == 1..2
MCSeqs(n)  == UNION {[1..k -> MCSegments] : k \in 0..n}
MCPaths    == MCSeqs(2)
MCUris     == MCSeqs(3)

\* The letters, a slash after each segment, and the first slash.
MCLengthOf(p) == FoldFunction(+, 1 + Len(p), p)

MCBefore(p, q) ==
    \/ p # q /\ Extends(q, p)
    \/ \E i \in 1..Len(p) : /\ i <= Len(q) /\ p[i] < q[i]
                            /\ \A j \in 1..(i - 1) : p[j] = q[j]

MCLength == [p \in MCPaths |-> MCLengthOf(p)]
MCOrder  == [p \in MCPaths |-> Cardinality({q \in MCPaths : MCBefore(q, p)})]
=============================================================================
