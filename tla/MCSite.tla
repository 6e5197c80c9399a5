------------------------------- MODULE MCSite -------------------------------
(* An instance of Site for TLC: static files at "/" and "/p/", a proxied     *)
(* location "/p/q/" between them.  Paths of up to six characters, each with  *)
(* up to two characters encoded, a few with a NUL, and the URIs of up to     *)
(* four characters.                                                          *)
EXTENDS Site, TLC

CONSTANT here, there

p == 112
q == 113

MCProxy == <<Slash, p, Slash, q, Slash>>
MCRoots == (<<Slash>> :> <<100, Slash>>) @@ (<<Slash, p, Slash>> :> <<46, Slash, 100, Slash>>)
MCOrder == [l \in {MCProxy} \cup DOMAIN MCRoots |-> Len(l)]

MCHex(n) == IF n < 10 THEN 48 + n ELSE 87 + n
MCParts(s, S) ==
    [i \in DOMAIN s |->
        IF i \in S \/ s[i] = 0 THEN <<37, MCHex(s[i] \div 16), MCHex(s[i] % 16)>> ELSE <<s[i]>>]

MCStrings(n, C) == UNION {[1..k -> C] : k \in 1..n}

\* The requests that are proxied: below the location, at it, beside it, and two
\* that only look like it segment by segment.
MCProxied == {MCProxy \o <<q, Slash>>, Front(MCProxy), <<Slash, q, Slash, q>>, <<p, Slash, q>>}

MCBelow == {<<Slash>>, <<Slash, p, Slash>>}
MCPaths == {b \o s : b \in MCBelow, s \in {<<>>} \cup MCStrings(3, {Slash, p, q, 46})
                                         \cup {<<p, 0>>, <<p, 0, 46, q>>, <<0, Slash>>}}

MCEncoded ==
    UNION {{[path |-> s, parts |-> MCParts(s, S), uri |-> FlattenSeq(MCParts(s, S))] :
               S \in {T \in SUBSET DOMAIN s : Cardinality(T) <= 2}} : s \in MCPaths}

MCOthers == {[path |-> <<>>, parts |-> <<>>, uri |-> s] : s \in MCStrings(4, {Slash, 37, 50, 102, 43})}

MCAsked ==
    {a \in MCEncoded \cup MCOthers : LocationFor(a.uri) # MCProxy}
    \cup {[path |-> <<>>, parts |-> <<>>, uri |-> s] : s \in MCProxied}

MCHosts == {here, None}
MCLocations == {[host |-> here, uri |-> <<>>], [host |-> here, uri |-> <<Slash, p>>],
                [host |-> there, uri |-> <<Slash, p>>]}

MCPieces == {<<"href", "quote">> \o u \o <<"quote">> :
                u \in {<<>>, <<"text">>, <<"slash", "text">>}}
            \cup {<<"src", "quote", "slash", "quote">>, <<"text">>, <<"src">>}
MCPages  == UNION {[1..k -> MCPieces] : k \in 1..2}
=============================================================================
