-------------------------- MODULE MCRequestParser --------------------------
(* An instance of EchoRequests for TLC: a few heads, and all that come of    *)
(* them by replacing, dropping or inserting one character.                  *)
EXTENDS EchoRequests

MCGet  == <<"G">>
MCPost == <<"P">>
MCPut  == <<"P", "U">>
MCUnknown == <<"U">>

MCCrlf    == <<"CR", "LF">>
MCVersion == <<"SP", "H", "T", "T", "P", "/", "1", ".", "1">> \o MCCrlf

MCPlain   == <<"G", "SP", "/">> \o MCVersion \o <<"a", ":", "SP", "x">> \o MCCrlf \o MCCrlf
MCTwice   == <<"P", "SP", "/", "x">> \o MCVersion \o <<"a", ":", "SP", "x">> \o MCCrlf
             \o <<"a", ":", "SP", "y">> \o MCCrlf \o MCCrlf
MCBare    == <<"x", "SP">> \o MCVersion \o MCCrlf
MCFolded  == <<"G", "SP", "/">> \o MCVersion \o <<"a", ":", "SP">> \o MCCrlf
             \o <<"SP", "b", "c", ":", "SP", "y">> \o MCCrlf \o <<"TAB", "x">> \o MCCrlf \o MCCrlf

MCBases == {MCPlain, MCTwice, MCBare, MCFolded}

\* The characters put in, and all of them.
MCEdited == {"a", "1", ".", "/", ":", "H", "SP", "TAB", "CR", "LF", "ctl", "high", "tspecial"}

MCChars == MCEdited \cup {"G", "P", "U", "T", "x", "y", "b", "c"}

MCEdits(t) ==
    {ReplaceAt(t, i, c) : i \in DOMAIN t, c \in MCEdited}
    \cup {RemoveAt(t, i) : i \in DOMAIN t}
    \cup {InsertAt(t, i, c) : i \in DOMAIN t, c \in MCEdited}

MCTexts == MCBases \cup UNION {MCEdits(t) : t \in MCBases}
=============================================================================
