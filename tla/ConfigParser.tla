---------------------------- MODULE ConfigParser ----------------------------
(***************************************************************************)
(* Reading the configuration file: ParseToken and Parse                    *)
(* (config_parser.cc), the statements they build, what ToString prints of  *)
(* them (config.cc, config_statement.cc), what the getters find in them    *)
(* (config.cc), and whether main starts servers with it (server_main.cc).  *)
(*                                                                         *)
(* The file is written as it is read, a phrase at a time, with any layout; *)
(* it may end anywhere, within a token too.  A character other than those  *)
(* ParseToken tells apart may stand for a run of them, so that a keyword   *)
(* is one character here.  Blocks are numbered as they are allocated.      *)
(***************************************************************************)
EXTENDS Naturals, Sequences, FiniteSets, SequencesExt

CONSTANTS
    Letters,    \* characters that ParseToken does not tell apart, keywords among them
    Digits,     \* those of them that are digits
    Phrases,    \* what the file is made of: sequences of tokens and comments
    MaxPhrases  \* bound on the length of the file

Blank   == {" ", "\t", "\n", "\r"}
Quotes  == {"\"", "'"}
Special == {"{", "}", ";"}
Chars   == Letters \cup Blank \cup Quotes \cup Special \cup {"#"}

\* A token or a comment is the sequence of its characters: a word, a mark, or what
\* goes from its first character to the first that closes it.
Lexeme == Seq(Chars)

Marks     == {<<c>> : c \in Special}
IsWord(l) == l[1] \in Letters
IsComment(l) == l[1] = "#"

ClosedBy(l, ends) ==
    Len(l) > 1 /\ Last(l) \in ends /\ \A i \in 2..(Len(l) - 1) : l[i] \notin ends

Whole(l) ==
    \/ l \in Seq(Letters) \ {<<>>}
    \/ l \in Marks
    \/ l \in Lexeme /\ l # <<>> /\ l[1] \in Quotes /\ ClosedBy(l, {l[1]})
    \/ l \in Lexeme /\ l # <<>> /\ IsComment(l) /\ ClosedBy(l, {"\n", "\r"})

\* A phrase of more than one lexeme is written up to a mark, a string or a comment.
ASSUME ConfigParserAssumption ==
    /\ Digits \subseteq Letters
    /\ {"4", "listen", "http", "https", "threads", "hostname"} \subseteq Letters
    /\ Letters \cap (Blank \cup Quotes \cup Special \cup {"#"}) = {}
    /\ Phrases \subseteq Seq(Lexeme) \ {<<>>}
    /\ \A p \in Phrases : \A i \in DOMAIN p : Whole(p[i])
    /\ \A p \in Phrases : Len(p) > 1 => ~IsWord(Last(p))
    /\ MaxPhrases \in Nat

VARIABLES
    text,            \* what is written and not yet read
    ended,           \* nothing more will be written
    file,            \* history: the tokens and comments written
    phrases,         \* how many phrases were written
    state,           \* of ParseToken
    value,           \* of ParseToken
    last_token_type,
    config_stack,    \* the open blocks, the innermost last
    blocks,          \* the statements_ of each block; the first block is the file
    outcome,         \* "parsing", then what Parse returns
    started,         \* what main does with it
    ports,           \* of main: port_types
    threads          \* of main

input  == <<text, ended, file, phrases>>
server == <<started, ports, threads>>
vars   == <<input, state, value, last_token_type, config_stack, blocks, outcome, server>>

\* child is the block of a statement, 0 if it has none.
Statement == [tokens : Seq(Lexeme), child : Nat]

Port == [port : Lexeme, type : Lexeme]

DefaultThreads == <<"4">>

Types == {"START", "NORMAL", "START_BLOCK", "END_BLOCK", "STATEMENT_END", "EOF"}

TypeOK ==
    /\ text \in Seq(Chars) /\ ended \in BOOLEAN
    /\ file \in Seq(Lexeme) /\ phrases \in 0..MaxPhrases
    /\ state \in {"whitespace", "'", "\"", "comment", "normal"}
    /\ value \in Lexeme
    /\ last_token_type \in Types
    /\ config_stack \in Seq(1..Len(blocks))
    /\ blocks \in Seq(Seq(Statement))
    /\ outcome \in {"parsing", "true", "false", "undefined"}
    /\ started \in {"no", "serving", "invalid", "undefined"}
    /\ ports \in Seq(Port) /\ threads \in Lexeme

Init ==
    /\ text = <<>> /\ ended = FALSE /\ file = <<>> /\ phrases = 0
    /\ state = "whitespace" /\ value = <<>>
    /\ last_token_type = "START"
    /\ config_stack = <<1>> /\ blocks = << <<>> >>
    /\ outcome = "parsing"
    /\ started = "no" /\ ports = <<>> /\ threads = DefaultThreads

-----------------------------------------------------------------------------
(* The file                                                                *)

\* What may stand between two tokens: two words need a blank.
Layout(l) ==
    {b \in {<<>>, <<" ">>, <<"\n">>} :
        b = <<>> /\ file # <<>> => ~(IsWord(Last(file)) /\ l[1] \notin Special)}

\* A phrase with a blank after each of its words.
Written(p) == FoldLeft(LAMBDA t, l : t \o l \o (IF IsWord(l) THEN <<" ">> ELSE <<>>), <<>>, p)

Write(p) ==
    /\ outcome = "parsing" /\ text = <<>> /\ ~ended /\ phrases < MaxPhrases
    /\ \E b \in Layout(Head(p)) :
          text' = b \o (IF Len(p) = 1 THEN Head(p) ELSE Written(p))
    /\ file' = file \o p
    /\ phrases' = phrases + 1
    /\ UNCHANGED <<ended, state, value, last_token_type, config_stack, blocks, outcome, server>>

\* The file ends, within the string or the comment that was to come.
End ==
    /\ outcome = "parsing" /\ text = <<>> /\ ~ended
    /\ ended' = TRUE
    /\ \/ UNCHANGED <<text, file>>
       \/ \E p \in Phrases : \E b \in Layout(Head(p)) :
             /\ Len(p) = 1 /\ Len(Head(p)) > 1
             /\ text' = b \o Front(Head(p))
             /\ file' = Append(file, Front(Head(p)))
    /\ UNCHANGED <<phrases, state, value, last_token_type, config_stack, blocks, outcome, server>>

-----------------------------------------------------------------------------
(* ParseToken                                                              *)

\* The type of the token that the character completes, "" if it completes none.
Completes(c) ==
    CASE state = "whitespace" -> (CASE c = "{" -> "START_BLOCK"
                                    [] c = "}" -> "END_BLOCK"
                                    [] c = ";" -> "STATEMENT_END"
                                    [] OTHER   -> "")
      [] state \in Quotes     -> IF c = state THEN "NORMAL" ELSE ""
      [] state = "comment"    -> IF c \in {"\n", "\r"} THEN "COMMENT" ELSE ""
      [] state = "normal"     -> IF c \in {" ", "\t", "\n"} \cup Special THEN "NORMAL" ELSE ""

\* The state after a character that completes no token.
Following(c) ==
    IF state # "whitespace" THEN state
    ELSE CASE c = "#"        -> "comment"
           [] c \in Quotes   -> c
           [] c \in Blank    -> "whitespace"
           [] OTHER          -> "normal"

\* The delimiter of a word is put back.
Ungets == state = "normal"

-----------------------------------------------------------------------------
(* Parse, given the token that ParseToken returns                          *)

\* The innermost open block, and its last statement.
Top       == Last(config_stack)
Statements == blocks[Top]

\* A token of type may follow last_token_type.
Allowed(type) ==
    CASE type = "NORMAL"        -> last_token_type # "EOF"
      [] type = "STATEMENT_END" -> last_token_type = "NORMAL"
      [] type = "START_BLOCK"   -> last_token_type = "NORMAL"
      [] type = "END_BLOCK"     -> last_token_type \in {"STATEMENT_END", "START_BLOCK", "END_BLOCK"}
      [] type = "EOF"           -> last_token_type \in {"STATEMENT_END", "END_BLOCK", "START"}
      [] OTHER                  -> FALSE

\* A word begins a statement or goes on with the last one.
AddToken(tok) ==
    /\ \/ /\ last_token_type = "NORMAL"
          /\ blocks' = [blocks EXCEPT ![Top][Len(Statements)].tokens = Append(@, tok)]
       \/ /\ last_token_type # "NORMAL"
          /\ blocks' = [blocks EXCEPT ![Top] = Append(@, [tokens |-> <<tok>>, child |-> 0])]
    /\ UNCHANGED <<config_stack, outcome>>

\* Mutant of OpenBlock: the block is not attached to its statement.
OpenBlockAlone ==
    /\ blocks' = Append(blocks, <<>>)
    /\ config_stack' = Append(config_stack, Len(blocks) + 1)
    /\ UNCHANGED outcome

\* Mutant of OpenBlock: the block is pushed and not kept.
OpenBlockUnkept ==
    /\ config_stack' = Append(config_stack, Len(blocks) + 1)
    /\ UNCHANGED <<blocks, outcome>>

OpenBlock ==
    /\ blocks' = Append([blocks EXCEPT ![Top][Len(Statements)].child = Len(blocks) + 1], <<>>)
    /\ config_stack' = Append(config_stack, Len(blocks) + 1)
    /\ UNCHANGED outcome

\* Mutant of PopAtEnd: Parse returns at the end of the file.
PopAtEndAlways ==
    /\ config_stack' = Front(config_stack)
    /\ outcome' = "true"
    /\ UNCHANGED blocks

\* At the end of the file only the file's own block may be open.
PopAtEnd ==
    /\ config_stack' = Front(config_stack)
    /\ outcome' = IF Len(config_stack) = 1 THEN "true" ELSE outcome
    /\ UNCHANGED blocks

\* A bracket too many has popped the file's block: what follows uses the top of
\* an empty stack.
Undefined ==
    /\ outcome' = "undefined"
    /\ UNCHANGED <<config_stack, blocks>>

Parse(type, tok) ==
    /\ last_token_type' = IF type = "COMMENT" THEN last_token_type ELSE type
    /\ \/ type = "COMMENT" /\ UNCHANGED <<config_stack, blocks, outcome>>
       \/ /\ type # "COMMENT" /\ ~Allowed(type)
          /\ outcome' = "false" /\ UNCHANGED <<config_stack, blocks>>
       \/ /\ type # "COMMENT" /\ Allowed(type)
          /\ IF config_stack = <<>> /\ type # "STATEMENT_END" THEN Undefined
             ELSE CASE type = "NORMAL"        -> AddToken(tok)
                    [] type = "START_BLOCK"   -> OpenBlock
                    [] type = "END_BLOCK"     -> /\ config_stack' = Front(config_stack)
                                                 /\ UNCHANGED <<blocks, outcome>>
                    [] type = "EOF"           -> PopAtEnd
                    [] type = "STATEMENT_END" -> UNCHANGED <<config_stack, blocks, outcome>>

\* One turn of ParseToken's loop and, with its last, one of Parse's.
ParseToken ==
    /\ outcome = "parsing" /\ text # <<>>
    /\ LET c == Head(text) IN
          \/ /\ Completes(c) # ""
             /\ Parse(Completes(c), IF state \in Quotes THEN Append(value, c) ELSE value)
             /\ state' = "whitespace" /\ value' = <<>>
             /\ text' = IF Ungets THEN text ELSE Tail(text)
          \/ /\ Completes(c) = ""
             /\ state' = Following(c)
             /\ value' = IF Following(c) = "whitespace" THEN <<>> ELSE Append(value, c)
             /\ text' = Tail(text)
             /\ UNCHANGED <<last_token_type, config_stack, blocks, outcome>>
    /\ UNCHANGED <<ended, file, phrases, server>>

\* The end of the file: an open string is an error, an open word is dropped.
ParseTokenEnds ==
    /\ outcome = "parsing" /\ text = <<>> /\ ended
    /\ \/ /\ state \in Quotes /\ outcome' = "false"
          /\ UNCHANGED <<last_token_type, config_stack, blocks>>
       \/ state \notin Quotes /\ Parse("EOF", <<>>)
    /\ state' = "whitespace" /\ value' = <<>>
    /\ UNCHANGED <<input, server>>

-----------------------------------------------------------------------------
(* What main takes from the blocks.  A block inside another has the greater *)
(* number, so that the functions below are defined.                         *)

Keyword(s, word) == \E i \in 1..(Len(s.tokens) - 1) : s.tokens[i] = <<word>>

IsNumber(l) == ToSet(l) \subseteq Digits

\* The third token is taken for the port, wherever "listen" stands before it.
Listens(s)   == Len(s.tokens) = 3 /\ Keyword(s, "listen")
Misplaced(s) == Listens(s) /\ s.tokens[1] # <<"listen">>
Malformed(s) ==
    /\ Listens(s)
    /\ ~IsNumber(s.tokens[3]) \/ s.tokens[2] \notin {<<"http">>, <<"https">>}

\* Mutant of PortOf: the two tokens are swapped.
PortOfSwapped(s) == [port |-> s.tokens[2], type |-> s.tokens[3]]

PortOf(s) == [port |-> s.tokens[3], type |-> s.tokens[2]]

\* The ports found in a block, up to the statement that stops the search; what
\* stops it in an inner block does not stop the outer one. The comment above the
\* code (config.cc:35-37) says that it "Currently returns the first port number
\* found in the first server block and assumes correct format was given from
\* NginxConfig.Parse()": the code goes on after the first port, into every block,
\* and does look at the format. The model is that of the code.
get_port[b \in 1..Len(blocks)] ==
    FoldLeft(LAMBDA r, s :
                IF r.stop # "" THEN r
                ELSE IF Misplaced(s) THEN [r EXCEPT !.stop = "undefined"]
                ELSE IF Malformed(s) THEN [r EXCEPT !.stop = "false"]
                ELSE IF Listens(s)   THEN [r EXCEPT !.ports = Append(@, PortOf(s))]
                ELSE IF s.child = 0  THEN r
                ELSE [ports |-> r.ports \o get_port[s.child].ports,
                      stop  |-> IF get_port[s.child].stop = "undefined"
                                THEN "undefined" ELSE ""],
             [ports |-> <<>>, stop |-> ""], blocks[b])

\* The first statement that names the threads or has a block decides.
get_threads[b \in 1..Len(blocks)] ==
    LET Decides(s)  == Keyword(s, "threads") \/ s.child # 0
        first       == SelectInSeq(blocks[b], Decides)
        s           == blocks[b][first]
        at          == SelectInSeq(s.tokens, LAMBDA t : t = <<"threads">>)
    IN  IF first = 0 THEN DefaultThreads
        ELSE IF ~Keyword(s, "threads") THEN get_threads[s.child]
        ELSE IF IsNumber(s.tokens[at + 1]) THEN s.tokens[at + 1] ELSE DefaultThreads

\* The hostname of the file's own block, if it has one, and whether it is quoted.
get_hostname ==
    LET first == SelectInSeq(blocks[1], LAMBDA s : Keyword(s, "hostname"))
        s     == blocks[1][first]
    IN  IF first = 0 THEN "none"
        ELSE IF s.tokens[SelectInSeq(s.tokens, LAMBDA t : t = <<"hostname">>) + 1][1] = "\""
        THEN "quoted" ELSE "unquoted"

\* main from the return of Parse to the servers it creates; a file with no
\* location and no dir.
main ==
    /\ outcome \in {"true", "false"} /\ started = "no"
    /\ ports' = get_port[1].ports
    /\ threads' = get_threads[1]
    /\ started' =
          IF get_port[1].stop = "undefined" THEN "undefined"
          ELSE IF \/ outcome = "false" \/ get_port[1].stop = "false"
                  \/ ports' = <<>> \/ get_hostname = "unquoted" THEN "invalid"
          ELSE IF get_hostname = "none" /\ \E i \in DOMAIN ports' : ports'[i].type = <<"http">>
          THEN "undefined" ELSE "serving"
    /\ UNCHANGED <<input, state, value, last_token_type, config_stack, blocks, outcome>>

Next ==
    \/ \E p \in Phrases : Write(p)
    \/ End
    \/ ParseToken
    \/ ParseTokenEnds
    \/ main

Spec == Init /\ [][Next]_vars

-----------------------------------------------------------------------------
(* What the file says, token by token                                      *)

Uncommented(s) == FoldLeft(LAMBDA ts, l : IF IsComment(l) THEN ts ELSE Append(ts, l), <<>>, s)

\* The word at the very end is unfinished, and lost.
Tokens ==
    LET ts == Uncommented(file)
    IN  IF ended /\ ts # <<>> /\ file # <<>> /\ IsWord(Last(file)) THEN Front(ts) ELSE ts

Is(l, c) == l = <<c>>

UnclosedString == ended /\ file # <<>> /\ Last(file)[1] \in Quotes /\ ~Whole(Last(file))

Count(ts, c) == Cardinality({i \in DOMAIN ts : Is(ts[i], c)})

\* No end of the file can mend it: a mark after another that it cannot follow.
Misused(ts) ==
    \E i \in DOMAIN ts :
        \/ ts[i] \in {<<";">>, <<"{">>} /\ (i = 1 \/ ts[i - 1] \in Marks)
        \/ ts[i] = <<"}">> /\ (i = 1 \/ ts[i - 1] \notin Marks)

\* More blocks are closed than were opened.
Overclosed(ts) ==
    \E i \in DOMAIN ts : Count(SubSeq(ts, 1, i), "}") > Count(SubSeq(ts, 1, i), "{")

\* Statements and blocks that are all finished.
Complete(ts) ==
    /\ ts # <<>> => Last(ts) \in {<<";">>, <<"}">>}
    /\ Count(ts, "}") = Count(ts, "{")

\* What ToString prints of a block, token by token.
Serialized[b \in 1..Len(blocks)] ==
    FoldLeft(LAMBDA t, s :
                t \o s.tokens \o (IF s.child = 0 THEN << <<";">> >>
                                   ELSE << <<"{">> >> \o Serialized[s.child] \o << <<"}">> >>),
             <<>>, blocks[b])

\* Parse returns true for exactly the files that are made of finished statements
\* and blocks, and what it has built prints as the file, comments and an
\* unfinished last word apart (Parse, NginxConfig::ToString).
ReadsFiles ==
    /\ outcome = "true" =>
          /\ ended /\ ~Misused(Tokens) /\ ~Overclosed(Tokens) /\ Complete(Tokens)
          /\ Serialized[1] = Tokens
    /\ outcome = "false" =>
          Misused(Tokens) \/ (ended /\ (UnclosedString \/ ~Complete(Tokens)))
    /\ outcome = "undefined" => Overclosed(Tokens)

\* While Parse runs each open block belongs to the last statement of the block
\* around it, and a word can be added to the last statement of the innermost
\* (config_stack.top()->statements_.back()).
OpenBlocksAreNested ==
    outcome = "parsing" =>
        /\ \A i \in 1..(Len(config_stack) - 1) :
              /\ blocks[config_stack[i]] # <<>>
              /\ Last(blocks[config_stack[i]]).child = config_stack[i + 1]
        /\ last_token_type = "NORMAL" =>
              /\ config_stack # <<>> /\ Statements # <<>>
              /\ Last(Statements).child = 0

\* A statement of the file begins at i, with the word.
Begins(ts, i, word) == ts[i] = <<word>> /\ (i = 1 \/ ts[i - 1] \in Marks)

\* Keywords only begin statements; the getters find them within others too.
KeywordsLead(ts) ==
    \A i \in DOMAIN ts : \A word \in {"listen", "threads", "hostname"} :
        ts[i] = <<word>> => Begins(ts, i, word)

\* The listen statements: "listen type port" and a mark.
ListenAt(ts, i) ==
    /\ Begins(ts, i, "listen") /\ i + 3 \in DOMAIN ts
    /\ ts[i + 1] \notin Marks /\ ts[i + 2] \notin Marks /\ ts[i + 3] \in Marks

\* One that names a port: what stands in the block of another is not listed.
ListsPort(ts, i) ==
    ts[i + 1] \in {<<"http">>, <<"https">>} /\ IsNumber(ts[i + 2]) /\ ts[i + 3] = <<";">>

Listed(ts) ==
    FoldLeft(LAMBDA r, i : IF ListenAt(ts, i)
                           THEN Append(r, [port |-> ts[i + 2], type |-> ts[i + 1]]) ELSE r,
             <<>>, [i \in DOMAIN ts |-> i])

\* The threads statements with a value, "threads value", before any block is closed.
ThreadsAt(ts, i) ==
    /\ Begins(ts, i, "threads") /\ i + 1 \in DOMAIN ts /\ ts[i + 1] \notin Marks
    /\ \A j \in 1..i : ts[j] # <<"}">>

\* The servers listen on the ports of the file in the order in which they are
\* written, at any depth: main makes a server of each pair get_port collects
\* (server_main.cc:129-146), which is more than "the first port number found in the
\* first server block" of the comment at config.cc:35-37. So it is if every listen
\* statement names a port and keywords only begin statements; the threads are those
\* of the first threads statement, if no block was closed before it and its value is
\* a number (get_threads); an HTTP server has a host name to redirect to (main,
\* pop_back).
ServesWhatIsListed ==
    started = "serving" /\ KeywordsLead(Tokens) =>
        LET ts    == Tokens
            set   == {i \in DOMAIN ts : ThreadsAt(ts, i)}
            first == CHOOSE i \in set : \A j \in set : i <= j
        IN  /\ (\A i \in DOMAIN ts : ListenAt(ts, i) => ListsPort(ts, i)) => ports = Listed(ts)
            /\ threads = IF set # {} /\ IsNumber(ts[first + 1]) THEN ts[first + 1]
                         ELSE DefaultThreads
            /\ (\E i \in DOMAIN ports : ports[i].type = <<"http">>) =>
                  \E i \in DOMAIN ts : Begins(ts, i, "hostname")
=============================================================================
