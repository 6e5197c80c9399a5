# TLA+ models of the Foxy web server

These modules describe the web server of this repository (`src/`, `include/`),
are model-checked with TLC on small instances and, for the results listed below,
proved with TLAPS for all instances. Every definition is translated from the
source; `PROJECT.json` gives the lines each one stands for, the runs, the
mutants that show each property can fail, and the hazards the properties are for.

## Inventory

| Component | State | Operations | Interacts with |
|---|---|---|---|
| `main` (`server_main.cc`) | the io_service, the lists of servers | parse the config, create the database and two default accounts, construct the servers, run the io_service, `signal_handler` | everything |
| `Server`, `HttpServer` | acceptor, worker threads | constructor, `start_accept`, `handle_accept`, destructor (join) | allocate sessions; all threads run one io_service |
| `Session`, `HttpSession` | socket, `data_`, `buffer_`, `request_`, `response_generator_`, the object's own life | `handle_handshake`, `handle_read`, `handle_final_read`, `handle_write`, `close_socket` | parser, generator, handlers, data collector; `HttpSession` redirects instead of dispatching |
| `RequestParser` | parser state, the header being read, `n_char_parsed` | `parse`, `consume`, `parse_data`, `reset` | one per session, fed with `data_` |
| `RequestHandlerGenerator` | path to handler map | `get_map`, `dispatch_handler` | built once, copied into each session |
| `DataCollector` | counters per handler, path and status | `add_handler`, `increment_request`, the maps' getters | singleton shared by all threads |
| Config parser, `NginxConfig` | stack of blocks | `ParseToken`, `Parse`, `get_port`, `get_threads`, `get_dir`, `get_hostname` | read once by `main` |
| Login, cookie, password, database | SQLite file, tokens held by browsers | sign up, log in, verify a cookie | `StaticRequestHandler` checks the cookie |
| `ProxyRequestHandler` | host, port and root of the upstream | `handle_request` (with redirects), `clean_html` | an upstream server |
| `StaticRequestHandler` | root, private flag | path checks, `url_decode`, cookie check | file system, cookies |
| echo, health, 404, status handlers | none | `handle_request` | status reads the data collector |
| `ResponseGenerator`, `utility`, mime types | response being sent | `init`, `to_buffers`, stock responses | the session that owns it |

### What is hard here

- **Threads and no strand.** Every server constructor starts threads, and all of
  them and `main` run one `io_service`. `strand` is not used anywhere, so nothing
  but the order in which handlers start their next operation keeps two threads
  out of one session.
- **Objects that delete themselves.** A session ends by `delete this` in
  whichever callback comes last; a TLS shutdown adds a callback of its own.
- **A blocking read in a handler.** `handle_read` loops on a synchronous read
  while a request is incomplete and holds a thread of the pool meanwhile.
- **A reused buffer.** Requests are parsed out of `data_`, which is neither
  initialized nor overwritten beyond what a read returned, with a count of
  characters (`n_char_parsed`) that is never reset.
- **Peers.** They may close, reset, stay silent, or split a request anywhere.
- **Shared counters.** `increment_request` takes a mutex; `status_map()` does not.
- **Two registries of handlers**, the dispatch map and the data collector's,
  filled from the same statements by different rules.
- **Failures that are not looked at.** Results of SQLite, of the upstream server
  and of `remote_endpoint()`.

### What makes each component correct

| Component | Properties |
|---|---|
| Servers | always one accept under way per listening server; a failed accept does not stop it |
| Sessions | never two operations under way; a live connection is always waited on; deleted once, when nothing refers to it; a request is answered; a session whose peer left is deleted |
| Framing | a request is answered for what it is and with its own body, whatever an earlier one left behind |
| Parser, echo | accepts exactly the heads of its grammar, and puts in the request what they say; the echo of a request says the same |
| Dispatch | an exact path is served by its location, nested locations by the deepest; the status page lists what is served |
| Data collector | no count lost; a page that no insertion met within what was counted |
| Config parser | true exactly for well-formed files; the tree is the file's |
| Accounts | one account per name; a success page only for an account that was made; a login only with its password; a private page only for who holds the token of a login that was given an account's password, and not too long ago |
| Static | the file a client means, in the directory of the deepest location that the URI as written lies below, or a refusal |
| Proxy | every request ends, redirects or not; the upstream is asked for the rest of the URI; a page arrives whole, with its links below the location |

## Modules

| Module | Models | Proofs |
|---|---|---|
| `ServerSessions` | `server.cc`, `http_server.cc`, `session.cc`, `http_session.cc`, the servers' part of `main` | `ServerSessionsProofs` |
| `RequestFraming` | `handle_read`/`handle_final_read` and `parse_data` over the bytes of a connection | `RequestAnswersProofs` |
| `RequestParser` | `RequestParser::consume`, `reset` | `RequestParserProofs` |
| `EchoRequests` | `echo_request_handler.cc`; extends `RequestParser`, which reads the echo again | `RequestParserProofs` |
| `RequestDispatch` | `get_map`, `add_handler`, `dispatch_handler` | `RequestDispatchProofs` |
| `DataCollector` | `increment_request`, `status_map` as the status handler uses it | `DataCollectorProofs` |
| `AccountBook` | what the accounts promise: calls that take effect at one instant, or not at all | |
| `Accounts` | `login_request_handler.cc`, `database.cc`, `cookie.cc`, `password.cc`, the cookie check of static files; refines `AccountBook` | `AccountsProofs` |
| `ConfigParser` | `config_parser.cc`, `config.cc`, `config_statement.cc`, `main`'s decision to serve | `ConfigParserProofs` |
| `StaticFiles` | `url_decode`, `check_request_path`, `replace_path`, `get_extension` as functions | |
| `ProxyRequests` | `handle_request` of the proxy and `clean_html` | |
| `Site` | composes `RequestDispatch` and `StaticFiles` (INSTANCE) and `ProxyRequests` (EXTENDS): a request, its location and its handler | `SiteProofs` |
| `MC*` | the instances the runs use | |

How they compose: a session (`ServerSessions`) asks `parse_data` for a verdict,
which is left open there where it depends on bytes (`Parse`) and worked out in
`RequestFraming`; that module in turn takes from the parser only that it accepts
a head in order and stops at its end or its first flaw, which `RequestParser`
shows; a good request goes to `dispatch_handler` (`RequestDispatch`) and to a
handler: `Site` puts the static and the proxy handler behind the dispatch of URIs,
`Accounts` is the login handler on all threads at once; the response is counted
(`DataCollector`). `ConfigParser` is what `main` does before all this. Where no
module composes two others, the components meet in return values and share no
state.

### ServerSessions

A session object is a member of `Sessions`. `heap` is its life, `conn` its
connection, `ops` the asynchronous operations it has under way with the stage of
each: `started`, or completed (`ok`, `error`) with its handler in the queue of
the `io_service`. `data`, `resp` and `closing` abstract `data_`,
`response_generator_` and the request's `Connection: close`. `pc` and `cur` say
where each thread stands and in which session; `inbox`, `peer`, `asked`, `sent`
are the other end.

One action per handler (`handle_accept`, `handle_handshake`, `handle_read`,
`handle_final_read`, `handle_write`, the shutdown's lambda `ShutdownDone`), each
with all that the handler does up to its return. Two places are split because
another thread can act in between: the synchronous read (`ReadLoop`) and the
`memset` after `async_write` (`Clear`). `Complete*` are the reactor's
completions, marked external. `RemoteEndpointThrows` is the exception that
`remote_endpoint()` throws at the top of the handlers, `Throw` what becomes of an
exception in a worker (terminate) and in `main` (it is caught, and the servers'
destructors join threads that never end). Use of a deleted session is undefined:
`Clear` and `ShutdownDone` then let the process go on or end.

### RequestFraming

A byte is `<<q, i>>`, the i-th of the q-th request, so that whatever body a
request is answered with can be told from the right one. A kind of request is
four numbers: length of head and body, where the Content-Length is complete, where
a flaw is. `data_` and `buffer_` are the strings in the arrays: a read overwrites
the front and leaves the rest. `n_char_parsed`, `bytes_transferred`,
`content_length` and the parser's place are as in the code; bytes out of order
give the parser any outcome. `segments` and `answers` are history.

A handler starts the write of its response before it clears the arrays. `due` counts,
per array, the handlers that have responded and not yet done so; `Clear` is one such
`memset`, at any time, and `Found` what the next handler sees of its own read if a `memset` came
before or after it. That takes a second thread (`ServerSessions` has the threads);
`overtaken` records that a read came before a `memset` that was due. From then on the
next request may be wiped, and the properties claim nothing.

### RequestParser

`consume` is translated as the table of its states: `Fixed` for those that want
one character, `Branches` for the others, each as the characters that lead on and
the state they lead to, of which the first that fits is taken (`Leads`), with what
a character adds to the request (`Request`) and to the helper strings. The
properties compare it with a grammar of heads (`WellFormed`) and a reading of
them (`Headers`) that look at the text as a whole. Characters are classes, each
with the characters the states distinguish. Methods are shortened to one or two
letters; `Method` compares whole words only.

### RequestDispatch

A path is the sequence of its segments, which is what `common_prefix_length`
splits it into. `Agree` keeps the oddity of the loop: positions after a first
difference count as well. `Length` and `Order` are what the string and the
`std::map` add: any numbers that respect prefixes. Statements are read one at a
time by `get_map`; a statement can be invalid or have its `Init` refused.
Statements without a block are left out: the code dereferences a null pointer.

### EchoRequests

The parser again, with one more action: after a good request, `handle_request`
puts the text `convert_to_rawbody` makes of it in the place of the next request.
`echoed` remembers the request, so that `EchoIsTheRequest` can ask of the parser
that it reads the same out of the echo. The body follows unchanged and is left out.

### DataCollector

`increment_request` in the steps of its lock, lookups, store and unlock, by any
threads. The status page copies the map without the lock, an entry after
another. An increment under the copy is seen or not; a node linked into the tree under
it (`torn`) is a data race without a defined outcome, and from then on `CopyTorn` may
put anything into the page, go on without end or end the process (`up`). The two nested maps are one function, where no entry is zero.

### Accounts and AccountBook

A thread handles a sign-up, a login or the visit of a private page. `pc` says how
far its SQLite call is, and the locks on the file follow from that: a statement
that has returned a row keeps the file shared (`Reading`), an insertion reserves it
and then needs it alone (`Writing`, `Exclusive`); the server installs no busy
handler, so a lock that is taken is an error at once. Any access may fail
(`MayFail`). `rc` is the last result code, of which the code looks only at
SQLITE_CONSTRAINT. A failed prepare leaks the connection (`leaked`). The process
may crash at any point; the file stays and uncommitted rows do not. Tokens carry
the time they were issued at; `cookie` is the browser's. `known`, `created` and `granted` (the
logins that were given an account's own password, with the time) are history. A hash stands for the password it was made of.

`AccountBook` has no locks, no file and no result codes: a call arrives, takes
effect (`Create`, `Refuse`, `LogIn`) or is lost (`Lost`), and returns. It is what a
caller may rely on, and the price of the unchecked result codes can be read in it:
a sign-up may be lost and still be answered as a success.

### ConfigParser

The file is written while it is read, a phrase at a time with any layout, and may
end anywhere. `ParseToken` is one turn of the tokenizer's loop and, where the
character completes a token, the turn of `Parse` that takes it. `blocks` are the
`NginxConfig` objects by number in the order of their allocation, `config_stack`
the open ones. A closing bracket too many makes the rest undefined (`Undefined`).
`main` then applies the getters. The properties compare with the sequence of tokens
written: the parser accepts exactly finished statements and balanced blocks,
printing what was built (`ToString`) gives the tokens back, and the ports and threads
are the ones listed. A comment of the code differs here: `src/src/config.cc:35-37` says that
`get_port` "Currently returns the first port number found in the first server block and
assumes correct format was given from NginxConfig.Parse()", while the code collects the
port of every `listen` statement at any depth and looks at its format, and `main`
makes a server of each (`server_main.cc:129-146`). The model and the property are those
of the code. What the getters overlook, `ServesWhatIsListed` states too:
`get_port` does not look into the block of a `listen` statement, `get_threads` stops
at the first statement with a block and falls back to the default where the value is
no number, and both, like `get_hostname`, take a keyword that is not first in its
statement; the property is about files in which keywords only begin statements.

### StaticFiles, ProxyRequests, Site

Characters are codes, so that decoding (`%2e`, `+`, one-digit escapes, which
`std::hex` takes too), the search for `..` and the replacement of the location's path
work on what the code works on. The proxy's exchange is one step per thing the
upstream sends: a status line, header lines, a body, or nothing more. What is not
told apart by the handler is not told apart here. `sends` counts how often a request was
written upstream, up to one more than the code may (`Written`); header lines that say nothing of the three headers in question go on like
any others. What an earlier hop sent stays in `headers` unless a later one replaces it
(`Merged`). A static file is opened by its C string (`c_str`), which ends at the first
NUL that `%00` decodes to, and may not be there (404). In `clean_html` a page is a
sequence of keywords, quotes, slashes and other text.

`Site` sends a URI through `dispatch_handler`, which compares names of the
undecoded URI, then through the chosen handler, which decodes it and replaces a
path. `asked` is the path a client means by its URI: `Asked` gives with each path the
parts that its characters are encoded by (`Encodes`: itself, `+`, or `%` and two digits),
which make the URI, and beside these URIs that encode no path. A static handler is the record
of its two members, `StaticHandler(p)`, which the functions of `StaticFiles` take:
they are called on one object per location. Both its members and the proxy's
`path_` end with a slash, which `is_quoted` adds where the configuration has none.

## Runs

Bounds: the configurations are the smallest in which every action fires and
every interleaving the hazards describe has the actors it needs.

| Run | Question | Bounds and why they are enough |
|---|---|---|
| `sessions_pool` | safety of TLS and plain sessions in a pool | 2 servers, 2 threads, 3 session objects (one of each server waits in accept), 2 segments per peer: a second request meets the end of the first; resets, bodies, split requests |
| `sessions_live` | are whole requests answered and left sessions deleted? | `FairSpec`; 2 threads and 3 peers that begin a request and never finish it, as many as it takes to block both threads and one more; a peer that sends a whole request beside them. The state in which every thread is blocked is reached: the properties except it by name (`Starved`), and only while all threads stay blocked |
| `framing_answers` | which requests are answered rightly? | 2 requests, the second meets what the first left; heads of 2 to 4 bytes, bodies up to 4, every cut; both arrays zero or with 2 bytes in them. A connection is followed up to the first read that overtakes a `memset` (`MCUpToOvertaking`), as nothing but types is claimed beyond |
| `parser_heads` | what is accepted, read, refused and echoed | 4 heads (plain, header twice, empty URI, a header folded twice) and all that differ from them by one character put in, taken out or replaced (2,526 texts), each followed by another request or by its own echo |
| `dispatch_routes` | what is served and listed | 3 statements, paths of up to 2 segments, URIs of up to 3, 2 handlers; paths whose string is longer with fewer segments |
| `collector_counts` | are counts exact and pages bounded? | 3 threads with a call each: two counting, one copying; 2 URIs x 2 codes |
| `accounts_shared` | what can calls on one file do to each other, and do they implement `AccountBook`? | 2 threads (alike: symmetry), so that any two steps of any two calls meet; a new user, a default one and the empty name; right, wrong and empty passwords; restarts; the default account is only asked for again, since logging in to it does what logging in to the new one does; tokens live 1 hour of a clock that goes to 2, so that one can be fresh, just valid and too old; 1 leaked connection exhausts the files |
| `config_files` | what is accepted, built and served | files of up to 5 phrases of 12 kinds: words, the three marks, a string with a mark in it, a comment, `listen`, `threads` and `hostname` statements, right and malformed, among them a `listen` with a block and threads that are no number; each with any layout and cut short anywhere; blocks nest twice |
| `site_requests` | which handler and which file, and what of the upstream's answer | static files at `/` and `/p/`, a proxy at `/p/q/` between them; paths of up to 6 characters with up to 2 of them encoded, some with a NUL, files that are there and that are not; and all URIs of up to 4 characters that may be no encoding at all; 4 proxied URIs, two of which only look proxied segment by segment; redirects to the same host, another and to nothing; pages of 1 or 2 pieces, broken off by up to 1 (`MaxLost`) |

Deadlock is checked for `DataCollector`, whose only rest is the end of all calls;
elsewhere the system may stop: the process can end, peers can stay silent, a
bounded client has sent all it may, a configuration was read.

The runs that expect a violation each check one statement of a comment, a test or
the documentation that the code does not meet; `findings` quotes them:

| Run | What the trace shows |
|---|---|
| `sessions_refused` | `data_` is cleared after the write was started; another thread has read the next request by then, which is wiped and gets a 400 |
| `sessions_deleted_twice` | after a failed write the TLS shutdown's callback deletes a session that was deleted already |
| `framing_keepalive` | `n_char_parsed` counts the heads of all requests: when the head of a second request arrives without its body, the body is not waited for |

What else the models do as the code does, and no run is spent on:

- A thread before its `memset` may be left with a plain session that another
  thread has deleted (`Clear`).
- A reset connection makes `remote_endpoint()` throw before the error is looked
  at: the session stays, the exception ends the process or hangs `main`
  (`RemoteEndpointThrows`, `Throw`).
- An error in the read loop leaves a session that nothing will delete (`ReadLoop`).
- The redirect of `HttpSession` says `Connection: close` and the session reads on.
- A head cut after its Content-Length passes for complete; a second piece longer
  than the first is parsed in part; a body in two pieces after the head is taken
  for one; a missing body goes unnoticed over an uninitialized array; an invalid
  head that announces more than was received makes `substr` throw (`parse_data`).
  These are why `FirstIsServed` and `BodylessAreServed` have the premises they have.
- With part of its body received, a request is dispatched with a body cut out of
  its head (`parse_data`).
- White space before a header makes a header of its first letter, or nothing if no
  other character follows (`Enters`). The test
  `tests/request_parser/request_parser_test.cc:355` says 'Correctly skip whitespace in front of
  header names if there are any' and checks only that such a head is accepted: the
  code is at odds with it, since the header does not come out under its name. So
  `ReadsRequest` says nothing of the headers of such a head.
- A handler serves URIs outside of its path, as positions after a first difference
  count (`Agree`; `README.md:144` describes prefixes).
- A path configured twice is listed with a handler that does not serve it.
- A page copied during an insertion is undefined (`torn`, `CopyTorn`).
- As many peers as there are threads, each with a request it does not finish, hold
  every thread in the read loop and stop the server for all others (`Starved`).
- With a second thread a read can overtake the `memset` of the handler before it, which
  then wipes the request (`overtaken`; `sessions_refused` shows it).
- Without a location `/`, a URI that matches nothing gets a null handler
  (`dispatch_handler`).
- A sign-up that failed because the file was locked, broken or without its table is
  answered as a success; the account is inserted before the name and password are
  found to be empty; a failed prepare leaves its connection open (`Finish`,
  `sqlite3_prepare`).
- A closing bracket too many, a word after it: undefined. A last word without a
  delimiter is lost, and the file accepted without it. `listen` second of three
  tokens makes `get_port` read past the statement; an HTTP server without a
  hostname makes `main` pop the end of an empty string; a malformed `listen` inside a
  block is only ignored, and so are threads after a block; a keyword counts
  wherever it stands in a statement (`get_port`, `get_threads`, `main`).
- The location's path is replaced where it first occurs, which need not be the
  front; without the location's final slash a static location answers 500; a path with
  `%00` opens the file of what is before the NUL, with the type of the whole (`c_str`);
  `%` accepts one digit or a sign (`replace_path`, `HexValue`).
- After the fifth redirect, a failed hop or a failed connection the response has the
  headers gathered so far and no body, among them those of earlier hops; a response
  without any header line has no blank line to read up to and counts as failed, like
  one that breaks off before it (`Fail`). A page cut short gets the length of what came
  (`Body`).
  A header that ends with its colon is undefined (`BadHeaderLine`). A keyword with no
  quote after it makes `clean_html` append the rest twice. A URI shorter than the
  location throws out of the handler (`Begin`).

## Fairness

Two modules have liveness. `ServerSessions`, under `FairSpec`:

- threads inside `io_service::run` keep running: weak fairness on the steps a
  thread is in the middle of (`ReadLoop`, `Clear`) and on `main`'s loop;
- handlers are queued and taken in FIFO order, so one that is queued is run when
  threads come free again and again; but a handler is enabled only while some
  thread is idle, which is why this is strong fairness (`Handle`);
- the kernel reports data, ends of connections and finished writes to the
  reactor, again whenever a thread runs it (strong fairness on completions).

Nothing is assumed of peers: they need not send, finish a request, answer a
handshake or close, and an accept completes only when one connects. So
`WholeRequestsAreAnswered` is about requests sent whole, and
`LeftSessionsAreDeleted` about peers that closed. Both except that every thread is
blocked for ever in the read loop (`[]Starved`): the blocking read happens in the pool, so
as many unfinished requests as there are threads stop all else, and the run has that many. Both leave out a process that
ended or whose `main` hangs in the destructors, and an accepted connection for
which the bound on `Sessions` leaves no object to arm the acceptor with.

`Site` has weak fairness on the steps of a request that has begun: the handler runs
on, and the upstream answers or breaks off. The exchange is synchronous and has no
time limit in the code, so an upstream that stays silent holds its thread;
`RequestsEnd` assumes that it does not, and shows that one that redirects without
end does not hold it either.

## Proofs

All for any values of the constants that satisfy the `ASSUME` of the module.

| Theorem | Says | Argument |
|---|---|---|
| `ServerSessionsProofs`: `TypeCorrect` | `TypeOK` | with `Unstarted` (threads of a server that is not constructed do not run), which `ConstructServer` needs; one lemma per way to leave a handler (`ThrowType`, `ReturnType`, `ParsedType`) |
| `SessionsAreStrands` | `OneDriver` | `Strand`: a session has at most one operation, or one reader in its loop, and none before it is allocated. Every handler consumes the operation it was called for and starts at most one (`HandleServes`, `ReadLoopServes`); completions replace one by itself (`ReactCompletes`); a new session has no other |
| `ServersStayArmed` | `AcceptorArmed` | `Armed`: each listening server has exactly one session in accept; `handle_accept` moves it on and arms a fresh one, and no other handler touches an accept (uses `Strand`) |
| `ResponsesStay` | `ResponseStableInFlight` | from `Strand`: only a handler of the session fills the response, and none is called while its write is under way |
| `DeletedAreLeft` | `DeletedOnlyAwaitsShutdown` | `Quiet`: a deleted session has no operation but a shutdown and no reader; the handler that deletes has consumed the session's only operation |
| `ConnectedAreServed` | `ConnectedIsServed` | `Served`: unless the process is gone, each open session has an operation or a reader; a handler that starts none has closed or deleted the session or thrown; what is gone stays gone |
| `CountersAreExact` | `CountsAreExact` | mutual exclusion (`Exclusion`) makes the count a thread read current (`Fresh`) when it stores it |
| `PagesShowWhatCame`, `TypeCorrect` | `PagesAreBounded`, `TypeOK` of `DataCollector` | counts never fall, and what was counted before a copy began is no more than what came; a page that met no insertion holds counts that were stored while it was made |
| `RequestAnswersProofs`: `TypeCorrect` | `TypeOK` of `RequestFraming` | with `KnownBytes`: every byte in the arrays belongs to a request that was sent, so that `get_content_length` finds a number; needs that a nonempty set of numbers has a least element, which `LeastExists` gets from strict inclusion of finite sets being well-founded |
| `FirstIsAnswered` | `FirstIsServed` | `Opening`: where a session whose arrays were zero stands in its first request, by what was read first; `FirstParse` says what `parse_data` returns on it, whatever the lengths of head and body |
| `BodylessAreAnswered` | `BodylessAreServed` | `Kept`: while all answers were to such requests the stream holds the whole next one when it is first read, and after a first piece the parser stands at the end of that piece; `HeadParse` and `TailParse` show that neither junk behind the piece nor the stale bytes of it change the result, and `n_char_parsed` matters only with a body. All of it for connections on which no read has overtaken a `memset` |
| `PathsAreServed`, `NestedAreServed` | `ExactRoute`, `NestedRoute` | `Chosen`: what was served is still the longest match; lemmas on agreement of sequences show that of the paths a URI extends the deepest agrees most, and that of two paths that agree equally one extends the other, hence is longer |
| `ServingIsListed`, `TypeCorrect` | `ListedAreServing`, `TypeOK` of `RequestDispatch` | `Listed`: what is in the map was added to the collector by the same statement |
| `AccountsAreABook` | `ImplementsBook` | step by step: `commit` is `Create`, `step_insert` that meets the row is `Refuse`, the end of a SELECT is `LogIn`, and any other end of a call is `Lost`; locking, reading and ticking stutter. Needs the invariants below: a row that was read is still the row when the login ends |
| `NamesAreUnique` | `OneAccountPerName` | one thread at a time holds the reserved lock, and the row it found missing is missing until it commits |
| `WelcomeIsKept`, `LoginsAreKnown`, `PasswordsAreAccepted` | `WelcomeMeansAccount`, `LoginNeedsAccount`, `RightPasswordIsAccepted` | `Stands` and `Answered`, one thread at a time: where a thread stands says what it has read, its answer what it did; rows never change once there |
| `PrivateIsGranted` | `PrivateMeansLogin` | `Earned`: a token that a browser holds was issued at the end of a login that read the account's row and found its password there (`FinishEarns`); logins, failures and restarts leave earlier ones granted |
| `Accounts`: `TypeCorrect` | `TypeOK` of `Accounts` | a token is issued at the time it carries |
| `BlocksAreNested` | `OpenBlocksAreNested` | the numbers on the stack ascend, so that adding a statement to the innermost block leaves the others' last statements alone |
| `BlocksEndSomewhere` | the block of a statement is younger than the one the statement is in (`ChildrenAreYounger`), so that `get_port`, `get_threads` and `ToString`, which call themselves on it, end, and the functions that model them are defined | from the invariant of `BlocksAreNested`: `AddToken` and `OpenBlock` change the innermost block only, and a new block has the greatest number |
| `ConfigParserProofs`: `TypeCorrect` | `TypeOK` of `ConfigParser`, with the ports and threads that the getters return | `TInv`: words have their type and statements lead to younger blocks; `get_port` and `get_threads` by induction over the blocks, the youngest first |
| `FilesAreRead` | `ReadsFiles`: a file is accepted exactly if it is finished and balanced, and printing what was built gives its tokens back | `RInv`; see below |
| `ServersAreListed` | `ServesWhatIsListed`: the ports, threads and host name are those the tokens of the file give | `SInv`; see below |
| `RequestParserProofs`: `TypeCorrect` | `TypeOK` of `RequestParser` | part of `PInv`, below |
| `HeadsAreAccepted` | `AcceptsHeads` | `PInv`; see below |
| `RequestLinesAreRead` | `ReadsLine`, the first half of `ReadsRequest`: method, URI and version | `LInv`: the helper strings and the three fields are the parts of the text between the positions that the line's form names |
| `RequestsAreRead` | `ReadsRequest`: that, and the headers, of this head and of no earlier one | `HInv`: the headers are those of the lines before the one being read (`Got`), with what has been read of it; see below |
| `EchoesAreRequests` | `EchoIsTheRequest`, whatever the order of the headers | `EInv`: the text is the echo of `echoed`, and what was read can be sent again (`Sendable`); see below |
| `RestsAreForwarded` | `RestIsForwarded` | `First`: the first request to the upstream is `Stripped(uri)` of a URI that is long enough; that cutting off the path and putting its slash back gives the URI is shown character by character (`FirstIsTheRest`) |
| `SendsAreLimited` | a request is written to the upstream at most `Limit` times, whatever it answers | `Hops`: while a hop is under way no more than the redirects so far were written, and there are fewer than `Limit` of them |
| `FilesAreBelowRoots` | `FilesAreBelow`, what `AskedIsOpened` says behind decoding and dispatch: a decoded path below its location is refused exactly with two dots, and is else opened below the location's directory up to its first NUL, as its index if it ends with a slash; no extension has a slash | `Answered`: what a location answered is what its handler makes of the URI; `FileIs` follows the handler through `check_request_path`, `replace_path` (`PathIsReplaced`: a path at the front is found there and nowhere earlier) and `get_extension` (`ExtensionIs`) |
| `AskedAreOpened` | `AskedIsOpened`: whatever the locations are and however a path is encoded, its file is looked for in the directory of the deepest location that the URI as it is written lies below, if the path has no NUL | `Chosen` (a request is one of `Asked`, at `LocationFor` its URI) and four facts; see below |
| `PagesAreWhole` | `PageIsWhole`: of any page of whole links `clean_html` makes the page with the location's path in front of the absolute ones, and the response has its length | `PInv`: the body of an answer is `clean_html` of what has been read of the page, its length its own; `CleanLinks` follows that function's table from the end of the page (what precedes each url, one after another) and `CleanPage` the pieces the page was made of (`EachPieceAdds`, by `LinkStands`) |
| `SiteProofs`: `TypeCorrect` | `TypeOK` of `Site` | `TInv`: `url_decode`, `replace_path`, `convert_to_rawbody` and `clean_html` return what they should on any input |

`ReadsFiles` relates three recursions: `Uncommented` and `Complete` fold over what was
written, `ToString` calls itself on the blocks that were built, and `ParseToken` sees a
character at a time. `RInv` holds them together in every state. The lexemes of the file
are whole, but for the last of a file that was cut (`FileIsWhole`). `k` of them are
read, and `ParseToken` stands between two (`Between`) or holds the beginning of the
next (`Within`), in the state that its first character chose. What is printed of the
first block, with the unfinished statement ended and a bracket for each open block,
is then the tokens of the first `k` (`ParsedAs`), and what type of token came last is
what the grammar asks (`ReadInv`). To print the blocks after a step, one must know that
nothing but the end of the print has changed: only the last statement of an open
block leads to the next open block, and no other statement leads to an open one
(`OnThePath`). The end of the file then gives both directions: all brackets are closed
and the last statement is finished exactly if the stack is empty but for the root when
`Parse` meets the end.

`ServesWhatIsListed` compares what the getters find by walking through the blocks with
what stands in the file. After `ReadsFiles` the print of the first block is the tokens;
`BlockStands` says that then every statement of a block has its place there, its words,
then a semicolon or the print of its own block in brackets (`Placed`). Two inductions
over the blocks, the youngest first, follow. Across the place of a block the ports listed
grow by what `get_port` finds in the block (`BlockPorts`), and nothing stops the search
as long as each `listen` statement names a port. The first token of the place that settles
the threads, a `threads` statement with a value or a closing bracket, says what `get_threads` returns
for the block (`BlockSettles`). `SInv` adds to `RInv` that statements have words and
none of them is a mark (`Worded`), and that `main` serves what the getters find
(`MainServes`).

`AskedIsOpened` joins what three functions make of one URI. `url_decode` undoes any encoding
(`DecodedIs`): from the end, what it makes of the parts behind the `k`-th is the path behind
its `k`-th character (`DecodesOn`), by the three forms of a part (`PartDecodes`).
`dispatch_handler` looks at the undecoded URI: if that begins with a location's path, which
ends with a slash, the location's names are the first names of the URI (`NamesBelow`), as
the same characters begin and end a name in both (`StartsBelow`, `NameBelow`), and the k-th
in order is the same (`RankedBelow`). If no other location has a name in common with the
URI without being above it, the deepest has the most, and is chosen (`LocationIs`); if the
deepest is `/`, nothing agrees and `/` is taken. The decoded path then begins with the
location's path, too, since none of its characters is one that `url_decode` changes
(`LiteralIsPrefix`), and `FilesAreBelow` says what becomes of it.

A recursive function of these modules is a `CHOOSE`, and its equation holds only if some
function satisfies it. `FoldLeft`, `FoldRight`, `FlattenSeq`, `Serialized`, `url_decode` and `clean_html` are therefore first shown to
have one: a set of numbers that is not empty has a least (`WellFoundedInduction`), which gives
induction over a set of numbers; by it, for every `n` there is exactly one function on
`0..n` that obeys the equation, and these agree where they overlap. What a fold returns
is then an induction over the length of its sequence, for a property that is named, as
the library's induction theorems take the property as a parameter and cannot be used.

The proof about the request parser is as long. `AcceptsHeads` says of a parser that sees a
character at a time that it decides about texts as a whole: the grammar
(`WellFormed`) cuts a text into lines with the functions of the specification and asks
each for its form. `PInv` is what makes this inductive: a line that begins at `s`
and has been read up to `p` has, in each state of the parser, a form given by
positions (`InRequestLine`, `InHeader`: the blank after the method, the dot of the version, the
colon of a header), all lines before `s` are whole (`Lines`), and a header has been
entered exactly if a line before has one (`Entered`, on which a folded line
depends). Three facts then give the theorem: each character either keeps the form or
is refused by the grammar, however the text goes on; a form that is refused
cannot be completed; and `WellFormedIsWhole`, which takes the grammar's lines to
positions and back.

For `RequestsAreRead` the headers must be followed as well. `Headers` collects, for each
name, the values of the lines that bear it, and joins them; the parser enters a header
with its colon or its second character (`Enters`) and then appends to its value. `Got(t, m)` is what
`Headers` says of the lines that begin up to `m`: a line that enters nothing leaves it
alone (`GotStays`), one that enters a header adds to the values of its name and no other
(`GotGrows`), as `FlattenSeq` of one sequence more is one value more (`FlattenMore`).
`HeaderRead` says of the line being read which part of its value has been appended; a character
keeps that (`HeaderReadStep`) or ends the line, whose header is then in `Got`
(`FieldGot`, `FoldGot`, `WhiteGot`). At the end of the head `Got` is `Headers`
(`HeadersAre`).

`EchoesAreRequests` adds where the parts of an echo stand (`StandsAt`): its first line
(`FirstLineStands`) and each header (`HeaderLinesStand`, from what `FlattenSeq` joins)
are lines of the grammar, and line by line `Got` is the map that was written down
(`HeadersAreRead`; `SetToSeq` lists each name once, `Enumerated`). So the echo is a whole
head that says what the request does (`EchoStands`), of which the parser says what it
says of any other. `PInv`, `LInv` and `HInv` are kept by any step that begins with another text
(`Anew`), from which both specifications follow. What makes an echo possible is that a
request that was read has a URI without blanks, a version of two numbers, finitely many
names, none of them empty, and values without control characters (`GoodIsSendable`).

`IInv` is in the other modules the conjunction of the property with what makes it
inductive, `SInv` in `SiteProofs`, to which `AInv` adds what clients asked for. The assumptions: workers are not `Main`, objects belong to servers,
`Length` grows along prefixes (a longer path has a longer string) and `Order`
tells paths apart, the mutex's free value is no thread, names and passwords are
not the values that stand for none, marks and blanks are not letters, texts, URIs and
paths are sequences of characters, there is a location `/`, the locations' paths and
directories end with a slash, and of two locations one of which has all the names of the
other the deeper has the longer path (`LocationsAssumption`: locations are told apart by
their names, so not `/p/` and `//p/` at once). `AskedIsOpened` leaves out locations with `+`
or `%` in their path (`Literal`), whose files are not found as the path they are looked for
in is decoded. `LocationsAreSuch` shows that the dispatch, for these locations, is an
instance of `RequestDispatch` that meets its assumption. Of an echo: the words for the four
methods are four, and made of characters a method may have. Of a configuration file: the keywords are words, a phrase is
made of whole words, marks, strings and comments, and one of several ends in
a mark, a string or a comment (a word whose delimiter is still to come is a phrase by
itself).

Only model-checked, and why:

- `WholeRequestsAreAnswered`, `LeftSessionsAreDeleted` and `RequestsEnd`: fairness
  and `ENABLED` are out of the prover's reach.
- The properties expected to fail, by nature.

## Not modelled

- Health and 404 handlers: a constant response.
- Texts of responses, MIME types, logging, the page's layout.
- GET requests to the login handler, whose page is a function of the request, and
  the regular expressions that take name and password out of a form.
- The header lines that the proxy forwards to the upstream.
- `main`'s arguments, `chdir` and `get_dir`.
- Undefined behaviour that leaves nothing to say: location statements without a
  block, `strlen` beyond `data_` when a read fills it, an unquoted hostname.
- `std::stoi` on a Content-Length that is not a number, which throws out of the
  handler as `substr` does (`thrown`).
- Races on memory other than those named: the log, and copies of shared pointers,
  are thread-safe in the libraries.
- Vendored libraries: `sqlite3.h`, `jwt.h`, `base.h` and `picojson.h` are three
  quarters of the lines under `src/` and third-party code. What the server depends
  on of them (locks and result codes, what `verify` refuses) is modelled at its calls.

## Plan

Done: `ServerSessions`, `DataCollector`, `RequestFraming`, `RequestParser`,
`RequestDispatch`, in the order of how much of the server's behaviour rests on
them; then `Accounts` with its abstract specification, `ConfigParser`, static files
and the proxy composed with the dispatch in `Site`, the echo, and the theorems on
how sessions end; last the proofs about the parser, `Site`, which is proved but for its liveness, and the
configuration file, which is proved to be read and served as written: a theorem
states every safety property the runs check. Left:

1. Refinement: `ServerSessions` implements a server in which a connection is a
   sequence of requests each answered once. It holds only for peers that do not
   split requests, and not where the runs expected to fail show that it does not.
2. A full buffer: `data_` and `buffer_` in memory one behind the other.
3. The header lines forwarded by the proxy, `Connection: close` of the redirect
   against what the session does after it.

## How to run

In this directory, `tlc -config SessionsPool.cfg MCServerSessions.tla` checks a
run and `tlapm ServerSessionsProofs.tla` the proofs of a module. Each run takes
at most about three minutes, the longest proofs (`ConfigParserProofs`) a quarter of an hour.
