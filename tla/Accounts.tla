------------------------------ MODULE Accounts ------------------------------
(***************************************************************************)
(* Accounts of the server: sign-up and login (login_request_handler.cc) on *)
(* one SQLite file (database.cc), the token a login hands out (cookie.cc)  *)
(* and the private pages it opens (check_cookie of                         *)
(* static_request_handler.cc).  Threads of the pool handle requests at the *)
(* same time, each with a connection of its own to auth.db and without a   *)
(* busy handler: a lock that is taken is an error at once.  The process    *)
(* may end at any moment; the file stays.                                  *)
(*                                                                         *)
(* SQLite's locks follow from where the threads stand: a statement that    *)
(* has returned a row holds a shared lock, an insertion a reserved one and *)
(* then, once there is no reader, the exclusive one.  A hash determines    *)
(* the password it was made of.  Pages that depend on nothing but the      *)
(* request (GET, other methods) are left out.                              *)
(***************************************************************************)
EXTENDS Naturals, FiniteSets

CONSTANTS
    Threads,    \* threads of the pool
    Names,      \* user names, with NoName, the empty one
    Passwords,  \* passwords, with NoPassword, the empty one
    NoName, NoPassword,
    None,       \* no row, no call, no answer, no cookie
    Forged,     \* a cookie jwt= that this server did not sign
    Defaults,   \* the accounts main inserts: name to password
    Calls,      \* the sign-ups and logins that clients send
    TIME_TO_LIVE,
    MaxClock,   \* bound on the clock
    MaxOpen     \* how many leaked connections exhaust the process's files

Call == [kind : {"signup", "login"}, user : Names, password : Passwords]

\* A private page is asked for with the jwt cookies of the header, in order: none,
\* the token held, a forged one, or both.  A token is the time it was issued.
Times == 0..MaxClock
Token == Times \cup {Forged, None}
Visit == [kind : {"visit"}, first : Token, second : Token]

Pages == {"signup_success", "signup_failure", "login_success", "login_failure",
          "private", "redirect"}

ASSUME AccountsAssumption ==
    /\ NoName \in Names /\ NoPassword \in Passwords
    /\ None \notin Names \cup Passwords \cup Call \cup Visit \cup Pages \cup Nat \cup {Forged}
    /\ Forged \notin Nat
    /\ DOMAIN Defaults \subseteq Names /\ Defaults \in [DOMAIN Defaults -> Passwords]
    /\ Calls \subseteq Call
    /\ TIME_TO_LIVE \in Nat /\ MaxClock \in Nat /\ MaxOpen \in Nat

VARIABLES
    up,       \* the server runs
    table,    \* auth.db has the table AUTH
    file,     \* its rows: name to password
    pc,       \* where each thread stands in handle_request
    request,  \* the request it handles
    rc,       \* what SQLite returned last
    data,     \* the row a select has read
    page,     \* the page it answers with
    issued,   \* the token that goes with a login_success
    leaked,   \* connections that are never closed
    clock,    \* hours
    cookie,   \* the token the browser holds
    known,    \* history: the login's account was there when it came
    created,  \* history: insertions that succeeded, per name
    granted   \* history: the times of the logins that gave an account's own password

vars == <<up, table, file, pc, request, rc, data, page, issued, leaked,
          clock, cookie, known, created, granted>>

Codes == {"OK", "DONE", "CONSTRAINT", "BUSY", "ERROR"}

TypeOK ==
    /\ up \in BOOLEAN /\ table \in BOOLEAN
    /\ file \in [Names -> Passwords \cup {None}]
    /\ pc \in [Threads -> {"idle", "prepare", "step", "reserved", "exclusive", "row", "answer"}]
    /\ request \in [Threads -> Call \cup Visit \cup {None}]
    /\ rc \in [Threads -> Codes]
    /\ data \in [Threads -> Passwords \cup {None}]
    /\ page \in [Threads -> Pages \cup {None}]
    /\ issued \in [Threads -> Times \cup {None}]
    /\ leaked \in 0..MaxOpen
    /\ clock \in Times
    /\ cookie \in Times \cup {None}
    /\ known \in [Threads -> BOOLEAN]
    /\ created \in [Names -> Nat]
    /\ granted \in SUBSET Times

Init ==
    /\ up = FALSE /\ table = FALSE
    /\ file = [u \in Names |-> None]
    /\ pc = [t \in Threads |-> "idle"]
    /\ request = [t \in Threads |-> None]
    /\ rc = [t \in Threads |-> "OK"]
    /\ data = [t \in Threads |-> None]
    /\ page = [t \in Threads |-> None]
    /\ issued = [t \in Threads |-> None]
    /\ leaked = 0 /\ clock = 0 /\ cookie = None
    /\ known = [t \in Threads |-> FALSE]
    /\ created = [u \in Names |-> 0]
    /\ granted = {}

-----------------------------------------------------------------------------
(* The process                                                             *)

\* main before it constructs the servers: db_create and the default accounts,
\* whatever they return.  Rows that exist are left alone (SQLITE_CONSTRAINT).
Start ==
    /\ ~up /\ up' = TRUE
    /\ table' \in {table, TRUE}
    /\ \E S \in SUBSET DOMAIN Defaults :
          LET new == {u \in S : table' /\ file[u] = None}
          IN  /\ file' = [u \in Names |-> IF u \in new THEN Defaults[u] ELSE file[u]]
              /\ created' = [u \in Names |-> IF u \in new THEN created[u] + 1 ELSE created[u]]
    /\ UNCHANGED <<pc, request, rc, data, page, issued, leaked, clock, cookie, known,
                   granted>>

\* signal_handler or any other end of the process.  What was not committed is
\* rolled back when the file is opened again.
Crash ==
    /\ up /\ up' = FALSE
    /\ pc' = [t \in Threads |-> "idle"]
    /\ request' = [t \in Threads |-> None]
    /\ rc' = [t \in Threads |-> "OK"]
    /\ data' = [t \in Threads |-> None]
    /\ page' = [t \in Threads |-> None]
    /\ issued' = [t \in Threads |-> None]
    /\ known' = [t \in Threads |-> FALSE]
    /\ leaked' = 0
    /\ UNCHANGED <<table, file, clock, cookie, created, granted>>

Tick ==
    /\ clock < MaxClock /\ clock' = clock + 1
    /\ UNCHANGED <<up, table, file, pc, request, rc, data, page, issued, leaked,
                   cookie, known, created, granted>>

-----------------------------------------------------------------------------
(* Tokens                                                                  *)

\* jwt::verifier::verify throws unless the signature, the issuer and the times hold.
verify(c) == c # Forged /\ c <= clock /\ clock <= c + TIME_TO_LIVE

\* Cookie::verify_cookie: what is not a token, the empty string say, cannot be decoded.
verify_cookie(c) == c # None /\ verify(c)

\* StaticRequestHandler::check_cookie looks at the first jwt= of the header only.
check_cookie(r) == verify_cookie(IF r.first # None THEN r.first ELSE r.second)

-----------------------------------------------------------------------------
(* LoginRequestHandler and StaticRequestHandler: the start of a request    *)

Enter(t, r, place, p) ==
    /\ up /\ pc[t] = "idle"
    /\ request' = [request EXCEPT ![t] = r]
    /\ pc' = [pc EXCEPT ![t] = place]
    /\ page' = [page EXCEPT ![t] = p]
    /\ UNCHANGED <<up, table, file, rc, data, issued, leaked, clock, cookie, created,
                   granted>>

handle_signup(t, r) ==
    /\ r.kind = "signup" /\ Enter(t, r, "prepare", None)
    /\ UNCHANGED known

handle_login(t, r) ==
    /\ r.kind = "login"
    /\ \/ r.user # NoName /\ Enter(t, r, "prepare", None)
       \/ r.user = NoName /\ Enter(t, r, "answer", "login_failure")
    /\ known' = [known EXCEPT ![t] = file[r.user] = r.password]

\* A location with an auth path: the page, or the redirect to that path.
handle_visit(t, r) ==
    /\ Enter(t, r, "answer", IF check_cookie(r) THEN "private" ELSE "redirect")
    /\ UNCHANGED known

-----------------------------------------------------------------------------
(* SQLite                                                                  *)

Reading   == {s \in Threads : pc[s] = "row"}
Writing   == {s \in Threads : pc[s] \in {"reserved", "exclusive"}}
Exclusive == {s \in Threads : pc[s] = "exclusive"}

\* Any access to the file may fail.
MayFail == {"ERROR"}

\* Mutant of generate_cookie: the token's time is the one it expires at.
generate_cookieExpiry == clock + TIME_TO_LIVE

generate_cookie == clock

\* Mutant of check_password: no hash is taken for the hash of no password.
check_passwordOfNone(password, hash) ==
    hash = password \/ (hash = None /\ password = NoPassword)

check_password(password, hash) == hash # None /\ hash = password

\* History: the call names an account of the file and gives its password.
Genuine(r) == r.user # NoName /\ file[r.user] # None /\ file[r.user] = r.password

\* The rest of handle_request once the statement returned code, with the row d:
\* the connection is closed and the page is chosen.  Only SQLITE_CONSTRAINT
\* makes a sign-up fail.
Finish(t, code, d) ==
    LET r    == request[t]
        made == code # "CONSTRAINT" /\ r.user # NoName /\ r.password # NoPassword
        ok   == check_password(r.password, d)
    IN  /\ pc' = [pc EXCEPT ![t] = "answer"]
        /\ rc' = [rc EXCEPT ![t] = code]
        /\ data' = [data EXCEPT ![t] = d]
        /\ page' = [page EXCEPT ![t] =
              CASE r.kind = "signup" -> IF made THEN "signup_success" ELSE "signup_failure"
                [] OTHER             -> IF ok THEN "login_success" ELSE "login_failure"]
        /\ issued' = [issued EXCEPT ![t] =
              IF r.kind = "login" /\ ok THEN generate_cookie ELSE None]
        /\ granted' = IF r.kind = "login" /\ Genuine(r) THEN granted \cup {clock} ELSE granted
        /\ UNCHANGED <<up, table, request, clock, cookie, known>>

Goto(t, place) ==
    /\ pc' = [pc EXCEPT ![t] = place]
    /\ UNCHANGED <<up, table, file, request, rc, data, page, issued, leaked,
                   clock, cookie, known, created, granted>>

\* sqlite3_open and sqlite3_prepare_v2.  The return on an error is before
\* sqlite3_close; without files left the connection could not be opened.
sqlite3_prepare(t) ==
    /\ pc[t] = "prepare"
    /\ \/ leaked < MaxOpen /\ table /\ Exclusive = {} /\ Goto(t, "step")
       \/ /\ leaked < MaxOpen /\ leaked' = leaked + 1
          /\ \E code \in MayFail \cup (IF Exclusive # {} THEN {"BUSY"} ELSE {}) :
                Finish(t, code, None)
          /\ UNCHANGED <<file, created>>
       \/ /\ leaked = MaxOpen /\ Finish(t, "ERROR", None)
          /\ UNCHANGED <<file, leaked, created>>

\* Mutant of step_insert: the row is replaced.
step_insertReplaces(t) ==
    /\ pc[t] = "step" /\ request[t].kind = "signup"
    /\ \/ Writing = {} /\ Goto(t, "reserved")
       \/ /\ \/ Writing # {} /\ Finish(t, "BUSY", None)
             \/ \E code \in MayFail : Finish(t, code, None)
          /\ UNCHANGED <<file, leaked, created>>

\* sqlite3_step of the INSERT, as far as the reserved lock.
step_insert(t) ==
    /\ pc[t] = "step" /\ request[t].kind = "signup"
    /\ \/ Writing = {} /\ file[request[t].user] = None /\ Goto(t, "reserved")
       \/ /\ \/ Writing # {} /\ Finish(t, "BUSY", None)
             \/ Writing = {} /\ file[request[t].user] # None /\ Finish(t, "CONSTRAINT", None)
             \/ \E code \in MayFail : Finish(t, code, None)
          /\ UNCHANGED <<file, leaked, created>>

\* The statement commits: it waits for no reader.
lock_exclusive(t) ==
    /\ pc[t] = "reserved"
    /\ \/ Reading = {} /\ Goto(t, "exclusive")
       \/ Reading # {} /\ Finish(t, "BUSY", None) /\ UNCHANGED <<file, leaked, created>>

\* Mutant of commit: the statement is done before its row is in the file.
commitEarly(t) ==
    /\ pc[t] = "exclusive"
    /\ Finish(t, "DONE", None)
    /\ UNCHANGED <<file, leaked, created>>

commit(t) ==
    /\ pc[t] = "exclusive"
    /\ \/ /\ file' = [file EXCEPT ![request[t].user] = request[t].password]
          /\ created' = [created EXCEPT ![request[t].user] = @ + 1]
          /\ Finish(t, "DONE", None)
       \/ (\E code \in MayFail : Finish(t, code, None)) /\ UNCHANGED <<file, created>>
    /\ UNCHANGED leaked

\* The first sqlite3_step of the SELECT.
step_select(t) ==
    /\ pc[t] = "step" /\ request[t].kind = "login"
    /\ \/ /\ Exclusive = {} /\ file[request[t].user] # None
          /\ pc' = [pc EXCEPT ![t] = "row"]
          /\ data' = [data EXCEPT ![t] = file[request[t].user]]
          /\ UNCHANGED <<up, table, request, rc, page, issued, clock, cookie, known, granted>>
       \/ Exclusive = {} /\ file[request[t].user] = None /\ Finish(t, "DONE", None)
       \/ Exclusive # {} /\ Finish(t, "BUSY", None)
       \/ \E code \in MayFail : Finish(t, code, None)
    /\ UNCHANGED <<file, leaked, created>>

\* Mutant of step_select_again: the row is looked at when the statement is done.
step_select_againLate(t) ==
    /\ pc[t] = "row"
    /\ \E code \in {"DONE"} \cup MayFail : Finish(t, code, None)
    /\ UNCHANGED <<file, leaked, created>>

\* The second one ends the loop over the rows; the row read is used either way.
step_select_again(t) ==
    /\ pc[t] = "row"
    /\ \E code \in {"DONE"} \cup MayFail : Finish(t, code, data[t])
    /\ UNCHANGED <<file, leaked, created>>

-----------------------------------------------------------------------------

\* The response reaches the browser, which keeps the token for all paths.
Respond(t) ==
    /\ pc[t] = "answer"
    /\ cookie' = IF issued[t] # None THEN issued[t] ELSE cookie
    /\ pc' = [pc EXCEPT ![t] = "idle"]
    /\ request' = [request EXCEPT ![t] = None]
    /\ rc' = [rc EXCEPT ![t] = "OK"]
    /\ data' = [data EXCEPT ![t] = None]
    /\ page' = [page EXCEPT ![t] = None]
    /\ issued' = [issued EXCEPT ![t] = None]
    /\ known' = [known EXCEPT ![t] = FALSE]
    /\ UNCHANGED <<up, table, file, leaked, clock, created, granted>>

\* What a browser may send as cookies: none, its token, another's, or two.
Visits == {r \in Visit : /\ r.first \in {None, Forged, cookie}
                         /\ r.second \in {None, cookie}
                         /\ r.second # None => r.second # r.first}

Step(t) ==
    \/ \E r \in Calls : handle_signup(t, r) \/ handle_login(t, r)
    \/ \E r \in Visits : handle_visit(t, r)
    \/ sqlite3_prepare(t) \/ step_insert(t) \/ lock_exclusive(t) \/ commit(t)
    \/ step_select(t) \/ step_select_again(t)
    \/ Respond(t)

Next == Start \/ Crash \/ Tick \/ \E t \in Threads : Step(t)

Spec == Init /\ [][Next]_vars

-----------------------------------------------------------------------------
(* Properties                                                              *)

\* A name is inserted at most once, by whichever threads, processes and default
\* accounts compete for it, and its row stays (db_insert relies on the primary
\* key alone; handle_request looks nothing up before).
OneAccountPerName ==
    \A u \in Names : created[u] = IF file[u] = None THEN 0 ELSE 1

\* A sign-up answered with success after SQLITE_DONE has its row in the file,
\* with its own password, even if other sign-ups ran meanwhile or a reader was
\* in the way.  (After any other code but SQLITE_CONSTRAINT the page lies.)
WelcomeMeansAccount ==
    \A t \in Threads :
        page[t] = "signup_success" /\ rc[t] = "DONE" => file[request[t].user] = request[t].password

\* A login succeeds only for an account that exists, with its password; an
\* unknown name, a locked or broken database give an empty hash.
LoginNeedsAccount ==
    \A t \in Threads :
        page[t] = "login_success" =>
            /\ request[t].user # NoName
            /\ file[request[t].user] = request[t].password

\* A login that comes when its account is there, with the right password, fails
\* only if the database did (compare_password drops the return code).
RightPasswordIsAccepted ==
    \A t \in Threads :
        known[t] /\ page[t] = "login_failure" =>
            request[t].user = NoName \/ rc[t] \in {"BUSY", "ERROR"}

\* A private page is opened only to who holds the token of a login with the
\* password of an account: in this process or an earlier one, which shares the
\* file and the secret, and at most TIME_TO_LIVE ago.  (Nobody reads the user name
\* in the token: that of any account opens every private location.)
PrivateMeansLogin ==
    [][\A t \in Threads :
        pc[t] = "idle" /\ page'[t] = "private" =>
            \E c \in granted :
                c \in {request'[t].first, request'[t].second} /\ clock <= c + TIME_TO_LIVE]_vars

\* The abstract book: effects are atomic.
Book == INSTANCE AccountBook WITH
    accounts <- file,
    call     <- [t \in Threads |-> IF request[t] \in Call THEN request[t] ELSE None],
    answer   <- [t \in Threads |-> IF request[t] \in Call THEN page[t] ELSE None]

\* Sign-ups and logins of threads that share a file, lock it and lose the race
\* are those of a book in which each takes effect at one instant or not at all.
ImplementsBook == Book!BookSpec
=============================================================================
