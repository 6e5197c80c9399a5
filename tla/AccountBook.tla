---------------------------- MODULE AccountBook ----------------------------
(***************************************************************************)
(* What the accounts of the server promise, without threads, locks or a    *)
(* file: a book in which every call takes effect at one instant between    *)
(* its arrival and its answer, or not at all.  Accounts implements it.     *)
(*                                                                         *)
(* An entry is made once and never changed.  A sign-up whose effect got    *)
(* lost is answered as if it had been made (Lost): that is what a caller   *)
(* of this server must reckon with.                                        *)
(***************************************************************************)
CONSTANTS
    Threads,   \* those that handle calls
    Names,     \* user names, NoName for the empty one
    Passwords, \* passwords, NoPassword for the empty one
    NoName, NoPassword,
    None,      \* no entry, no call, no answer
    Defaults   \* the accounts main provides: a function from names to passwords

Call == [kind : {"signup", "login"}, user : Names, password : Passwords]

VARIABLES
    accounts, \* name to password
    call,     \* the call each thread handles
    answer    \* the page it will answer with

bvars == <<accounts, call, answer>>

BookTypeOK ==
    /\ accounts \in [Names -> Passwords \cup {None}]
    /\ call \in [Threads -> Call \cup {None}]
    /\ answer \in [Threads -> {"signup_success", "signup_failure",
                               "login_success", "login_failure", None}]

BookInit ==
    /\ accounts = [u \in Names |-> None]
    /\ call = [t \in Threads |-> None]
    /\ answer = [t \in Threads |-> None]

Pending(t, kind) == call[t] # None /\ answer[t] = None /\ call[t].kind = kind

Answers(t, page) == answer' = [answer EXCEPT ![t] = page]

\* The page of a sign-up that was not refused.
Welcome(r) ==
    IF r.user # NoName /\ r.password # NoPassword THEN "signup_success" ELSE "signup_failure"

\* A login without a name needs no look at the book.
Arrive(t, r) ==
    /\ call[t] = None
    /\ call' = [call EXCEPT ![t] = r]
    /\ Answers(t, IF r.kind = "login" /\ r.user = NoName THEN "login_failure" ELSE None)
    /\ UNCHANGED accounts

Create(t) ==
    /\ Pending(t, "signup") /\ accounts[call[t].user] = None
    /\ accounts' = [accounts EXCEPT ![call[t].user] = call[t].password]
    /\ Answers(t, Welcome(call[t]))
    /\ UNCHANGED call

Refuse(t) ==
    /\ Pending(t, "signup") /\ accounts[call[t].user] # None
    /\ Answers(t, "signup_failure")
    /\ UNCHANGED <<accounts, call>>

LogIn(t) ==
    /\ Pending(t, "login")
    /\ Answers(t, IF accounts[call[t].user] = call[t].password
                  THEN "login_success" ELSE "login_failure")
    /\ UNCHANGED <<accounts, call>>

Lost(t) ==
    /\ \/ Pending(t, "signup") /\ Answers(t, Welcome(call[t]))
       \/ Pending(t, "login") /\ Answers(t, "login_failure")
    /\ UNCHANGED <<accounts, call>>

Return(t) ==
    /\ call[t] # None /\ answer[t] # None
    /\ call' = [call EXCEPT ![t] = None]
    /\ Answers(t, None)
    /\ UNCHANGED accounts

\* The process ends: calls are never answered, entries stay.
Stop ==
    /\ call' = [t \in Threads |-> None]
    /\ answer' = [t \in Threads |-> None]
    /\ UNCHANGED accounts

\* main adds default accounts whose names are free, all or some of them.
Provide ==
    /\ \E S \in SUBSET DOMAIN Defaults :
          accounts' = [u \in Names |-> IF u \in S /\ accounts[u] = None
                                       THEN Defaults[u] ELSE accounts[u]]
    /\ UNCHANGED <<call, answer>>

BookNext ==
    \/ \E t \in Threads :
          \/ \E r \in Call : Arrive(t, r)
          \/ Create(t) \/ Refuse(t) \/ LogIn(t) \/ Lost(t) \/ Return(t)
    \/ Stop \/ Provide

BookSpec == BookInit /\ [][BookNext]_bvars
=============================================================================
