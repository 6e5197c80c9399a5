--------------------------- MODULE AccountsProofs ---------------------------
(***************************************************************************)
(* For any threads, names, passwords, calls and bounds: the accounts are   *)
(* those of an abstract book.  Everything rests on two facts about the     *)
(* file: one thread at most is writing, and it found no row of that name;  *)
(* so a row, once there, never changes, and what a thread has read or      *)
(* answered stays true while it goes on.                                   *)
(***************************************************************************)
EXTENDS Accounts, TLAPS

USE AccountsAssumption

\* Where a thread handles a sign-up or a login and has not answered it.
Active == {"prepare", "step", "reserved", "exclusive", "row"}

\* What a thread may rely on between its steps.
Stands(t) ==
    /\ pc[t] = "idle" => request[t] = None /\ page[t] = None
    /\ pc[t] # "idle" => request[t] # None
    /\ pc[t] = "answer" => page[t] # None
    /\ pc[t] \in Active => request[t] \in Call /\ page[t] = None
    /\ pc[t] \in Active /\ request[t].kind = "login" =>
          /\ request[t].user # NoName
          /\ known[t] => file[request[t].user] = request[t].password
    /\ pc[t] \in {"reserved", "exclusive"} =>
          request[t].kind = "signup" /\ file[request[t].user] = None
    /\ pc[t] = "row" =>
          /\ request[t].kind = "login"
          /\ data[t] = file[request[t].user] /\ data[t] # None

\* What an answer says of the file.
Answered(t) ==
    /\ page[t] = "signup_success" /\ rc[t] = "DONE" =>
          request[t] \in Call /\ file[request[t].user] = request[t].password
    /\ page[t] = "login_success" =>
          /\ request[t] \in Call /\ request[t].user # NoName
          /\ file[request[t].user] = request[t].password
    /\ known[t] /\ page[t] = "login_failure" =>
          request[t].user = NoName \/ rc[t] \in {"BUSY", "ERROR"}

OneWriter == \A s, t \in Writing : s = t

IInv ==
    /\ TypeOK
    /\ ~up => \A t \in Threads : pc[t] = "idle"
    /\ OneWriter
    /\ \A t \in Threads : Stands(t) /\ Answered(t)
    /\ OneAccountPerName

-----------------------------------------------------------------------------
(* Type correctness                                                        *)

LEMMA FinishTypes ==
    ASSUME TypeOK, NEW t \in Threads, NEW code \in Codes, NEW d \in Passwords \cup {None},
           Finish(t, code, d)
    PROVE  /\ UNCHANGED <<up, table, request, clock, cookie, known>>
           /\ pc' \in [Threads -> {"idle", "prepare", "step", "reserved", "exclusive", "row", "answer"}]
           /\ rc' \in [Threads -> Codes]
           /\ data' \in [Threads -> Passwords \cup {None}]
           /\ page' \in [Threads -> Pages \cup {None}]
           /\ issued' \in [Threads -> Times \cup {None}]
           /\ granted' \in SUBSET Times
BY DEF Finish, TypeOK, Pages, Times, generate_cookie

LEMMA StepTypes == ASSUME TypeOK, NEW t \in Threads, Stands(t), Step(t) PROVE TypeOK'
<1> USE DEF TypeOK, Codes, MayFail
<1>1. ASSUME NEW r \in Calls, handle_signup(t, r) PROVE TypeOK'
  BY <1>1 DEF handle_signup, Enter, Pages
<1>2. ASSUME NEW r \in Calls, handle_login(t, r) PROVE TypeOK'
  BY <1>2 DEF handle_login, Enter, Pages
<1>3. ASSUME NEW r \in Visits, handle_visit(t, r) PROVE TypeOK'
  BY <1>3 DEF handle_visit, Enter, Pages, Visits
<1>4. CASE sqlite3_prepare(t)
  <2>1. CASE Goto(t, "step")
    BY <2>1 DEF Goto
  <2>2. ASSUME NEW code \in {"ERROR", "BUSY"}, Finish(t, code, None), leaked < MaxOpen,
               leaked' = leaked + 1, UNCHANGED <<file, created>>
        PROVE  TypeOK'
    BY <2>2, FinishTypes
  <2>3. CASE Finish(t, "ERROR", None) /\ UNCHANGED <<file, leaked, created>>
    BY <2>3, FinishTypes
  <2> QED BY <1>4, <2>1, <2>2, <2>3 DEF sqlite3_prepare
<1>5. CASE step_insert(t)
  <2>1. CASE Goto(t, "reserved")
    BY <2>1 DEF Goto
  <2>2. ASSUME NEW code \in Codes, Finish(t, code, None), UNCHANGED <<file, leaked, created>>
        PROVE  TypeOK'
    BY <2>2, FinishTypes
  <2> QED BY <1>5, <2>1, <2>2 DEF step_insert
<1>6. CASE lock_exclusive(t)
  <2>1. CASE Goto(t, "exclusive")
    BY <2>1 DEF Goto
  <2>2. CASE Finish(t, "BUSY", None) /\ UNCHANGED <<file, leaked, created>>
    BY <2>2, FinishTypes
  <2> QED BY <1>6, <2>1, <2>2 DEF lock_exclusive
<1>7. CASE commit(t)
  <2>1. CASE /\ file' = [file EXCEPT ![request[t].user] = request[t].password]
             /\ created' = [created EXCEPT ![request[t].user] = @ + 1]
             /\ Finish(t, "DONE", None) /\ UNCHANGED leaked
    <3>1. request[t] \in Call
      BY <1>7 DEF commit, Stands, Active
    <3> QED BY <2>1, <3>1, FinishTypes DEF Call
  <2>2. CASE Finish(t, "ERROR", None) /\ UNCHANGED <<file, leaked, created>>
    BY <2>2, FinishTypes
  <2> QED BY <1>7, <2>1, <2>2 DEF commit
<1>8. CASE step_select(t)
  <2>1. CASE /\ pc' = [pc EXCEPT ![t] = "row"]
             /\ data' = [data EXCEPT ![t] = file[request[t].user]]
             /\ UNCHANGED <<up, table, file, request, rc, page, issued, leaked, clock,
                            cookie, known, created, granted>>
    <3>1. request[t] \in Call
      BY <1>8 DEF step_select, Stands, Active
    <3> QED BY <2>1, <3>1 DEF Call
  <2>2. ASSUME NEW code \in Codes, Finish(t, code, None), UNCHANGED <<file, leaked, created>>
        PROVE  TypeOK'
    BY <2>2, FinishTypes
  <2> QED BY <1>8, <2>1, <2>2 DEF step_select
<1>9. CASE step_select_again(t)
  <2>1. PICK code \in Codes : Finish(t, code, data[t])
    BY <1>9 DEF step_select_again
  <2> QED BY <1>9, <2>1, FinishTypes DEF step_select_again
<1>10. CASE Respond(t)
  BY <1>10 DEF Respond, Pages
<1> QED BY <1>1, <1>2, <1>3, <1>4, <1>5, <1>6, <1>7, <1>8, <1>9, <1>10 DEF Step

-----------------------------------------------------------------------------
(* What a step leaves alone                                                *)

LEMMA StepLocal ==
    ASSUME TypeOK, NEW t \in Threads, Step(t), NEW s \in Threads, s # t
    PROVE  /\ pc'[s] = pc[s] /\ request'[s] = request[s] /\ rc'[s] = rc[s]
           /\ data'[s] = data[s] /\ page'[s] = page[s] /\ known'[s] = known[s]
<1> USE DEF TypeOK
<1>1. ASSUME NEW code, NEW d, Finish(t, code, d)
      PROVE  /\ pc'[s] = pc[s] /\ request'[s] = request[s] /\ rc'[s] = rc[s]
             /\ data'[s] = data[s] /\ page'[s] = page[s] /\ known'[s] = known[s]
  BY <1>1 DEF Finish
<1>2. ASSUME NEW place, Goto(t, place)
      PROVE  /\ pc'[s] = pc[s] /\ request'[s] = request[s] /\ rc'[s] = rc[s]
             /\ data'[s] = data[s] /\ page'[s] = page[s] /\ known'[s] = known[s]
  BY <1>2 DEF Goto
<1>3. ASSUME NEW r, NEW place, NEW p, Enter(t, r, place, p)
      PROVE  /\ pc'[s] = pc[s] /\ request'[s] = request[s] /\ rc'[s] = rc[s]
             /\ data'[s] = data[s] /\ page'[s] = page[s]
  BY <1>3 DEF Enter
<1>4. ASSUME NEW r, handle_signup(t, r) \/ handle_login(t, r) \/ handle_visit(t, r)
      PROVE  /\ known'[s] = known[s]
             /\ \E place, p : Enter(t, r, place, p)
  BY <1>4 DEF handle_signup, handle_login, handle_visit
<1>5. CASE sqlite3_prepare(t) \/ step_insert(t) \/ lock_exclusive(t) \/ commit(t)
  BY <1>5, <1>1, <1>2 DEF sqlite3_prepare, step_insert, lock_exclusive, commit
<1>6. CASE step_select(t) \/ step_select_again(t) \/ Respond(t)
  BY <1>6, <1>1 DEF step_select, step_select_again, Respond
<1> QED BY <1>3, <1>4, <1>5, <1>6 DEF Step

\* Only commit writes, a row that was not there.
LEMMA StepFile ==
    ASSUME TypeOK, NEW t \in Threads, Stands(t), Step(t)
    PROVE  \/ UNCHANGED <<file, created>>
           \/ /\ pc[t] = "exclusive" /\ request[t] \in Call
              /\ file[request[t].user] = None
              /\ file' = [file EXCEPT ![request[t].user] = request[t].password]
              /\ created' = [created EXCEPT ![request[t].user] = @ + 1]
<1>1. CASE commit(t)
  BY <1>1 DEF commit, Stands, Active
<1>2. CASE sqlite3_prepare(t) \/ step_insert(t) \/ lock_exclusive(t)
  BY <1>2 DEF sqlite3_prepare, step_insert, lock_exclusive, Goto
<1>3. CASE step_select(t) \/ step_select_again(t) \/ Respond(t)
  BY <1>3 DEF step_select, step_select_again, Respond
<1>4. ASSUME NEW r, handle_signup(t, r) \/ handle_login(t, r) \/ handle_visit(t, r)
      PROVE  UNCHANGED <<file, created>>
  BY <1>4 DEF handle_signup, handle_login, handle_visit, Enter
<1> QED BY <1>1, <1>2, <1>3, <1>4 DEF Step

\* A row never changes.
LEMMA RowsStay ==
    ASSUME TypeOK, NEW t \in Threads, Stands(t), Step(t), NEW u \in Names, file[u] # None
    PROVE  file'[u] = file[u]
BY StepFile DEF TypeOK, Call

\* No step makes another thread begin to write.
LEMMA OthersStand ==
    ASSUME IInv, NEW t \in Threads, Step(t), NEW s \in Threads, s # t
    PROVE  Stands(s)' /\ Answered(s)'
<1>1. Stands(s) /\ Answered(s) /\ Stands(t) /\ TypeOK
  BY DEF IInv
<1>2. /\ pc'[s] = pc[s] /\ request'[s] = request[s] /\ rc'[s] = rc[s]
      /\ data'[s] = data[s] /\ page'[s] = page[s] /\ known'[s] = known[s]
  BY <1>1, StepLocal
<1>3. ASSUME request[s] \in Call, file[request[s].user] # None
      PROVE  file'[request[s].user] = file[request[s].user]
  BY <1>1, <1>3, RowsStay DEF Call
<1>4. request[s] \in Call => request[s].password # None
  BY DEF Call
<1>5. pc[s] \in {"reserved", "exclusive"} => file' = file
  BY <1>1, StepFile DEF IInv, OneWriter, Writing
<1>6. Stands(s)'
  BY <1>1, <1>2, <1>3, <1>4, <1>5 DEF Stands, Active
<1>7. Answered(s)'
  BY <1>1, <1>2, <1>3, <1>4 DEF Answered
<1> QED BY <1>6, <1>7

-----------------------------------------------------------------------------
(* What a step does to its own thread                                      *)

\* A sign-up is welcome unless it was refused; a login needs the row.
LEMMA FinishAnswers ==
    ASSUME TypeOK, NEW t \in Threads, NEW code, NEW d, Finish(t, code, d)
    PROVE  /\ pc'[t] = "answer" /\ rc'[t] = code /\ request' = request /\ known' = known
           /\ request[t].kind = "signup" =>
                 page'[t] = IF code # "CONSTRAINT" /\ request[t].user # NoName
                               /\ request[t].password # NoPassword
                            THEN "signup_success" ELSE "signup_failure"
           /\ request[t].kind = "login" =>
                 page'[t] = IF d # None /\ d = request[t].password
                            THEN "login_success" ELSE "login_failure"
BY ZenonT(30) DEF Finish, TypeOK, check_password

\* No page is taken for no page.
LEMMA PagesAreSome == \A p \in Pages : p # None
OBVIOUS

\* What a thread that finishes may say, given the file it leaves.
LEMMA FinishStands ==
    ASSUME TypeOK, NEW t \in Threads, Stands(t), pc[t] \in Active,
           NEW code, NEW d, Finish(t, code, d),
           request[t].kind = "signup" /\ code = "DONE" =>
              file'[request[t].user] = request[t].password,
           request[t].kind = "login" =>
              /\ file' = file
              /\ d = file[request[t].user] \/ (d = None /\ code \in {"BUSY", "ERROR"})
    PROVE  Stands(t)' /\ Answered(t)'
<1>1. request[t] \in Call /\ request[t].kind \in {"signup", "login"}
  BY DEF Stands, Call
<1>2. request[t].password # None /\ request[t] # None
  BY <1>1 DEF Call
<1>3. CASE request[t].kind = "signup"
  <2>1. page'[t] \in {"signup_success", "signup_failure"}
    BY <1>3, FinishAnswers
  <2> QED BY <1>1, <1>2, <1>3, <2>1, FinishAnswers, PagesAreSome DEF Pages, Stands, Answered, Active
<1>4. CASE request[t].kind = "login"
  <2>1. /\ request[t].user # NoName
        /\ known[t] => file[request[t].user] = request[t].password
    BY <1>4 DEF Stands
  <2>2. /\ page'[t] \in {"login_success", "login_failure"}
        /\ page'[t] = "login_success" <=> (d # None /\ d = request[t].password)
    BY <1>4, FinishAnswers
  <2> QED BY <1>1, <1>2, <1>4, <2>1, <2>2, FinishAnswers, PagesAreSome DEF Pages, Stands, Answered, Active
<1> QED BY <1>1, <1>3, <1>4

LEMMA OwnStands ==
    ASSUME IInv, NEW t \in Threads, Step(t)
    PROVE  Stands(t)' /\ Answered(t)'
<1>1. TypeOK /\ Stands(t) /\ Answered(t) /\ OneWriter
  BY DEF IInv
<1>2. ASSUME NEW r \in Calls, handle_signup(t, r) PROVE Stands(t)' /\ Answered(t)'
  <2>1. /\ pc'[t] = "prepare" /\ request'[t] = r /\ page'[t] = None
        /\ r \in Call /\ r.kind = "signup" /\ r # None
    BY <1>1, <1>2 DEF handle_signup, Enter, TypeOK
  <2> QED BY <2>1, PagesAreSome DEF Pages, Stands, Answered, Active
<1>3. ASSUME NEW r \in Calls, handle_login(t, r) PROVE Stands(t)' /\ Answered(t)'
  <2>1. /\ request'[t] = r /\ r \in Call /\ r.kind = "login" /\ r # None
        /\ file' = file /\ known'[t] = (file[r.user] = r.password)
        /\ \/ r.user # NoName /\ pc'[t] = "prepare" /\ page'[t] = None
           \/ r.user = NoName /\ pc'[t] = "answer" /\ page'[t] = "login_failure"
    BY <1>1, <1>3 DEF handle_login, Enter, TypeOK
  <2> QED BY <2>1, PagesAreSome DEF Pages, Stands, Answered, Active
<1>4. ASSUME NEW r \in Visits, handle_visit(t, r) PROVE Stands(t)' /\ Answered(t)'
  <2>1. /\ request'[t] = r /\ r # None /\ pc'[t] = "answer"
        /\ page'[t] \in {"private", "redirect"}
    BY <1>1, <1>4 DEF handle_visit, Enter, TypeOK, Visits
  <2> QED BY <2>1, PagesAreSome DEF Pages, Stands, Answered, Active
<1>5. CASE sqlite3_prepare(t)
  <2>1. CASE Goto(t, "step")
    BY <1>1, <1>5, <2>1 DEF sqlite3_prepare, Goto, Stands, Answered, Active, TypeOK
  <2>2. ASSUME NEW code \in {"ERROR", "BUSY"}, Finish(t, code, None), file' = file
        PROVE  Stands(t)' /\ Answered(t)'
    BY <1>1, <1>5, <2>2, FinishStands DEF sqlite3_prepare, Active
  <2> QED BY <1>5, <2>1, <2>2 DEF sqlite3_prepare, MayFail
<1>6. CASE step_insert(t)
  <2>1. CASE Goto(t, "reserved") /\ file[request[t].user] = None
    BY <1>1, <1>6, <2>1 DEF step_insert, Goto, Stands, Answered, Active, TypeOK
  <2>2. ASSUME NEW code \in {"BUSY", "CONSTRAINT", "ERROR"}, Finish(t, code, None), file' = file
        PROVE  Stands(t)' /\ Answered(t)'
    BY <1>1, <1>6, <2>2, FinishStands DEF step_insert, Active
  <2> QED BY <1>6, <2>1, <2>2 DEF step_insert, MayFail
<1>7. CASE lock_exclusive(t)
  <2>1. CASE Goto(t, "exclusive")
    BY <1>1, <1>7, <2>1 DEF lock_exclusive, Goto, Stands, Answered, Active, TypeOK
  <2>2. CASE Finish(t, "BUSY", None) /\ file' = file
    BY <1>1, <1>7, <2>2, FinishStands DEF lock_exclusive, Stands, Active
  <2> QED BY <1>7, <2>1, <2>2 DEF lock_exclusive
<1>8. CASE commit(t)
  <2>1. CASE /\ file' = [file EXCEPT ![request[t].user] = request[t].password]
             /\ Finish(t, "DONE", None)
    BY <1>1, <1>8, <2>1, FinishStands DEF commit, Stands, Active, TypeOK, Call
  <2>2. CASE Finish(t, "ERROR", None) /\ file' = file
    BY <1>1, <1>8, <2>2, FinishStands DEF commit, Stands, Active
  <2> QED BY <1>8, <2>1, <2>2 DEF commit, MayFail
<1>9. CASE step_select(t)
  <2>1. CASE /\ file[request[t].user] # None
             /\ pc' = [pc EXCEPT ![t] = "row"]
             /\ data' = [data EXCEPT ![t] = file[request[t].user]]
             /\ UNCHANGED <<request, rc, page, file, known>>
    BY <1>1, <1>9, <2>1 DEF step_select, Stands, Answered, Active, TypeOK
  <2>2. CASE file[request[t].user] = None /\ Finish(t, "DONE", None) /\ file' = file
    BY <1>1, <1>9, <2>2, FinishStands DEF step_select, Active
  <2>3. ASSUME NEW code \in {"BUSY", "ERROR"}, Finish(t, code, None), file' = file
        PROVE  Stands(t)' /\ Answered(t)'
    BY <1>1, <1>9, <2>3, FinishStands DEF step_select, Active
  <2> QED BY <1>9, <2>1, <2>2, <2>3 DEF step_select, MayFail
<1>10. CASE step_select_again(t)
  <2>1. PICK code : Finish(t, code, data[t]) /\ file' = file
    BY <1>10 DEF step_select_again
  <2> QED BY <1>1, <1>10, <2>1, FinishStands DEF step_select_again, Stands, Active
<1>11. CASE Respond(t)
  <2>1. pc'[t] = "idle" /\ request'[t] = None /\ page'[t] = None
    BY <1>1, <1>11 DEF Respond, TypeOK
  <2> QED BY <2>1, PagesAreSome DEF Pages, Stands, Answered, Active
<1> QED BY <1>2, <1>3, <1>4, <1>5, <1>6, <1>7, <1>8, <1>9, <1>10, <1>11 DEF Step

-----------------------------------------------------------------------------
(* The invariant                                                           *)

\* The reserved lock is one thread's; committing keeps it.
LEMMA WriterStep == ASSUME IInv, NEW t \in Threads, Step(t) PROVE OneWriter'
<1>1. TypeOK /\ OneWriter
  BY DEF IInv
<1>2. \A s \in Threads : s # t => pc'[s] = pc[s]
  BY <1>1, StepLocal
<1>3. pc'[t] \in {"reserved", "exclusive"} => t \in Writing \/ Writing = {}
  <2>1. CASE step_insert(t) \/ lock_exclusive(t)
    BY <1>1, <2>1 DEF step_insert, lock_exclusive, Goto, Finish, TypeOK, Writing
  <2>2. CASE sqlite3_prepare(t) \/ commit(t) \/ step_select(t)
    BY <1>1, <2>2 DEF sqlite3_prepare, commit, step_select, Goto, Finish, TypeOK
  <2>3. CASE step_select_again(t) \/ Respond(t)
    BY <1>1, <2>3 DEF step_select_again, Respond, Finish, TypeOK
  <2>4. ASSUME NEW r, handle_signup(t, r) \/ handle_login(t, r) \/ handle_visit(t, r)
        PROVE  pc'[t] \notin {"reserved", "exclusive"}
    BY <1>1, <2>4 DEF handle_signup, handle_login, handle_visit, Enter, TypeOK
  <2> QED BY <2>1, <2>2, <2>3, <2>4 DEF Step
<1> QED BY <1>1, <1>2, <1>3 DEF OneWriter, Writing

LEMMA CountStep ==
    ASSUME IInv, NEW t \in Threads, Step(t)
    PROVE  OneAccountPerName'
<1>1. TypeOK /\ Stands(t) /\ OneAccountPerName
  BY DEF IInv
<1>2. CASE UNCHANGED <<file, created>>
  BY <1>1, <1>2 DEF OneAccountPerName
<1>3. CASE ~UNCHANGED <<file, created>>
  <2>1. /\ request[t].user \in Names /\ request[t].password # None
        /\ file[request[t].user] = None
        /\ file' = [file EXCEPT ![request[t].user] = request[t].password]
        /\ created' = [created EXCEPT ![request[t].user] = @ + 1]
    BY <1>1, <1>3, StepFile DEF Call
  <2>2. created[request[t].user] = 0
    BY <1>1, <2>1 DEF OneAccountPerName
  <2> QED BY <1>1, <2>1, <2>2 DEF OneAccountPerName, TypeOK
<1> QED BY <1>2, <1>3

LEMMA UpStep == ASSUME NEW t \in Threads, Step(t), IInv PROVE up' /\ up
<1>1. TypeOK /\ Stands(t) /\ (~up => pc[t] = "idle")
  BY DEF IInv
<1>2. UNCHANGED up
  BY DEF Step, handle_signup, handle_login, handle_visit, Enter, sqlite3_prepare, step_insert,
         lock_exclusive, commit, step_select, step_select_again, Respond, Goto, Finish
<1>3. up
  BY <1>1 DEF Step, handle_signup, handle_login, handle_visit, Enter, sqlite3_prepare, step_insert,
         lock_exclusive, commit, step_select, step_select_again, Respond
<1> QED BY <1>2, <1>3

LEMMA StartStep == ASSUME IInv, Start PROVE IInv'
<1> USE DEF IInv
<1>1. \A t \in Threads : pc[t] = "idle" /\ page[t] = None
  BY DEF Start, Stands
<1>2. PICK S \in SUBSET DOMAIN Defaults :
          LET new == {u \in S : table' /\ file[u] = None}
          IN  /\ file' = [u \in Names |-> IF u \in new THEN Defaults[u] ELSE file[u]]
              /\ created' = [u \in Names |-> IF u \in new THEN created[u] + 1 ELSE created[u]]
  BY DEF Start
<1>3. TypeOK'
  <2>1. Defaults \in [DOMAIN Defaults -> Passwords]
    OBVIOUS
  <2>2. file' \in [Names -> Passwords \cup {None}] /\ created' \in [Names -> Nat]
    BY <1>2, <2>1 DEF TypeOK
  <2> QED BY <2>2 DEF Start, TypeOK
<1>4. OneWriter' /\ (~up => \A t \in Threads : pc[t] = "idle")'
  BY DEF Start, OneWriter, Writing
<1>5. \A t \in Threads : Stands(t)' /\ Answered(t)'
  BY <1>1, PagesAreSome DEF Start, Stands, Answered, Active, Pages
<1>6. OneAccountPerName'
  BY <1>2 DEF OneAccountPerName, TypeOK
<1> QED BY <1>3, <1>4, <1>5, <1>6

LEMMA CrashTypes == ASSUME TypeOK, Crash PROVE TypeOK'
<1>1. 0 \in 0..MaxOpen
  OBVIOUS
<1> QED BY <1>1 DEF Crash, TypeOK, Codes

LEMMA CrashStep == ASSUME IInv, Crash PROVE IInv'
<1> USE DEF IInv
<1>1. TypeOK'
  BY CrashTypes
<1>2. \A t \in Threads : pc'[t] = "idle" /\ request'[t] = None /\ page'[t] = None
  BY DEF Crash
<1>3. \A t \in Threads : Stands(t)' /\ Answered(t)'
  BY <1>2, PagesAreSome DEF Stands, Answered, Active, Pages
<1>4. OneWriter' /\ OneAccountPerName'
  BY <1>2 DEF Crash, OneWriter, Writing, OneAccountPerName
<1> QED BY <1>1, <1>2, <1>3, <1>4

LEMMA TickStep == ASSUME IInv, Tick \/ UNCHANGED vars PROVE IInv'
<1>1. TypeOK'
  BY DEF IInv, Tick, vars, TypeOK, Times
<1>2. UNCHANGED <<up, file, pc, request, rc, data, page, known, created>>
  BY DEF Tick, vars
<1> QED BY <1>1, <1>2 DEF IInv, OneWriter, Writing, Stands, Answered, Active, OneAccountPerName

LEMMA IInvInit == Init => IInv
<1> SUFFICES ASSUME Init PROVE IInv
  OBVIOUS
<1>1. TypeOK
  <2>1. 0 \in Times /\ 0 \in 0..MaxOpen
    BY DEF Times
  <2> QED BY <2>1 DEF Init, TypeOK, Codes
<1>2. \A t \in Threads : Stands(t) /\ Answered(t)
  BY PagesAreSome DEF Init, Stands, Answered, Active, Pages
<1>3. OneWriter /\ OneAccountPerName
  BY DEF Init, OneWriter, Writing, OneAccountPerName
<1> QED BY <1>1, <1>2, <1>3 DEF IInv, Init

LEMMA IInvStep == IInv /\ [Next]_vars => IInv'
<1> SUFFICES ASSUME IInv, [Next]_vars PROVE IInv'
  OBVIOUS
<1>1. ASSUME NEW t \in Threads, Step(t) PROVE IInv'
  <2>1. TypeOK'
    BY <1>1, StepTypes DEF IInv
  <2>2. \A s \in Threads : Stands(s)' /\ Answered(s)'
    BY <1>1, OwnStands, OthersStand
  <2> QED BY <1>1, <2>1, <2>2, WriterStep, CountStep, UpStep DEF IInv
<1> QED BY <1>1, StartStep, CrashStep, TickStep DEF Next

-----------------------------------------------------------------------------
(* What the invariant gives                                                *)

\* The state is well formed.
THEOREM TypeCorrect == Spec => []TypeOK
<1>1. IInv => TypeOK
  BY DEF IInv
<1> QED BY <1>1, IInvInit, IInvStep, PTL DEF Spec

\* db_insert relies on the primary key alone: no name is inserted twice, by
\* whichever threads and restarts, and its row stays.
THEOREM NamesAreUnique == Spec => []OneAccountPerName
<1>1. IInv => OneAccountPerName
  BY DEF IInv
<1> QED BY <1>1, IInvInit, IInvStep, PTL DEF Spec

\* A sign-up that was done and answered with success has its row, with its password.
THEOREM WelcomeIsKept == Spec => []WelcomeMeansAccount
<1>1. IInv => WelcomeMeansAccount
  BY DEF IInv, Answered, WelcomeMeansAccount
<1> QED BY <1>1, IInvInit, IInvStep, PTL DEF Spec

\* No login succeeds without an account of that name and password.
THEOREM LoginsAreKnown == Spec => []LoginNeedsAccount
<1>1. IInv => LoginNeedsAccount
  BY DEF IInv, Answered, LoginNeedsAccount
<1> QED BY <1>1, IInvInit, IInvStep, PTL DEF Spec

\* A login whose account was there fails only with the database.
THEOREM PasswordsAreAccepted == Spec => []RightPasswordIsAccepted
<1>1. IInv => RightPasswordIsAccepted
  BY DEF IInv, Answered, RightPasswordIsAccepted
<1> QED BY <1>1, IInvInit, IInvStep, PTL DEF Spec

-----------------------------------------------------------------------------
(* Private pages                                                           *)

\* The token held and those on their way are of genuine logins.
Earned == \A c \in {cookie} \cup {issued[t] : t \in Threads} : c # None => c \in granted

\* A hash read from the file is that of the account; no other call gets a token.
LEMMA FinishEarns ==
    ASSUME IInv, NEW t \in Threads, pc[t] \in Active, Earned, NEW code, NEW d, Finish(t, code, d),
           d # None => pc[t] = "row" /\ d = data[t]
    PROVE  Earned'
<1>1. TypeOK /\ Stands(t)
  BY DEF IInv
<1>2. granted \subseteq granted' /\ cookie' = cookie
  BY DEF Finish
<1>3. issued'[t] # None => issued'[t] \in granted'
  <2>1. CASE d = None
    BY <1>1, <2>1 DEF Finish, check_password, TypeOK
  <2>2. CASE d # None
    <3>1. request[t].kind = "login" /\ request[t].user # NoName /\ d = file[request[t].user]
      BY <1>1, <2>2 DEF Stands, Active
    <3>2. check_password(request[t].password, d) => Genuine(request[t])
      BY <2>2, <3>1 DEF check_password, Genuine
    <3>3. /\ issued'[t] = IF check_password(request[t].password, d) THEN clock ELSE None
          /\ granted' = IF Genuine(request[t]) THEN granted \cup {clock} ELSE granted
      BY <1>1, <3>1 DEF Finish, TypeOK, generate_cookie
    <3> QED BY <3>2, <3>3
  <2> QED BY <2>1, <2>2
<1>4. \A s \in Threads : s # t => issued'[s] = issued[s]
  BY <1>1 DEF Finish, TypeOK
<1> QED BY <1>2, <1>3, <1>4 DEF Earned

LEMMA StepEarns == ASSUME IInv, NEW t \in Threads, Step(t), Earned PROVE Earned'
<1>1. TypeOK /\ Stands(t)
  BY DEF IInv
<1>2. ASSUME UNCHANGED <<cookie, issued, granted>> PROVE Earned'
  BY <1>2 DEF Earned
<1>3. ASSUME NEW r, handle_signup(t, r) \/ handle_login(t, r) \/ handle_visit(t, r) PROVE Earned'
  BY <1>2, <1>3 DEF handle_signup, handle_login, handle_visit, Enter
<1>4. ASSUME NEW place, Goto(t, place) PROVE Earned'
  BY <1>2, <1>4 DEF Goto
<1>5. ASSUME pc[t] \in Active, NEW code, Finish(t, code, None) PROVE Earned'
  BY <1>5, FinishEarns
<1>6. CASE sqlite3_prepare(t)
  BY <1>4, <1>5, <1>6 DEF sqlite3_prepare, Active
<1>7. CASE step_insert(t)
  BY <1>4, <1>5, <1>7 DEF step_insert, Active
<1>8. CASE lock_exclusive(t)
  BY <1>4, <1>5, <1>8 DEF lock_exclusive, Active
<1>9. CASE commit(t)
  BY <1>5, <1>9 DEF commit, Active
<1>10. CASE step_select(t)
  BY <1>2, <1>5, <1>10 DEF step_select, Active
<1>11. CASE step_select_again(t)
  <2>1. PICK code : Finish(t, code, data[t])
    BY <1>11 DEF step_select_again
  <2> QED BY <1>11, <2>1, FinishEarns DEF step_select_again, Active
<1>12. CASE Respond(t)
  <2>1. /\ granted' = granted
        /\ cookie' = cookie \/ cookie' = issued[t]
        /\ \A s \in Threads : issued'[s] = None \/ issued'[s] = issued[s]
    BY <1>1, <1>12 DEF Respond, TypeOK
  <2> QED BY <2>1 DEF Earned
<1> QED BY <1>3, <1>6, <1>7, <1>8, <1>9, <1>10, <1>11, <1>12 DEF Step

LEMMA EarnedStays == IInv /\ Earned /\ [Next]_vars => Earned'
<1>1. CASE Start \/ Tick \/ UNCHANGED vars
  BY <1>1 DEF Start, Tick, vars, Earned
<1>2. CASE Crash
  BY <1>2 DEF Crash, Earned
<1> QED BY <1>1, <1>2, StepEarns DEF Next

PrivateStep ==
    \A t \in Threads :
        pc[t] = "idle" /\ page'[t] = "private" =>
            \E c \in granted :
                c \in {request'[t].first, request'[t].second} /\ clock <= c + TIME_TO_LIVE

\* Only handle_visit answers with a private page, after verify_cookie.
LEMMA PrivateIsEarned == IInv /\ Earned /\ [Next]_vars => PrivateStep
<1> SUFFICES ASSUME IInv, Earned, [Next]_vars, NEW t \in Threads,
                    pc[t] = "idle", page'[t] = "private"
             PROVE  \E c \in granted :
                        c \in {request'[t].first, request'[t].second} /\ clock <= c + TIME_TO_LIVE
  BY DEF PrivateStep
<1>1. TypeOK /\ page[t] = None /\ "private" # None
  BY PagesAreSome DEF IInv, Stands, Pages
<1>2. PICK s \in Threads : Step(s)
  BY <1>1 DEF Next, vars, Start, Crash, Tick
<1>3. s = t
  BY <1>1, <1>2, StepLocal
<1>4. PICK r \in Visits : handle_visit(t, r)
  <2>1. ASSUME NEW r \in Calls, handle_signup(t, r) \/ handle_login(t, r) PROVE FALSE
    BY <1>1, <2>1 DEF handle_signup, handle_login, Enter, TypeOK
  <2> QED BY <1>2, <1>3, <2>1 DEF Step, sqlite3_prepare, step_insert, lock_exclusive, commit,
                                  step_select, step_select_again, Respond
<1>5. request'[t] = r /\ check_cookie(r)
  BY <1>1, <1>4 DEF handle_visit, Enter, TypeOK
<1>6. r.first \in {None, Forged, cookie} /\ r.second \in {None, cookie}
  BY DEF Visits
<1>7. PICK c \in {r.first, r.second} : c # None /\ c # Forged /\ clock <= c + TIME_TO_LIVE
  BY <1>5 DEF check_cookie, verify_cookie, verify
<1>8. c = cookie /\ c \in granted
  BY <1>6, <1>7 DEF Earned
<1> QED BY <1>5, <1>7, <1>8

\* The token that opens a private page was handed out by a login that gave an
\* account's own password, TIME_TO_LIVE ago at most.
THEOREM PrivateIsGranted == Spec => PrivateMeansLogin
<1>1. Init => Earned
  BY DEF Init, Earned
<1>2. IInv /\ Earned /\ [Next]_vars => [PrivateStep]_vars
  BY PrivateIsEarned
<1> QED BY <1>1, <1>2, IInvInit, IInvStep, EarnedStays, PTL DEF Spec, PrivateMeansLogin, PrivateStep

-----------------------------------------------------------------------------
(* Every step is one of the book, or none                                  *)

CallOf(t)   == IF request[t] \in Call THEN request[t] ELSE None
AnswerOf(t) == IF request[t] \in Call THEN page[t] ELSE None

\* What the book sees of a step that touches one thread.
LEMMA Seen ==
    ASSUME TypeOK, NEW t \in Threads, Step(t),
           NEW c, NEW a, CallOf(t)' = c, AnswerOf(t)' = a
    PROVE  /\ [s \in Threads |-> CallOf(s)]' = [[s \in Threads |-> CallOf(s)] EXCEPT ![t] = c]
           /\ [s \in Threads |-> AnswerOf(s)]' = [[s \in Threads |-> AnswerOf(s)] EXCEPT ![t] = a]
<1>1. \A s \in Threads : s # t => CallOf(s)' = CallOf(s) /\ AnswerOf(s)' = AnswerOf(s)
  BY StepLocal DEF CallOf, AnswerOf
<1> QED BY <1>1

\* A statement that ends without an effect is a call that got lost, a refusal or
\* a login.
LEMMA FinishIsBook ==
    ASSUME IInv, NEW t \in Threads, Step(t), pc[t] \in Active,
           NEW code, NEW d, Finish(t, code, d), file' = file,
           request[t].kind = "signup" =>
              code \in {"BUSY", "ERROR"} \/ (code = "CONSTRAINT" /\ file[request[t].user] # None),
           request[t].kind = "login" => d = None \/ d = file[request[t].user]
    PROVE  Book!Refuse(t) \/ Book!LogIn(t) \/ Book!Lost(t)
<1> DEFINE calls   == [s \in Threads |-> CallOf(s)]
           answers == [s \in Threads |-> AnswerOf(s)]
           r == request[t]
<1>1. TypeOK /\ Stands(t)
  BY DEF IInv
<1>2. /\ r \in Call /\ r # None /\ page[t] = None /\ r.kind \in {"signup", "login"}
      /\ r.password # None
  BY <1>1 DEF Stands, Call
<1>3. calls[t] = r /\ answers[t] = None
  BY <1>2 DEF CallOf, AnswerOf
<1>4. request' = request /\ CallOf(t)' = r /\ AnswerOf(t)' = page'[t]
  BY <1>1, <1>2, FinishAnswers DEF CallOf, AnswerOf
<1>5. calls' = calls /\ answers' = [answers EXCEPT ![t] = page'[t]]
  BY <1>1, <1>3, <1>4, Seen
<1>6. CASE r.kind = "signup" /\ code \in {"BUSY", "ERROR"}
  <2>1. page'[t] = Book!Welcome(r)
    BY <1>1, <1>6, FinishAnswers DEF Book!Welcome
  <2> QED BY <1>2, <1>3, <1>5, <1>6, <2>1
          DEF Book!Lost, Book!Pending, Book!Answers, CallOf, AnswerOf
<1>7. CASE r.kind = "signup" /\ code = "CONSTRAINT" /\ file[r.user] # None
  <2>1. page'[t] = "signup_failure"
    BY <1>1, <1>7, FinishAnswers
  <2> QED BY <1>2, <1>3, <1>5, <1>7, <2>1
          DEF Book!Refuse, Book!Pending, Book!Answers, CallOf, AnswerOf
<1>8. CASE r.kind = "login" /\ d = file[r.user]
  <2>1. page'[t] = IF file[r.user] = r.password THEN "login_success" ELSE "login_failure"
    BY <1>1, <1>2, <1>8, FinishAnswers
  <2> QED BY <1>2, <1>3, <1>5, <1>8, <2>1
          DEF Book!LogIn, Book!Pending, Book!Answers, CallOf, AnswerOf
<1>9. CASE r.kind = "login" /\ d = None
  <2>1. page'[t] = "login_failure"
    BY <1>1, <1>9, FinishAnswers
  <2> QED BY <1>2, <1>3, <1>5, <1>9, <2>1
          DEF Book!Lost, Book!Pending, Book!Answers, CallOf, AnswerOf
<1> QED BY <1>2, <1>6, <1>7, <1>8, <1>9

LEMMA StepIsBook ==
    ASSUME IInv, NEW t \in Threads, Step(t)
    PROVE  Book!BookNext \/ UNCHANGED Book!bvars
<1> DEFINE calls   == [s \in Threads |-> CallOf(s)]
           answers == [s \in Threads |-> AnswerOf(s)]
<1> USE DEF CallOf, AnswerOf
<1>1. TypeOK /\ Stands(t)
  BY DEF IInv
<1>2. SUFFICES ASSUME ~(Book!Refuse(t) \/ Book!LogIn(t) \/ Book!Lost(t))
      PROVE  \/ \E r \in Call : Book!Arrive(t, r)
             \/ Book!Create(t) \/ Book!Return(t) \/ UNCHANGED Book!bvars
  BY DEF Book!BookNext, Book!Call, Call
<1>3. ASSUME UNCHANGED <<file, request, page>> PROVE UNCHANGED Book!bvars
  BY <1>3 DEF Book!bvars
<1>4. ASSUME NEW place, Goto(t, place) PROVE UNCHANGED Book!bvars
  BY <1>3, <1>4 DEF Goto
<1>5. ASSUME NEW r \in Calls, handle_signup(t, r) \/ handle_login(t, r)
      PROVE  \E q \in Call : Book!Arrive(t, q)
  <2> DEFINE p == IF r.kind = "login" /\ r.user = NoName THEN "login_failure" ELSE None
  <2>1. /\ r \in Call /\ request[t] = None /\ request'[t] = r /\ page'[t] = p /\ file' = file
    BY <1>1, <1>5 DEF handle_signup, handle_login, Enter, Stands, TypeOK
  <2>2. calls[t] = None /\ CallOf(t)' = r /\ AnswerOf(t)' = p
    BY <2>1
  <2>3. calls' = [calls EXCEPT ![t] = r] /\ answers' = [answers EXCEPT ![t] = p]
    BY <1>1, <2>2, Seen
  <2> QED BY <2>1, <2>2, <2>3 DEF Book!Arrive, Book!Answers
<1>6. ASSUME NEW r \in Visits, handle_visit(t, r) PROVE UNCHANGED Book!bvars
  <2>1. /\ r \notin Call /\ request[t] = None /\ request'[t] = r /\ file' = file
    BY <1>1, <1>6 DEF handle_visit, Enter, Stands, TypeOK, Visits, Visit, Call
  <2>2. CallOf(t)' = None /\ AnswerOf(t)' = None /\ CallOf(t) = None /\ AnswerOf(t) = None
    BY <2>1
  <2>3. calls' = [calls EXCEPT ![t] = None] /\ answers' = [answers EXCEPT ![t] = None]
    BY <1>1, <2>2, Seen
  <2>4. calls' = calls /\ answers' = answers
    BY <2>2, <2>3
  <2> QED BY <2>1, <2>4 DEF Book!bvars
<1>7. CASE sqlite3_prepare(t)
  <2>1. ASSUME NEW code \in {"BUSY", "ERROR"}, Finish(t, code, None), file' = file PROVE FALSE
    BY <1>2, <1>7, <2>1, FinishIsBook DEF sqlite3_prepare, Active
  <2> QED BY <1>4, <1>7, <2>1 DEF sqlite3_prepare, MayFail
<1>8. CASE step_insert(t)
  <2>1. ASSUME NEW code, Finish(t, code, None), file' = file,
               \/ code \in {"BUSY", "ERROR"}
               \/ code = "CONSTRAINT" /\ file[request[t].user] # None
        PROVE  FALSE
    BY <1>2, <1>8, <2>1, FinishIsBook DEF step_insert, Active
  <2> QED BY <1>4, <1>8, <2>1 DEF step_insert, MayFail
<1>9. CASE lock_exclusive(t)
  <2>1. ASSUME Finish(t, "BUSY", None), file' = file PROVE FALSE
    BY <1>1, <1>2, <1>9, <2>1, FinishIsBook DEF lock_exclusive, Stands, Active
  <2> QED BY <1>4, <1>9, <2>1 DEF lock_exclusive
<1>10. CASE commit(t)
  <2>1. /\ request[t] \in Call /\ request[t] # None /\ page[t] = None
        /\ request[t].kind = "signup" /\ file[request[t].user] = None
    BY <1>1, <1>10 DEF commit, Stands, Active
  <2>2. ASSUME Finish(t, "ERROR", None), file' = file PROVE FALSE
    BY <1>2, <1>10, <2>1, <2>2, FinishIsBook DEF commit, Active
  <2>3. ASSUME file' = [file EXCEPT ![request[t].user] = request[t].password],
               Finish(t, "DONE", None)
        PROVE  Book!Create(t)
    <3>1. request' = request /\ page'[t] = Book!Welcome(request[t])
      BY <1>1, <2>1, <2>3, FinishAnswers DEF Book!Welcome
    <3>2. calls' = calls /\ answers' = [answers EXCEPT ![t] = page'[t]]
      BY <1>1, <2>1, <3>1, Seen
    <3> QED BY <2>1, <2>3, <3>1, <3>2 DEF Book!Create, Book!Pending, Book!Answers
  <2> QED BY <1>10, <2>2, <2>3 DEF commit, MayFail
<1>11. CASE step_select(t)
  <2>1. ASSUME NEW code, Finish(t, code, None), file' = file PROVE FALSE
    BY <1>2, <1>11, <2>1, FinishIsBook DEF step_select, Active
  <2> QED BY <1>3, <1>11, <2>1 DEF step_select
<1>12. CASE step_select_again(t)
  <2>1. PICK code : Finish(t, code, data[t]) /\ file' = file
    BY <1>12 DEF step_select_again
  <2> QED BY <1>1, <1>2, <1>12, <2>1, FinishIsBook DEF step_select_again, Stands, Active
<1>13. CASE Respond(t)
  <2>1. /\ pc[t] = "answer" /\ page[t] # None /\ request[t] # None
        /\ request'[t] = None /\ page'[t] = None /\ file' = file
    BY <1>1, <1>13 DEF Respond, Stands, TypeOK
  <2>2. calls' = [calls EXCEPT ![t] = None] /\ answers' = [answers EXCEPT ![t] = None]
    BY <1>1, <2>1, Seen
  <2>3. CASE request[t] \in Call
    BY <2>1, <2>2, <2>3 DEF Book!Return, Book!Answers
  <2>4. CASE request[t] \notin Call
    BY <2>1, <2>2, <2>4 DEF Book!bvars
  <2> QED BY <2>3, <2>4
<1> QED BY <1>5, <1>6, <1>7, <1>8, <1>9, <1>10, <1>11, <1>12, <1>13 DEF Step

LEMMA NextIsBook == IInv /\ [Next]_vars => [Book!BookNext]_(Book!bvars)
<1> SUFFICES ASSUME IInv, [Next]_vars PROVE Book!BookNext \/ UNCHANGED Book!bvars
  OBVIOUS
<1>1. CASE Start
  <2>1. PICK S \in SUBSET DOMAIN Defaults :
           LET new == {u \in S : table' /\ file[u] = None}
           IN  file' = [u \in Names |-> IF u \in new THEN Defaults[u] ELSE file[u]]
    BY <1>1 DEF Start
  <2> DEFINE new == {u \in S : table' /\ file[u] = None}
  <2>2. /\ new \in SUBSET DOMAIN Defaults
        /\ file' = [u \in Names |-> IF u \in new /\ file[u] = None THEN Defaults[u] ELSE file[u]]
    BY <2>1
  <2>3. UNCHANGED <<request, page>>
    BY <1>1 DEF Start
  <2> QED BY <2>2, <2>3 DEF Book!BookNext, Book!Provide
<1>2. CASE Crash
  BY <1>2 DEF Crash, Book!BookNext, Book!Stop
<1>3. CASE Tick \/ UNCHANGED vars
  BY <1>3 DEF Tick, vars, Book!bvars
<1> QED BY <1>1, <1>2, <1>3, StepIsBook DEF Next

\* Threads, locks, lost races and crashes make no difference: sign-ups and
\* logins are those of a book in which each takes effect at one instant or not
\* at all.
THEOREM AccountsAreABook == Spec => ImplementsBook
<1>1. Init => Book!BookInit
  BY DEF Init, Book!BookInit
<1> QED BY <1>1, IInvInit, IInvStep, NextIsBook, PTL DEF Spec, ImplementsBook, Book!BookSpec
=============================================================================
