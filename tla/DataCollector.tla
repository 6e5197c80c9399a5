--------------------------- MODULE DataCollector ---------------------------
(***************************************************************************)
(* The counters behind the status page (data_collector.cc), used by every  *)
(* thread of the server: sessions count each response under the mutex m,   *)
(* status handlers copy the counters without it (status_request_handler.cc *)
(* through status_map() of data_collector.h).                              *)
(*                                                                         *)
(* An entry of a std::map that does not exist is a count of zero; the two  *)
(* insertions and the increment of the code all leave the old count plus   *)
(* one.  The copy visits the URIs in the order of the map, one at a time.  *)
(* An increment of an entry that exists is seen by it or not.  A node      *)
(* linked into the tree during the copy is a data race with no defined     *)
(* outcome: from then on the copy may read anything, walk in a circle or   *)
(* end the process (CopyTorn).                                             *)
(***************************************************************************)
EXTENDS Integers

CONSTANTS
    Threads,    \* threads of the server
    Uris,       \* URIs requested, numbered in the order of std::map
    Codes,      \* the strings of map_status_to_string
    NoThread,   \* holder of m when it is free
    Garbage,    \* counts that a copy in a data race can read
    MaxCalls    \* bound on the calls a thread makes

ASSUME DataCollectorAssumption ==
    /\ Uris \subseteq Nat
    /\ NoThread \notin Threads
    /\ Garbage \subseteq Int
    /\ MaxCalls \in Nat

VARIABLES
    up,          \* the process runs
    m,           \* the mutex: its holder
    status_map_, \* <<uri, code>> to count
    pc,          \* where each thread stands in increment_request or create_body
    key,         \* the entry a thread increments
    count,       \* the count it found there
    calls,       \* how many calls a thread has made
    page,        \* the copy a status handler makes
    todo,        \* the URIs it has yet to copy
    received,    \* history: increments made, per entry
    torn,        \* a copy has met an insertion
    before       \* history: received when a copy began

vars == <<up, m, status_map_, pc, key, count, calls, page, todo, received, torn, before>>

Keys   == Uris \X Codes
Counts == [Keys -> Nat]
Zero   == [k \in Keys |-> 0]

TypeOK ==
    /\ up \in BOOLEAN
    /\ m \in Threads \cup {NoThread}
    /\ status_map_ \in Counts
    /\ pc \in [Threads -> {"idle", "lock", "look", "write", "unlock", "copy"}]
    /\ key \in [Threads -> Keys]
    /\ count \in [Threads -> Nat]
    /\ calls \in [Threads -> 0..MaxCalls]
    /\ page \in [Threads -> [Keys -> Int]]
    /\ todo \in [Threads -> SUBSET Uris]
    /\ received \in Counts
    /\ torn \in [Threads -> BOOLEAN]
    /\ before \in [Threads -> Counts]

Init ==
    /\ up = TRUE
    /\ m = NoThread
    /\ status_map_ = Zero
    /\ pc = [t \in Threads |-> "idle"]
    /\ key \in [Threads -> Keys]
    /\ count = [t \in Threads |-> 0]
    /\ calls = [t \in Threads |-> 0]
    /\ page = [t \in Threads |-> Zero]
    /\ todo = [t \in Threads |-> {}]
    /\ received = Zero
    /\ torn = [t \in Threads |-> FALSE]
    /\ before = [t \in Threads |-> Zero]

Goto(t, l) == pc' = [pc EXCEPT ![t] = l]

\* A thread is free to make another call.
Call(t) ==
    /\ up /\ pc[t] = "idle" /\ calls[t] < MaxCalls
    /\ calls' = [calls EXCEPT ![t] = @ + 1]

increment_request(t, k) ==
    /\ Call(t)
    /\ key' = [key EXCEPT ![t] = k]
    /\ Goto(t, "lock")
    /\ UNCHANGED <<up, m, status_map_, count, page, todo, received, torn, before>>

\* Mutant of Lock: m is not taken.
NoLock(t) ==
    /\ up /\ pc[t] = "lock" /\ m' = m
    /\ Goto(t, "look")
    /\ UNCHANGED <<up, status_map_, key, count, calls, page, todo, received, torn, before>>

\* m.lock()
Lock(t) ==
    /\ up /\ pc[t] = "lock" /\ m = NoThread
    /\ m' = t
    /\ Goto(t, "look")
    /\ UNCHANGED <<up, status_map_, key, count, calls, page, todo, received, torn, before>>

\* The two count() lookups, and the read of the increment.
Look(t) ==
    /\ up /\ pc[t] = "look"
    /\ count' = [count EXCEPT ![t] = status_map_[key[t]]]
    /\ Goto(t, "write")
    /\ UNCHANGED <<up, m, status_map_, key, calls, page, todo, received, torn, before>>

\* Mutant of Write: -- for ++.
WriteDown(t) ==
    /\ up /\ pc[t] = "write"
    /\ status_map_' = [status_map_ EXCEPT ![key[t]] = count[t] - 1]
    /\ received' = [received EXCEPT ![key[t]] = @ + 1]
    /\ torn' = [u \in Threads |-> torn[u] \/ (count[t] = 0 /\ pc[u] = "copy")]
    /\ Goto(t, "unlock")
    /\ UNCHANGED <<up, m, key, count, calls, page, todo, before>>

\* The increment, or the insertion of a first count.
Write(t) ==
    /\ up /\ pc[t] = "write"
    /\ status_map_' = [status_map_ EXCEPT ![key[t]] = count[t] + 1]
    /\ received' = [received EXCEPT ![key[t]] = @ + 1]
    /\ torn' = [u \in Threads |-> torn[u] \/ (count[t] = 0 /\ pc[u] = "copy")]
    /\ Goto(t, "unlock")
    /\ UNCHANGED <<up, m, key, count, calls, page, todo, before>>

\* m.unlock()
Unlock(t) ==
    /\ up /\ pc[t] = "unlock"
    /\ m' = NoThread
    /\ Goto(t, "idle")
    /\ UNCHANGED <<up, status_map_, key, count, calls, page, todo, received, torn, before>>

\* create_body calls status_map(), which copies without taking m.
create_body(t) ==
    /\ Call(t)
    /\ page' = [page EXCEPT ![t] = Zero]
    /\ todo' = [todo EXCEPT ![t] = Uris]
    /\ before' = [before EXCEPT ![t] = received]
    /\ torn' = [torn EXCEPT ![t] = FALSE]
    /\ Goto(t, "copy")
    /\ UNCHANGED <<up, m, status_map_, key, count, received>>

\* Mutant of CopyUri: the copy of a URI meets an increment that has counted
\* the response but not yet stored it.
CopyUriAhead(t) ==
    /\ up /\ pc[t] = "copy" /\ ~torn[t]
    /\ \E u \in todo[t] : \E w \in Threads :
          /\ \A v \in todo[t] : u <= v
          /\ page' = [page EXCEPT ![t] = [k \in Keys |->
                         IF k[1] # u THEN @[k]
                         ELSE status_map_[k] + (IF pc[w] = "write" /\ key[w] = k THEN 1 ELSE 0)]]
          /\ todo' = [todo EXCEPT ![t] = @ \ {u}]
    /\ UNCHANGED <<up, m, status_map_, pc, key, count, calls, received, torn, before>>

\* The copy of the entries of the next URI.
CopyUri(t) ==
    /\ up /\ pc[t] = "copy" /\ ~torn[t]
    /\ \E u \in todo[t] :
          /\ \A v \in todo[t] : u <= v
          /\ page' = [page EXCEPT ![t] = [k \in Keys |->
                         IF k[1] = u THEN status_map_[k] ELSE @[k]]]
          /\ todo' = [todo EXCEPT ![t] = @ \ {u}]
    /\ UNCHANGED <<up, m, status_map_, pc, key, count, calls, received, torn, before>>

\* What a copy does that an insertion has met: undefined.  It reads anything in
\* place of a URI's entries, goes on or never comes to an end, or the process ends.
CopyTorn(t) ==
    /\ up /\ pc[t] = "copy" /\ torn[t]
    /\ up' \in BOOLEAN
    /\ \E u \in Uris, read \in [Codes -> Garbage] :
          /\ page' = [page EXCEPT ![t] = [k \in Keys |-> IF k[1] = u THEN read[k[2]] ELSE @[k]]]
          /\ todo' \in {todo, [todo EXCEPT ![t] = @ \ {u}]}
    /\ UNCHANGED <<m, status_map_, pc, key, count, calls, received, torn, before>>

CopyDone(t) ==
    /\ up /\ pc[t] = "copy" /\ todo[t] = {}
    /\ Goto(t, "idle")
    /\ UNCHANGED <<up, m, status_map_, key, count, calls, page, todo, received, torn, before>>

\* Every thread has made the calls the bound allows, or the process has ended.
Finished ==
    /\ up => \A t \in Threads : pc[t] = "idle" /\ calls[t] = MaxCalls
    /\ UNCHANGED vars

Next ==
    \/ \E t \in Threads : \E k \in Keys : increment_request(t, k)
    \/ \E t \in Threads : Lock(t) \/ Look(t) \/ Write(t) \/ Unlock(t)
    \/ \E t \in Threads : create_body(t) \/ CopyUri(t) \/ CopyTorn(t) \/ CopyDone(t)
    \/ Finished

Spec == Init /\ [][Next]_vars

-----------------------------------------------------------------------------

\* No response is lost and none counted twice, whatever threads count at the
\* same time (increment_request: "Increment the count ... by 1").
CountsAreExact == status_map_ = received

\* A status page that no insertion met shows, of each entry, no more than has been
\* received and no less than had been when its copy began, although status_map()
\* does not take m and counts may be incremented under it.  Of a page that an
\* insertion met nothing is claimed: the code promises nothing (data_collector.h).
PagesAreBounded ==
    \A t \in Threads, k \in Keys : ~torn[t] =>
        /\ page[t][k] <= received[k]
        /\ k[1] \notin todo[t] => before[t][k] <= page[t][k]
=============================================================================
