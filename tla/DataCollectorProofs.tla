------------------------ MODULE DataCollectorProofs ------------------------
(***************************************************************************)
(* For any number of threads, URIs and calls: the counters are exact.  The *)
(* argument is mutual exclusion: a thread inside of increment_request holds *)
(* m, so the count it read is still the count when it writes.              *)
(***************************************************************************)
EXTENDS DataCollector, TLAPS

Inside == {"look", "write", "unlock"}

\* A thread between m.lock() and m.unlock() is the holder of m.
Exclusion == \A t \in Threads : pc[t] \in Inside => m = t

\* The count a thread is about to write back is the one of its entry.
Fresh == \A t \in Threads : pc[t] = "write" => count[t] = status_map_[key[t]]

IInv == TypeOK /\ Exclusion /\ Fresh /\ CountsAreExact

\* A call stays within the bound.
LEMMA CalledStep ==
    ASSUME TypeOK, NEW t \in Threads, Call(t) PROVE calls' \in [Threads -> 0..MaxCalls]
<1>1. calls[t] + 1 \in 0..MaxCalls
  BY DataCollectorAssumption DEF TypeOK, Call
<1> QED BY <1>1 DEF TypeOK, Call

\* The state keeps its type (all of data_collector.cc).
LEMMA TypeStep == TypeOK /\ [Next]_vars => TypeOK'
<1> SUFFICES ASSUME TypeOK, [Next]_vars PROVE TypeOK'
  OBVIOUS
<1> USE DEF TypeOK, Goto, Counts, Keys
<1>1. ASSUME NEW t \in Threads, NEW k \in Keys, increment_request(t, k) PROVE TypeOK'
  <2>1. calls' \in [Threads -> 0..MaxCalls]
    BY <1>1, CalledStep DEF increment_request
  <2>2. key' \in [Threads -> Keys] /\ pc' \in
          [Threads -> {"idle", "lock", "look", "write", "unlock", "copy"}]
    BY <1>1 DEF increment_request
  <2> QED BY <1>1, <2>1, <2>2 DEF increment_request
<1>2. ASSUME NEW t \in Threads, Lock(t) PROVE TypeOK'
  BY <1>2 DEF Lock
<1>3. ASSUME NEW t \in Threads, Look(t) PROVE TypeOK'
  <2>1. status_map_[key[t]] \in Nat
    OBVIOUS
  <2> QED BY <1>3, <2>1 DEF Look
<1>4. ASSUME NEW t \in Threads, Write(t) PROVE TypeOK'
  <2>1. count[t] + 1 \in Nat /\ received[key[t]] + 1 \in Nat
    OBVIOUS
  <2>2. status_map_' \in Counts /\ received' \in Counts
    BY <1>4, <2>1 DEF Write
  <2> QED BY <1>4, <2>2 DEF Write
<1>5. ASSUME NEW t \in Threads, Unlock(t) PROVE TypeOK'
  BY <1>5 DEF Unlock
<1>6. ASSUME NEW t \in Threads, create_body(t) PROVE TypeOK'
  <2>1. calls' \in [Threads -> 0..MaxCalls]
    BY <1>6, CalledStep DEF create_body
  <2>0. Zero \in [Keys -> Int]
    BY DEF Zero
  <2>2. page' \in [Threads -> [Keys -> Int]] /\ before' \in [Threads -> Counts]
    BY <1>6, <2>0 DEF create_body
  <2> QED BY <1>6, <2>1, <2>2 DEF create_body
<1>7. ASSUME NEW t \in Threads, CopyUri(t) PROVE TypeOK'
  <2>1. PICK u \in todo[t] :
          /\ page' = [page EXCEPT ![t] = [k \in Keys |->
                         IF k[1] = u THEN status_map_[k] ELSE @[k]]]
          /\ todo' = [todo EXCEPT ![t] = @ \ {u}]
    BY <1>7 DEF CopyUri
  <2>2. [k \in Keys |-> IF k[1] = u THEN status_map_[k] ELSE page[t][k]] \in [Keys -> Int]
    OBVIOUS
  <2>3. page' \in [Threads -> [Keys -> Int]]
    BY <2>1, <2>2
  <2>4. todo' \in [Threads -> SUBSET Uris]
    BY <2>1
  <2> QED BY <1>7, <2>3, <2>4 DEF CopyUri
<1>10. ASSUME NEW t \in Threads, CopyTorn(t) PROVE TypeOK'
  <2>1. PICK u \in Uris, read \in [Codes -> Garbage] :
          /\ page' = [page EXCEPT ![t] = [k \in Keys |-> IF k[1] = u THEN read[k[2]] ELSE @[k]]]
          /\ todo' \in {todo, [todo EXCEPT ![t] = @ \ {u}]}
    BY <1>10 DEF CopyTorn
  <2>a. \A k \in Keys : read[k[2]] \in Int /\ page[t][k] \in Int
    <3>1. \A c \in Codes : read[c] \in Int
      BY DataCollectorAssumption
    <3>2. \A k \in Keys : k[2] \in Codes
      OBVIOUS
    <3> QED BY <3>1, <3>2
  <2>2. [k \in Keys |-> IF k[1] = u THEN read[k[2]] ELSE page[t][k]] \in [Keys -> Int]
    BY <2>a
  <2>3. page' \in [Threads -> [Keys -> Int]]
    BY <2>1, <2>2
  <2>4. todo' \in [Threads -> SUBSET Uris]
    <3>1. CASE todo' = todo
      BY <3>1
    <3>2. CASE todo' = [todo EXCEPT ![t] = @ \ {u}]
      BY <3>2
    <3> QED BY <2>1, <3>1, <3>2
  <2> QED BY <1>10, <2>3, <2>4 DEF CopyTorn
<1>8. ASSUME NEW t \in Threads, CopyDone(t) PROVE TypeOK'
  BY <1>8 DEF CopyDone
<1>9. CASE UNCHANGED vars
  BY <1>9 DEF vars
<1> QED BY <1>1, <1>2, <1>3, <1>4, <1>5, <1>6, <1>7, <1>8, <1>9, <1>10 DEF Next, Finished

LEMMA InitIInv == Init => IInv
BY DataCollectorAssumption
   DEF Init, IInv, TypeOK, Exclusion, Inside, Fresh, CountsAreExact, Counts, Keys, Zero

\* A step keeps the mutual exclusion and the freshness of the count read, and so
\* the counts exact.
LEMMA IInvStep == IInv /\ [Next]_vars => IInv'
<1> SUFFICES ASSUME IInv, [Next]_vars PROVE (Exclusion /\ Fresh /\ CountsAreExact)'
  BY TypeStep DEF IInv
<1> USE DEF Goto, Inside
<1>0. TypeOK /\ Exclusion /\ Fresh /\ CountsAreExact
  BY DEF IInv
<1>t. /\ pc \in [Threads -> {"idle", "lock", "look", "write", "unlock", "copy"}]
      /\ key \in [Threads -> Keys] /\ count \in [Threads -> Nat]
      /\ status_map_ \in [Keys -> Nat] /\ received \in [Keys -> Nat]
  BY <1>0 DEF TypeOK, Counts
<1>1. ASSUME NEW t \in Threads, NEW k \in Keys, increment_request(t, k)
      PROVE (Exclusion /\ Fresh /\ CountsAreExact)'
  BY <1>1, <1>0, <1>t DEF increment_request, Exclusion, Fresh, CountsAreExact
<1>2. ASSUME NEW t \in Threads, Lock(t) PROVE (Exclusion /\ Fresh /\ CountsAreExact)'
  BY <1>2, <1>0, <1>t, DataCollectorAssumption DEF Lock, Exclusion, Fresh, CountsAreExact
<1>3. ASSUME NEW t \in Threads, Look(t) PROVE (Exclusion /\ Fresh /\ CountsAreExact)'
  BY <1>3, <1>0, <1>t DEF Look, Exclusion, Fresh, CountsAreExact
<1>4. ASSUME NEW t \in Threads, Write(t) PROVE (Exclusion /\ Fresh /\ CountsAreExact)'
  <2>1. Exclusion'
    BY <1>4, <1>0, <1>t DEF Write, Exclusion
  \* No other thread is about to write: it would hold m as well.
  <2>2. \A u \in Threads : pc'[u] # "write"
    BY <1>4, <1>0, <1>t DEF Write, Exclusion
  <2>3. CountsAreExact'
    BY <1>4, <1>0, <1>t DEF Write, Fresh, CountsAreExact
  <2> QED BY <2>1, <2>2, <2>3 DEF Fresh
<1>5. ASSUME NEW t \in Threads, Unlock(t) PROVE (Exclusion /\ Fresh /\ CountsAreExact)'
  BY <1>5, <1>0, <1>t DEF Unlock, Exclusion, Fresh, CountsAreExact
<1>6. ASSUME NEW t \in Threads, create_body(t) PROVE (Exclusion /\ Fresh /\ CountsAreExact)'
  BY <1>6, <1>0, <1>t DEF create_body, Exclusion, Fresh, CountsAreExact
<1>7. ASSUME NEW t \in Threads, CopyUri(t) PROVE (Exclusion /\ Fresh /\ CountsAreExact)'
  BY <1>7, <1>0, <1>t DEF CopyUri, Exclusion, Fresh, CountsAreExact
<1>8. ASSUME NEW t \in Threads, CopyDone(t) PROVE (Exclusion /\ Fresh /\ CountsAreExact)'
  BY <1>8, <1>0, <1>t DEF CopyDone, Exclusion, Fresh, CountsAreExact
<1>10. ASSUME NEW t \in Threads, CopyTorn(t) PROVE (Exclusion /\ Fresh /\ CountsAreExact)'
  BY <1>10, <1>0, <1>t DEF CopyTorn, Exclusion, Fresh, CountsAreExact
<1>9. CASE UNCHANGED vars
  BY <1>9, <1>0 DEF vars, Exclusion, Fresh, CountsAreExact
<1> QED BY <1>1, <1>2, <1>3, <1>4, <1>5, <1>6, <1>7, <1>8, <1>9, <1>10 DEF Next, Finished

\* increment_request loses no response and counts none twice, however many
\* threads count at once.
THEOREM CountersAreExact == Spec => []CountsAreExact
<1>1. Spec => []IInv
  BY InitIInv, IInvStep, PTL DEF Spec
<1>2. IInv => CountsAreExact
  BY DEF IInv
<1> QED BY <1>1, <1>2, PTL

\* The state is well formed.
THEOREM TypeCorrect == Spec => []TypeOK
<1>1. IInv => TypeOK
  BY DEF IInv
<1> QED BY <1>1, InitIInv, IInvStep, PTL DEF Spec

-----------------------------------------------------------------------------
(* The copies of the status handlers, which do not take m: until an        *)
(* insertion meets a copy, each entry is copied as it is, and entries only *)
(* grow.                                                                   *)

BeforeIsPast == \A t \in Threads, k \in Keys : before[t][k] <= received[k]

PInv == BeforeIsPast /\ PagesAreBounded

LEMMA PInvStep == IInv /\ PInv /\ [Next]_vars => PInv'
<1> SUFFICES ASSUME IInv, PInv, [Next]_vars PROVE PInv'
  OBVIOUS
<1> USE DEF Goto
<1>0. TypeOK /\ CountsAreExact /\ BeforeIsPast /\ PagesAreBounded
  BY DEF IInv, PInv
<1>t. /\ key \in [Threads -> Keys] /\ received \in [Keys -> Nat] /\ status_map_ = received
      /\ page \in [Threads -> [Keys -> Int]] /\ before \in [Threads -> [Keys -> Nat]]
      /\ todo \in [Threads -> SUBSET Uris] /\ torn \in [Threads -> BOOLEAN]
  BY <1>0 DEF TypeOK, Counts, CountsAreExact
<1>1. ASSUME UNCHANGED <<page, todo, received, torn, before>> PROVE PInv'
  BY <1>0, <1>1 DEF PInv, BeforeIsPast, PagesAreBounded
<1>2. ASSUME NEW t \in Threads, Write(t) PROVE PInv'
  <2>1. /\ UNCHANGED <<page, todo, before>>
        /\ \A k \in Keys : received'[k] \in Nat /\ received[k] <= received'[k]
    BY <1>2, <1>t DEF Write
  <2>2. \A u \in Threads : torn[u] => torn'[u]
    BY <1>2, <1>t DEF Write
  <2>3. \A u \in Threads, k \in Keys :
           page[u][k] \in Int /\ before[u][k] \in Nat /\ received[k] \in Nat
    BY <1>t
  <2> QED BY <1>0, <2>1, <2>2, <2>3 DEF PInv, BeforeIsPast, PagesAreBounded
<1>3. ASSUME NEW t \in Threads, create_body(t) PROVE PInv'
  <2>1. /\ received' = received /\ page'[t] = Zero /\ todo'[t] = Uris /\ before'[t] = received
        /\ \A u \in Threads : u # t =>
              page'[u] = page[u] /\ todo'[u] = todo[u] /\ before'[u] = before[u]
              /\ torn'[u] = torn[u]
    BY <1>3, <1>t DEF create_body
  <2>2. \A k \in Keys : k[1] \in Uris /\ Zero[k] = 0 /\ 0 <= received[k] /\ received[k] <= received[k]
    BY <1>t DEF Keys, Zero
  <2> QED BY <1>0, <2>1, <2>2 DEF PInv, BeforeIsPast, PagesAreBounded
<1>4. ASSUME NEW t \in Threads, CopyUri(t) PROVE PInv'
  <2>1. PICK u \in todo[t] :
          /\ page' = [page EXCEPT ![t] = [k \in Keys |->
                         IF k[1] = u THEN status_map_[k] ELSE @[k]]]
          /\ todo' = [todo EXCEPT ![t] = @ \ {u}]
          /\ UNCHANGED <<received, torn, before>>
    BY <1>4 DEF CopyUri
  <2>2. \A k \in Keys : page'[t][k] = IF k[1] = u THEN received[k] ELSE page[t][k]
    BY <2>1, <1>t
  <2>3. todo'[t] = todo[t] \ {u} /\ \A s \in Threads : s # t => page'[s] = page[s] /\ todo'[s] = todo[s]
    BY <2>1, <1>t
  <2>4. \A k \in Keys : received[k] <= received[k]
    BY <1>t
  <2> QED BY <1>0, <2>1, <2>2, <2>3, <2>4 DEF PInv, BeforeIsPast, PagesAreBounded
\* A torn copy spoils no page but its own, of which nothing is claimed.
<1>8. ASSUME NEW t \in Threads, CopyTorn(t) PROVE PInv'
  <2>1. /\ torn[t] /\ UNCHANGED <<received, torn, before>>
        /\ \A s \in Threads : s # t => page'[s] = page[s] /\ todo'[s] = todo[s]
    BY <1>8, <1>t DEF CopyTorn
  <2> QED BY <1>0, <2>1 DEF PInv, BeforeIsPast, PagesAreBounded
<1>5. ASSUME NEW t \in Threads, NEW k \in Keys,
             increment_request(t, k) \/ Lock(t) \/ Look(t) \/ Unlock(t) \/ CopyDone(t)
      PROVE  PInv'
  BY <1>1, <1>5 DEF increment_request, Lock, Look, Unlock, CopyDone
<1>6. CASE Finished \/ UNCHANGED vars
  BY <1>1, <1>6 DEF Finished, vars
<1>7. ASSUME NEW t \in Threads, Lock(t) \/ Look(t) \/ Unlock(t) \/ CopyDone(t) PROVE PInv'
  BY <1>1, <1>7 DEF Lock, Look, Unlock, CopyDone
<1> QED BY <1>2, <1>3, <1>4, <1>5, <1>6, <1>7, <1>8 DEF Next

\* A status page that no insertion met shows nothing that was not received, and all
\* that had been when its copy began, whatever is counted meanwhile.
THEOREM PagesShowWhatCame == Spec => []PagesAreBounded
<1>1. Init => PInv
  BY DEF Init, PInv, BeforeIsPast, PagesAreBounded, Zero, Keys
<1>2. PInv => PagesAreBounded
  BY DEF PInv
<1> QED BY <1>1, <1>2, InitIInv, IInvStep, PInvStep, PTL DEF Spec
=============================================================================
