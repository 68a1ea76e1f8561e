------------------------ MODULE AccountFetcherProofs ------------------------
(***************************************************************************)
(* Proofs about the client's account cache, for any number of callers,     *)
(* accounts and listings.                                                  *)
(***************************************************************************)
EXTENDS AccountFetcher, TLAPS

\* A request that is not over knows its key.
OpenHasKey == \A j \in Jobs : job[j].phase # "done" => job[j].key \in Keys

\* The inductive invariant: the types, and what ties the state together.
IInv == TypeOK /\ OpenHasKey /\ ListedAreCached /\ RegisteredIsOpen /\ OneRequestPerKey

\* A request is registered for its own key only.
LEMMA RegisteredOnce ==
  ASSUME IInv, NEW c \in Callers, waits[c] # NoJob, job[waits[c]].phase # "done",
         NEW key \in Keys, jobs[key] = waits[c]
  PROVE  key = job[waits[c]].key
BY DEF IInv, RegisteredIsOpen

\* A request that is over, as Store leaves it, is a request.
LEMMA OverIsRequest == Over \in Requests
BY DEF Over, Requests

\* An empty cache without requests (AccountCache::default) satisfies the invariant.
LEMMA InitIInv == Init => IInv
<1> SUFFICES ASSUME Init PROVE IInv
  OBVIOUS
<1>1. \A j \in Jobs : job[j] = Over
  BY DEF Init
<1>2. TypeOK
  BY OverIsRequest DEF Init, TypeOK
<1>3. OpenHasKey
  BY <1>1 DEF OpenHasKey, Over
<1>4. ListedAreCached /\ RegisteredIsOpen /\ OneRequestPerKey
  BY DEF Init, ListedAreCached, RegisteredIsOpen, OneRequestPerKey
<1> QED BY <1>2, <1>3, <1>4 DEF IInv

\* A new request is one that nobody could have been referring to.
LEMMA FetchKeeps ==
  ASSUME IInv, NEW c \in Callers, NEW key \in Keys, NEW j \in Jobs, Fetch(c, key, j)
  PROVE  IInv'
<1> USE DEF IInv
<1>1. TypeOK'
  <2>1. [key |-> key, phase |-> "started", ok |-> FALSE, found |-> {}]
          \in Requests
    BY DEF Requests
  <2>2. job' \in [Jobs -> Requests]
    BY <2>1 DEF Fetch, TypeOK
  <2> QED BY <2>2 DEF Fetch, TypeOK
<1>2. ListedAreCached'
  BY DEF Fetch, ListedAreCached
<1>3. CASE jobs[key] = j
  <2>1. job' = job /\ jobs' = jobs /\ waits' = [waits EXCEPT ![c] = j]
    BY <1>3 DEF Fetch, TypeOK
  <2>2. job[j].key = key /\ job[j].phase # "done"
    BY <1>3, AccountFetcherAssumption DEF RegisteredIsOpen
  <2>3. OpenHasKey' /\ RegisteredIsOpen'
    BY <2>1 DEF OpenHasKey, RegisteredIsOpen
  <2>4. OneRequestPerKey'
    BY <1>3, <2>1, <2>2 DEF OneRequestPerKey, TypeOK
  <2> QED BY <1>1, <1>2, <2>3, <2>4
<1>4. CASE jobs[key] # j
  <2>1. jobs[key] = NoJob /\ Free(j)
    BY <1>4 DEF Fetch, Joins
  <2>2. /\ job' = [job EXCEPT ![j] = [key |-> key, phase |-> "started",
                                      ok |-> FALSE, found |-> {}]]
        /\ jobs' = [jobs EXCEPT ![key] = j]
        /\ waits' = [waits EXCEPT ![c] = j]
    BY <1>4 DEF Fetch
  <2>3. job'[j].key = key /\ job'[j].phase = "started" /\ \A i \in Jobs \ {j} : job'[i] = job[i]
    BY <2>2 DEF TypeOK
  <2>4. OpenHasKey'
    BY <2>3 DEF OpenHasKey
  <2>5. RegisteredIsOpen'
    <3> SUFFICES ASSUME NEW k \in Keys, jobs'[k] # NoJob
                 PROVE  job'[jobs'[k]].key = k /\ job'[jobs'[k]].phase # "done"
      BY DEF RegisteredIsOpen
    <3>1. CASE k = key
      BY <2>2, <2>3, <3>1 DEF TypeOK
    <3>2. CASE k # key
      <4>1. jobs'[k] = jobs[k] /\ jobs[k] \in Jobs \ {j}
        BY <2>1, <2>2, <3>2 DEF TypeOK, Free
      <4> QED BY <4>1, <2>3 DEF RegisteredIsOpen
    <3> QED BY <3>1, <3>2
  <2>6. OneRequestPerKey'
    <3> SUFFICES ASSUME NEW d \in Callers, waits'[d] # NoJob, job'[waits'[d]].phase # "done"
                 PROVE  jobs'[job'[waits'[d]].key] = waits'[d]
      BY DEF OneRequestPerKey
    <3>1. CASE d = c
      BY <2>2, <2>3, <3>1 DEF TypeOK
    <3>2. CASE d # c
      <4>1. waits'[d] = waits[d] /\ waits[d] \in Jobs \ {j}
        BY <2>1, <2>2, <3>2 DEF TypeOK, Free
      <4>2. job'[waits[d]] = job[waits[d]]
        BY <4>1, <2>3
      <4>3. jobs[job[waits[d]].key] = waits[d] /\ job[waits[d]].key \in Keys
        BY <4>1, <4>2 DEF OneRequestPerKey, OpenHasKey
      <4>4. job[waits[d]].key # key
        BY <4>1, <4>3, <2>1, AccountFetcherAssumption
      <4> QED BY <4>1, <4>2, <4>3, <4>4, <2>2 DEF TypeOK
    <3> QED BY <3>1, <3>2
  <2> QED BY <1>1, <1>2, <2>4, <2>5, <2>6
<1> QED BY <1>3, <1>4

\* Keys and phases other than from started to answered stay.
LEMMA AnswerKeeps ==
  ASSUME IInv, NEW j \in Jobs, NEW ok \in BOOLEAN, NEW found \in SUBSET Addresses,
         Answer(j, ok, found)
  PROVE  IInv'
<1> USE DEF IInv
<1>1. TypeOK'
  <2> DEFINE answered == [job[j] EXCEPT !.phase = "answered", !.ok = ok,
                                       !.found = IF ok THEN found ELSE {}]
  <2>1. answered \in Requests
    <3>1. job[j] \in Requests
      BY DEF TypeOK
    <3> QED BY <3>1 DEF Requests
  <2>2. job' = [job EXCEPT ![j] = answered]
    BY DEF Answer, TypeOK
  <2> HIDE DEF answered
  <2>3. job' \in [Jobs -> Requests]
    BY <2>1, <2>2 DEF TypeOK
  <2> QED BY <2>3 DEF Answer, TypeOK
<1>2. \A i \in Jobs : job'[i].key = job[i].key /\ (job'[i].phase = "done" <=> job[i].phase = "done")
  BY DEF Answer, TypeOK
<1>3. jobs' = jobs /\ waits' = waits /\ listings' = listings /\ accounts' = accounts
  BY DEF Answer
<1>4. OpenHasKey' /\ ListedAreCached'
  BY <1>2, <1>3 DEF OpenHasKey, ListedAreCached
<1>5. RegisteredIsOpen'
  BY <1>2, <1>3 DEF RegisteredIsOpen, TypeOK
<1>6. OneRequestPerKey'
  BY <1>2, <1>3 DEF OneRequestPerKey, TypeOK
<1> QED BY <1>1, <1>4, <1>5, <1>6

\* The end of a request takes its own registration away and no other.
LEMMA StoreKeeps ==
  ASSUME IInv, NEW j \in Jobs, Store(j)
  PROVE  IInv'
<1> USE DEF IInv
<1> DEFINE key == job[j].key
<1>1. key \in Keys /\ jobs[key] = j
  <2>1. PICK c \in Callers : waits[c] = j
    BY DEF Store, Driven
  <2>2. waits[c] # NoJob /\ job[waits[c]].phase # "done"
    BY <2>1, AccountFetcherAssumption DEF Store
  <2> QED BY <2>1, <2>2 DEF OneRequestPerKey, OpenHasKey
<1>2. /\ jobs' = [jobs EXCEPT ![key] = NoJob]
      /\ waits' = waits
      /\ job' = [job EXCEPT ![j] = Over]
  BY DEF Store, Unregister
<1>3. job'[j] = Over /\ \A i \in Jobs \ {j} : job'[i] = job[i]
  BY <1>2 DEF TypeOK
<1>4. \A k \in Keys \ {key} : jobs'[k] = jobs[k] /\ jobs[k] # j
  BY <1>1, <1>2, AccountFetcherAssumption DEF TypeOK, RegisteredIsOpen
<1>5. job[j].found \in SUBSET Addresses
  <2>1. job[j] \in Requests
    BY DEF TypeOK
  <2> QED BY <2>1 DEF Requests
<1>6. TypeOK'
  <2>1. accounts' \subseteq Addresses
    BY <1>5 DEF Store, TypeOK
  <2>2. listings' \in [Programs -> (SUBSET Addresses) \cup {NoList}]
    BY <1>5 DEF Store, TypeOK
  <2>3. jobs' \in [Keys -> Jobs \cup {NoJob}] /\ waits' \in [Callers -> Jobs \cup {NoJob}]
    BY <1>2 DEF TypeOK
  <2>4. job' \in [Jobs -> Requests]
    BY <1>2, OverIsRequest DEF TypeOK
  <2> QED BY <2>1, <2>2, <2>3, <2>4 DEF TypeOK
<1>7. OpenHasKey'
  BY <1>3 DEF OpenHasKey, Over
<1>8. ListedAreCached'
  BY DEF ListedAreCached, Store, TypeOK
<1>9. RegisteredIsOpen'
  <2> SUFFICES ASSUME NEW k \in Keys, jobs'[k] # NoJob
               PROVE  job'[jobs'[k]].key = k /\ job'[jobs'[k]].phase # "done"
    BY DEF RegisteredIsOpen
  <2>1. k # key
    BY <1>1, <1>2 DEF TypeOK
  <2>2. jobs'[k] = jobs[k] /\ jobs[k] \in Jobs \ {j}
    BY <2>1, <1>4 DEF TypeOK
  <2> QED BY <2>2, <1>3 DEF RegisteredIsOpen
<1>10. OneRequestPerKey'
  <2> SUFFICES ASSUME NEW d \in Callers, waits[d] # NoJob, job'[waits[d]].phase # "done"
               PROVE  jobs'[job'[waits[d]].key] = waits[d]
    BY <1>2 DEF OneRequestPerKey
  <2>1. waits[d] \in Jobs \ {j}
    BY <1>3 DEF TypeOK, Over
  <2>2. job'[waits[d]] = job[waits[d]]
    BY <2>1, <1>3
  <2>3. jobs[job[waits[d]].key] = waits[d] /\ job[waits[d]].key \in Keys
    BY <2>1, <2>2 DEF OneRequestPerKey, OpenHasKey
  <2>4. job[waits[d]].key # key
    BY <2>1, <2>3, <1>1
  <2> QED BY <2>2, <2>3, <2>4, <1>4
<1> QED BY <1>6, <1>7, <1>8, <1>9, <1>10

\* Whatever callers, the RPC node and clear_cache do next, the invariant stays.
LEMMA NextKeeps == IInv /\ [Next]_vars => IInv'
<1> SUFFICES ASSUME IInv, [Next]_vars PROVE IInv'
  OBVIOUS
<1>1. CASE \E c \in Callers, key \in Keys, j \in Jobs : Fetch(c, key, j)
  BY <1>1, FetchKeeps
<1>2. CASE \E j \in Jobs, ok \in BOOLEAN, found \in SUBSET Addresses : Answer(j, ok, found)
  BY <1>2, AnswerKeeps
<1>3. CASE \E j \in Jobs : Store(j)
  BY <1>3, StoreKeeps
<1>4. CASE \E c \in Callers : Return(c) \/ Cancel(c)
  <2>1. PICK c \in Callers : waits' = [waits EXCEPT ![c] = NoJob]
    BY <1>4 DEF Return, Cancel
  <2>2. UNCHANGED <<accounts, listings, jobs, job>>
    BY <1>4 DEF Return, Cancel
  <2> QED
    BY <2>1, <2>2 DEF IInv, TypeOK, OpenHasKey, ListedAreCached, RegisteredIsOpen,
                      OneRequestPerKey
<1>5. CASE clear_cache
  BY <1>5 DEF clear_cache, ClearedListings, IInv, TypeOK, OpenHasKey, ListedAreCached,
              RegisteredIsOpen, OneRequestPerKey
<1>6. CASE UNCHANGED vars
  BY <1>6 DEF vars, IInv, TypeOK, OpenHasKey, ListedAreCached, RegisteredIsOpen,
              OneRequestPerKey
<1> QED BY <1>1, <1>2, <1>3, <1>4, <1>5, <1>6 DEF Next

\* The inductive invariant holds at any time, for any callers, accounts and
\* listings: the three properties, types, and that an open request has its key.
THEOREM Invariance == Spec => []IInv
BY InitIInv, NextKeeps, PTL DEF Spec

\* For any callers and accounts: a cached listing never names an account that is
\* missing from the cache (account_fetcher.rs, the unwrap in fetch_program_accounts).
THEOREM ListingsComplete == Spec => []ListedAreCached
BY Invariance, PTL DEF IInv

\* A failed request is never handed to a caller that asks later.
THEOREM FailuresAreRetried == Spec => []RegisteredIsOpen
BY Invariance, PTL DEF IInv

\* Callers that wait for the same account wait for the same request.
THEOREM RequestsCoalesce == Spec => []OneRequestPerKey
BY Invariance, PTL DEF IInv
=============================================================================
