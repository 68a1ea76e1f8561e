--------------------------- MODULE AccountFetcher ---------------------------
(***************************************************************************)
(* The client's account cache (CachedAccountFetcher,                       *)
(* lib/client/src/account_fetcher.rs).  Callers that want the same account *)
(* or the same program listing share one request; its answer goes into the *)
(* cache, which may be cleared at any moment.  A caller may stop waiting:  *)
(* requests are driven only by the callers that await them.  What accounts *)
(* hold is left out; an answer from the cache changes nothing and is no    *)
(* action.                                                                 *)
(***************************************************************************)
EXTENDS Naturals, FiniteSets

CONSTANTS
  Callers,
  Addresses,  \* accounts
  Programs,   \* keys of listings: a program and a kind of account
  Jobs,       \* identities of requests, reused once nobody refers to them
  NoJob,
  NoAddress

ASSUME AccountFetcherAssumption ==
  /\ Addresses \cap Programs = {}
  /\ NoJob \notin Jobs
  /\ NoAddress \notin Addresses

Keys == Addresses \cup Programs
NoList == {NoAddress}
NoKey == NoAddress

VARIABLES
  accounts,  \* AccountCache.accounts: the addresses held
  listings,  \* AccountCache.keys_for_program_and_discriminator
  jobs,      \* account_jobs and program_accounts_jobs: [Keys -> a request]
  job,       \* the requests: key, phase and, once answered, the accounts
  waits      \* the request a caller awaits

vars == <<accounts, listings, jobs, job, waits>>

-----------------------------------------------------------------------------
Cached(key) == key \in accounts \/ (key \in Programs /\ listings[key] # NoList)

\* Nobody can reach the request any more.
Free(j) == (\A key \in Keys : jobs[key] # j) /\ (\A c \in Callers : waits[c] # j)

\* Variant with a bug: every caller registers a request of its own.
Joins_Never(key, j) == Free(j)

\* run_coalesced: the request registered for the key, or a new one.
Joins(key, j) == IF jobs[key] = NoJob THEN Free(j) ELSE j = jobs[key]

Over == [key |-> NoKey, phase |-> "done", ok |-> FALSE, found |-> {}]

Init ==
  /\ accounts = {}
  /\ listings = [p \in Programs |-> NoList]
  /\ jobs = [key \in Keys |-> NoJob]
  /\ job = [j \in Jobs |-> Over]
  /\ waits = [c \in Callers |-> NoJob]

\* fetch_raw_account and fetch_program_accounts, when the cache has no answer.
Fetch(c, key, j) ==
  /\ waits[c] = NoJob
  /\ ~Cached(key)
  /\ Joins(key, j)
  /\ IF jobs[key] = j THEN UNCHANGED job
     ELSE job' = [job EXCEPT ![j] = [key |-> key, phase |-> "started",
                                     ok |-> FALSE, found |-> {}]]
  /\ jobs' = [jobs EXCEPT ![key] = j]
  /\ waits' = [waits EXCEPT ![c] = j]
  /\ UNCHANGED <<accounts, listings>>

\* Variant with a bug: two callers that await a request hold each other up.
Driven_Alone(j) == \E c \in Callers : {d \in Callers : waits[d] = j} = {c}

Driven(j) == \E c \in Callers : waits[c] = j

\* The RPC node answers the request, or it fails.
Answer(j, ok, found) ==
  /\ Driven(j) /\ job[j].phase = "started"
  /\ job[j].key \in Addresses => found = {job[j].key}
  /\ job' = [job EXCEPT ![j].phase = "answered", ![j].ok = ok,
                            ![j].found = IF ok THEN found ELSE {}]
  /\ UNCHANGED <<accounts, listings, jobs, waits>>

\* Variant with a bug: a request that failed stays registered.
Unregister_IfOk(j) ==
  IF job[j].ok THEN [jobs EXCEPT ![job[j].key] = NoJob] ELSE jobs

\* Removed, so that it can be done again if it failed.
Unregister(j) == [jobs EXCEPT ![job[j].key] = NoJob]

\* The end of a request, under the lock: its answer goes into the cache.
Store(j) ==
  /\ Driven(j) /\ job[j].phase = "answered"
  /\ job' = [job EXCEPT ![j] = Over]
  /\ jobs' = Unregister(j)
  /\ IF job[j].ok
     THEN /\ accounts' = accounts \cup job[j].found
          /\ listings' = IF job[j].key \in Programs
                         THEN [listings EXCEPT ![job[j].key] = job[j].found] ELSE listings
     ELSE UNCHANGED <<accounts, listings>>
  /\ UNCHANGED waits

\* The caller gets the answer or the error.
Return(c) ==
  /\ waits[c] # NoJob /\ job[waits[c]].phase = "done"
  /\ waits' = [waits EXCEPT ![c] = NoJob]
  /\ UNCHANGED <<accounts, listings, jobs, job>>

\* The caller is cancelled while it waits.
Cancel(c) ==
  /\ waits[c] # NoJob
  /\ waits' = [waits EXCEPT ![c] = NoJob]
  /\ UNCHANGED <<accounts, listings, jobs, job>>

\* Variant with a bug: the listings are kept.
ClearedListings_Kept == listings

ClearedListings == [p \in Programs |-> NoList]

\* Requests under way are not affected.
clear_cache ==
  /\ accounts' = {}
  /\ listings' = ClearedListings
  /\ UNCHANGED <<jobs, job, waits>>

Next ==
  \/ \E c \in Callers, key \in Keys, j \in Jobs : Fetch(c, key, j)
  \/ \E j \in Jobs, ok \in BOOLEAN, found \in SUBSET Addresses : Answer(j, ok, found)
  \/ \E j \in Jobs : Store(j)
  \/ \E c \in Callers : Return(c) \/ Cancel(c)
  \/ clear_cache

Spec == Init /\ [][Next]_vars

\* Awaited requests are polled, and the RPC client answers or gives up.
FairSpec ==
  /\ Spec
  /\ \A j \in Jobs : WF_vars(\E ok \in BOOLEAN, found \in SUBSET Addresses : Answer(j, ok, found))
  /\ \A j \in Jobs : WF_vars(Store(j))
  /\ \A c \in Callers : WF_vars(Return(c))

-----------------------------------------------------------------------------
(* Properties *)

Requests == [key : Keys \cup {NoKey}, phase : {"started", "answered", "done"},
             ok : BOOLEAN, found : SUBSET Addresses]

TypeOK ==
  /\ accounts \subseteq Addresses
  /\ listings \in [Programs -> (SUBSET Addresses) \cup {NoList}]
  /\ jobs \in [Keys -> Jobs \cup {NoJob}]
  /\ job \in [Jobs -> Requests]
  /\ waits \in [Callers -> Jobs \cup {NoJob}]

\* fetch_program_accounts: cache.accounts.get(pk).unwrap() finds every account of
\* a cached listing, whatever was cleared and stored since.
ListedAreCached ==
  \A p \in Programs : listings[p] # NoList => listings[p] \subseteq accounts

\* "so it can be redone if it errored": a request that is registered is not over,
\* so a caller never gets the error of a request that failed before it asked.
RegisteredIsOpen ==
  \A key \in Keys : jobs[key] # NoJob => /\ job[jobs[key]].key = key
                                         /\ job[jobs[key]].phase # "done"

\* run_coalesced: callers that wait for the same key wait for the same request,
\* also when earlier callers gave up or the cache was cleared meanwhile.
OneRequestPerKey ==
  \A c \in Callers :
    waits[c] # NoJob /\ job[waits[c]].phase # "done" => jobs[job[waits[c]].key] = waits[c]

\* A caller that does not give up gets its answer, even when the one that started
\* the request did.
CallersReturn == \A c \in Callers : waits[c] # NoJob ~> waits[c] = NoJob
=============================================================================
