# TLA+ models and proofs of openbook-v2

openbook-v2 is a Solana program: a central limit order book for one base and
one quote token per market. The models cover the on-chain program
(`src/programs/openbook-v2/src`) and the stateful parts of its Rust client
(`src/lib/client/src`); paths below are relative to the program unless they
start with `src/` or `client/`, which stands for the latter.

## 1. The system

### Components, their state and operations

| component | state | operations | modelled in |
| --- | --- | --- | --- |
| Event heap (`state/orderbook/heap.rs`) | array of 600 nodes, a free list and a circular used list, count | `push_back`, `pop_front`, `delete_slot`, iteration | `EventHeap`, `EventHeapOrder`; `EventQueue` is the abstract queue |
| Book side (`bookside.rs`, `bookside_iterator.rs`) | two trees (fixed prices, oracle pegged) in one array of 1024 nodes | insert, remove, evict an expired or the worst order, merged iteration | `BookSide` |
| Order tree (`ordertree.rs`, `nodes.rs`) | crit-bit tree, free list, cached earliest expiries | insert, remove by key, min/max, earliest expiry | `OrderTree`; `OrderSet` is the abstract view that `BookSide` works on |
| Matching engine (`book.rs`, `order.rs`) | none of its own | `new_order`, `cancel_order`, `cancel_all_orders` | `Orderbook` |
| Open orders account (`open_orders_account.rs`) | a trader's position (free and locked funds, lots on the book, fees) and 24 order slots | `add_order`, `remove_order`, `cancel_order`, `execute_maker`, `execute_taker` | `OpenOrders` |
| Market (`market.rs`) | fees, deposit totals, sequence number, expiry | fee arithmetic, `gen_order_id`, `is_expired`, `is_empty` | `MarketFees`, `OpenBook` |
| Instructions (`lib.rs`, `instructions/`) | all accounts above, wallets and vaults | one per instruction | `OpenBook` |
| Open orders indexer, delegates (`open_orders_indexer.rs`, `set_delegate.rs`) | per owner: a list of account addresses and a counter; per account: a delegate | create and close indexers and accounts, `set_delegate`, who may sign and settle where | `OpenOrdersIndexer` |
| Oracles (`oracle.rs`, `market.rs`) | one or two feeds of a type, the market's `oracle_config` | publishing; reading, checking and combining prices | `Oracle` |
| Client: quotes (`client/book.rs`, `client/jup.rs`) | none: reads a copy of the market | `amounts_from_book`, `quote` | `ClientQuotes` |
| Client: chain data (`client/chain_data.rs`, `client/account_update_stream.rs`, `client/chain_data_fetcher.rs`) | slots with parent, status and mark of the best chain; account writes by slot | `update_slot`, `update_account`, `update_from_rpc`, lookup | `ChainData` |
| Client: account cache (`client/account_fetcher.rs`) | accounts, listings, requests under way | fetch, coalesced requests, `clear_cache` | `AccountFetcher` |
| Logs, transaction builders, fuzz harness | | | not modelled (section 7) |

### How the parts interact

An instruction is one transaction: it loads the market, the two book sides, the
event heap and the signer's open orders account, changes them in memory and
moves tokens between the signer's wallet and the market's vaults. The runtime
runs transactions that touch the same market one at a time and undoes a failed
one completely. So the interleaving that matters is that of *instructions*, and
what makes the system hard is the state that is left between them:

* A taker settles its own side at once, but the makers it met are usually not
  among the accounts of its transaction. Their sides wait on the event heap as
  *fill* events, dropped orders as *out* events, until a crank consumes them,
  in the order and with the accounts it chooses. If the taker passes some
  makers' accounts along, their fills are settled on the spot and overtake
  older events of the same order.
* Until its events are consumed, an order that has left the book keeps its slot
  in the account, and its funds stay locked. Owners cancel, edit and settle in
  the meantime.
* Every fee and rebate is rounded, and in a different direction when it is
  locked, charged and released.
* Orders expire and pegged orders change their price, become invalid or have no
  price at all, with no instruction running. They are dropped when a taker
  meets them, a few per instruction.
* The admin winds a market down (expire, prune, settle, sweep, close) while
  traders and cranks go on.
* The two trees of a side share one array; a full side evicts orders to make
  room, and each inner node caches what only its leaves know (their expiry).
* Price feeds fall silent, lose their status or become imprecise on their own.

Off the chain, clients hold copies: of the book, from which they foretell what a
take would pay and which accounts it should name; of accounts, as a stream of
slots and writes describes them, whose messages are late, lost or repeated and
whose forks overtake each other; and of answers from RPC nodes, requested by
several tasks at a time, any of which may fail or be cancelled.

### What makes each part correct

* Heap: no node lost or used twice, events leave in arrival order unless a
  crank picks one, and middle deletions disturb nothing else.
* Accounts and book: each used slot belongs to exactly one order on the book or
  one event that will free it; the lots and fees locked are those of these
  orders and events; nothing gets stuck by an assertion or an underflow.
* Market: the vaults hold exactly what is owed, whatever waits on the heap.
* Matching: price-time priority, never an invalid order, orders only shrink,
  the book is not left crossed.
* Trees: no node is lost or used twice; iteration is best price first, oldest
  first; the order that expired first is found; a side that is not full has room.
* Oracles: a price comes from something published in time that the feed stood
  by; two feeds are trusted only if each would be.
* Indexer: it lists exactly its owner's accounts, and the next address is free.
* Client: quotes foretell what the program does; accounts served are the newest
  of the current branch; cached listings are complete, failures are retried,
  requests are not doubled.
* Lifecycle: an expired market only pays out; it can always be closed; a closed
  one owes nothing.

`PROJECT.json` lists the hazards line by line with the properties that cover
them.

## 2. Modules

* `EventQueue` - the abstract specification: a bounded queue whose events sit in
  slots and can be taken out of any place.
* `EventHeap` - `heap.rs`, link by link. `EventHeapOrder` adds two auxiliary
  variables (the used slots in order of arrival, the free ones in order of
  reuse), its properties, and the refinement mapping to `EventQueue`.
  `EventHeapProofs` has the proofs, `MCEventHeap` the instance for TLC.
* `MarketFees` - fee arithmetic. `OpenOrders` extends it with the account,
  as a record and operators on it.
* `BookSide` - one side of the book. The trees are sets of leaves with an order
  on keys; of the node array, the number of nodes ever used is kept, since
  capacity checks depend on it. `PeekPegged` and `NextItem` follow the
  iterator's `next` call by call, because it does not yield what a merge of two
  lists would (section 6).
* `Orderbook` - `new_order` as a fold of `MatchStep` over the items the iterator
  yields, then taking, posting and eviction; cancelling. It works on a record
  `s` of accounts whose field `ok` becomes FALSE where the code returns an
  error, asserts, unwraps `None` or underflows (the program is built with
  overflow checks).
* `OpenBook` - the state machine: variables are the clock, the oracle price,
  the market, the accounts, the book, the heap, wallets and vaults; one action
  per instruction, `Tick` and `MoveOracle` for the environment. An action is
  enabled only if the instruction succeeds (`Commit`), since a failed
  transaction changes nothing.
* `OpenBookProperties` - the properties and the fairness. `MCOpenBook` - the order
  sets and numbers from which the market's configurations choose, those of the
  client's quotes included.
* `MarketInvariant` - the inductive invariant of a market, as a predicate of the
  record `s` an instruction works on. `MarketLemmas` - numbers, sums, sequences,
  the iterators of a side, fees, accounts and the parts of the invariant; accounts
  without orders, consuming events and a new market.
  `OrderLemmas` - the matching loop, payment, eviction, posting and cancelling, and
  the instructions made of them: place, edit, cancel, batches. `MarketProofs` - the
  other instructions, the client's walk beside the matching loop, and the theorems.
* `Recursion` - what a recursive function over the natural numbers, and a fold
  over a finite set, compute; each fold of the models is an instance of it.
* `OrderSet` - the operations of `BookSide` on a side by itself, as a state
  machine: the abstract view. `OrderTree` - the array of nodes with handles,
  prefixes, critical bits, free list and cached expiries of `ordertree.rs` and
  `nodes.rs`; it implements `OrderSet` under the mapping that collects the
  leaves reachable from the two roots. So what the market runs assume of
  `BookSide` is what the tree provides. `MCOrderTree` - the instances.
* `OpenOrdersIndexer` - owners' indexers and the accounts' addresses and
  delegates; what an account holds is one bit, `busy`. `OpenOrdersIndexerProofs` has
  the proofs.
* `Oracle` - feeds as variables that publishers change, and the reading of them
  as operators; `oracle_price_lots` is a set of one price or none, which is what
  `MoveOracle` of `OpenBook` chooses. `OracleProofs` has the proofs, `MCOracle` the
  instances.
* `ClientQuotes` - extends `OpenBook` with the client's functions on the same
  state, so that a foretold amount and the one `new_order` computes can be
  compared in every state the market reaches.
* `ChainData` - `update_slot` and its kin as operators on a record, and the
  cluster as the environment: `tree` and `final` fix which slot descends from
  which and which branch wins, `banks` and `seen` record what was announced.
* `AccountFetcher` - the cache; a request is an identity with a phase, and
  callers hold references to it. `AccountFetcherProofs` has the proofs.

In `OpenBook` the heap is a sequence of events. That is justified by
`HeapImplementsQueue`: a slot of `consume_given_events` becomes a position of
the queue.

Operators marked "Variant with a bug" (for example `push_back_AtFront`) are not
used by any specification. Each is one of the modelled operators with a
plausible programming error; replacing the operator by it makes the property
named in `PROJECT.json` fail, which shows that the property depends on that
code.

### Correspondence worth knowing

* `place_order` and `place_order_pegged` are the action `PlaceOrder`, whose
  arguments say whether the order is pegged; likewise `edit_order` and
  `edit_order_pegged`. `place_orders` is `CancelAllAndPlaceOrders` with
  `cancel = FALSE`. `deposit` and `refill` may be paid by anybody.
* `rem` is the set of accounts passed as remaining accounts, `accs` those given
  to the crank: any set, in each step.
* Order ids are the market's sequence numbers; a free slot has id 0.
* In `OrderTree` a key is a price (`PriceBits`) and a sequence number
  (`SeqBits`), inverted for bids, as in `new_node_key`; prefixes and critical
  bits are computed with arithmetic on these numbers. A leaf with an equal key
  is never inserted, since sequence numbers are unique.
* In `ChainData` the stream's `handle_message` calls and RPC answers are the
  actions. A write is the number of its slot: what an account holds in a slot
  is fixed by the slot.
* In `AccountFetcher` an answer from the cache changes nothing and is no action.
  `run_coalesced` is one step under the lock; the answer (`Answer`) and the
  locked end of the request (`Store`) are two. Both need a caller that awaits the
  request, since a shared future runs only when polled.
* In `Oracle` decimals are `base_unit` and `quote_unit`, prices integers of one
  unit, quotients exact; a price of 0 is treated as the floating point division
  does (infinite, or not a number, which compares as false).
* The changes to the opposing side are applied within the matching loop, in the
  code after it. The loop runs over items listed before it starts, so nothing
  reads the difference.
* `penalty_heap_count` is kept, since it keeps an account from being closed;
  the lamports paid for it are not.
* `time_expiry = -1` is what `set_market_expired` stores.

## 3. Runs

Each run asks as many questions of one state space as fit it. The market runs use
native lot sizes 2 (base) and 3 (quote) and fees in tenths, so that every fee and
rebate is rounded and native amounts are seldom whole lots by accident.

| run | what it asks | states |
| --- | --- | --- |
| `heap` | the lists of the heap, iteration order, refinement of `EventQueue` | 25 181 |
| `fees` | types, conservation of both tokens, locked fees, rebate counter, lots, priority; maker and taker fees, a direct taker, fixed and pegged orders and an oracle that moves and fails | 312 840 |
| `expiry` | slots, quote conservation, nothing stuck, edits count what was filled, no crossed book, priority, orders only shrink, quotes foretell takes; maker rebates, expiring orders, edits, self-trade behaviours, eviction from a full side | 162 828 |
| `lifecycle` | liveness: a market set to expire is closed in the end; an expired one only pays out, a closed one owes nothing; a batch spends no more than its owner has; deposits and batches of two bids, one that takes and one that stays, and an expiring ask | 79 400 |
| `order_trees` | two trees in an array of 6 nodes: no node lost, keys split by bit, cached expiries, iteration order, room unless full, refinement of `OrderSet` | 174 836 |
| `chain_data` | types, marks of the best chain, newest live write, for all 24 trees of four slots | 270 984 |
| `account_cache` | complete listings, retried failures, one request per key; liveness: patient callers return | 200 178 |
| `accounts` | indexer lists the owner's accounts, next address free | 60 025 |
| `oracle` | one feed or two of any type: prices are recent and in good standing, two are trusted only if both would be | 1 570 176 |
| `crossed`, `skipped_peg`, `unpaid_penalty` | disagreements with the documentation (section 6) | |

The further disagreements of section 6 each take one of these configurations, with the
property and the constants changed as follows; TLC then ends in a counterexample.

| disagreement | configuration | property | constants |
| --- | --- | --- | --- |
| `boot_worst` | `order_trees` | `BootMakesRoom` | |
| `selftrade_fees` | `crossed` | `SelfTradePaysNoFees` | `maker_fee = 1`, `Accounts = {alice}`, `OrderArgs <- OwnOrders` |
| `fees_accrued` | `fees` | `FeesAccruedAreCollected` | |
| `quote_exact_in` | `expiry` | `ExactIn` | `maker_fee = 1`, quotes |
| `quote_rebates` | `expiry` | `QuotedOutIsPaid` | `maker_fee <- LargeRebate`, `MaxTime = 0`, quotes |
| `quote_expired` | `expiry` | `QuotedOutIsPaid` | `maker_fee = 1`, quotes with `OrderArgs <- Mortal` |
| `stub_parent` | `chain_data` | `AccountIsCurrentBest` | `Faults = {"rpc ahead"}` |
| `fork_root` | `chain_data` | `KeptWritesAreRooted` | `Faults = {"root off tip"}` |
| `rewrite` | `chain_data` | `OneEntryPerSlot` | |
| `own_delegate` | `accounts` | `OwnerWithdrawsAnywhere` | |
| `client_number` | `accounts` | `ClientAsksForNext` | |
| `oracle_units` | `oracle` | `StatePriceIsNative` | |

Here "quotes" is `OrderArgs <- Standing`, `InAmounts <- SomeAmounts`, `Budgets <- None`,
`InitialTokens <- LargePurse`, `MAX_ORDERTREE_NODES = 8` and `MaxSeqNum = 2`; with these,
`maker_fee = 1` and `MaxTime = 0`, `QuotedOutIsPaid` holds. The properties of
`order_trees` also hold of one tree three levels deep (`Orders <- OneTree`,
`MAX_ORDERTREE_NODES = 8`: 67 752 states).

Deadlock is checked in all runs but `expiry`, `lifecycle` and those of the three
disagreements: there the market really stops, once it is closed or all order
numbers are used up and everything is settled and closed.

### Bounds and why they suffice

* `MaxSeqNum` (2 to 4 orders, and two batches of three in `lifecycle`), two accounts
  and a direct taker. Two makers and a taker, or an order, its partial fill and the
  order that reuses its slot, are the smallest groups in which the hazards occur, and
  all of them fit.
* Two slots per account (24 in the program), so that slots run out and are
  reused; 8 nodes per side (1024), and 4 in `expiry`, where two orders of a
  tree leave one node, the boundary of `is_full`, and a third forces an eviction.
* Order arguments come from small named sets in `MCOpenBook`. Prices 1 to 4 and
  sizes 1 to 9 cover partial and full fills, ties, budgets that end before the
  other side and budgets that are not whole numbers of lots after fees.
* `Limits` of 1 and 255 make every instruction stop early or not at all;
  `SlotLists` has the crank start in the middle of the heap.
* Two steps of time in `expiry` and `lifecycle`; at the first one orders expire. In
  `expiry` they are met alive, at their expiry, when they are invalid but not yet
  removable, and past it, when one is dropped as an order is posted on its side. In
  `lifecycle` the market expires at the first step too.
* In `lifecycle` a wallet holds the base tokens of one lot, and the quote tokens of two
  lots at the bids' price but not of their fees: the funds that are left, and not the
  arguments, size the later orders of a batch. `BatchesArePaidFor` asks about each
  beginning of a batch, with and without cancelling, in every state, also where the
  bound on order numbers would not let it be sent.
* `EditsCountFills` asks about every edit with every set of accounts passed along, in
  every state: the old order whole, filled in part on the spot or by a fill that waits,
  gone, or one of several with the same client id.
* The heap of the market runs holds 4 events and does not fill up; filling and
  emptying, for every capacity, is the subject of `heap` and of the proofs.
* Trees: 6 nodes hold three orders of one tree or two of each, so the array fills,
  is freed in every order and reused by the other tree. The eight nodes of
  the deep tree hold four leaves and three inner nodes, one above the other or side
  by side; equal and different expiries occur at every level.
* Chain data: four slots have every shape of fork that matters (a branch that
  overtakes and loses, a tip with a missing parent); up to `MaxWrites` = 4 writes,
  with repetitions. The environment is what a cluster does in ordinary operation:
  a bank is announced after its parent, a slot becomes root only on the tip's
  chain, writes of a losing branch come before the root passes it, RPC knows no
  slot that the stream has not told of. `Faults` drops the assumptions one by
  one; two of the disagreements need that.
* Account cache: two callers, two accounts, one listing and five requests, which
  is one more than can be referred to at a time.
* Accounts: two owners and a third signer, two places in an indexer and three
  numbers, so that lists fill, are closed and numbers come back.
* Oracles: one feed or two, chosen with the market; slots 1 to 3, a staleness limit
  of one slot or none, deviations below and above the filter, prices down to 0
  and below.
* No symmetry is used: two of the runs check liveness, and in the others the
  state spaces are small enough without it.

### Fairness

`MarketCloses` assumes weak fairness of two parties. The admin (`AdminWindsDown`):
as long as one of `prune_orders`, `settle_funds_expired`, `sweep_fees` and
`close_market` would succeed, it sends one that does; nothing says which. The
crank (`CrankRuns`): it consumes events with the accounts they need. All of these
can be sent without anybody else's consent: `prune_orders` and
`settle_funds_expired` check the close market admin's signature, and the signer
called owner in `SettleFundsExpired` may be anyone, only the receiving token
accounts must be the owner's. An admin who wants to close the market and a
crank that runs is what the protocol's operation relies on. Traders and the
clock have no fairness: they may interfere for ever or do nothing. The property
would fail if any lot or token of dust stayed behind, for instance if
`settle_funds` did not take the rounded-off maker fees.

`CallersReturn` assumes weak fairness of `Answer` and `Store` for each request
and of `Return` for each caller. The RPC client answers or times out, an executor
polls a task that is ready, and a shared request is polled by whichever of its
callers is left; no fairness is assumed of a request nobody awaits.

## 4. Proofs

`EventHeapProofs` proves, for every `MAX_NUM_EVENTS` and every set of events,
from the assumption `HeapAssumption` only (a positive number of nodes, and a
null link that is not a node):

* `TypeCorrect`: links never leave the array;
* `StructureHolds`: free and used slots partition the array, each list's links
  spell it, and `count` is the length of the used one;
* `HeapImplementsQueue`: the array implements `EventQueue` under the mapping
  that lists the used slots with their events.

The structure is not inductive without the types, and the correctness of one
operation needs all of it: that unlinking a node is safe needs both links of
the circular list and the fact that no slot is on two lists. So the inductive
invariant is `IInv == TypeOK /\ HeapStructure`. `InitIInv`, `PushIInv`,
`DeleteIInv` (with `pop_front` as the deletion of the first slot) and `NextIInv`
show that it is inductive; `RemoveAtFacts` says what taking an element
out of a sequence does to the others. For the refinement, `PushRefines` and
`DeleteRefines` show that each operation is a step of the queue. From the same
invariant, `ArrivalOrderKept` proves `IterationInArrivalOrder`: the iterator, which
follows `count` links from `used_head`, yields the waiting events in the order in
which they were pushed.

`AccountFetcherProofs` proves, for any sets of callers, accounts, listings and
requests (`AccountFetcherAssumption`: the sets do not overlap, and the null
values are outside of them), that `ListedAreCached` (`ListingsComplete`),
`RegisteredIsOpen` (`FailuresAreRetried`) and `OneRequestPerKey`
(`RequestsCoalesce`) always hold. The inductive invariant `IInv` adds `TypeOK`
and `OpenHasKey`, that a request which is not over knows its key. The three
properties need each other: `Store` removes the registration under the request's
own key, so `RegisteredIsOpen` survives only because no other key has the same
request (`RegisteredOnce`), and a caller keeps waiting for the registered request
only because a new one is registered where there is none. One lemma per action,
combined in `NextKeeps`.

`OpenOrdersIndexerProofs` proves, for any owners and signers and any number of
places and accounts (`OpenOrdersIndexerAssumption`: owners may sign, the null
values are no signer and no indexer), that `IndexerListsAccounts`
(`AccountsAreListed`) and `NextAddressFree` (`NextAccountCanBeMade`) always hold.
The inductive invariant `IInv` adds `TypeOK`, that an address is made of the owner
and the number stored with the account (`AddressesDerived`), and that no number
is above the counter of the indexer that gave it (`NumbersGiven`). An indexer made
anew counts from 0 again, which is safe only because the old one could not be
closed before it listed nothing, hence before its owner had no accounts: the
next address is free because the lists are complete. `RemoveAtInjective` gives
what closing an account does to a list.

`OracleProofs` proves, for any prices, deviations, staleness limits, filters,
decimals and lot sizes and for every type of feed (`OracleAssumption`), that
`PriceIsRecent` (`PricesAreRecent`) and `CombinedNoLooser` (`CombinedNeverLooser`)
always hold. The inductive invariant `IInv` is that a feed holds only what was
published by now, and that a Switchboard round is closed after it was opened. The
second property is about numbers: the variance of the combined price is within
the filter only if each relative deviation is, which `VarianceParts` derives from
the squares involved.

### The market

`MarketProofs` proves, for any accounts, traders, lot sizes, fees, rebates, limits,
capacities, order arguments, expiries and oracle prices, the properties of a market
that are named below. The assumptions are those the modules state on their
constants: `FeeAssumption` (fees and lot sizes are numbers and the maker's rebate is
not above the taker's fee), `OpenOrdersAssumption`, `BookSideAssumption`,
`OrderbookAssumption`, `OpenBookAssumption`, and `QuotesAssumption` for the client.

None of the properties is inductive, and they need each other: that a fill does not
underflow the locked funds (`NothingStuck`) needs that these are at least what its
order locks; this sum follows an order from leaf to event only if its slot is
claimed once and remembers the price at which the order was locked; and that the
vaults hold what is owed is preserved only if no instruction stops half way. The
invariant `IInv` of `MarketInvariant` is that the clock, the oracle price and the
wallets have their types, the sequence number is bounded, no total is negative,
the vaults hold the deposit totals, a closed market is empty, and `Sane`:

* `TotalsOk`, `AccountsOk`, `BookOk`, `HeapOk`, `EventsOk`: types, capacities, no
  negative amounts, no id above the last one given;
* `Claims`: each used slot belongs to one leaf, which it describes, or to one event
  that will free it, and owners are open accounts;
* `Covered`: the lots of a position are the sum of those of its leaves and events,
  and the locked fees are at least the sum of theirs;
* `Funds`: both totals and the rebates are what is owed to accounts, plus what
  waiting fills will still move, plus fees.

An instruction passes through states in which this is not true: the taker has
received what it has not paid for yet, fees are locked for an order not yet posted,
the crank has handled events that are still on the heap. So `Sane` has parameters
for what the instruction still owes (`base`, `quote`), what it has locked ahead
(`lock`), the events left to handle (`E`) and the numbers given (`w`). `Good` adds
`Frame`: what an instruction leaves alone, and that leaves on the book are new or
what is left of old ones. Each operator of `Orderbook` and `OpenOrders` has a lemma
that says how it changes these parameters, provided it does not fail; at the end of an
instruction they must be back at zero. TLC checked `IInv` in every state of
`fees`, `expiry` and `lifecycle` before the proof.

The folds of the model (the iterator over both trees, the rounds of the matching
loop, the slots a cancellation visits, the orders of a batch, the events of a
crank) are instances of `Recursion`: `Walk`, `Rounds`, `Cancelling`, `Placing`,
`Consuming`, and `Quoting` for the client's walk. Its lemmas say that a state which is good at the start and stays good in
one round is good at the end. They take the induction hypothesis as membership of a
set (`NatInd`), which the provers can instantiate where an operator as
parameter is beyond them.

There is a lemma `...Keeps` per instruction, and `NextKeeps` combines them. The
theorems drawn from `MarketInvariance`:

| theorem | property | argument |
| --- | --- | --- |
| `MarketTypeCorrect` | `TypeOK` | part of the invariant |
| `QuoteIsConserved`, `BaseIsConserved` | `QuoteConservation`, `BaseConservation` | `Funds` with nothing owed, and the vaults |
| `RebatesAreAccrued` | `RebatesAccrued` | `Funds` |
| `LotsAlwaysMatch` | `LotsMatchOrders` | `Covered`, split by side; slots give the side |
| `LockedFeesAlwaysCover` | `LockedFeesCover` | `Covered`: what is locked for a quantity, rounded up, covers both parts into which a fill splits it |
| `SlotsAlwaysClaimed` | `SlotClaims` | `Claims`, counted |
| `NothingEverStuck` | `NothingStuck` | one leaf or event locks no more than all do; `Funds` for what is paid out |
| `ClosedMarketOwesNothing` | `ClosedOwesNothing` | totals of zero are sums of amounts that are not negative |
| `BookOnlyShrinks` | `OrdersOnlyShrink` | `Frame` of each instruction |
| `ExpiredMarketDrains` | `ExpiredOnlyDrains` | of the instructions an expired market allows, none adds to book, heap or totals |
| `QuotesAlwaysMatch` | `QuotesMatchTakes` | after every item the client's walk `Agrees` with the matching loop, unless that failed |
| `ListedAlwaysSuffice` | `ListedAccountsSuffice` | with all accounts they also agree on whom they settle (`Counted`); so the loop is the same for those listed |

The last two are about any state with the invariant, and compare two programs: the walk of `lib/client/src/book.rs` and the
loop of `book.rs`, which stop at different places (the loop before an item when a budget
is used up, the walk at the next valid one) and count in different variables.
`TakingIs` says that the order a quote stands for is matched from a good state, so that
every maker met is an open account (`TakerRoundIs`); `RunsAgree` follows both
item by item, `TakerPays` draws what the order pays from what the loop counted. The
invariant is needed for what prices are on the book: that a fixed one is in
`1 .. MaxPrice` is what makes the limit of a market order no limit. Both theorems
are about takers without an account, who cannot meet orders of their own; `expiry`
has one for TLC to ask about (`Takers`), who places no orders there.

`BookOnlyShrinks` and `ExpiredMarketDrains` are about steps: `NextKeeps` says that
a step from a state with the invariant leads to one, and is `Allowed`.

## 5. What is model-checked only

* `PriceTimePriority`, `BookNotCrossed`: they are not true for all constants. The first
  holds where no pegged order is skipped, the second where budgets are not used up
  while matching (section 6); the configurations choose the constants accordingly.
* `EditsCountFills` and `BatchesArePaidFor` compare what one instruction would do with
  the state it starts from. The lemmas about `place_order` and batches say what an
  instruction may change, and not how much an order takes, earns or posts.
* The order trees: they walk from the root by recursive operators, and a proof of the
  refinement of `OrderSet` would be an induction over trees.
* The chain data: the chain and the writes that are served are found by recursion over
  slots and lists of any length.
* Liveness: `MarketCloses`, `CallersReturn`.

## 6. Disagreements between code and documentation

The first three are runs and listed in `PROJECT.json` with the lines that disagree;
section 3 says how to see the others.

* `crossed`. A comment in `book.rs` says that an order is not posted when it can
  take no more at the price, because of "negative spread". The loop's other
  exit, when the quote budget for taking is exactly used up, leaves the order
  posting what the rounding of the taker fee reserve left. A bid then rests at
  or above a resting ask. It needs a taker fee
  and a budget that runs out while matching; with ample budgets `expiry` shows that
  the book never crosses.
* `skipped_peg`. The book iterates over "all entries", but the loop in
  `BookSideIter::next` that skips pegged orders whose price is not representable
  takes one more order out of the tree's iterator than it yields. A valid pegged
  order is then not matched, and a worse one can be, until the oracle moves.
  `PriceTimePriority` is therefore checked with offsets and oracle prices for
  which no pegged order is skipped.
* `unpaid_penalty`. "taker pays 500 lamports penalty" for adding to the event
  heap. The penalty is collected by `settle_funds`; after `close_market` nothing
  can run it, and the account cannot be closed either.
* `selftrade_fees`. `order_type.rs` says that no fees apply to a self-trade. The
  maker side is not charged, but the fee that the bid had locked is not released
  either; the next `settle_funds` without bids gives it to the referrer or to
  the market's fees.
* `boot_worst`. A full side evicts its worst order to insert a better one. If the
  evicted order was alone in its tree it frees one node, and the new order, in the
  other tree, needs two. The instruction then fails. After every other eviction there
  is room: `RoomUnlessFull`.
* `fees_accrued`. "Total fees accrued in native quote" also counts, for a direct
  taker, the share of the fee that it is not charged.
* `own_delegate`. "owner can withdraw to anywhere", unless it is its own delegate.
* `oracle_units`. `oracle_state_unchecked` "returns the price of one native base
  token, in native quote tokens"; it returns the price per token, and
  `oracle_price_lots` applies the decimals.

In the client:

* `quote_exact_in`. The budget of a quote is `input_amount + (lot - 1) / lot`, where
  the sum was to be divided: it is too large by the factor of the lot size.
* `quote_rebates`. For an ask the makers' rebates are added to what is paid out;
  the program subtracts them.
* `quote_expired`. The quote is made for the time 0, at which no order has expired.
* `stub_parent`. A slot first heard of from RPC is made a child of the tip, and
  keeps that parent when the real one is announced.
* `fork_root`. If a slot is rooted while a fork is ahead, writes of the fork count
  as rooted.
* `rewrite`. A write that comes again for its slot is never overwritten but inserted
  again, because the search for its position goes past it. The newest one is
  served, so nothing else depends on it.
* `client_number`. The client numbers a new account from the open ones starting with
  0; the program counts all accounts ever created starting with 1.

One more observation, which contradicts no document. `edit_order` places the new
order only if part of the old one was filled (`filled_amount > 0`): an edit of
an untouched order cancels it; `edit_order` in `OpenBook` is modelled as it is, and
`EditsCountFills` bounds what an edit comes to from above only.

## 7. Not modelled

* The layout of third-party price accounts (`state/oracle.rs`,
  `state/raydium_internal.rs`), the digits of fixed and floating point numbers,
  and exponents outside the table.
* Admins' signatures (`accounts_ix/`): in `OpenBook` every party may act at any
  time, which includes all authorised behaviour.
* Rent and lamport balances, logs, display-only volumes.
* 64-bit overflow: amounts are small; underflows of unsigned amounts are
  modelled, as failed transactions. For prices the upper end of `i64` is the
  constant `MaxPrice`: a pegged price that reaches it is taken as `MaxPrice` and
  skipped by the iterator (`saturating_add`), and an order whose offset or
  slide leads beyond it is refused (`checked_add`, overflow checks).
* Freshness of the client's account cache, and whether an account refreshed over
  RPC is on the branch that is served: the code promises neither.
* `remaining_accounts_to_crank`, swap instructions, transaction builders, program
  account queries and snapshots of the client: they build or pass on data.
* The TypeScript client and the fuzz harness.

## 8. Plan

Done: the event heap, the client's account cache, the open orders indexer and the
oracles with their proofs; the market with all trading, crank, fund and lifecycle
instructions, and the proof of its safety; the order trees below it; delegates;
the client's quotes and chain data.

1. Runs that fill the event heap inside a market, and a liveness property that
   the crank drains it.
2. An abstract escrow (deposits, trades, withdrawals) that the market implements;
   `QuoteConservation` and `BaseConservation` are its invariant.
3. Price-time priority when pegged orders are skipped, and a proof of it for books
   of fixed orders; the marks of `ChainData` for any tree of slots.
4. Messages of a running market fed to `ChainData`.
