------------------------- MODULE OpenBookProperties -------------------------
(***************************************************************************)
(* What must hold of a market, whatever its clients, its crank, its admin, *)
(* the clock and the oracle do.                                            *)
(***************************************************************************)
EXTENDS OpenBook

-----------------------------------------------------------------------------
(* Sums over leaves, events and accounts. *)

SumOver(f(_), S) == SumFunction([x \in S |-> f(x)])

Leaves(side) == book[side].leaves
LeavesOfOwner(side, a) == {leaf \in Leaves(side) : leaf.owner = a}
Pending == DOMAIN heap
PendingFills == {i \in Pending : heap[i].kind = "Fill"}
PendingOf(a) == {i \in Pending : AccountOf(heap[i]) = a}

\* The slot a pending event is about, and the side of its order.
SlotOf(event) ==
  IF event.kind = "Fill" THEN event.maker_slot ELSE event.owner_slot
SideOf(event) == IF event.kind = "Fill" THEN FillTerms(event).side ELSE event.side

\* An event after which the slot is free.
IsLast(event) == event.kind = "Out" \/ event.maker_out

-----------------------------------------------------------------------------
\* Every variable holds a value of its type, and nothing is negative or
\* beyond the capacities of the accounts (heap.rs 9, ordertree.rs 18).
TypeOK ==
  /\ now \in 0 .. MaxTime
  /\ oracle \in OraclePrices
  /\ mkt.seq_num \in 0 .. MaxSeqNum
  /\ SoundMarket(mkt)
  /\ \A a \in Accounts :
       /\ Sound(oo[a])
       /\ oo[a].bids_base_lots \in Nat /\ oo[a].asks_base_lots \in Nat
       /\ oo[a].bids_quote_lots \in Nat
       /\ \A slot \in OrderSlots : oo[a].open_orders[slot].id \in 0 .. mkt.seq_num
  /\ \A side \in Sides :
       /\ book[side].bump \in 0 .. MAX_ORDERTREE_NODES
       /\ UsedNodes(book[side]) <= book[side].bump
       /\ \A leaf \in Leaves(side) :
            leaf.quantity > 0 /\ leaf.tree \in Trees /\ leaf.owner \in Accounts
  /\ Len(heap) <= MAX_NUM_EVENTS

\* The quote vault holds what market.quote_deposit_total says, and that is
\* exactly what is owed: free and locked funds and fees of the accounts, fees
\* to sweep, and what the fills still on the heap will add for their makers
\* (an ask's maker is due the price, a bid's maker has paid it; both get the
\* rebate).  No instruction creates or loses a quote token.
QuoteConservation ==
  LET Owed(a) == oo[a].quote_free_native + oo[a].bids_quote_lots * quote_lot_size
                 + oo[a].locked_maker_fees + oo[a].referrer_rebates_available
      Due(i) == LET t == FillTerms(heap[i])
                IN  t.rebate + IF t.side = "Ask" THEN t.quote ELSE -t.quote
  IN  /\ vault.quote = mkt.quote_deposit_total
      /\ vault.quote = SumOver(Owed, Accounts) + mkt.fees_available
                       + SumOver(Due, PendingFills)

\* The same for the base vault.
BaseConservation ==
  LET Owed(a) == oo[a].base_free_native + oo[a].asks_base_lots * base_lot_size
      Due(i) == LET native == heap[i].quantity * base_lot_size
                IN  IF FillTerms(heap[i]).side = "Bid" THEN native ELSE -native
  IN  /\ vault.base = mkt.base_deposit_total
      /\ vault.base = SumOver(Owed, Accounts) + SumOver(Due, PendingFills)

\* Every occupied slot of an account is claimed exactly once: by a leaf on the
\* book with the slot's order id, or by one event that will free it (a fill
\* that took the last of the order, or an out event); a free slot is claimed by
\* nothing.  Otherwise a slot would leak, add_order could overwrite a live
\* order, or remove_order's assertion would fail in the crank.  (A partial fill
\* may outlive its order: a later fill can be settled on the spot.)
SlotClaims ==
  \A a \in Accounts, slot \in OrderSlots :
    LET order == oo[a].open_orders[slot]
        claims == {leaf \in UNION {Leaves(side) : side \in Sides} :
                     leaf.owner = a /\ leaf.owner_slot = slot}
        last == {i \in PendingOf(a) : IsLast(heap[i]) /\ SlotOf(heap[i]) = slot}
    IN  IF is_free_slot(oo[a], slot) THEN claims = {} /\ last = {}
        ELSE /\ Cardinality(claims) + Cardinality(last) = 1
             /\ claims \subseteq LeafOf(Loaded, order)
             /\ \A i \in last : SideOf(heap[i]) = order.side

\* The lots of a position are those of its orders on the book and of the
\* events that wait for it; the price at which a bid's quote lots are released
\* (from the slot on cancel, from the event on a fill) is the one at which
\* they were locked.
LotsMatchOrders ==
  \A a \in Accounts :
    LET LockedPrice(slot) == oo[a].open_orders[slot].locked_price
        LeafBase(leaf) == leaf.quantity
        LeafQuote(leaf) == leaf.quantity * LockedPrice(leaf.owner_slot)
        EventBase(i) == heap[i].quantity
        EventQuote(i) ==
          heap[i].quantity * (IF heap[i].kind = "Fill" THEN FillTerms(heap[i]).locked_price
                              ELSE LockedPrice(heap[i].owner_slot))
        events(side) == {i \in PendingOf(a) : SideOf(heap[i]) = side}
        BaseLots(side) == SumOver(LeafBase, LeavesOfOwner(side, a))
                          + SumOver(EventBase, events(side))
    IN  /\ oo[a].bids_base_lots = BaseLots("Bid")
        /\ oo[a].asks_base_lots = BaseLots("Ask")
        /\ oo[a].bids_quote_lots = SumOver(LeafQuote, LeavesOfOwner("Bid", a))
                                   + SumOver(EventQuote, events("Bid"))

\* The maker fees locked for bids, rounded up when they were placed, always
\* cover what will be taken from them: fees rounded down for each fill, rounded
\* up for what is cancelled.  So locked_maker_fees never underflows.
LockedFeesCover ==
  \A a \in Accounts :
    LET OfLeaf(leaf) ==
          maker_fees_ceil(leaf.quantity * oo[a].open_orders[leaf.owner_slot].locked_price
                          * quote_lot_size)
        OfEvent(i) ==
          IF heap[i].kind = "Fill" THEN FillTerms(heap[i]).locked_fees
          ELSE maker_fees_ceil(heap[i].quantity * quote_lot_size
                               * oo[a].open_orders[heap[i].owner_slot].locked_price)
        events == {i \in PendingOf(a) : SideOf(heap[i]) = "Bid"}
    IN  oo[a].locked_maker_fees >= SumOver(OfLeaf, LeavesOfOwner("Bid", a))
                                   + SumOver(OfEvent, events)

\* market.referrer_rebates_accrued, which close_market wants to be zero, is the
\* sum of what settle_funds will subtract from it.
RebatesAccrued ==
  LET Rebates(a) == oo[a].referrer_rebates_available
  IN  mkt.referrer_rebates_accrued = SumOver(Rebates, Accounts)

\* No order and no event is stuck: each leaf can be cancelled, and each event
\* consumed on its own (so in any order consume_given_events asks for), with no
\* failed assertion and no underflow.
NothingStuck ==
  /\ \A side \in Sides : \A leaf \in Leaves(side) :
       CancelSlotOf(Loaded, leaf.owner, leaf.owner_slot, leaf.quantity).ok
  /\ \A i \in Pending : oo[AccountOf(heap[i])].open /\ Consume(Loaded, heap[i]).ok

\* What account a has of the base token, on the book or not, less what its wallet
\* was asked to deposit.
BaseOf(s, a, deposit) ==
  s.oo[a].base_free_native + s.oo[a].asks_base_lots * base_lot_size - deposit.base

\* An edit races with fills of the order that it replaces (edit_order.rs 29).  When
\* the client knew the size of the old order, all three together never come to more
\* than it asked for: what was filled of the old order, what the new one takes at
\* once, and what it leaves on the book.  This holds of any edit in any state, with
\* fills settled or still on the heap, and with several orders of one client id.
EditsCountFills ==
  LET Quantity(leaf) == leaf.quantity
      Old(a, id) == {leaf \in UNION {Leaves(side) : side \in Sides} :
                       leaf.owner = a /\ leaf.client_id = id}
      Sold(a, r) == BaseOf(Loaded, a, [base |-> 0]) - BaseOf(r.s, a, r.deposit)
      Traded(a, side, r) == (IF side = "Bid" THEN -Sold(a, r) ELSE Sold(a, r)) \div base_lot_size
      Rested(side, r) == SumOver(Quantity, {leaf \in r.s.book[side].leaves : leaf.id > mkt.seq_num})
  IN  ~mkt.closed =>
        \A a \in OpenAccounts, size \in CancelSizes, id \in {args.client_id : args \in OrderArgs} :
          \E c \in {CancelByClientId(Loaded, a, id)},
             filled \in {size - SumOver(Quantity, Old(a, id))} :
            \A args \in OrderArgs, limit \in Limits, rem \in SUBSET (OpenAccounts \ {a}) :
              args.client_id = id /\ ~IsLate(args) =>
              \E r \in {edit_order(c, a, size, OrderOf(args), limit, rem)} :
                LET new == Traded(a, args.side, r) + Rested(args.side, r)
                IN  r.s.ok /\ new > 0 => filled + new <= args.max_base_lots

\* A batch never overdraws: each of its orders is sized by what the wallet and the
\* free funds have left (cancel_all_and_place_orders.rs 60), while those before may
\* have taken, traded with oneself, earned or posted; so at any point of any batch
\* the wallet can pay what the free funds do not.
BatchesArePaidFor ==
  ~mkt.closed /\ ~is_expired_market =>
    \A a \in OpenAccounts, batch \in Batches, cancel \in BOOLEAN, limit \in Limits :
      \A rem \in SUBSET (OpenAccounts \ {a}), n \in 1 .. Len(batch) :
        \E p \in {place_batch(a, cancel, SubSeq(batch, 1, n), limit, rem)} :
          p.s.ok => LET deposit == Pay(p.s, a, p.cost).deposit
                    IN  deposit.base <= wallet[a].base /\ deposit.quote <= wallet[a].quote

\* A closed market owes nobody anything: the totals that close_market checks
\* leave nothing on the book, on the heap, in the vaults or in a position.
ClosedOwesNothing ==
  mkt.closed =>
    /\ vault = [base |-> 0, quote |-> 0]
    /\ heap = << >> /\ \A side \in Sides : Leaves(side) = {}
    /\ \A a \in Accounts :
         is_empty_position([oo[a] EXCEPT !.open = TRUE, !.penalty_heap_count = 0])

\* Two valid orders never stand crossed: a new order takes what it crosses, or
\* is not posted.  (Orders with fixed prices, whose budget is not used up while
\* they match; see BidsTakeBeforeTheyRest for the others.)
BookNotCrossed ==
  \A bid \in Leaves("Bid"), ask \in Leaves("Ask") :
    is_expired(bid, now) \/ is_expired(ask, now) \/ bid.price < ask.price

-----------------------------------------------------------------------------
(* What a step may not do. *)

\* An order on the book never grows, moves or comes back: a leaf is a leaf of
\* the same order with at least as much left, or the order that was just given
\* the next sequence number.
OrdersOnlyShrink ==
  [][\A side \in Sides : \A leaf \in book'[side].leaves :
       \/ leaf.id > mkt.seq_num
       \/ \E old \in book[side].leaves :
            leaf.quantity <= old.quantity
            /\ leaf = [old EXCEPT !.quantity = leaf.quantity]]_vars

\* Whether a step filled a leaf: less is left of it, or a fill is queued.
Filled(side, leaf) ==
  \/ \E l \in book'[side].leaves : l.id = leaf.id /\ l.quantity < leaf.quantity
  \/ \E i \in Len(heap) + 1 .. Len(heap') :
       /\ heap'[i].kind = "Fill" /\ heap'[i].taker_side # side
       /\ heap'[i].maker = leaf.owner /\ heap'[i].maker_slot = leaf.owner_slot

ItemOf(side, leaf) == Item(side, leaf, oracle, now)

\* Price-time priority: an order is filled only if it is valid (not expired,
\* its peg not beyond its limit), and only after every valid order with a
\* better price, or the same price and an older id, has left the book.
PriceTimePriority ==
  [][\A side \in Sides : \A leaf \in Leaves(side) :
       Filled(side, leaf) =>
         /\ ItemOf(side, leaf).state = "Valid"
         /\ \A other \in Leaves(side) :
              LET o == ItemOf(side, other)
              IN  o.state = "Valid"
                  /\ BetterKey(side, o.price, other.id, ItemOf(side, leaf).price, leaf.id)
                  => \A l \in book'[side].leaves : l.id # other.id]_vars

\* In an expired market funds only leave: no order is placed, the totals and
\* what accounts have at stake never grow, and the market stays expired.
ExpiredOnlyDrains ==
  [][is_expired_market =>
       /\ is_expired_market'
       /\ \A side \in Sides : \A leaf \in book'[side].leaves : leaf \in Leaves(side)
       /\ Len(heap') <= Len(heap)
       /\ mkt'.base_deposit_total <= mkt.base_deposit_total
       /\ mkt'.quote_deposit_total <= mkt.quote_deposit_total]_vars

\* What the market books to be paid out, to referrers or the admin.
Booked(m) == m.referrer_rebates_accrued + m.fees_available + m.fees_to_referrers

\* market.rs 93: fees_accrued is the "Total fees accrued in native quote".  When the
\* total grows, at least as much is booked to be paid out, whichever fees and
\* rebates are rounded on the way.  A direct taker violates it, who is charged less
\* than is counted.
FeesAccruedAreCollected ==
  [][mkt'.fees_accrued > mkt.fees_accrued =>
       mkt'.fees_accrued - mkt.fees_accrued <= Booked(mkt') - Booked(mkt)]_vars

-----------------------------------------------------------------------------
(* Winding a market down. *)

\* As long as the admin can prune an account's orders, settle an account, sweep the
\* fees or close the market, it does one of these; and the crank consumes events
\* with the accounts they need.
AdminWindsDown ==
  \/ \E a \in Accounts : PruneOrders(a, MAX_OPEN_ORDERS) \/ SettleFundsExpired(a, FALSE)
  \/ SweepFees
  \/ CloseMarket
CrankRuns == ConsumeEvents(MAX_EVENTS_CONSUME, << >>, OpenAccounts)
FairSpec == Spec /\ WF_vars(AdminWindsDown) /\ WF_vars(CrankRuns)

\* A market that the admin set to expire is closed in the end: no order, event,
\* rounded-off fee or unclaimed rebate is left that keeps close_market from
\* succeeding.
MarketCloses == (mkt.time_expiry = -1) ~> mkt.closed

-----------------------------------------------------------------------------
(* What the documentation says and the code does not do. *)

\* order_type.rs 106: "no fees are applied" to a self-trade.  With a single
\* trader every trade is a self-trade, so no fees should ever be collected.
SelfTradePaysNoFees == mkt.fees_available = 0 /\ mkt.fees_to_referrers = 0

\* book.rs 174: an order that can take no more is not posted, so as not to
\* leave a "negative spread": here for any budget.
BidsTakeBeforeTheyRest == BookNotCrossed

\* market.rs 16: "taker pays 500 lamports penalty for every transaction that adds
\* to the event heap".  It is paid at settlement, and a closed market settles
\* nothing any more: no account still owes a penalty (or could not be closed).
PenaltiesArePaid == mkt.closed => \A a \in Accounts : oo[a].penalty_heap_count = 0

\* bookside.rs 57: the book iterates over "all entries": at any time, each
\* pegged order with a representable price is reached.
IteratesOverAll ==
  \A side \in Sides :
    LET items == iter_all(side, book[side], oracle, now)
        yielded == {items[i].leaf : i \in DOMAIN items}
    IN  \A leaf \in Leaves(side) :
          leaf \in yielded
          \/ (leaf.tree = "OraclePegged"
              /\ (oracle = NoPrice \/ oracle_pegged_price(side, leaf, oracle).state = "Skipped"))
=============================================================================
