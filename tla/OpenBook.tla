------------------------------ MODULE OpenBook ------------------------------
(***************************************************************************)
(* A market of openbook-v2 as its instructions drive it: the market        *)
(* account, the book, the event heap, the traders' open orders accounts,   *)
(* and the tokens that move between wallets and the market's vaults.       *)
(*                                                                         *)
(* Every action is one instruction, with the arguments a client may pass.  *)
(* The runtime executes instructions one at a time and undoes a failed     *)
(* one, so an instruction that fails is an action that is not enabled.     *)
(* Clients, the crank, the admin, the clock and the oracle act in any      *)
(* order.                                                                  *)
(***************************************************************************)
EXTENDS Orderbook

CONSTANTS
  Accounts,            \* open orders accounts, one per trader
  Takers,              \* signers of place_take_order, without an account
  InitialTokens,       \* [base, quote] native tokens in every wallet
  MaxBaseLots,         \* stands for market.max_base_lots()
  MAX_EVENTS_CONSUME,  \* events of one consume_events (8 in the program)
  (* Instruction arguments. *)
  OrderArgs,           \* place_order, place_order_pegged and the edits
  TakeArgs,            \* place_take_order
  Batches,             \* sequences of orders: cancel_all_and_place_orders
  CancelSizes,         \* expected_cancel_size of edit_order
  DepositAmounts,      \* [base, quote] native tokens
  Limits,              \* limits of orders to match or cancel
  SlotLists,           \* sequences of positions: consume_given_events
  (* The environment. *)
  TimeExpiries,        \* time_expiry given to create_market
  OraclePrices,        \* prices in lots, NoPrice if stale or absent
  (* Bounds of the model. *)
  MaxSeqNum,           \* order ids handed out
  MaxTime              \* the clock's last second

\* The arguments an order may have: lots are not negative; a price is at least
\* 1, or for a pegged order the limit is, and that one can only be posted.
ArgsOfOrders ==
  [side : Sides, type : TakeTypes \cup PostTypes, price : Int, max_base_lots : Nat,
   max_quote_lots_including_fees : Nat, client_id : Nat, expiry : Nat,
   self_trade_behavior : SelfTradeBehaviors, pegged : BOOLEAN, peg_limit : Int]
FixedArgs == {args \in ArgsOfOrders : ~args.pegged /\ args.price >= 1}
PeggedArgs ==
  {args \in ArgsOfOrders : args.pegged /\ args.type \in PostTypes /\ args.peg_limit >= 1}
TokenAmounts == [base : Nat, quote : Nat]

ASSUME OpenBookAssumption ==
  /\ Accounts \cap Takers = {} /\ IsFiniteSet(Accounts)
  /\ InitialTokens \in TokenAmounts /\ DepositAmounts \subseteq TokenAmounts
  /\ MaxBaseLots \in Nat /\ MaxSeqNum \in Nat /\ MaxTime \in Nat
  /\ MAX_EVENTS_CONSUME \in Nat \ {0}
  /\ OrderArgs \subseteq FixedArgs \cup PeggedArgs
  /\ TakeArgs \subseteq {args \in FixedArgs : args.type \in TakeTypes}
  /\ Batches \subseteq Seq(FixedArgs)
  /\ CancelSizes \subseteq Int /\ Limits \subseteq Nat
  /\ SlotLists \subseteq Seq(Nat)
  /\ TimeExpiries \subseteq Nat
  /\ OraclePrices \subseteq Int /\ OraclePrices # {}

VARIABLES
  now,      \* unix_timestamp of the clock sysvar
  oracle,   \* what Market::oracle_price_lots returns
  mkt,      \* Market
  oo,       \* account -> OpenOrdersAccount
  book,     \* side -> BookSide
  heap,     \* EventHeap, as a sequence of events
  wallet,   \* token accounts of the traders and takers
  vault     \* the market's two vaults

vars == <<now, oracle, mkt, oo, book, heap, wallet, vault>>

Traders == Accounts \cup Takers
OpenAccounts == {a \in Accounts : oo[a].open}
is_expired_market == mkt.time_expiry # 0 /\ mkt.time_expiry < now

Init ==
  /\ now = 0
  /\ oracle \in OraclePrices
  /\ \E expiry \in TimeExpiries :
       mkt = [seq_num |-> 0, time_expiry |-> expiry, closed |-> FALSE,
              base_deposit_total |-> 0, quote_deposit_total |-> 0,
              fees_accrued |-> 0, fees_to_referrers |-> 0,
              referrer_rebates_accrued |-> 0, fees_available |-> 0]
  /\ oo = [a \in Accounts |-> EmptyAccount]
  /\ book = [side \in Sides |-> EmptySide]
  /\ heap = << >>
  /\ wallet = [t \in Traders |-> InitialTokens]
  /\ vault = [base |-> 0, quote |-> 0]

-----------------------------------------------------------------------------
(* What instructions are made of. *)

Loaded == [ok |-> TRUE, mkt |-> mkt, oo |-> oo, book |-> book, heap |-> heap]

\* Unsigned fields of the market that instructions subtract from.
SoundMarket(m) ==
  /\ m.base_deposit_total >= 0
  /\ m.quote_deposit_total >= 0
  /\ m.referrer_rebates_accrued >= 0
  /\ m.fees_available >= 0

Commit(s) ==
  /\ s.ok /\ SoundMarket(s.mkt)
  /\ mkt' = s.mkt /\ oo' = s.oo /\ book' = s.book /\ heap' = s.heap

\* Token transfers between a wallet and the vaults (negative: out of a vault)
\* and out of the quote vault to a third party.
Transfer(t, base, quote, to_others) ==
  /\ wallet[t].base >= base /\ wallet[t].quote >= quote
  /\ vault.base + base >= 0 /\ vault.quote + quote - to_others >= 0
  /\ wallet' = [wallet EXCEPT ![t] = [base |-> @.base - base, quote |-> @.quote - quote]]
  /\ vault' = [base |-> vault.base + base, quote |-> vault.quote + quote - to_others]

KeepTokens == UNCHANGED <<wallet, vault>>
KeepWorld == UNCHANGED <<now, oracle>>

\* Order::tif_from_expiry.  An order that expired already is skipped.
IsLate(args) == args.expiry # 0 /\ args.expiry <= now
OrderOf(args) ==
  LET left == args.expiry - now
  IN  [side |-> args.side, type |-> args.type, price |-> args.price,
       max_base_lots |-> args.max_base_lots,
       max_quote_lots_including_fees |-> args.max_quote_lots_including_fees,
       client_id |-> args.client_id,
       time_in_force |-> IF args.expiry = 0 THEN 0 ELSE IF left <= 65535 THEN left ELSE 65535,
       self_trade_behavior |-> args.self_trade_behavior,
       pegged |-> args.pegged, peg_limit |-> args.peg_limit]

\* Variant with a bug: what is posted is not paid for.
Cost_TakenOnly(side, r) ==
  IF side = "Bid" THEN [base |-> 0, quote |-> r.quote + r.taker_fees]
  ELSE [base |-> r.base, quote |-> 0]

\* What an order costs who placed it.
Cost(side, r) ==
  IF side = "Bid"
  THEN [base |-> 0, quote |-> r.quote + r.posted_quote + r.taker_fees + r.maker_fees]
  ELSE [base |-> r.base + r.posted_base, quote |-> 0]

\* Native tokens are added to an account and to the market's totals.
Credit(acc, base, quote) ==
  [acc EXCEPT !.base_free_native = acc.base_free_native + base,
              !.quote_free_native = acc.quote_free_native + quote]
AddDeposits(m, base, quote) ==
  [m EXCEPT !.base_deposit_total = m.base_deposit_total + base,
            !.quote_deposit_total = m.quote_deposit_total + quote]

\* Free funds pay first, the wallet deposits the rest.
Pay(s, a, cost) ==
  LET acc == s.oo[a]
      free_base == Min({cost.base, acc.base_free_native})
      free_quote == Min({cost.quote, acc.quote_free_native})
      deposit == [base |-> cost.base - free_base, quote |-> cost.quote - free_quote]
  IN  [s |-> [s EXCEPT !.oo[a] = Credit(acc, -free_base, -free_quote),
                       !.mkt = AddDeposits(s.mkt, deposit.base, deposit.quote)],
       deposit |-> deposit]

\* Who leaves work to the crank owes a penalty at settlement.
Penalise(s, heap_before, a) ==
  [s EXCEPT !.oo[a].penalty_heap_count = @ + IF Len(s.heap) > heap_before THEN 1 ELSE 0]

\* The body of place_order.
place_order(s, a, order, limit, rem) ==
  With(new_order(s, order, oracle, now, limit, a, rem), LAMBDA r :
  With(Cost(order.side, r), LAMBDA cost :
    [Pay(Penalise(r.s, Len(s.heap), a), a, cost) EXCEPT !.s.ok = @ /\ ~is_expired_market]))

\* Variant with a bug: an edit places the whole order again.
edit_order_FilledAgain(cancelled, a, expected_cancel_size, order, limit, rem) ==
  LET filled_amount == expected_cancel_size - cancelled.quantity
  IN  IF filled_amount > 0 /\ order.max_base_lots > filled_amount
      THEN place_order(cancelled.s, a, order, limit, rem)
      ELSE [s |-> cancelled.s, deposit |-> [base |-> 0, quote |-> 0]]

\* The body of edit_order, once the old order is cancelled: what was filled of
\* the expected size is not placed again.
edit_order(cancelled, a, expected_cancel_size, order, limit, rem) ==
  LET filled_amount == expected_cancel_size - cancelled.quantity
  IN  IF filled_amount > 0 /\ order.max_base_lots > filled_amount
      THEN place_order(cancelled.s, a, [order EXCEPT !.max_base_lots = @ - filled_amount],
                       limit, rem)
      ELSE [s |-> cancelled.s, deposit |-> [base |-> 0, quote |-> 0]]

\* Variant with a bug: what the earlier orders of the batch cost is forgotten.
Available_CostForgotten(a, p) ==
  [base  |-> wallet[a].base + p.s.oo[a].base_free_native,
   quote |-> wallet[a].quote + p.s.oo[a].quote_free_native]

\* What can pay for the next order of a batch: the wallet and the free funds, less
\* the cost of the batch so far.
Available(a, p) ==
  [base  |-> wallet[a].base + p.s.oo[a].base_free_native - p.cost.base,
   quote |-> wallet[a].quote + p.s.oo[a].quote_free_native - p.cost.quote]

\* One order of a batch, with the size that can be paid for.
PlaceNext(a, p, order, limit, rem) ==
  LET left == Available(a, p)
      sized ==
        IF order.side = "Bid"
        THEN [order EXCEPT !.max_base_lots = MaxBaseLots,
                           !.max_quote_lots_including_fees =
                              Min({@, left.quote \div quote_lot_size})]
        ELSE [order EXCEPT !.max_base_lots =
                              Min({MaxBaseLots, left.base \div base_lot_size})]
      affordable == (IF order.side = "Bid" THEN left.quote ELSE left.base) >= 0
      Placed(r) ==
        [s |-> r.s, cost |-> [base |-> p.cost.base + Cost(order.side, r).base,
                              quote |-> p.cost.quote + Cost(order.side, r).quote]]
  IN  IF ~p.s.ok \/ ~affordable THEN [p EXCEPT !.s.ok = FALSE]
      ELSE With(sized, LAMBDA o : With(new_order(p.s, o, oracle, now, limit, a, rem), Placed))

\* Variant with a bug: fees that were locked and not charged stay locked.
locked_roundoff_None(acc) == 0

\* Fees that were rounded up when they were locked and not charged, once no
\* bid is left to charge them for.
locked_roundoff(acc) ==
  IF maker_fee > 0 /\ acc.bids_base_lots = 0 THEN acc.locked_maker_fees ELSE 0

\* The body of settle_funds.
settle_funds(s, a, with_referrer) ==
  LET m == s.mkt
      acc == s.oo[a]
      roundoff == locked_roundoff(acc)
      rebate == acc.referrer_rebates_available + roundoff
      to_referrer == IF with_referrer THEN rebate ELSE 0
      market ==
        [m EXCEPT
          !.fees_to_referrers = m.fees_to_referrers + to_referrer,
          !.fees_available = m.fees_available + rebate - to_referrer,
          !.base_deposit_total = m.base_deposit_total - acc.base_free_native,
          !.quote_deposit_total = m.quote_deposit_total - acc.quote_free_native - to_referrer,
          !.referrer_rebates_accrued =
             m.referrer_rebates_accrued - acc.referrer_rebates_available]
      settled ==
        [acc EXCEPT
          !.locked_maker_fees = acc.locked_maker_fees - roundoff,
          !.penalty_heap_count = 0,
          !.base_free_native = 0,
          !.quote_free_native = 0,
          !.referrer_rebates_available = 0]
  IN  [s |-> [s EXCEPT !.mkt = market, !.oo[a] = settled], to_referrer |-> to_referrer]

\* An account is handed what an event says.
Consume(s, event) ==
  IF event.kind = "Fill" THEN ExecuteMaker(s, event)
  ELSE CancelSlotOf(s, event.owner, event.owner_slot, event.quantity)
AccountOf(event) == IF event.kind = "Fill" THEN event.maker ELSE event.owner

-----------------------------------------------------------------------------
(* Instructions of traders. *)

CreateOpenOrdersAccount(a) ==
  /\ ~mkt.closed /\ ~oo[a].open
  /\ oo' = [oo EXCEPT ![a] = EmptyAccount]
  /\ UNCHANGED <<mkt, book, heap>> /\ KeepTokens /\ KeepWorld

\* The only instruction that does not need the market account.
CloseOpenOrdersAccount(a) ==
  /\ oo[a].open /\ is_empty_position(oo[a])
  /\ oo' = [oo EXCEPT ![a] = ClosedAccount]
  /\ UNCHANGED <<mkt, book, heap>> /\ KeepTokens /\ KeepWorld

Deposited(a, amount) ==
  [Loaded EXCEPT !.oo[a] = Credit(oo[a], amount.base, amount.quote),
                 !.mkt = AddDeposits(mkt, amount.base, amount.quote)]

\* Variant with a bug: an expired market still takes deposits.
Deposit_AfterExpiry(payer, a, amount) ==
  /\ ~mkt.closed /\ oo[a].open
  /\ Commit(Deposited(a, amount))
  /\ Transfer(payer, amount.base, amount.quote, 0)
  /\ KeepWorld

\* Anybody may pay into an account.
Deposit(payer, a, amount) ==
  /\ ~mkt.closed /\ oo[a].open /\ ~is_expired_market
  /\ Commit(Deposited(a, amount))
  /\ Transfer(payer, amount.base, amount.quote, 0)
  /\ KeepWorld

\* Tops the free funds up to the amount.
Refill(payer, a, amount) ==
  Deposit(payer, a, [base  |-> Max({0, amount.base - oo[a].base_free_native}),
                     quote |-> Max({0, amount.quote - oo[a].quote_free_native})])

PlaceOrder(a, args, limit, rem) ==
  /\ ~mkt.closed /\ oo[a].open
  /\ mkt.seq_num < MaxSeqNum
  /\ ~IsLate(args)
  /\ \E r \in {place_order(Loaded, a, OrderOf(args), limit, rem)} :
       Commit(r.s) /\ Transfer(a, r.deposit.base, r.deposit.quote, 0)
  /\ KeepWorld

\* The rebates of the makers stay in the market, the rest of the taker fee
\* stays with the taker.
PlaceTakeOrder(t, args, limit, rem) ==
  /\ ~mkt.closed /\ ~is_expired_market
  /\ mkt.seq_num < MaxSeqNum
  /\ \E r \in {new_order(Loaded, OrderOf(args), oracle, now, limit, t, rem)} :
     LET rebates == r.taker_fees - r.referrer_amount
         base == IF args.side = "Bid" THEN -r.base ELSE r.base
         quote == IF args.side = "Bid" THEN r.quote + rebates ELSE -(r.quote - rebates)
     IN  /\ Commit([r.s EXCEPT !.mkt = AddDeposits(@, base, quote)])
         /\ Transfer(t, base, quote, 0)
  /\ KeepWorld

\* The order must still be on the book and belong to the account.
CancelOrder(a, slot) ==
  /\ ~mkt.closed /\ oo[a].open
  /\ ~is_free_slot(oo[a], slot)
  /\ \E leaf \in LeafOf(Loaded, oo[a].open_orders[slot]) : leaf.owner = a
  /\ \E s \in {book_cancel_order(Loaded, a, slot)} : Commit(s)
  /\ KeepTokens /\ KeepWorld

CancelAllOrders(a, sides, limit) ==
  /\ ~mkt.closed /\ oo[a].open
  /\ LET wanted == {slot \in OrderSlots : oo[a].open_orders[slot].side \in sides}
     IN  \E cancelled \in {book_cancel_all(Loaded, a, limit, wanted)} : Commit(cancelled.s)
  /\ KeepTokens /\ KeepWorld

CancelByClientId(s, a, client_id) ==
  LET wanted == {slot \in OrderSlots : s.oo[a].open_orders[slot].client_id = client_id}
  IN  book_cancel_all(s, a, MAX_OPEN_ORDERS, wanted)

CancelOrderByClientOrderId(a, client_id) ==
  /\ ~mkt.closed /\ oo[a].open
  /\ \E cancelled \in {CancelByClientId(Loaded, a, client_id)} : Commit(cancelled.s)
  /\ KeepTokens /\ KeepWorld

EditOrder(a, client_id, expected_cancel_size, args, limit, rem) ==
  /\ ~mkt.closed /\ oo[a].open
  /\ mkt.seq_num < MaxSeqNum
  /\ ~IsLate(args)
  /\ \E cancelled \in {CancelByClientId(Loaded, a, client_id)} :
     \E r \in {edit_order(cancelled, a, expected_cancel_size, OrderOf(args), limit, rem)} :
       Commit(r.s) /\ Transfer(a, r.deposit.base, r.deposit.quote, 0)
  /\ KeepWorld

\* The orders of a batch, after the account's old ones are cancelled if asked.
place_batch(a, cancel, batch, limit, rem) ==
  LET start == IF cancel THEN book_cancel_all(Loaded, a, MAX_OPEN_ORDERS, OrderSlots).s
               ELSE Loaded
      PlaceArgs(p, args) ==
        IF IsLate(args) THEN p ELSE PlaceNext(a, p, OrderOf(args), limit, rem)
  IN  FoldLeft(PlaceArgs, [s |-> start, cost |-> [base |-> 0, quote |-> 0]], batch)

\* place_orders if cancel is FALSE.
CancelAllAndPlaceOrders(a, cancel, batch, limit, rem) ==
  /\ ~mkt.closed /\ oo[a].open /\ ~is_expired_market
  /\ mkt.seq_num + Len(batch) <= MaxSeqNum
  /\ \E placed \in {place_batch(a, cancel, batch, limit, rem)} :
     \E paid \in {Pay(Penalise(placed.s, Len(heap), a), a, placed.cost)} :
       Commit(paid.s) /\ Transfer(a, paid.deposit.base, paid.deposit.quote, 0)
  /\ KeepWorld

SettleFunds(a, with_referrer) ==
  /\ ~mkt.closed /\ oo[a].open
  /\ \E r \in {settle_funds(Loaded, a, with_referrer)} :
       /\ Commit(r.s)
       /\ Transfer(a, -oo[a].base_free_native, -oo[a].quote_free_native, r.to_referrer)
  /\ KeepWorld

-----------------------------------------------------------------------------
(* Instructions of the crank and the admin. *)

\* Variant with a bug: the first events are taken off, whichever were handled.
Remaining_PopsFront(handled) == SubSeq(heap, Cardinality(handled) + 1, Len(heap))

\* The heap without the events at the positions that were handled.
Remaining(handled) ==
  LET left == DOMAIN heap \ handled
      Before(i) == {j \in left : j < i}
  IN  [k \in 1 .. Cardinality(left) |-> heap[CHOOSE i \in left : Cardinality(Before(i)) = k - 1]]

\* Events of the given slots first, then from the front, each once; an event
\* whose account is not among those passed along (accs) is skipped and stays.
ConsumeEvents(limit, slots, accs) ==
  /\ ~mkt.closed
  /\ LET ConsumeNext(c, i) ==
           IF \/ i \notin DOMAIN heap \ c.seen \/ ~c.s.ok
              \/ Cardinality(c.seen) = Min({limit, MAX_EVENTS_CONSUME})
           THEN c
           ELSE IF AccountOf(heap[i]) \notin accs THEN [c EXCEPT !.seen = @ \cup {i}]
           ELSE [s |-> Consume(c.s, heap[i]), seen |-> c.seen \cup {i},
                 handled |-> c.handled \cup {i}]
     IN  \E c \in {FoldLeft(LAMBDA c, i : With(c, LAMBDA d : ConsumeNext(d, i)),
                            [s |-> Loaded, seen |-> {}, handled |-> {}],
                            slots \o [i \in DOMAIN heap |-> i])} :
           Commit([c.s EXCEPT !.heap = Remaining(c.handled)])
  /\ KeepTokens /\ KeepWorld

SweepFees ==
  /\ ~mkt.closed
  /\ Commit([Loaded EXCEPT !.mkt.fees_available = 0,
                           !.mkt.quote_deposit_total = @ - mkt.fees_available])
  /\ vault.quote >= mkt.fees_available
  /\ vault' = [vault EXCEPT !.quote = @ - mkt.fees_available]
  /\ UNCHANGED wallet /\ KeepWorld

SetMarketExpired ==
  /\ ~mkt.closed /\ ~is_expired_market
  /\ Commit([Loaded EXCEPT !.mkt.time_expiry = -1])
  /\ KeepTokens /\ KeepWorld

PruneOrders(a, limit) ==
  /\ ~mkt.closed /\ oo[a].open /\ is_expired_market
  /\ \E cancelled \in {book_cancel_all(Loaded, a, limit, OrderSlots)} : Commit(cancelled.s)
  /\ KeepTokens /\ KeepWorld

SettleFundsExpired(a, with_referrer) ==
  /\ is_expired_market
  /\ SettleFunds(a, with_referrer)

\* Variant with a bug: quote tokens that are still deposited are overlooked.
is_empty_market_BaseOnly ==
  mkt.base_deposit_total = 0 /\ mkt.fees_available = 0 /\ mkt.referrer_rebates_accrued = 0

\* Market::is_empty
is_empty_market ==
  /\ mkt.base_deposit_total = 0 /\ mkt.quote_deposit_total = 0
  /\ mkt.fees_available = 0 /\ mkt.referrer_rebates_accrued = 0

CloseMarket ==
  /\ ~mkt.closed /\ is_expired_market
  /\ is_empty_market
  /\ \A side \in Sides : book[side].leaves = {}
  /\ heap = << >>
  /\ Commit([Loaded EXCEPT !.mkt.closed = TRUE])
  /\ KeepTokens /\ KeepWorld

-----------------------------------------------------------------------------
(* The environment. *)

Tick ==
  /\ now < MaxTime
  /\ now' = now + 1
  /\ UNCHANGED <<oracle, mkt, oo, book, heap>> /\ KeepTokens

MoveOracle ==
  /\ oracle' \in OraclePrices \ {oracle}
  /\ UNCHANGED <<now, mkt, oo, book, heap>> /\ KeepTokens

-----------------------------------------------------------------------------
Placement ==
  \E limit \in Limits, a \in Accounts :
    \E rem \in SUBSET (OpenAccounts \ {a}) :
      \/ \E args \in OrderArgs : PlaceOrder(a, args, limit, rem)
      \/ \E batch \in Batches, cancel \in BOOLEAN :
           CancelAllAndPlaceOrders(a, cancel, batch, limit, rem)
      \/ \E args \in OrderArgs, size \in CancelSizes :
           EditOrder(a, args.client_id, size, args, limit, rem)

Take ==
  \E t \in Takers, args \in TakeArgs, limit \in Limits, rem \in SUBSET OpenAccounts :
    PlaceTakeOrder(t, args, limit, rem)

Cancellation ==
  \E a \in Accounts :
    \/ \E slot \in OrderSlots : CancelOrder(a, slot)
    \/ \E sides \in {Sides, {"Bid"}, {"Ask"}}, limit \in Limits :
         CancelAllOrders(a, sides, limit)
    \/ \E args \in OrderArgs : CancelOrderByClientOrderId(a, args.client_id)

AccountStep ==
  \E a \in Accounts :
    \/ CreateOpenOrdersAccount(a)
    \/ CloseOpenOrdersAccount(a)
    \/ \E payer \in Traders, amount \in DepositAmounts :
         Deposit(payer, a, amount) \/ Refill(payer, a, amount)
    \/ \E with_referrer \in BOOLEAN : SettleFunds(a, with_referrer)

Crank ==
  \E limit \in Limits, slots \in SlotLists, accs \in SUBSET OpenAccounts :
    ConsumeEvents(limit, slots, accs)

AdminStep ==
  \/ SweepFees
  \/ SetMarketExpired
  \/ \E a \in Accounts, limit \in Limits : PruneOrders(a, limit)
  \/ \E a \in Accounts, with_referrer \in BOOLEAN : SettleFundsExpired(a, with_referrer)
  \/ CloseMarket

Next ==
  \/ Placement
  \/ Take
  \/ Cancellation
  \/ AccountStep
  \/ Crank
  \/ AdminStep
  \/ Tick
  \/ MoveOracle

Spec == Init /\ [][Next]_vars
=============================================================================
