----------------------------- MODULE Orderbook ------------------------------
(***************************************************************************)
(* state/orderbook/book.rs and order.rs: placing an order against the      *)
(* book, cancelling orders.  An instruction works on the record s:         *)
(*   ok    the transaction has not failed (a failed one changes nothing)   *)
(*   mkt   the market account                                              *)
(*   oo    open orders accounts                                            *)
(*   book  side -> BookSide                                                *)
(*   heap  the event heap, as the queue it implements (EventHeapOrder)     *)
(***************************************************************************)
EXTENDS BookSide, OpenOrders

CONSTANTS
  MAX_NUM_EVENTS,             \* capacity of the event heap (600)
  DROP_EXPIRED_ORDER_LIMIT,   \* invalid orders a taker removes (5)
  FILL_EVENT_REMAINING_LIMIT  \* fills settled on the spot (15)

ASSUME OrderbookAssumption ==
  /\ MAX_NUM_EVENTS \in Nat \ {0}
  /\ DROP_EXPIRED_ORDER_LIMIT \in Nat
  /\ FILL_EVENT_REMAINING_LIMIT \in Nat

NoTree == "None"

-----------------------------------------------------------------------------
(* order.rs.  An order has: side, max_base_lots,                           *)
(* max_quote_lots_including_fees, client_id, time_in_force,                *)
(* self_trade_behavior, type (Market, ImmediateOrCancel, FillOrKill,       *)
(* Limit, PostOnly, PostOnlySlide), pegged, price (the offset if pegged)   *)
(* and peg_limit.                                                          *)

TakeTypes == {"Market", "ImmediateOrCancel", "FillOrKill"}
PostTypes == {"Limit", "PostOnly", "PostOnlySlide"}
SelfTradeBehaviors == {"DecrementTake", "CancelProvide", "AbortTransaction"}
is_post_only(order) == order.type \in {"PostOnly", "PostOnlySlide"}
is_fill_or_kill(order) == order.type = "FillOrKill"
post_target(order) ==
  IF order.type \notin PostTypes THEN NoTree
  ELSE IF order.pegged THEN "OraclePegged" ELSE "Fixed"
peg_limit(order) == IF order.pegged THEN order.peg_limit ELSE NoPegLimit

\* The price the order stands at, NoPrice if an offset takes it beyond i64; the
\* order is refused if it is below 1 or, one lot worse than the best, beyond i64.
order_price(order, book, oracle, now) ==
  LET other == invert_side(order.side)
      asked == IF order.pegged THEN oracle + order.price ELSE order.price
      Slide(best_other) ==
        IF best_other = NoPrice THEN asked
        ELSE IF order.side = "Bid" THEN Min({asked, best_other - 1})
        ELSE Max({asked, best_other + 1})
  IN  IF order.type = "Market" THEN IF order.side = "Bid" THEN MaxPrice ELSE 1
      ELSE IF asked > MaxPrice THEN NoPrice
      ELSE IF order.type = "PostOnlySlide"
      THEN With(best_price(other, book[other], oracle, now), Slide)
      ELSE asked

-----------------------------------------------------------------------------
(* Events. *)

OutEvent(side, leaf) ==
  [kind |-> "Out", side |-> side, owner |-> leaf.owner,
   owner_slot |-> leaf.owner_slot, quantity |-> leaf.quantity]

push_back(s, event) ==
  [s EXCEPT !.ok = @ /\ Len(s.heap) < MAX_NUM_EVENTS,
            !.heap = Append(@, event)]

\* An account gets back what a leaf that is off the book had locked.
CancelSlotOf(s, a, slot, quantity) ==
  With(cancel_slot(s.oo[a], slot, quantity), LAMBDA acc :
    [s EXCEPT !.ok = @ /\ ~is_free_slot(s.oo[a], slot) /\ Sound(acc),
              !.oo[a] = acc])

\* Variant with a bug: the market does not count the maker's fee.
ExecuteMaker_NotAccrued(s, fill) ==
  LET acc == execute_maker(s.oo[fill.maker], fill)
  IN  [s EXCEPT !.ok = @ /\ Sound(acc), !.oo[fill.maker] = acc]

\* A maker is paid, and the market books the maker's fee.
ExecuteMaker(s, fill) ==
  With(execute_maker(s.oo[fill.maker], fill), LAMBDA acc :
    LET fees == FillTerms(fill).fees
    IN  [s EXCEPT
         !.ok = /\ @ /\ Sound(acc)
                /\ fill.maker_out => ~is_free_slot(s.oo[fill.maker], fill.maker_slot),
         !.oo[fill.maker] = acc,
         !.mkt.referrer_rebates_accrued = @ + fees,
         !.mkt.fees_accrued = @ + fees])

\* me is who places the order: an open orders account, or the signer of
\* place_take_order, which has none.  rem are the accounts passed along so that
\* their events need not wait.
process_out_event(s, event, me, rem) ==
  IF event.owner = me \/ event.owner \in rem
  THEN CancelSlotOf(s, event.owner, event.owner_slot, event.quantity)
  ELSE push_back(s, event)

process_fill_event(m, fill, rem) ==
  IF m.filled < FILL_EVENT_REMAINING_LIMIT /\ fill.maker \in rem
  THEN [m EXCEPT !.s = ExecuteMaker(m.s, fill), !.filled = @ + 1]
  ELSE [m EXCEPT !.s = push_back(m.s, fill)]

-----------------------------------------------------------------------------
(* Matching.  The loop's state m: the instruction's s, the base and quote  *)
(* lots still wanted, the quote lots matched with oneself, the makers'     *)
(* rebates, the invalid orders dropped, the fills settled on the spot, the *)
(* matches left, where to post the rest, and whether the loop has ended.   *)
(* The program applies the changes to the book after the loop; the loop    *)
(* walks over items listed before it, so applying them at once is the same.*)

RemoveLeaf(s, side, leaf) == [s EXCEPT !.book[side] = remove_leaf(@, leaf)]

\* A leaf is reduced or, when nothing is left of it, removed.
Reduce(s, side, leaf, quantity) ==
  LET gone == RemoveLeaf(s, side, leaf)
  IN  IF quantity = leaf.quantity THEN gone
      ELSE [gone EXCEPT !.book[side].leaves =
              @ \cup {[leaf EXCEPT !.quantity = @ - quantity]}]

Stop(m) == [m EXCEPT !.stop = TRUE]

\* Variant with a bug: what may not take any more rests on the book.
StopUnposted_Posts(m) == Stop(m)

StopUnposted(m) == [m EXCEPT !.stop = TRUE, !.post = NoTree]

\* Variant with a bug: the owner of the dropped order is not told.
DropInvalid_Silently(m, side, leaf, me, rem) ==
  IF m.dropped >= DROP_EXPIRED_ORDER_LIMIT THEN m
  ELSE [m EXCEPT !.dropped = @ + 1, !.s = RemoveLeaf(@, side, leaf)]

\* An order that expired or is beyond its peg limit is dropped, within a limit.
DropInvalid(m, side, leaf, me, rem) ==
  IF m.dropped >= DROP_EXPIRED_ORDER_LIMIT THEN m
  ELSE [m EXCEPT !.dropped = @ + 1,
                 !.s = RemoveLeaf(process_out_event(m.s, OutEvent(side, leaf), me, rem),
                                  side, leaf)]

Fill(m, order, item, quantity, me, rem) ==
  LET leaf == item.leaf
      other_side == invert_side(order.side)
      quote == quantity * item.price
      self == leaf.owner = me
      fill == [kind |-> "Fill", taker_side |-> order.side,
               maker_out |-> quantity = leaf.quantity,
               maker_slot |-> leaf.owner_slot, maker |-> leaf.owner, taker |-> me,
               price |-> item.price, peg_limit |-> leaf.peg_limit,
               quantity |-> quantity]
      matched ==
        [m EXCEPT
           !.base = @ - quantity,
           !.quote = @ - quote,
           !.limit = @ - 1,
           !.decremented = @ + IF self THEN quote ELSE 0,
           !.rebates = @ + IF self THEN 0 ELSE maker_rebate_floor(quote * quote_lot_size),
           !.s = Reduce(m.s, other_side, leaf, quantity)]
  IN  process_fill_event(matched, fill, rem)

\* One round of the loop, with the next opposing item.
MatchStep(m, order, price_lots, item, me, rem) ==
  LET leaf == item.leaf
      other_side == invert_side(order.side)
      by_quote == m.quote \div item.price
      quantity == Min({m.base, leaf.quantity, by_quote})
  IN  IF m.stop \/ ~m.s.ok THEN m
      ELSE IF m.base = 0 \/ m.quote = 0 THEN Stop(m)
      ELSE IF item.state # "Valid" THEN DropInvalid(m, other_side, leaf, me, rem)
      ELSE IF ~is_price_within_limit(order.side, item.price, price_lots) THEN Stop(m)
      ELSE IF is_post_only(order) \/ m.limit = 0 \/ by_quote = 0 THEN StopUnposted(m)
      ELSE IF leaf.owner = me /\ order.self_trade_behavior = "AbortTransaction"
      THEN [m EXCEPT !.s.ok = FALSE]
      ELSE IF leaf.owner = me /\ order.self_trade_behavior = "CancelProvide"
      THEN [m EXCEPT !.s = RemoveLeaf(CancelSlotOf(@, me, leaf.owner_slot, leaf.quantity),
                                      other_side, leaf)]
      ELSE Fill(m, order, item, quantity, me, rem)

\* The quote lots a match may use: a taking bid keeps its fee back.
order_max_quote_lots(order) ==
  IF order.side = "Bid" /\ ~is_post_only(order)
  THEN subtract_taker_fees(order.max_quote_lots_including_fees)
  ELSE order.max_quote_lots_including_fees

Match(s, order, price_lots, oracle, now, limit, me, rem) ==
  LET other_side == invert_side(order.side)
  IN  FoldLeft(LAMBDA m, item : MatchStep(m, order, price_lots, item, me, rem),
               [s |-> s, base |-> order.max_base_lots,
                quote |-> order_max_quote_lots(order),
                decremented |-> 0, rebates |-> 0, dropped |-> 0, filled |-> 0,
                limit |-> limit, post |-> post_target(order), stop |-> FALSE],
               iter_all(other_side, s.book[other_side], oracle, now))

-----------------------------------------------------------------------------
(* What the order took and pays for it. *)

\* Variant with a bug: the makers' rebates are not taken out of the fee.
Taken_RebatesTwice(order, m) ==
  LET base_lots == order.max_base_lots - m.base
      quote_lots == order_max_quote_lots(order) - m.quote
      charged == (quote_lots - m.decremented) * quote_lot_size
      fees == IF charged > 0 THEN taker_fees_ceil(charged) ELSE 0
  IN  [any |-> base_lots > 0 \/ quote_lots > 0, base |-> base_lots * base_lot_size,
       quote_lots |-> quote_lots, quote |-> quote_lots * quote_lot_size,
       fees |-> fees, referrer_amount |-> fees]

Taken(order, m) ==
  LET base_lots == order.max_base_lots - m.base
      quote_lots == order_max_quote_lots(order) - m.quote
      charged == (quote_lots - m.decremented) * quote_lot_size
      fees == IF charged > 0 THEN taker_fees_ceil(charged) ELSE 0
  IN  [any |-> base_lots > 0 \/ quote_lots > 0,
       base |-> base_lots * base_lot_size,
       quote_lots |-> quote_lots,
       quote |-> quote_lots * quote_lot_size,
       fees |-> fees,
       referrer_amount |-> IF charged > 0 THEN fees - m.rebates ELSE 0]

RecordTaken(s, order, t, me) ==
  LET acc == execute_taker(s.oo[me], order.side, t.base, t.quote, t.fees,
                           t.referrer_amount)
      accrued == [s EXCEPT !.ok = @ /\ t.referrer_amount >= 0,
                           !.mkt.fees_accrued = @ + t.referrer_amount]
  IN  IF ~t.any THEN s
      ELSE IF me \notin DOMAIN s.oo THEN accrued
      ELSE [accrued EXCEPT
              !.ok = @ /\ Sound(acc),
              !.oo[me] = acc,
              !.mkt.referrer_rebates_accrued = @ + t.referrer_amount]

-----------------------------------------------------------------------------
(* Posting the rest. *)

\* Variant with a bug: a pegged bid locks funds at the price of the moment.
locking_price_AtOracle(order, price_lots) == price_lots

\* The price at which a posted order locks funds.
locking_price(order, price_lots) ==
  IF order.pegged /\ order.side = "Bid" THEN order.peg_limit ELSE price_lots

\* Base lots that the rest of the budget can post.
book_base_quantity_lots(order, m, t, price) ==
  LET fee_lots == (t.fees + quote_lot_size - 1) \div quote_lot_size
      rest == order.max_quote_lots_including_fees - t.quote_lots - fee_lots
  IN  Min({m.base, (rest - maker_fees_ceil(rest)) \div price})

\* An order is taken off the book and its owner is told.
Evict(s, side, leaf, me, rem) ==
  RemoveLeaf(process_out_event(s, OutEvent(side, leaf), me, rem), side, leaf)

\* If a side is full its worst order goes, provided the new one is better.
EvictWorst(s, side, price_lots, oracle, now, me, rem) ==
  LET worst == worst_item(side, s.book[side], oracle, now)
      better == {item \in worst : is_price_better(side, price_lots, item.price)}
  IN  IF ~is_full(s.book[side]) THEN s
      ELSE IF better = {} THEN [s EXCEPT !.ok = FALSE]
      ELSE Evict(s, side, (CHOOSE item \in better : TRUE).leaf, me, rem)

\* Room on the book: an expired order goes, and if that is not enough the worst.
MakeRoom(s, side, tree, price_lots, oracle, now, me, rem) ==
  LET expired == remove_one_expired(side, s.book[side], tree, now)
      left == IF expired = {} THEN s
              ELSE Evict(s, side, CHOOSE leaf \in expired : TRUE, me, rem)
  IN  With(left, LAMBDA st : EvictWorst(st, side, price_lots, oracle, now, me, rem))

\* Variant with a bug: the fee that is locked is rounded down.
fees_to_lock_RoundedDown(side, quantity, price) ==
  IF side = "Bid" THEN maker_fees_floor(quantity * price * quote_lot_size) ELSE 0

\* The maker fee that an order locks when it is posted.
fees_to_lock(side, quantity, price) ==
  IF side = "Bid" THEN maker_fees_ceil(quantity * price * quote_lot_size) ELSE 0

Post(s, order, tree, price_lots, quantity, oracle, now, me, rem) ==
  LET side == order.side
      price == locking_price(order, price_lots)
      fees == fees_to_lock(side, quantity, price)
      Leaf(acc) ==
        [tree |-> tree,
         price |-> IF order.pegged THEN price_lots - oracle ELSE price_lots,
         id |-> s.mkt.seq_num, owner |-> me,
         owner_slot |-> next_order_slot(acc), quantity |-> quantity,
         timestamp |-> now, time_in_force |-> order.time_in_force,
         peg_limit |-> peg_limit(order), client_id |-> order.client_id]
      Insert(st) ==
        IF st.ok /\ FreeSlots(st.oo[me]) # {} /\ can_insert(st.book[side], tree)
        THEN [st EXCEPT !.book[side] = insert_leaf(@, Leaf(st.oo[me])),
                        !.oo[me] = add_order(@, side, Leaf(@), price)]
        ELSE [st EXCEPT !.ok = FALSE]
  IN  With(MakeRoom([s EXCEPT !.oo[me].locked_maker_fees = @ + fees],
                    side, tree, price_lots, oracle, now, me, rem), Insert)

\* The outcome of an order that fails its transaction.
Refused(s) ==
  [s |-> [s EXCEPT !.ok = FALSE], posted_base |-> 0, posted_quote |-> 0, base |-> 0,
   quote |-> 0, taker_fees |-> 0, maker_fees |-> 0, referrer_amount |-> 0]

\* The end of new_order: the order pays for what it took (t) and its rest,
\* quantity lots at the locking price, is posted.
TakeAndPost(m, t, taken, order, price_lots, oracle, now, me, rem) ==
  LET price == locking_price(order, price_lots)
      quantity == book_base_quantity_lots(order, m, t, price)
      posts == /\ m.post # NoTree
               /\ quantity > 0
               /\ ~(order.pegged /\ is_price_better(order.side, price_lots, order.peg_limit))
      posted == IF posts THEN quantity ELSE 0
      posted_quote == posted * price * quote_lot_size
  IN  IF ~taken.ok \/ (is_fill_or_kill(order) /\ m.base > 0) THEN Refused(taken)
      ELSE [s |-> IF posts
                  THEN Post(taken, order, m.post, price_lots, quantity, oracle, now, me, rem)
                  ELSE taken,
            posted_base |-> posted * base_lot_size,
            posted_quote |-> posted_quote,
            base |-> t.base, quote |-> t.quote, taker_fees |-> t.fees,
            maker_fees |-> fees_to_lock(order.side, posted, price),
            referrer_amount |-> t.referrer_amount]

\* Variant with a bug: every order gets the same number.
gen_order_id_Constant(s) == s

gen_order_id(s) == [s EXCEPT !.mkt.seq_num = @ + 1]

\* new_order: the instruction's state after it and what the order took,
\* posted and owes.
new_order(s0, order, oracle, now, limit, me, rem) ==
  LET s == gen_order_id(s0)
      AtPrice(price_lots) ==
        IF price_lots \notin 1 .. MaxPrice THEN Refused(s)
        ELSE With(Match(s, order, price_lots, oracle, now, limit, me, rem),
                  LAMBDA m : With(Taken(order, m),
                  LAMBDA t : With(RecordTaken(m.s, order, t, me),
                  LAMBDA taken :
                    TakeAndPost(m, t, taken, order, price_lots, oracle, now, me, rem))))
  IN  IF ~s.ok \/ (order.pegged /\ oracle = NoPrice) THEN Refused(s)
      ELSE With(order_price(order, s.book, oracle, now), AtPrice)

-----------------------------------------------------------------------------
(* Cancelling. *)

\* The leaf of an account's order, as a set: empty once the order was filled
\* or dropped, when an event for it waits on the heap.
LeafOf(s, order) ==
  {leaf \in LeavesOf(s.book[order.side], order.tree) : leaf.id = order.id}

\* Orderbook::cancel_order for the order in a slot of account a.
book_cancel_order(s, a, slot) ==
  LET order == s.oo[a].open_orders[slot]
      leaf == CHOOSE l \in LeafOf(s, order) : TRUE
  IN  RemoveLeaf(CancelSlotOf(s, a, leaf.owner_slot, leaf.quantity), order.side, leaf)

\* Orderbook::cancel_all_orders: up to limit of the account's orders in the
\* wanted slots, in the order of the slots.  An order that left the book
\* already counts too.
book_cancel_all(s, a, limit, wanted) ==
  LET CancelNext(c, slot) ==
        LET order == c.s.oo[a].open_orders[slot]
            leaves == LeafOf(c.s, order)
        IN  IF order.id = 0 \/ slot \notin wanted \/ c.limit = 0 THEN c
            ELSE IF leaves = {} THEN [c EXCEPT !.limit = @ - 1]
            ELSE [s |-> book_cancel_order(c.s, a, slot),
                  limit |-> c.limit - 1,
                  quantity |-> c.quantity + (CHOOSE l \in leaves : TRUE).quantity]
  IN  FoldLeft(LAMBDA c, slot : With(c, LAMBDA d : CancelNext(d, slot)),
               [s |-> s, limit |-> limit, quantity |-> 0],
               [i \in 1 .. MAX_OPEN_ORDERS |-> i - 1])
=============================================================================
