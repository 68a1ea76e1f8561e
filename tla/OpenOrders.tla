----------------------------- MODULE OpenOrders -----------------------------
(***************************************************************************)
(* The open orders account of state/open_orders_account.rs: a trader's     *)
(* position in a market and the slots of the trader's orders.  Operators   *)
(* take an account record and return the changed one.  Amounts that are    *)
(* unsigned in the program must not become negative (the build checks for  *)
(* overflow): an operator whose result is not Sound stands for a failed    *)
(* transaction.                                                            *)
(*                                                                         *)
(* The cumulative volumes of the position are display only, nothing reads  *)
(* them; they are left out.                                                *)
(***************************************************************************)
EXTENDS MarketFees

CONSTANT MAX_OPEN_ORDERS   \* order slots of an account (24 in the program)

ASSUME OpenOrdersAssumption == MAX_OPEN_ORDERS \in Nat \ {0}

OrderSlots == 0 .. MAX_OPEN_ORDERS - 1

\* OpenOrder::default(): a free slot.  Order ids start at 1, so id = 0 stands
\* for the is_free flag.
FreeSlot == [id |-> 0, side |-> "Bid", tree |-> "Fixed", client_id |-> 0,
             locked_price |-> 0]
is_free_slot(acc, slot) == acc.open_orders[slot].id = 0

EmptyAccount ==
  [open |-> TRUE,
   bids_base_lots |-> 0, asks_base_lots |-> 0, bids_quote_lots |-> 0,
   base_free_native |-> 0, quote_free_native |-> 0,
   locked_maker_fees |-> 0, referrer_rebates_available |-> 0,
   penalty_heap_count |-> 0,
   open_orders |-> [slot \in OrderSlots |-> FreeSlot]]
ClosedAccount == [EmptyAccount EXCEPT !.open = FALSE]

\* Position::is_empty, the condition for closing an account.
is_empty_position(acc) ==
  [acc EXCEPT !.open_orders = EmptyAccount.open_orders] = EmptyAccount

Sound(acc) ==
  /\ acc.base_free_native >= 0
  /\ acc.quote_free_native >= 0
  /\ acc.locked_maker_fees >= 0
  /\ acc.referrer_rebates_available >= 0

FreeSlots(acc) == {slot \in OrderSlots : is_free_slot(acc, slot)}
next_order_slot(acc) ==
  CHOOSE slot \in FreeSlots(acc) : \A other \in FreeSlots(acc) : slot <= other

\* Lots leave the position when an order shrinks or goes.
TakeLots(acc, side, quantity, locked_price) ==
  IF side = "Bid"
  THEN [acc EXCEPT !.bids_base_lots = @ - quantity,
                   !.bids_quote_lots = @ - quantity * locked_price]
  ELSE [acc EXCEPT !.asks_base_lots = @ - quantity]

add_order(acc, side, leaf, locked_price) ==
  [TakeLots(acc, side, -leaf.quantity, locked_price) EXCEPT
     !.open_orders[leaf.owner_slot] =
        [id |-> leaf.id, side |-> side, tree |-> leaf.tree,
         client_id |-> leaf.client_id, locked_price |-> locked_price]]

\* The slot must not be free (asserted).
remove_order(acc, slot, quantity, locked_price) ==
  [TakeLots(acc, acc.open_orders[slot].side, quantity, locked_price)
     EXCEPT !.open_orders[slot] = FreeSlot]

\* An order leaves unfilled: what it locked becomes free again.
cancel_slot(acc, slot, quantity) ==
  LET order == acc.open_orders[slot]
      quote == quantity * order.locked_price * quote_lot_size
      fees == maker_fees_ceil(quote)
      freed == IF order.side = "Bid"
               THEN [acc EXCEPT !.quote_free_native = @ + quote + fees,
                                !.locked_maker_fees = @ - fees]
               ELSE [acc EXCEPT !.base_free_native = @ + quantity * base_lot_size]
  IN  remove_order(freed, slot, quantity, order.locked_price)

\* What a fill event means for its maker.
FillTerms(fill) ==
  LET side == IF fill.taker_side = "Bid" THEN "Ask" ELSE "Bid"
      self_trade == fill.maker = fill.taker
      quote == fill.quantity * fill.price * quote_lot_size
      fees == IF self_trade THEN 0 ELSE maker_fees_floor(quote)
      pegged_bid == fill.peg_limit # -1 /\ side = "Bid"
      locked_price == IF pegged_bid THEN fill.peg_limit ELSE fill.price
      locked_quote == fill.quantity * locked_price * quote_lot_size
      locked_fees == IF pegged_bid THEN maker_fees_floor(locked_quote) ELSE fees
  IN  [side |-> side,
       quote |-> quote,
       fees |-> fees,
       rebate |-> IF self_trade THEN 0 ELSE maker_rebate_floor(quote),
       locked_price |-> locked_price,
       locked_fees |-> locked_fees,
       \* a pegged bid is locked at its limit and gets the difference back
       above_fill_price |-> (locked_quote - quote) + (locked_fees - fees)]

\* The maker's account after a fill (the market books its fee in ExecuteMaker).
execute_maker(acc, fill) ==
  LET t == FillTerms(fill)
      paid == IF t.side = "Bid"
              THEN [acc EXCEPT
                      !.base_free_native = @ + fill.quantity * base_lot_size,
                      !.quote_free_native = @ + t.rebate + t.above_fill_price,
                      !.locked_maker_fees = @ - t.locked_fees,
                      !.referrer_rebates_available = @ + t.fees]
              ELSE [acc EXCEPT
                      !.quote_free_native = @ + t.quote + t.rebate - t.fees,
                      !.referrer_rebates_available = @ + t.fees]
  IN  IF fill.maker_out
      THEN remove_order(paid, fill.maker_slot, fill.quantity, t.locked_price)
      ELSE TakeLots(paid, t.side, fill.quantity, t.locked_price)

\* Variant with a bug: a taking ask is paid in full, its fee is not kept.
execute_taker_NoFee(acc, taker_side, base, quote, taker_fees, referrer_amount) ==
  LET earned == [acc EXCEPT !.referrer_rebates_available = @ + referrer_amount]
  IN  IF taker_side = "Bid" THEN [earned EXCEPT !.base_free_native = @ + base]
      ELSE [earned EXCEPT !.quote_free_native = @ + quote]

\* The taker's side of a match is settled at once.
execute_taker(acc, taker_side, base, quote, taker_fees, referrer_amount) ==
  IF taker_side = "Bid"
  THEN [acc EXCEPT !.base_free_native = @ + base,
                   !.referrer_rebates_available = @ + referrer_amount]
  ELSE [acc EXCEPT !.quote_free_native = @ + quote - taker_fees,
                   !.referrer_rebates_available = @ + referrer_amount]
=============================================================================
