---------------------------- MODULE ClientQuotes ----------------------------
(***************************************************************************)
(* What the client libraries foretell of a market: the simulation of a     *)
(* taking order that swap routers and market makers run against a copy of  *)
(* the book (lib/client/src/book.rs), the quote made from it               *)
(* (lib/client/src/jup.rs), and the accounts to pass along so that the     *)
(* makers are settled at once.  The program's own matching is Orderbook.   *)
(***************************************************************************)
EXTENDS OpenBook

CONSTANTS
  MAXIMUM_TAKEN_ORDERS,  \* orders a quote goes through (45)
  Budgets,               \* [base, quote] lots to ask amounts for
  InAmounts,             \* native amounts to ask a quote for
  MaxQuoteLots           \* stands for market.max_quote_lots()

ASSUME QuotesAssumption ==
  /\ MAXIMUM_TAKEN_ORDERS \in Nat
  /\ Budgets \subseteq [base : Nat, quote : Nat]

-----------------------------------------------------------------------------
(* book.rs.  The walk's state q: the lots still wanted, the makers'        *)
(* rebates, the accounts listed, the counts of invalid orders and of fills *)
(* listed, the matches left, and whether the walk has ended.               *)

\* Variant with a bug: the owners of invalid orders are not listed.
ListInvalid_Not(q, leaf) == q

\* An invalid order's owner is listed unless that was done often enough.
ListInvalid(q, leaf) ==
  IF q.dropped >= DROP_EXPIRED_ORDER_LIMIT THEN q
  ELSE [q EXCEPT !.accounts = @ \cup {leaf.owner}, !.dropped = @ + 1]

IterateStep(q, item) ==
  LET by_quote == q.quote \div item.price
      quantity == Min({q.base, item.leaf.quantity, by_quote})
      quote == quantity * item.price
      listed == q.filled < FILL_EVENT_REMAINING_LIMIT
  IN  IF q.stop THEN q
      ELSE IF item.state # "Valid" THEN ListInvalid(q, item.leaf)
      ELSE IF q.base = 0 \/ q.quote = 0 \/ q.limit = 0 \/ by_quote = 0
      THEN [q EXCEPT !.stop = TRUE]
      ELSE [q EXCEPT !.base = @ - quantity, !.quote = @ - quote, !.limit = @ - 1,
                     !.rebates = @ + maker_rebate_floor(quote * quote_lot_size),
                     !.accounts = IF listed THEN @ \cup {item.leaf.owner} ELSE @,
                     !.filled = IF listed THEN @ + 1 ELSE @]

\* Variant with a bug: the fee is not kept back from a bid's budget.
QuoteBudget_FeesIncluded(side, max_quote_lots_including_fees) ==
  max_quote_lots_including_fees

QuoteBudget(side, max_quote_lots_including_fees) ==
  IF side = "Bid" THEN subtract_taker_fees(max_quote_lots_including_fees)
  ELSE max_quote_lots_including_fees

\* iterate_book and amounts_from_book: native totals, the makers' rebates (called
\* fee) and the accounts.
amounts_from_book(side, max_base_lots, max_quote_lots_including_fees, now_ts) ==
  LET other == invert_side(side)
      budget == QuoteBudget(side, max_quote_lots_including_fees)
      start == [base |-> max_base_lots, quote |-> budget, rebates |-> 0, accounts |-> {},
                dropped |-> 0, filled |-> 0, limit |-> MAXIMUM_TAKEN_ORDERS, stop |-> FALSE]
      Totals(q) ==
        [base |-> (max_base_lots - q.base) * base_lot_size,
         quote |-> (budget - q.quote) * quote_lot_size,
         fee |-> q.rebates,
         accounts |-> q.accounts,
         not_enough_liquidity |-> IF side = "Ask" THEN q.base # 0 ELSE q.quote # 0]
  IN  With(FoldLeft(IterateStep, start, iter_all(other, book[other], oracle, now_ts)), Totals)

-----------------------------------------------------------------------------
(* jup.rs *)

\* The budgets of a quote.  The division binds tighter than the sum.
quote_budget(side, input_amount) ==
  IF side = "Bid"
  THEN [base |-> MaxBaseLots,
        quote |-> input_amount + (quote_lot_size - 1) \div quote_lot_size]
  ELSE [base |-> input_amount + (base_lot_size - 1) \div base_lot_size,
        quote |-> MaxQuoteLots]

\* The quote is made for the time 0.
quote(side, input_amount) ==
  LET budget == quote_budget(side, input_amount)
      Amounts(a) ==
        [in_amount  |-> IF side = "Bid" THEN a.quote - a.fee ELSE a.base,
         out_amount |-> IF side = "Bid" THEN a.base ELSE a.quote + a.fee]
  IN  With(amounts_from_book(side, budget.base, budget.quote, 0), Amounts)

-----------------------------------------------------------------------------
(* What is compared with. *)

\* A market order of the program with these budgets, by a direct taker.
Taking(taker, side, max_base_lots, max_quote_lots_including_fees, rem) ==
  new_order(Loaded,
            [side |-> side, type |-> "Market", price |-> 1, client_id |-> 0,
             max_base_lots |-> max_base_lots,
             max_quote_lots_including_fees |-> max_quote_lots_including_fees,
             time_in_force |-> 0, self_trade_behavior |-> "DecrementTake",
             pegged |-> FALSE, peg_limit |-> NoPegLimit],
            oracle, now, MAXIMUM_TAKEN_ORDERS, taker, rem)

\* The amounts foretold for a budget are those the program would take for it at
\* that moment, for any book: fixed and pegged, valid and expired orders, fees
\* kept back, rebates rounded down order by order.
QuotesMatchTakes ==
  \A taker \in Takers, side \in Sides, b \in Budgets :
    \A a \in {amounts_from_book(side, b.base, b.quote, now)},
       r \in {Taking(taker, side, b.base, b.quote, {})} :
      r.s.ok => /\ a.base = r.base
                /\ a.quote = r.quote
                /\ a.fee = r.taker_fees - r.referrer_amount

\* The accounts listed with the amounts are as good as all accounts: whatever can
\* be settled on the spot is, and only fills beyond that limit wait for the crank
\* and cost the penalty.
ListedAccountsSuffice ==
  \A taker \in Takers, side \in Sides, b \in Budgets :
    \A a \in {amounts_from_book(side, b.base, b.quote, now)} :
      Taking(taker, side, b.base, b.quote, a.accounts).s
        = Taking(taker, side, b.base, b.quote, Accounts).s

-----------------------------------------------------------------------------
(* What the client's comments and tests say and its code does not do. *)

\* jup.rs 147: "quote params can have exact in (which is implemented here)": a
\* quote never asks for more than the amount that goes in.
ExactIn ==
  \A side \in Sides, amount \in InAmounts : quote(side, amount).in_amount <= amount

\* jup.rs 509: "assert_eq!(output_amount - initial_amount, quote.out_amount)": the
\* swap that a quote stands for pays what was quoted.
QuotedOutIsPaid ==
  \A taker \in Takers, side \in Sides, amount \in InAmounts :
    LET budget == quote_budget(side, amount)
    IN  \A r \in {Taking(taker, side, budget.base, budget.quote, {})} :
          r.s.ok => quote(side, amount).out_amount =
                      IF side = "Bid" THEN r.base
                      ELSE r.quote - (r.taker_fees - r.referrer_amount)
=============================================================================
