----------------------------- MODULE MCOpenBook -----------------------------
(***************************************************************************)
(* Small markets for TLC.  Each configuration takes its instruction        *)
(* arguments from the definitions below.  Fees are tenths (the scale is    *)
(* 10), a base lot is 2 native tokens and a quote lot 3, so that every     *)
(* fee and rebate is rounded.                                              *)
(***************************************************************************)
EXTENDS OpenBookProperties, ClientQuotes

None == {}
NoOracle == {NoPrice}
NeverExpires == {0}
AtOne == {1}
NoSlots == {<< >>}
MiddleFirst == {<< >>, <<2>>}
RebateRate == -1
LargeRebate == -2
WholeLots == [base |-> 2, quote |-> 12]
Purse == [base |-> 12, quote |-> 90]
Three == {3}
OneOrMany == {1, 255}
Many == {255}
OneDeposit == {WholeLots}

Order(side, type, price, base_lots, quote_lots, client_id) ==
  [side |-> side, type |-> type, price |-> price, max_base_lots |-> base_lots,
   max_quote_lots_including_fees |-> quote_lots, client_id |-> client_id, expiry |-> 0,
   self_trade_behavior |-> "DecrementTake", pegged |-> FALSE, peg_limit |-> NoPegLimit]
Until(args, expiry) == [args EXCEPT !.expiry = expiry]
SelfTrade(args, behavior) == [args EXCEPT !.self_trade_behavior = behavior]
Pegged(args, offset, limit) ==
  [args EXCEPT !.price = offset, !.pegged = TRUE, !.peg_limit = limit]

\* A bid and an ask that cross, with fixed prices and pegged with a limit; what
\* is left of the first one's budget is not a whole number of lots.
FeesAndPegs ==
  {Order("Bid", "Limit", 3, 3, 5, 1), Order("Ask", "Limit", 2, 1, 20, 2),
   Pegged(Order("Bid", "Limit", 0, 2, 20, 1), 1, 4),
   Pegged(Order("Ask", "Limit", 0, 1, 20, 2), 0, 2)}
MarketTakes ==
  {Order("Bid", "Market", 1, 3, 9, 0), Order("Ask", "ImmediateOrCancel", 2, 2, 20, 0)}
MovingOracle == {NoPrice, 2, 4}

\* Orders that cross, expire, slide and meet their own, with ample budgets.
BookOrders ==
  {SelfTrade(Order("Bid", "Limit", 3, 2, 20, 1), "CancelProvide"),
   Until(Order("Bid", "PostOnlySlide", 2, 1, 20, 1), 1),
   Order("Ask", "Limit", 2, 3, 20, 2),
   SelfTrade(Order("Ask", "FillOrKill", 3, 3, 20, 2), "AbortTransaction")}
LotBudgets == {[base |-> 1, quote |-> 30], [base |-> 4, quote |-> 7]}

\* The budget of the bid covers 5 lots and their fees, and one lot more.
BudgetOrders == {Order("Bid", "Limit", 1, 9, 7, 1), Order("Ask", "Limit", 1, 6, 20, 2)}

\* A bid that meets the asks of its own account.
OwnOrders ==
  {Order("Bid", "Limit", 3, 2, 20, 1), Order("Ask", "Limit", 2, 1, 20, 2),
   Order("Ask", "Limit", 3, 2, 20, 2)}

\* An ask that expires, and a bid that may find nothing but that.
OnlyExpired ==
  {Until(Order("Ask", "Limit", 3, 2, 20, 2), 1), Order("Bid", "ImmediateOrCancel", 3, 2, 20, 1)}

\* Asks pegged one below and at the oracle price, and a better fixed one.
SkippedPegs ==
  {Pegged(Order("Ask", "Limit", 0, 1, 20, 2), -1, 1),
   Pegged(Order("Ask", "Limit", 0, 1, 20, 2), 1, 1),
   Order("Ask", "Limit", 1, 1, 20, 2)}
FallingOracle == {1, 2}

\* A batch of a bid that takes, one that stays with what is left of the funds, and
\* an ask that expires; they meet those of other batches and each other.
TwoSided ==
  {<<Order("Bid", "ImmediateOrCancel", 2, 1, 3, 0), Order("Bid", "Limit", 2, 1, 9, 0),
     Until(Order("Ask", "Limit", 2, 1, 20, 1), 1)>>}

\* An ask and a bid to quote, that stay or expire.
Standing == {Order("Ask", "Limit", 3, 2, 30, 1), Order("Bid", "Limit", 2, 3, 30, 1)}
Mortal == {Until(Order("Ask", "Limit", 3, 2, 30, 1), 1), Order("Bid", "Limit", 2, 3, 30, 1)}
LargePurse == [base |-> 30, quote |-> 120]
SomeAmounts == {5, 6}
=============================================================================
