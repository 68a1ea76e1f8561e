----------------------------- MODULE MarketFees -----------------------------
(***************************************************************************)
(* The fee arithmetic of state/market.rs.  Fees are fractions of           *)
(* FEES_SCALE_FACTOR of an amount of native quote tokens.  A positive      *)
(* maker_fee is paid by the maker, a negative one is a rebate the taker    *)
(* pays to the maker out of the taker fee.                                 *)
(***************************************************************************)
EXTENDS Integers

CONSTANTS
  FEES_SCALE_FACTOR,  \* 10^6 in the program
  maker_fee,
  taker_fee,
  base_lot_size,      \* native base tokens in a base lot
  quote_lot_size      \* native quote tokens in a quote lot

\* What create_market accepts.
ASSUME FeeAssumption ==
  /\ FEES_SCALE_FACTOR \in Nat \ {0}
  /\ base_lot_size \in Nat \ {0}
  /\ quote_lot_size \in Nat \ {0}
  /\ maker_fee \in -FEES_SCALE_FACTOR .. FEES_SCALE_FACTOR
  /\ taker_fee \in 0 .. FEES_SCALE_FACTOR
  /\ maker_fee >= 0 \/ -maker_fee <= taker_fee

ceil_fee_division(numerator) ==
  (numerator + FEES_SCALE_FACTOR - 1) \div FEES_SCALE_FACTOR

maker_fees_floor(amount) ==
  IF maker_fee > 0 THEN (amount * maker_fee) \div FEES_SCALE_FACTOR ELSE 0

maker_rebate_floor(amount) ==
  IF maker_fee > 0 THEN 0 ELSE (amount * (-maker_fee)) \div FEES_SCALE_FACTOR

maker_fees_ceil(amount) ==
  IF maker_fee > 0 THEN ceil_fee_division(amount * maker_fee) ELSE 0

taker_fees_ceil(amount) == ceil_fee_division(amount * taker_fee)

\* The quote lots a bid may take when its budget includes the taker fee.
subtract_taker_fees(quote) ==
  (quote * FEES_SCALE_FACTOR) \div (FEES_SCALE_FACTOR + taker_fee)
=============================================================================
