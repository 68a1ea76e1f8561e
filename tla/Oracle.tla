------------------------------- MODULE Oracle -------------------------------
(***************************************************************************)
(* The price a market takes from its oracles (state/oracle.rs and          *)
(* Market::oracle_price_lots): the feeds as their publishers change them,  *)
(* and what the program reads out of a feed of each type, checks and       *)
(* combines.  The result is the oracle of OpenBook: a price in lots or     *)
(* none.                                                                   *)
(*                                                                         *)
(* Prices and deviations are integers of a common unit; quotients are      *)
(* exact, where the code has the precision of its number types.  A price   *)
(* of 0 is where the quotients become infinite or no number.               *)
(***************************************************************************)
EXTENDS Integers, FiniteSets

CONSTANTS
  OracleTypes,     \* the types to consider
  Prices, Deviations,
  ConfFilters,     \* conf_filter, in hundredths
  MaxStalenesses,  \* max_staleness_slots, -1 for any
  base_unit, quote_unit,          \* native tokens in a token: 10 ^ decimals
  base_lot_size, quote_lot_size,
  MaxSlot          \* bound: the last slot

ASSUME OracleAssumption ==
  /\ OracleTypes \subseteq {"Pyth", "Stub", "SwitchboardV1", "SwitchboardV2", "RaydiumCLMM"}
  /\ Prices \subseteq Int /\ Deviations \subseteq Nat
  /\ ConfFilters \subseteq Nat /\ MaxStalenesses \subseteq Nat \cup {-1}
  /\ {base_unit, quote_unit, base_lot_size, quote_lot_size} \subseteq Nat \ {0}
  /\ MaxSlot \in Nat

Abs(i) == IF i < 0 THEN -i ELSE i

VARIABLES
  now_slot,
  market,  \* its oracles, their type and the oracle_config
  feeds    \* [market.oracles -> what is published, when, and what was before]

vars == <<now_slot, market, feeds>>

\* A published price, with the slot it was published in and, for Switchboard, the
\* slot its round was opened in.
Published(price, deviation, round_open_slot) ==
  [price |-> price, deviation |-> deviation, slot |-> now_slot,
   round_open_slot |-> round_open_slot]

\* good: the feed's own mark that the price can be used (Pyth: Trading; Switchboard:
\* enough responses).
Feed(agg, prev, good) == [agg |-> agg, prev |-> prev, good |-> good, closed |-> FALSE]

\* The feeds of a market are of one type, and oracle_b comes with an oracle_a.
create_market ==
  /\ market \in [oracles : {{"a"}, {"a", "b"}}, type : OracleTypes,
                 conf_filter : ConfFilters, max_staleness_slots : MaxStalenesses]
  /\ now_slot = 1
  /\ \E price \in {p \in Prices : p > 0} :
       LET first == [price |-> price, deviation |-> 0, slot |-> 1, round_open_slot |-> 1]
       IN  feeds = [o \in market.oracles |-> Feed(first, first, TRUE)]

Init == create_market

-----------------------------------------------------------------------------
(* The publishers *)

Tick == now_slot < MaxSlot /\ now_slot' = now_slot + 1 /\ UNCHANGED <<market, feeds>>

\* A price account keeps the last price that was traded.
PythUpdate(o, price, deviation, trading) ==
  /\ market.type = "Pyth"
  /\ feeds' = [feeds EXCEPT ![o] =
       Feed(Published(price, deviation, now_slot), IF @.good THEN @.agg ELSE @.prev, trading)]
  /\ UNCHANGED <<now_slot, market>>

SwitchboardUpdate(o, price, deviation, round_open_slot, enough) ==
  /\ market.type \in {"SwitchboardV1", "SwitchboardV2"}
  /\ round_open_slot \in {now_slot - 1, now_slot}
  /\ LET round == Published(price, deviation, round_open_slot)
     IN  feeds' = [feeds EXCEPT ![o] = Feed(round, round, enough)]
  /\ UNCHANGED <<now_slot, market>>

PoolTrade(o, price) ==
  /\ market.type = "RaydiumCLMM" /\ price >= 0
  /\ LET pool == Published(price, 0, now_slot)
     IN  feeds' = [feeds EXCEPT ![o] = Feed(pool, pool, TRUE)]
  /\ UNCHANGED <<now_slot, market>>

\* A stub is created with no deviation and keeps none.
stub_oracle_set(o, price) ==
  /\ market.type = "Stub" /\ ~feeds[o].closed
  /\ LET stub == Published(price, 0, now_slot)
     IN  feeds' = [feeds EXCEPT ![o] = Feed(stub, stub, TRUE)]
  /\ UNCHANGED <<now_slot, market>>

stub_oracle_close(o) ==
  /\ market.type = "Stub" /\ ~feeds[o].closed
  /\ feeds' = [feeds EXCEPT ![o].closed = TRUE]
  /\ UNCHANGED <<now_slot, market>>

stub_oracle_create(o, price) ==
  /\ market.type = "Stub" /\ feeds[o].closed
  /\ LET stub == Published(price, 0, now_slot)
     IN  feeds' = [feeds EXCEPT ![o] = Feed(stub, stub, TRUE)]
  /\ UNCHANGED <<now_slot, market>>

Next ==
  \/ Tick
  \/ \E o \in market.oracles, price \in Prices :
       \/ \E deviation \in Deviations, good \in BOOLEAN :
            \/ PythUpdate(o, price, deviation, good)
            \/ \E open \in 0..MaxSlot : SwitchboardUpdate(o, price, deviation, open, good)
       \/ PoolTrade(o, price) \/ stub_oracle_set(o, price) \/ stub_oracle_create(o, price)
  \/ \E o \in market.oracles : stub_oracle_close(o)

Spec == Init /\ [][Next]_vars

-----------------------------------------------------------------------------
(* What the program reads: state/oracle.rs *)

\* Stands for u64::MAX: no slot is that late.
AlwaysFresh == MaxSlot

State(price, deviation, last_update_slot) ==
  [price |-> price, deviation |-> deviation, last_update_slot |-> last_update_slot]

\* Variant with a bug: the previous price is dated with the current slot.
pyth_get_price_Current(feed) ==
  LET p == IF feed.good THEN feed.agg ELSE feed.prev
  IN  State(p.price, p.deviation, feed.agg.slot)

\* The aggregate price if it is trading, otherwise the previous one with its slot.
pyth_get_price(feed) ==
  LET p == IF feed.good THEN feed.agg ELSE feed.prev
  IN  State(p.price, p.deviation, p.slot)

oracle_state_unchecked(feed) ==
  CASE market.type = "Pyth" -> pyth_get_price(feed)
    [] market.type = "Stub" ->
         State(feed.agg.price, feed.agg.deviation,
               IF feed.agg.slot = 0 THEN AlwaysFresh ELSE feed.agg.slot)
    [] market.type \in {"SwitchboardV1", "SwitchboardV2"} ->
         State(feed.agg.price, feed.agg.deviation, feed.agg.round_open_slot)
    [] OTHER -> State(feed.agg.price, 0, AlwaysFresh)

\* The cases in which the instruction fails.
Unreadable(feed) ==
  \/ feed.closed
  \/ market.type = "SwitchboardV2" /\ ~feed.good
  \/ market.type # "Stub" /\ oracle_state_unchecked(feed).price < 0

is_stale(state) ==
  /\ market.max_staleness_slots >= 0
  /\ state.last_update_slot + market.max_staleness_slots < now_slot

has_valid_confidence(state) ==
  ~(state.deviation * 100 > market.conf_filter * state.price)

\* Variant with a bug: the deviations of the two feeds are averaged.
relative_var_exceeds_Mean(s, t) ==
  10000 * (s.deviation * s.deviation * t.price * t.price +
           t.deviation * t.deviation * s.price * s.price)
    > 2 * market.conf_filter * market.conf_filter * s.price * s.price * t.price * t.price

\* (ds/ps)^2 + (dt/pt)^2 > conf_filter^2, for prices other than 0.
relative_var_exceeds(s, t) ==
  10000 * (s.deviation * s.deviation * t.price * t.price +
           t.deviation * t.deviation * s.price * s.price)
    > market.conf_filter * market.conf_filter * s.price * s.price * t.price * t.price

\* 0/0 is no number, and no comparison with it holds; a deviation over 0 is infinite.
has_valid_combined_confidence(s, t) ==
  IF \E u \in {s, t} : u.price = 0 /\ u.deviation = 0 THEN TRUE
  ELSE s.price # 0 /\ t.price # 0 /\ ~relative_var_exceeds(s, t)

-----------------------------------------------------------------------------
(* Market: state/market.rs.  A result is a set of prices in lots: one or none. *)

\* price * decimal_adj * base_lot_size / quote_lot_size, rounded down.
native_price_to_lot(num, den) ==
  LET sign == IF den < 0 THEN -1 ELSE 1
  IN  (sign * num * quote_unit * base_lot_size) \div (Abs(den) * base_unit * quote_lot_size)

oracle_price_from_a(a) ==
  IF is_stale(a) \/ ~has_valid_confidence(a) THEN {} ELSE {native_price_to_lot(a.price, 1)}

\* A quotient by 0 has no number of the price type.
oracle_price_from_a_and_b(a, b) ==
  IF \/ is_stale(a) \/ is_stale(b)
     \/ ~has_valid_combined_confidence(a, b)
     \/ b.price = 0
  THEN {} ELSE {native_price_to_lot(a.price, b.price)}

oracle_price_lots ==
  IF \E o \in market.oracles : Unreadable(feeds[o]) THEN {}
  ELSE IF "b" \in market.oracles
  THEN oracle_price_from_a_and_b(oracle_state_unchecked(feeds["a"]),
                                 oracle_state_unchecked(feeds["b"]))
  ELSE oracle_price_from_a(oracle_state_unchecked(feeds["a"]))

-----------------------------------------------------------------------------
(* Properties *)

\* A price pegged orders move with is made of prices that were really published
\* within max_staleness_slots and that the feed itself stood by at the time,
\* whatever each feed has done since: fallen silent, lost its status, closed.
PriceIsRecent ==
  LET Recent(o) ==
        {p \in (IF feeds[o].good \/ market.type # "Pyth" THEN {feeds[o].agg} ELSE {})
                 \cup {feeds[o].prev} :
           \/ market.max_staleness_slots < 0 \/ market.type = "RaydiumCLMM"
           \/ p.slot + market.max_staleness_slots >= now_slot}
      Made == IF "b" \in market.oracles
              THEN {native_price_to_lot(p.price, q.price) :
                      p \in Recent("a"), q \in {r \in Recent("b") : r.price # 0}}
              ELSE {native_price_to_lot(p.price, 1) : p \in Recent("a")}
  IN  oracle_price_lots \subseteq Made

\* The combination is never less strict than its parts: two feeds give a price other
\* than 0 only when each of them would have been trusted alone.  (Stubs have no
\* deviation, and nothing keeps their prices from being negative.)
CombinedNoLooser ==
  market.type # "Stub" /\ oracle_price_lots \ {0} # {} =>
    \A o \in market.oracles : has_valid_confidence(oracle_state_unchecked(feeds[o]))

\* oracle.rs 209: "Returns the price of one native base token, in native quote
\* tokens".
StatePriceIsNative ==
  \A o \in market.oracles : \E p \in {feeds[o].agg, feeds[o].prev} :
    oracle_state_unchecked(feeds[o]).price * base_unit = p.price * quote_unit
=============================================================================
