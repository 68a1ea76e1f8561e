---------------------------- MODULE OracleProofs ----------------------------
(***************************************************************************)
(* Proofs about the oracles, for any prices, deviations, filters, decimals *)
(* and lot sizes, and for every type of feed.                              *)
(***************************************************************************)
EXTENDS Oracle, TLAPS

\* What a publisher can have published by now.
PublishedValues ==
  [price : Prices, deviation : Deviations \cup {0}, slot : 1 .. now_slot, round_open_slot : Int]
Feeds == [agg : PublishedValues, prev : PublishedValues, good : BOOLEAN, closed : BOOLEAN]

\* The oracles of a market and its configuration.
Markets == [oracles : {{"a"}, {"a", "b"}}, type : OracleTypes,
            conf_filter : ConfFilters, max_staleness_slots : MaxStalenesses]

\* A Switchboard round is closed after it was opened.
RoundsEnd == \A o \in market.oracles : feeds[o].agg.round_open_slot <= feeds[o].agg.slot

\* The inductive invariant: the types, with no slot in the future, and rounds that end.
IInv ==
  /\ now_slot \in Nat \ {0}
  /\ market \in Markets
  /\ feeds \in [market.oracles -> Feeds]
  /\ RoundsEnd

\* A market is created with feeds that have just published.
LEMMA InitIInv == Init => IInv
<1> SUFFICES ASSUME Init PROVE IInv
  OBVIOUS
<1>1. /\ now_slot = 1 /\ market \in Markets
  BY DEF Init, create_market, Markets
<1>2. PICK price \in {p \in Prices : p > 0} :
        LET first == [price |-> price, deviation |-> 0, slot |-> 1, round_open_slot |-> 1]
        IN  feeds = [o \in market.oracles |-> Feed(first, first, TRUE)]
  BY DEF Init, create_market
<1> DEFINE first == [price |-> price, deviation |-> 0, slot |-> 1, round_open_slot |-> 1]
<1>3. first \in PublishedValues
  BY <1>1 DEF PublishedValues
<1>4. feeds = [o \in market.oracles |-> Feed(first, first, TRUE)]
  BY <1>2
<1>5. first.slot = 1 /\ first.round_open_slot = 1
  OBVIOUS
<1> HIDE DEF first
<1>6. Feed(first, first, TRUE) \in Feeds /\ Feed(first, first, TRUE).agg = first
  BY <1>3 DEF Feed, Feeds
<1>7. feeds \in [market.oracles -> Feeds]
  BY <1>4, <1>6
<1>8. \A o \in market.oracles : feeds[o].agg = first
  BY <1>4, <1>6
<1>9. RoundsEnd
  BY <1>5, <1>8 DEF RoundsEnd
<1> QED BY <1>1, <1>7, <1>9 DEF IInv

\* One feed replaced by what its publisher published in this slot, or closed.
LEMMA FeedChanged ==
  ASSUME IInv, UNCHANGED <<now_slot, market>>, NEW o \in market.oracles, NEW feed \in Feeds,
         feed.agg.round_open_slot <= feed.agg.slot, feeds' = [feeds EXCEPT ![o] = feed]
  PROVE  IInv'
<1>1. /\ now_slot' = now_slot /\ market' = market /\ Feeds' = Feeds
  BY DEF Feeds, PublishedValues
<1>2. feeds' \in [market.oracles -> Feeds]
  BY DEF IInv
<1>3. \A q \in market.oracles : feeds'[q].agg.round_open_slot <= feeds'[q].agg.slot
  BY DEF IInv, RoundsEnd
<1>4. now_slot \in Nat \ {0} /\ market \in Markets /\ Markets' = Markets
  BY DEF IInv, Markets
<1>5. RoundsEnd'
  BY <1>1, <1>3 DEF RoundsEnd
<1>6. (feeds \in [market.oracles -> Feeds])'
  BY <1>1, <1>2
<1> QED BY <1>1, <1>4, <1>5, <1>6 DEF IInv

\* What is published now is among the values, whatever else a feed holds.
LEMMA PublishedNow ==
  ASSUME IInv, NEW price \in Prices, NEW deviation \in Deviations \cup {0},
         NEW round_open_slot \in Int
  PROVE  LET p == Published(price, deviation, round_open_slot)
         IN  /\ p \in PublishedValues /\ p.slot = now_slot /\ p.round_open_slot = round_open_slot
             /\ \A q \in PublishedValues, good \in BOOLEAN :
                  Feed(p, q, good) \in Feeds /\ Feed(p, q, good).agg = p
<1>1. now_slot \in 1 .. now_slot
  BY DEF IInv
<1> QED BY <1>1 DEF Published, PublishedValues, Feed, Feeds

\* Every step of a publisher or of the clock preserves the invariant.
LEMMA NextKeeps == IInv /\ [Next]_vars => IInv'
<1> SUFFICES ASSUME IInv, [Next]_vars PROVE IInv'
  OBVIOUS
<1>0. /\ now_slot \in Nat \ {0} /\ market \in Markets /\ feeds \in [market.oracles -> Feeds]
  BY DEF IInv
<1>1. CASE Tick
  <2>1. now_slot' = now_slot + 1 /\ market' = market /\ feeds' = feeds
    BY <1>1 DEF Tick
  <2>2. 1 .. now_slot \subseteq 1 .. (now_slot + 1)
    BY <1>0
  <2>3. PublishedValues \subseteq PublishedValues'
    BY <2>1, <2>2 DEF PublishedValues
  <2>4. Feeds \subseteq Feeds'
    BY <2>3 DEF Feeds
  <2>5. (feeds \in [market.oracles -> Feeds])'
    BY <1>0, <2>1, <2>4
  <2>6. RoundsEnd'
    BY <2>1 DEF IInv, RoundsEnd
  <2>7. (now_slot \in Nat \ {0} /\ market \in Markets)'
    BY <1>0, <2>1 DEF Markets
  <2> QED BY <2>5, <2>6, <2>7 DEF IInv
<1>2. ASSUME NEW o \in market.oracles, NEW price \in Prices, NEW deviation \in Deviations,
             NEW good \in BOOLEAN, PythUpdate(o, price, deviation, good)
      PROVE  IInv'
  <2> DEFINE p == Published(price, deviation, now_slot)
             q == IF feeds[o].good THEN feeds[o].agg ELSE feeds[o].prev
  <2>1. UNCHANGED <<now_slot, market>> /\ feeds' = [feeds EXCEPT ![o] = Feed(p, q, good)]
    BY <1>2 DEF PythUpdate
  <2>2. q \in PublishedValues
    BY <1>0 DEF Feeds
  <2>3. p.slot = now_slot /\ p.round_open_slot = now_slot
        /\ Feed(p, q, good) \in Feeds /\ Feed(p, q, good).agg = p
    <3> HIDE DEF q
    <3>1. now_slot \in Int
      BY <1>0
    <3> QED BY <2>2, <3>1, PublishedNow
  <2> HIDE DEF p, q
  <2>4. Feed(p, q, good).agg.round_open_slot <= Feed(p, q, good).agg.slot
    BY <1>0, <2>3
  <2> QED BY <2>1, <2>3, <2>4, FeedChanged
<1>3. ASSUME NEW o \in market.oracles, NEW price \in Prices, NEW deviation \in Deviations \cup {0},
             NEW open \in Int, open <= now_slot, NEW good \in BOOLEAN,
             UNCHANGED <<now_slot, market>>,
             feeds' = [feeds EXCEPT ![o] = Feed(Published(price, deviation, open),
                                                Published(price, deviation, open), good)]
      PROVE  IInv'
  <2> DEFINE p == Published(price, deviation, open)
  <2>1. /\ p \in PublishedValues /\ p.slot = now_slot /\ p.round_open_slot = open
        /\ \A q \in PublishedValues, b \in BOOLEAN : Feed(p, q, b) \in Feeds /\ Feed(p, q, b).agg = p
    BY PublishedNow
  <2> HIDE DEF p
  <2>2. Feed(p, p, good) \in Feeds /\ Feed(p, p, good).agg = p
    BY <2>1
  <2>3. Feed(p, p, good).agg.round_open_slot <= Feed(p, p, good).agg.slot
    BY <1>3, <2>1, <2>2
  <2>4. feeds' = [feeds EXCEPT ![o] = Feed(p, p, good)]
    BY <1>3 DEF p
  <2> QED BY <1>3, <2>2, <2>3, <2>4, FeedChanged
<1>4. ASSUME NEW o \in market.oracles, NEW price \in Prices, NEW deviation \in Deviations,
             NEW open \in 0 .. MaxSlot, NEW good \in BOOLEAN,
             SwitchboardUpdate(o, price, deviation, open, good)
      PROVE  IInv'
  <2>1. open <= now_slot /\ open \in Int
    BY <1>0, <1>4 DEF SwitchboardUpdate
  <2> QED BY <1>3, <1>4, <2>1 DEF SwitchboardUpdate
<1>5. ASSUME NEW o \in market.oracles, NEW price \in Prices,
             \/ PoolTrade(o, price) \/ stub_oracle_set(o, price) \/ stub_oracle_create(o, price)
      PROVE  IInv'
  <2>1. /\ UNCHANGED <<now_slot, market>>
        /\ feeds' = [feeds EXCEPT ![o] = Feed(Published(price, 0, now_slot),
                                              Published(price, 0, now_slot), TRUE)]
    BY <1>5 DEF PoolTrade, stub_oracle_set, stub_oracle_create
  <2>2. now_slot \in Int /\ now_slot <= now_slot
    BY <1>0
  <2> QED BY <1>3, <2>1, <2>2
<1>6. ASSUME NEW o \in market.oracles, stub_oracle_close(o)
      PROVE  IInv'
  <2> DEFINE feed == [feeds[o] EXCEPT !.closed = TRUE]
  <2>1. UNCHANGED <<now_slot, market>> /\ feeds' = [feeds EXCEPT ![o] = feed]
    BY <1>6 DEF stub_oracle_close
  <2>2. feeds[o] \in Feeds /\ feeds[o].agg.round_open_slot <= feeds[o].agg.slot
    BY <1>0 DEF IInv, RoundsEnd
  <2>3. feed \in Feeds /\ feed.agg = feeds[o].agg
    BY <2>2 DEF Feeds
  <2> HIDE DEF feed
  <2>4. feed.agg.round_open_slot <= feed.agg.slot
    BY <2>2, <2>3
  <2> QED BY <2>1, <2>3, <2>4, FeedChanged
<1>7. CASE UNCHANGED vars
  <2>1. now_slot' = now_slot /\ market' = market /\ feeds' = feeds
    BY <1>7 DEF vars
  <2> QED BY <2>1 DEF IInv, Markets, Feeds, PublishedValues, RoundsEnd
<1> QED BY <1>1, <1>2, <1>4, <1>5, <1>6, <1>7 DEF Next

\* The invariant holds of whatever the feeds' publishers do.
THEOREM OracleInvariance == Spec => []IInv
<1> QED BY InitIInv, NextKeeps, PTL DEF Spec

-----------------------------------------------------------------------------
(* Prices are recent. *)

\* The published prices of a feed that a price may be made of.
Recent(o) ==
  {p \in (IF feeds[o].good \/ market.type # "Pyth" THEN {feeds[o].agg} ELSE {})
           \cup {feeds[o].prev} :
     \/ market.max_staleness_slots < 0 \/ market.type = "RaydiumCLMM"
     \/ p.slot + market.max_staleness_slots >= now_slot}

\* What is read from a feed that is not stale is the price of one of these.
LEMMA ReadIsRecent ==
  ASSUME IInv, NEW o \in market.oracles, ~is_stale(oracle_state_unchecked(feeds[o]))
  PROVE  \E p \in Recent(o) : p.price = oracle_state_unchecked(feeds[o]).price
<1> DEFINE feed == feeds[o]
           state == oracle_state_unchecked(feed)
<1>0. /\ feed \in Feeds /\ feed.agg \in PublishedValues /\ feed.prev \in PublishedValues
      /\ now_slot \in Nat \ {0} /\ market \in Markets
      /\ feed.agg.round_open_slot <= feed.agg.slot
  BY DEF IInv, Feeds, RoundsEnd
<1>1. /\ feed.agg.slot \in Nat \ {0} /\ feed.agg.round_open_slot \in Int
      /\ feed.prev.slot \in Nat \ {0}
      /\ market.max_staleness_slots \in Int
      /\ market.type \in OracleTypes
  <2>1. feed.agg.slot \in 1 .. now_slot /\ feed.agg.round_open_slot \in Int
        /\ feed.prev.slot \in 1 .. now_slot
    <3> HIDE DEF feed
    <3> QED BY <1>0 DEF PublishedValues
  <2>2. market.max_staleness_slots \in MaxStalenesses /\ market.type \in OracleTypes
    BY <1>0 DEF Markets
  <2>3. MaxStalenesses \subseteq Int
    BY OracleAssumption
  <2>4. \A n \in 1 .. now_slot : n \in Nat \ {0}
    BY <1>0
  <2> HIDE DEF feed
  <2>5. feed.agg.slot \in Nat \ {0} /\ feed.prev.slot \in Nat \ {0}
    BY <2>1, <2>4
  <2> QED BY <2>1, <2>2, <2>3, <2>5
<1>2. \/ market.max_staleness_slots < 0
      \/ ~(state.last_update_slot + market.max_staleness_slots < now_slot)
  BY <1>1 DEF is_stale
<1>3. CASE market.type = "Pyth"
  <2> DEFINE p == IF feed.good THEN feed.agg ELSE feed.prev
  <2>1. state = State(p.price, p.deviation, p.slot)
    BY <1>3 DEF oracle_state_unchecked, pyth_get_price
  <2>2. state.price = p.price /\ state.last_update_slot = p.slot
    BY <2>1 DEF State
  <2>3. p.slot \in Int
    BY <1>1
  <2>4. p \in (IF feeds[o].good \/ market.type # "Pyth" THEN {feeds[o].agg} ELSE {})
                \cup {feeds[o].prev}
    OBVIOUS
  <2> HIDE DEF p, state
  <2>5. market.max_staleness_slots < 0 \/ p.slot + market.max_staleness_slots >= now_slot
    BY <1>0, <1>1, <1>2, <2>2, <2>3
  <2>6. p \in Recent(o)
    BY <2>4, <2>5 DEF Recent
  <2> QED BY <2>2, <2>6 DEF state
<1>4. CASE market.type # "Pyth"
  <2> DEFINE p == feed.agg
  <2>1. /\ state.price = p.price
        /\ \/ market.type = "RaydiumCLMM"
           \/ state.last_update_slot = p.slot
           \/ state.last_update_slot = p.round_open_slot
    <3>1. CASE market.type = "Stub"
      BY <1>1, <3>1 DEF oracle_state_unchecked, State
    <3>2. CASE market.type \in {"SwitchboardV1", "SwitchboardV2"}
      BY <1>4, <3>2 DEF oracle_state_unchecked, State
    <3>3. CASE market.type = "RaydiumCLMM"
      BY <3>3 DEF oracle_state_unchecked, State
    <3> QED BY <1>1, <1>4, <3>1, <3>2, <3>3, OracleAssumption
  <2>2. p \in (IF feeds[o].good \/ market.type # "Pyth" THEN {feeds[o].agg} ELSE {})
                \cup {feeds[o].prev}
    BY <1>4
  <2> HIDE DEF state
  <2>3. \/ market.max_staleness_slots < 0 \/ market.type = "RaydiumCLMM"
        \/ p.slot + market.max_staleness_slots >= now_slot
    BY <1>0, <1>1, <1>2, <2>1
  <2>4. p \in Recent(o)
    BY <2>2, <2>3 DEF Recent
  <2> QED BY <2>1, <2>4 DEF state
<1> QED BY <1>3, <1>4

\* A price pegged orders move with is made of prices that were really published within
\* max_staleness_slots, whatever each feed has done since (state/oracle.rs 165-240).
THEOREM PricesAreRecent == Spec => []PriceIsRecent
<1>1. IInv => PriceIsRecent
  <2> SUFFICES ASSUME IInv, NEW lots \in oracle_price_lots
               PROVE  lots \in IF "b" \in market.oracles
                               THEN {native_price_to_lot(p.price, q.price) :
                                       p \in Recent("a"), q \in {r \in Recent("b") : r.price # 0}}
                               ELSE {native_price_to_lot(p.price, 1) : p \in Recent("a")}
    BY DEF PriceIsRecent, Recent
  <2> DEFINE a == oracle_state_unchecked(feeds["a"])
             b == oracle_state_unchecked(feeds["b"])
  <2>1. "a" \in market.oracles
    BY DEF IInv, Markets
  <2>2. CASE "b" \in market.oracles
    <3>1. lots \in oracle_price_from_a_and_b(a, b)
      BY <2>2 DEF oracle_price_lots
    <3> HIDE DEF a, b
    <3>2. ~is_stale(a) /\ ~is_stale(b) /\ b.price # 0 /\ lots = native_price_to_lot(a.price, b.price)
      BY <3>1 DEF oracle_price_from_a_and_b
    <3>3. /\ \E p \in Recent("a") : p.price = a.price
          /\ \E q \in Recent("b") : q.price = b.price
      BY <2>1, <2>2, <3>2, ReadIsRecent DEF a, b
    <3> QED BY <2>2, <3>2, <3>3
  <2>3. CASE "b" \notin market.oracles
    <3>1. lots \in oracle_price_from_a(a)
      BY <2>3 DEF oracle_price_lots
    <3> HIDE DEF a, b
    <3>2. ~is_stale(a) /\ lots = native_price_to_lot(a.price, 1)
      BY <3>1 DEF oracle_price_from_a
    <3>3. \E p \in Recent("a") : p.price = a.price
      BY <2>1, <3>2, ReadIsRecent DEF a
    <3> QED BY <2>3, <3>2, <3>3
  <2> QED BY <2>2, <2>3
<1> QED BY <1>1, OracleInvariance, PTL

-----------------------------------------------------------------------------
(* Two feeds are trusted only if each would be. *)

\* Squares of natural numbers are in the order of the numbers.
LEMMA SquareOrder ==
  ASSUME NEW x \in Nat, NEW y \in Nat, x * x <= y * y
  PROVE  x <= y
<1>1. ASSUME y < x PROVE FALSE
  <2>1. PICK d \in Nat : x = y + d /\ d > 0
    <3>1. x - y \in Nat /\ x = y + (x - y) /\ x - y > 0
      BY <1>1
    <3> QED BY <3>1
  <2>2. x * x = y * y + 2 * (y * d) + d * d
    BY <2>1
  <2>3. y * d \in Nat /\ d * d \in Nat /\ d * d > 0 /\ y * y \in Nat
    BY <2>1
  <2> QED BY <2>2, <2>3
<1> QED BY <1>1

\* A positive factor can be cancelled.
LEMMA CancelFactor ==
  ASSUME NEW x \in Nat, NEW y \in Nat, NEW n \in Nat \ {0}, x * n <= y * n
  PROVE  x <= y
<1>1. ASSUME y < x PROVE FALSE
  <2>1. y + 1 <= x
    BY <1>1
  <2>2. (y + 1) * n <= x * n
    BY <2>1
  <2>3. (y + 1) * n = y * n + n /\ y * n \in Nat /\ x * n \in Nat
    OBVIOUS
  <2> QED BY <2>2, <2>3
<1> QED BY <1>1

\* The combined check, for prices p and q with deviations d and e and the filter c.
VarianceWithin(c, d, e, p, q) ==
  10000 * (d * d * q * q + e * e * p * p) <= c * c * p * p * q * q

\* The variance of the quotient bounds the deviation of each part.
LEMMA VarianceParts ==
  ASSUME NEW d \in Nat, NEW e \in Nat, NEW p \in Nat \ {0}, NEW q \in Nat \ {0}, NEW c \in Nat,
         VarianceWithin(c, d, e, p, q)
  PROVE  d * 100 <= c * p /\ e * 100 <= c * q
<1>0. /\ d * d * q * q \in Nat /\ e * e * p * p \in Nat /\ c * c * p * p * q * q \in Nat
      /\ d * 100 \in Nat /\ e * 100 \in Nat /\ c * p \in Nat /\ c * q \in Nat
      /\ d * 100 * q \in Nat /\ e * 100 * p \in Nat /\ c * p * q \in Nat /\ c * q * p \in Nat
  OBVIOUS
<1>1. /\ (d * 100 * q) * (d * 100 * q) = 10000 * (d * d * q * q)
      /\ (e * 100 * p) * (e * 100 * p) = 10000 * (e * e * p * p)
      /\ (c * p * q) * (c * p * q) = c * c * p * p * q * q
      /\ (c * q * p) * (c * q * p) = c * c * p * p * q * q
  OBVIOUS
<1>2. /\ 10000 * (d * d * q * q) <= c * c * p * p * q * q
      /\ 10000 * (e * e * p * p) <= c * c * p * p * q * q
  BY <1>0 DEF VarianceWithin
<1>3. d * 100 * q <= c * p * q /\ e * 100 * p <= c * q * p
  BY <1>0, <1>1, <1>2, SquareOrder
<1> QED BY <1>0, <1>3, CancelFactor

\* What is read from a feed of any type but a stub is an amount and its deviation.
LEMMA ReadValues ==
  ASSUME IInv, NEW o \in market.oracles, market.type # "Stub", ~Unreadable(feeds[o])
  PROVE  /\ oracle_state_unchecked(feeds[o]).price \in Nat
         /\ oracle_state_unchecked(feeds[o]).deviation \in Nat
<1> DEFINE feed == feeds[o]
           state == oracle_state_unchecked(feed)
<1>1. feed.agg \in PublishedValues /\ feed.prev \in PublishedValues
  BY DEF IInv, Feeds
<1>2. /\ feed.agg.price \in Int /\ feed.agg.deviation \in Nat
      /\ feed.prev.price \in Int /\ feed.prev.deviation \in Nat
  <2> HIDE DEF feed
  <2>1. /\ feed.agg.price \in Prices /\ feed.agg.deviation \in Deviations \cup {0}
        /\ feed.prev.price \in Prices /\ feed.prev.deviation \in Deviations \cup {0}
    BY <1>1 DEF PublishedValues
  <2>2. Prices \subseteq Int /\ Deviations \cup {0} \subseteq Nat
    BY OracleAssumption
  <2> QED BY <2>1, <2>2
<1>3. state.price \in Int /\ state.deviation \in Nat
  <2>1. \/ state = State(feed.agg.price, feed.agg.deviation, state.last_update_slot)
        \/ state = State(feed.prev.price, feed.prev.deviation, state.last_update_slot)
        \/ state = State(feed.agg.price, 0, state.last_update_slot)
    <3>1. CASE market.type = "Pyth"
      <4> HIDE DEF feed
      <4> QED BY <3>1 DEF oracle_state_unchecked, pyth_get_price, State
    <3>2. CASE market.type \in {"SwitchboardV1", "SwitchboardV2"}
      <4> HIDE DEF feed
      <4> QED BY <3>2 DEF oracle_state_unchecked, State
    <3>3. CASE market.type \notin {"Pyth", "SwitchboardV1", "SwitchboardV2"}
      <4> HIDE DEF feed
      <4>1. state = State(feed.agg.price, 0, AlwaysFresh)
        BY <3>3 DEF oracle_state_unchecked
      <4> HIDE DEF state
      <4> QED BY <4>1 DEF State
    <3> QED BY <3>1, <3>2, <3>3
  <2> HIDE DEF feed, state
  <2>2. \A x, y, z : State(x, y, z).price = x /\ State(x, y, z).deviation = y
    BY DEF State
  <2> QED BY <1>2, <2>1, <2>2
<1>4. state.price >= 0
  <2>1. ~(state.price < 0)
    BY DEF Unreadable
  <2> HIDE DEF state
  <2> QED BY <1>3, <2>1
<1> HIDE DEF state
<1>5. state.price \in Nat /\ state.deviation \in Nat
  BY <1>3, <1>4
<1> QED BY <1>5 DEF state

\* A price of 0 has 0 lots, whatever it is divided by.
LEMMA NoPriceNoLots ==
  ASSUME NEW den \in Nat \ {0}
  PROVE  native_price_to_lot(0, den) = 0
<1> DEFINE n == Abs(den) * base_unit * quote_lot_size
           sign == IF den < 0 THEN -1 ELSE 1
<1>1. Abs(den) = den /\ sign = 1
  BY DEF Abs
<1>2. base_unit \in Nat \ {0} /\ quote_lot_size \in Nat \ {0} /\ quote_unit \in Nat /\ base_lot_size \in Nat
  BY OracleAssumption
<1>3. n \in Nat \ {0}
  <2>1. Abs(den) * base_unit \in Nat \ {0}
    BY <1>1, <1>2
  <2> QED BY <1>2, <2>1
<1>4. sign * 0 * quote_unit * base_lot_size = 0
  BY <1>1, <1>2
<1>5. native_price_to_lot(0, den) = (sign * 0 * quote_unit * base_lot_size) \div n
  BY DEF native_price_to_lot
<1> HIDE DEF n, sign
<1>6. 0 \div n = 0
  BY <1>3
<1> QED BY <1>4, <1>5, <1>6

\* Two feeds give a price other than 0 only when each would have been trusted alone
\* (oracle_price_from_a_and_b in state/market.rs): the combined check is no looser.
THEOREM CombinedNeverLooser == Spec => []CombinedNoLooser
<1>1. IInv => CombinedNoLooser
  <2> SUFFICES ASSUME IInv, market.type # "Stub", NEW lots \in oracle_price_lots, lots # 0,
                      NEW o \in market.oracles
               PROVE  has_valid_confidence(oracle_state_unchecked(feeds[o]))
    BY DEF CombinedNoLooser
  <2> DEFINE a == oracle_state_unchecked(feeds["a"])
             b == oracle_state_unchecked(feeds["b"])
  <2>1. market.oracles \in {{"a"}, {"a", "b"}} /\ market.conf_filter \in Nat
    BY OracleAssumption DEF IInv, Markets
  <2>2. \A x \in market.oracles : ~Unreadable(feeds[x])
    BY DEF oracle_price_lots
  <2>3. a.price \in Nat /\ a.deviation \in Nat
    BY <2>1, <2>2, ReadValues
  <2>4. CASE "b" \notin market.oracles
    <3>1. lots \in oracle_price_from_a(a) /\ o = "a"
      BY <2>1, <2>4 DEF oracle_price_lots
    <3> HIDE DEF a
    <3>2. has_valid_confidence(a)
      BY <3>1 DEF oracle_price_from_a
    <3> QED BY <3>1, <3>2 DEF a
  <2>5. CASE "b" \in market.oracles
    <3>1. lots \in oracle_price_from_a_and_b(a, b)
      BY <2>5 DEF oracle_price_lots
    <3>2. b.price \in Nat /\ b.deviation \in Nat
      BY <2>2, <2>5, ReadValues
    <3> HIDE DEF a, b
    <3>3. /\ has_valid_combined_confidence(a, b) /\ b.price # 0
          /\ lots = native_price_to_lot(a.price, b.price)
      BY <3>1 DEF oracle_price_from_a_and_b
    <3>4. a.price # 0
      BY <3>2, <3>3, NoPriceNoLots
    <3>5. ~relative_var_exceeds(a, b)
      BY <3>3, <3>4 DEF has_valid_combined_confidence
    <3> DEFINE c == market.conf_filter
    <3>6. VarianceWithin(c, a.deviation, b.deviation, a.price, b.price)
      <4> DEFINE l == 10000 * (a.deviation * a.deviation * b.price * b.price +
                               b.deviation * b.deviation * a.price * a.price)
                 r == c * c * a.price * a.price * b.price * b.price
      <4>1. ~(l > r)
        BY <3>5 DEF relative_var_exceeds
      <4>2. l \in Int /\ r \in Int
        BY <2>1, <2>3, <3>2
      <4> HIDE DEF l, r
      <4>3. l <= r
        BY <4>1, <4>2
      <4> QED BY <4>3 DEF l, r, VarianceWithin
    <3> HIDE DEF c
    <3>7. c \in Nat /\ a.price \in Nat \ {0} /\ b.price \in Nat \ {0}
      BY <2>1, <2>3, <3>2, <3>3, <3>4 DEF c
    <3>8. a.deviation * 100 <= c * a.price /\ b.deviation * 100 <= c * b.price
      BY <2>3, <3>2, <3>6, <3>7, VarianceParts
    <3>9. has_valid_confidence(a) /\ has_valid_confidence(b)
      <4>1. ~(a.deviation * 100 > c * a.price) /\ ~(b.deviation * 100 > c * b.price)
        BY <2>3, <3>2, <3>7, <3>8
      <4> QED BY <4>1 DEF has_valid_confidence, c
    <3> QED BY <2>1, <3>9 DEF a, b
  <2> QED BY <2>4, <2>5
<1> QED BY <1>1, OracleInvariance, PTL
=============================================================================
