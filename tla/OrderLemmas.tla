------------------------ MODULE OrderLemmas ------------------------
(***************************************************************************)
(* What placing, cancelling and paying for orders does to a market that    *)
(* satisfies the invariant: each part of an instruction - a round of the   *)
(* matching loop, the taker's payment, room made on the book, the posted   *)
(* leaf, the cancelled slots - leaves a good state, with the base and      *)
(* quote the instruction still has to pay in carried along.                *)
(***************************************************************************)
EXTENDS MarketLemmas

\* The smaller of two numbers.
LEMMA Min2 ==
  ASSUME NEW a \in Int, NEW b \in Int
  PROVE  Min({a, b}) \in {a, b} /\ Min({a, b}) <= a /\ Min({a, b}) <= b
<1>1. \E x \in {a, b} : \A y \in {a, b} : x <= y
  <2>1. CASE a <= b
    BY <2>1
  <2>2. CASE b <= a
    BY <2>2
  <2> QED BY <2>1, <2>2
<1> DEFINE x == Min({a, b})
<1>2. x \in {a, b} /\ \A y \in {a, b} : x <= y
  BY <1>1 DEF Min
<1> QED BY <1>2

\* The smallest of three numbers.
LEMMA Min3 ==
  ASSUME NEW a \in Int, NEW b \in Int, NEW d \in Int
  PROVE  Min({a, b, d}) \in {a, b, d} /\ Min({a, b, d}) <= a /\ Min({a, b, d}) <= b
         /\ Min({a, b, d}) <= d
<1>1. \E x \in {a, b, d} : \A y \in {a, b, d} : x <= y
  <2>1. CASE a <= b /\ a <= d
    BY <2>1
  <2>2. CASE b <= a /\ b <= d
    BY <2>2
  <2>3. CASE d <= a /\ d <= b
    BY <2>3
  <2> QED BY <2>1, <2>2, <2>3
<1> DEFINE x == Min({a, b, d})
<1>2. x \in {a, b, d} /\ \A y \in {a, b, d} : x <= y
  BY <1>1 DEF Min
<1> QED BY <1>2

\* What holds while an order is matched: c says what was owed before it, and the
\* base and quote lots it may take.
ContextOk(c) ==
  /\ c.base \in Int /\ c.quote \in Int
  /\ c.base_lots \in Nat /\ c.quote_lots \in Nat

\* The lots still wanted, those matched with oneself, and the rebates.
CountsOk(order, c, m) ==
  /\ m.base \in Nat /\ m.base <= c.base_lots
  /\ m.quote \in Nat /\ m.quote <= c.quote_lots
  /\ m.rebates \in Nat
  /\ m.decremented \in Nat /\ m.decremented <= c.quote_lots - m.quote
  /\ m.rebates # 0 => m.decremented < c.quote_lots - m.quote

\* What who placed the order owes for what was matched so far.
BaseOwed(order, c, m) ==
  LET native == (c.base_lots - m.base) * base_lot_size
  IN  c.base + IF order.side = "Ask" THEN native ELSE -native
\* The quote the loop's counts say the taker still has to pay in.
QuoteOwed(order, c, m) ==
  LET native == (c.quote_lots - m.quote) * quote_lot_size
  IN  c.quote + m.rebates + IF order.side = "Bid" THEN native ELSE -native

\* The state of the matching loop is a record of its ten fields.
IsLoop(m) ==
  m = [s |-> m.s, base |-> m.base, quote |-> m.quote, decremented |-> m.decremented,
       rebates |-> m.rebates, dropped |-> m.dropped, filled |-> m.filled,
       limit |-> m.limit, post |-> m.post, stop |-> m.stop]

\* The loop's invariant; left are the leaves of the items that are still to come.
LoopOk(order, c, left, m) ==
  /\ IsLoop(m) /\ IsState(m.s) /\ m.s.ok \in BOOLEAN
  /\ m.s.ok =>
       /\ Good(m.s, m.s.heap, BaseOwed(order, c, m), QuoteOwed(order, c, m), c.lock, c.w)
       /\ left \subseteq m.s.book[invert_side(order.side)].leaves
  /\ CountsOk(order, c, m)
  /\ m.post \in {NoTree, post_target(order)}

\* Two loop states with the same counts.
SameCounts(r, m) ==
  /\ r.base = m.base /\ r.quote = m.quote /\ r.rebates = m.rebates
  /\ r.decremented = m.decremented

\* A round that fills nothing.
LEMMA LoopKept ==
  ASSUME NEW order, NEW c, NEW left, NEW m, LoopOk(order, c, left, m),
         NEW r, IsLoop(r), SameCounts(r, m), r.post \in {NoTree, m.post},
         IsState(r.s), r.s.ok \in BOOLEAN, NEW fewer,
         r.s.ok => /\ Good(r.s, r.s.heap, BaseOwed(order, c, m), QuoteOwed(order, c, m), c.lock, c.w)
                   /\ fewer \subseteq r.s.book[invert_side(order.side)].leaves
  PROVE  LoopOk(order, c, fewer, r)
<1>1. BaseOwed(order, c, r) = BaseOwed(order, c, m) /\ QuoteOwed(order, c, r) = QuoteOwed(order, c, m)
  BY DEF BaseOwed, QuoteOwed, SameCounts
<1>2. CountsOk(order, c, r)
  BY DEF CountsOk, SameCounts, LoopOk
<1>3. r.post \in {NoTree, post_target(order)}
  BY DEF LoopOk
<1> QED BY <1>1, <1>2, <1>3 DEF LoopOk

\* A fill of q lots at a price changes what is owed by what its event says.
LEMMA FillCounts ==
  ASSUME NEW order, order.side \in Sides, NEW c, ContextOk(c), NEW m, CountsOk(order, c, m),
         NEW q \in Nat \ {0}, NEW price \in Nat \ {0}, q <= m.base, q * price <= m.quote,
         NEW self \in Nat, NEW rebate \in Nat,
         \/ self = q * price /\ rebate = 0
         \/ self = 0,
         NEW r, r.base = m.base - q, r.quote = m.quote - q * price,
         r.decremented = m.decremented + self, r.rebates = m.rebates + rebate
  PROVE  /\ CountsOk(order, c, r)
         /\ BaseOwed(order, c, r)
              = BaseOwed(order, c, m)
                + IF order.side = "Ask" THEN q * base_lot_size ELSE -(q * base_lot_size)
         /\ QuoteOwed(order, c, r)
              = QuoteOwed(order, c, m) + (rebate
                + IF order.side = "Bid" THEN q * price * quote_lot_size
                  ELSE -(q * price * quote_lot_size))
<1> DEFINE x == q * price
           bl == c.base_lots - m.base
           ql == c.quote_lots - m.quote
<1>1. x \in Nat /\ x >= 1
  <2>1. x >= 1
    <3>1. \A u, v \in Nat : u >= 1 /\ v >= 1 => u * v >= 1 /\ u * v \in Nat
      OBVIOUS
    <3> QED BY <3>1
  <2> QED BY <2>1
<1>2. x <= m.quote /\ r.quote = m.quote - x
  OBVIOUS
<1>3. (self = x /\ rebate = 0) \/ self = 0
  OBVIOUS
<1> HIDE DEF x
<1>4. CountsOk(order, c, r)
  BY <1>1, <1>2, <1>3 DEF CountsOk, ContextOk
<1>5. bl \in Nat /\ ql \in Nat /\ c.base_lots - r.base = bl + q /\ c.quote_lots - r.quote = ql + x
  BY <1>1, <1>2 DEF CountsOk, ContextOk
<1> HIDE DEF bl, ql
<1>6. \A a, b, d \in Nat : (a + b) * d = a * d + b * d /\ a * d \in Nat /\ b * d \in Nat
  OBVIOUS
<1>7. base_lot_size \in Nat /\ quote_lot_size \in Nat
  BY FeeAssumption
<1> DEFINE bn == bl * base_lot_size
           qn == ql * quote_lot_size
           bx == q * base_lot_size
           qx == x * quote_lot_size
<1>8. /\ (c.base_lots - r.base) * base_lot_size = bn + bx
      /\ (c.quote_lots - r.quote) * quote_lot_size = qn + qx
      /\ bn \in Nat /\ bx \in Nat /\ qn \in Nat /\ qx \in Nat
  BY <1>1, <1>5, <1>6, <1>7
<1>9. /\ BaseOwed(order, c, m) = c.base + IF order.side = "Ask" THEN bn ELSE -bn
      /\ QuoteOwed(order, c, m) = c.quote + m.rebates + IF order.side = "Bid" THEN qn ELSE -qn
  BY DEF BaseOwed, QuoteOwed, bl, ql
<1>10. /\ BaseOwed(order, c, r) = c.base + IF order.side = "Ask" THEN bn + bx ELSE -(bn + bx)
       /\ QuoteOwed(order, c, r) = c.quote + r.rebates + IF order.side = "Bid" THEN qn + qx ELSE -(qn + qx)
  BY <1>8 DEF BaseOwed, QuoteOwed
<1>11. c.base \in Int /\ c.quote \in Int /\ m.rebates \in Nat
  BY DEF ContextOk, CountsOk
<1> HIDE DEF bn, qn, bx, qx
<1>12. BaseOwed(order, c, r) = BaseOwed(order, c, m) + IF order.side = "Ask" THEN bx ELSE -bx
  BY <1>8, <1>9, <1>10, <1>11 DEF Sides
<1>13. QuoteOwed(order, c, r) = QuoteOwed(order, c, m) + (rebate + IF order.side = "Bid" THEN qx ELSE -qx)
  BY <1>8, <1>9, <1>10, <1>11 DEF Sides
<1> QED BY <1>4, <1>12, <1>13 DEF bx, qx, x

-----------------------------------------------------------------------------
(* The loop's state with one field changed. *)

\* The updates of the loop's state, one field at a time.
LoopStateSet(m, v) == [m EXCEPT !.s = v]
\* The stop flag.
StopSet(m, v) == [m EXCEPT !.stop = v]
\* The post target.
PostSet(m, v) == [m EXCEPT !.post = v]
\* The expired orders dropped.
DroppedSet(m, v) == [m EXCEPT !.dropped = v]
\* The fills queued.
FilledSet(m, v) == [m EXCEPT !.filled = v]
\* The match limit.
LimitSet(m, v) == [m EXCEPT !.limit = v]
\* The base lots left.
BaseSet(m, v) == [m EXCEPT !.base = v]
\* The quote lots left.
QuoteSet(m, v) == [m EXCEPT !.quote = v]
\* The quote decremented.
DecrementedSet(m, v) == [m EXCEPT !.decremented = v]
\* The rebates.
RebatesSet(m, v) == [m EXCEPT !.rebates = v]

\* Records that agree in all fields but one.
Kept(r, m, changed) ==
  /\ changed # "s" => r.s = m.s
  /\ changed # "base" => r.base = m.base
  /\ changed # "quote" => r.quote = m.quote
  /\ changed # "decremented" => r.decremented = m.decremented
  /\ changed # "rebates" => r.rebates = m.rebates
  /\ changed # "dropped" => r.dropped = m.dropped
  /\ changed # "filled" => r.filled = m.filled
  /\ changed # "limit" => r.limit = m.limit
  /\ changed # "post" => r.post = m.post
  /\ changed # "stop" => r.stop = m.stop

\* What setting the working state of the loop changes, and keeps.
LEMMA LoopStateSetIs ==
  ASSUME NEW m, IsLoop(m), NEW v, NEW r, r = LoopStateSet(m, v)
  PROVE  IsLoop(r) /\ r.s = v /\ Kept(r, m, "s")
<1> DEFINE a == m.s
           b == m.base
           c == m.quote
           d == m.decremented
           e == m.rebates
           f == m.dropped
           g == m.filled
           h == m.limit
           i == m.post
           j == m.stop
<1>1. m = [s |-> a, base |-> b, quote |-> c, decremented |-> d, rebates |-> e, dropped |-> f, filled |-> g, limit |-> h, post |-> i, stop |-> j]
  BY DEF IsLoop
<1> HIDE DEF a, b, c, d, e, f, g, h, i, j
<1>2. r = [s |-> v, base |-> b, quote |-> c, decremented |-> d, rebates |-> e, dropped |-> f, filled |-> g, limit |-> h, post |-> i, stop |-> j]
  BY ONLY <1>1, r = LoopStateSet(m, v) DEF LoopStateSet
<1> QED BY ONLY <1>1, <1>2 DEF IsLoop, Kept

\* What setting the base left changes, and keeps.
LEMMA BaseSetIs ==
  ASSUME NEW m, IsLoop(m), NEW v, NEW r, r = BaseSet(m, v)
  PROVE  IsLoop(r) /\ r.base = v /\ Kept(r, m, "base")
<1> DEFINE a == m.s
           b == m.base
           c == m.quote
           d == m.decremented
           e == m.rebates
           f == m.dropped
           g == m.filled
           h == m.limit
           i == m.post
           j == m.stop
<1>1. m = [s |-> a, base |-> b, quote |-> c, decremented |-> d, rebates |-> e, dropped |-> f, filled |-> g, limit |-> h, post |-> i, stop |-> j]
  BY DEF IsLoop
<1> HIDE DEF a, b, c, d, e, f, g, h, i, j
<1>2. r = [s |-> a, base |-> v, quote |-> c, decremented |-> d, rebates |-> e, dropped |-> f, filled |-> g, limit |-> h, post |-> i, stop |-> j]
  BY ONLY <1>1, r = BaseSet(m, v) DEF BaseSet
<1> QED BY ONLY <1>1, <1>2 DEF IsLoop, Kept

\* What setting the quote left changes, and keeps.
LEMMA QuoteSetIs ==
  ASSUME NEW m, IsLoop(m), NEW v, NEW r, r = QuoteSet(m, v)
  PROVE  IsLoop(r) /\ r.quote = v /\ Kept(r, m, "quote")
<1> DEFINE a == m.s
           b == m.base
           c == m.quote
           d == m.decremented
           e == m.rebates
           f == m.dropped
           g == m.filled
           h == m.limit
           i == m.post
           j == m.stop
<1>1. m = [s |-> a, base |-> b, quote |-> c, decremented |-> d, rebates |-> e, dropped |-> f, filled |-> g, limit |-> h, post |-> i, stop |-> j]
  BY DEF IsLoop
<1> HIDE DEF a, b, c, d, e, f, g, h, i, j
<1>2. r = [s |-> a, base |-> b, quote |-> v, decremented |-> d, rebates |-> e, dropped |-> f, filled |-> g, limit |-> h, post |-> i, stop |-> j]
  BY ONLY <1>1, r = QuoteSet(m, v) DEF QuoteSet
<1> QED BY ONLY <1>1, <1>2 DEF IsLoop, Kept

\* What setting the decremented quote changes, and keeps.
LEMMA DecrementedSetIs ==
  ASSUME NEW m, IsLoop(m), NEW v, NEW r, r = DecrementedSet(m, v)
  PROVE  IsLoop(r) /\ r.decremented = v /\ Kept(r, m, "decremented")
<1> DEFINE a == m.s
           b == m.base
           c == m.quote
           d == m.decremented
           e == m.rebates
           f == m.dropped
           g == m.filled
           h == m.limit
           i == m.post
           j == m.stop
<1>1. m = [s |-> a, base |-> b, quote |-> c, decremented |-> d, rebates |-> e, dropped |-> f, filled |-> g, limit |-> h, post |-> i, stop |-> j]
  BY DEF IsLoop
<1> HIDE DEF a, b, c, d, e, f, g, h, i, j
<1>2. r = [s |-> a, base |-> b, quote |-> c, decremented |-> v, rebates |-> e, dropped |-> f, filled |-> g, limit |-> h, post |-> i, stop |-> j]
  BY ONLY <1>1, r = DecrementedSet(m, v) DEF DecrementedSet
<1> QED BY ONLY <1>1, <1>2 DEF IsLoop, Kept

\* What setting the rebates changes, and keeps.
LEMMA RebatesSetIs ==
  ASSUME NEW m, IsLoop(m), NEW v, NEW r, r = RebatesSet(m, v)
  PROVE  IsLoop(r) /\ r.rebates = v /\ Kept(r, m, "rebates")
<1> DEFINE a == m.s
           b == m.base
           c == m.quote
           d == m.decremented
           e == m.rebates
           f == m.dropped
           g == m.filled
           h == m.limit
           i == m.post
           j == m.stop
<1>1. m = [s |-> a, base |-> b, quote |-> c, decremented |-> d, rebates |-> e, dropped |-> f, filled |-> g, limit |-> h, post |-> i, stop |-> j]
  BY DEF IsLoop
<1> HIDE DEF a, b, c, d, e, f, g, h, i, j
<1>2. r = [s |-> a, base |-> b, quote |-> c, decremented |-> d, rebates |-> v, dropped |-> f, filled |-> g, limit |-> h, post |-> i, stop |-> j]
  BY ONLY <1>1, r = RebatesSet(m, v) DEF RebatesSet
<1> QED BY ONLY <1>1, <1>2 DEF IsLoop, Kept

\* What setting the dropped expired orders changes, and keeps.
LEMMA DroppedSetIs ==
  ASSUME NEW m, IsLoop(m), NEW v, NEW r, r = DroppedSet(m, v)
  PROVE  IsLoop(r) /\ r.dropped = v /\ Kept(r, m, "dropped")
<1> DEFINE a == m.s
           b == m.base
           c == m.quote
           d == m.decremented
           e == m.rebates
           f == m.dropped
           g == m.filled
           h == m.limit
           i == m.post
           j == m.stop
<1>1. m = [s |-> a, base |-> b, quote |-> c, decremented |-> d, rebates |-> e, dropped |-> f, filled |-> g, limit |-> h, post |-> i, stop |-> j]
  BY DEF IsLoop
<1> HIDE DEF a, b, c, d, e, f, g, h, i, j
<1>2. r = [s |-> a, base |-> b, quote |-> c, decremented |-> d, rebates |-> e, dropped |-> v, filled |-> g, limit |-> h, post |-> i, stop |-> j]
  BY ONLY <1>1, r = DroppedSet(m, v) DEF DroppedSet
<1> QED BY ONLY <1>1, <1>2 DEF IsLoop, Kept

\* What setting the queued fills changes, and keeps.
LEMMA FilledSetIs ==
  ASSUME NEW m, IsLoop(m), NEW v, NEW r, r = FilledSet(m, v)
  PROVE  IsLoop(r) /\ r.filled = v /\ Kept(r, m, "filled")
<1> DEFINE a == m.s
           b == m.base
           c == m.quote
           d == m.decremented
           e == m.rebates
           f == m.dropped
           g == m.filled
           h == m.limit
           i == m.post
           j == m.stop
<1>1. m = [s |-> a, base |-> b, quote |-> c, decremented |-> d, rebates |-> e, dropped |-> f, filled |-> g, limit |-> h, post |-> i, stop |-> j]
  BY DEF IsLoop
<1> HIDE DEF a, b, c, d, e, f, g, h, i, j
<1>2. r = [s |-> a, base |-> b, quote |-> c, decremented |-> d, rebates |-> e, dropped |-> f, filled |-> v, limit |-> h, post |-> i, stop |-> j]
  BY ONLY <1>1, r = FilledSet(m, v) DEF FilledSet
<1> QED BY ONLY <1>1, <1>2 DEF IsLoop, Kept

\* What setting the match limit changes, and keeps.
LEMMA LimitSetIs ==
  ASSUME NEW m, IsLoop(m), NEW v, NEW r, r = LimitSet(m, v)
  PROVE  IsLoop(r) /\ r.limit = v /\ Kept(r, m, "limit")
<1> DEFINE a == m.s
           b == m.base
           c == m.quote
           d == m.decremented
           e == m.rebates
           f == m.dropped
           g == m.filled
           h == m.limit
           i == m.post
           j == m.stop
<1>1. m = [s |-> a, base |-> b, quote |-> c, decremented |-> d, rebates |-> e, dropped |-> f, filled |-> g, limit |-> h, post |-> i, stop |-> j]
  BY DEF IsLoop
<1> HIDE DEF a, b, c, d, e, f, g, h, i, j
<1>2. r = [s |-> a, base |-> b, quote |-> c, decremented |-> d, rebates |-> e, dropped |-> f, filled |-> g, limit |-> v, post |-> i, stop |-> j]
  BY ONLY <1>1, r = LimitSet(m, v) DEF LimitSet
<1> QED BY ONLY <1>1, <1>2 DEF IsLoop, Kept

\* What setting the post target changes, and keeps.
LEMMA PostSetIs ==
  ASSUME NEW m, IsLoop(m), NEW v, NEW r, r = PostSet(m, v)
  PROVE  IsLoop(r) /\ r.post = v /\ Kept(r, m, "post")
<1> DEFINE a == m.s
           b == m.base
           c == m.quote
           d == m.decremented
           e == m.rebates
           f == m.dropped
           g == m.filled
           h == m.limit
           i == m.post
           j == m.stop
<1>1. m = [s |-> a, base |-> b, quote |-> c, decremented |-> d, rebates |-> e, dropped |-> f, filled |-> g, limit |-> h, post |-> i, stop |-> j]
  BY DEF IsLoop
<1> HIDE DEF a, b, c, d, e, f, g, h, i, j
<1>2. r = [s |-> a, base |-> b, quote |-> c, decremented |-> d, rebates |-> e, dropped |-> f, filled |-> g, limit |-> h, post |-> v, stop |-> j]
  BY ONLY <1>1, r = PostSet(m, v) DEF PostSet
<1> QED BY ONLY <1>1, <1>2 DEF IsLoop, Kept

\* What setting the stop flag changes, and keeps.
LEMMA StopSetIs ==
  ASSUME NEW m, IsLoop(m), NEW v, NEW r, r = StopSet(m, v)
  PROVE  IsLoop(r) /\ r.stop = v /\ Kept(r, m, "stop")
<1> DEFINE a == m.s
           b == m.base
           c == m.quote
           d == m.decremented
           e == m.rebates
           f == m.dropped
           g == m.filled
           h == m.limit
           i == m.post
           j == m.stop
<1>1. m = [s |-> a, base |-> b, quote |-> c, decremented |-> d, rebates |-> e, dropped |-> f, filled |-> g, limit |-> h, post |-> i, stop |-> j]
  BY DEF IsLoop
<1> HIDE DEF a, b, c, d, e, f, g, h, i, j
<1>2. r = [s |-> a, base |-> b, quote |-> c, decremented |-> d, rebates |-> e, dropped |-> f, filled |-> g, limit |-> h, post |-> i, stop |-> v]
  BY ONLY <1>1, r = StopSet(m, v) DEF StopSet
<1> QED BY ONLY <1>1, <1>2 DEF IsLoop, Kept

\* The loop ends.
LEMMA StopOk ==
  ASSUME NEW order, NEW c, NEW left, NEW m, LoopOk(order, c, left, m)
  PROVE  LoopOk(order, c, left, Stop(m)) /\ LoopOk(order, c, left, StopUnposted(m))
<1>1. IsLoop(m) /\ IsState(m.s) /\ m.s.ok \in BOOLEAN
      /\ (m.s.ok =>
           /\ Good(m.s, m.s.heap, BaseOwed(order, c, m), QuoteOwed(order, c, m), c.lock, c.w)
           /\ left \subseteq m.s.book[invert_side(order.side)].leaves)
  BY DEF LoopOk
<1>2. ASSUME NEW r, r = Stop(m) \/ r = StopUnposted(m)
      PROVE  LoopOk(order, c, left, r)
  <2>1. IsLoop(r) /\ r.s = m.s /\ SameCounts(r, m) /\ r.post \in {NoTree, m.post}
    <3>1. CASE r = Stop(m)
      <4>1. r = StopSet(m, TRUE)
        BY <3>1 DEF Stop, StopSet
      <4>2. IsLoop(r) /\ Kept(r, m, "stop")
        BY <1>1, <4>1, StopSetIs
      <4> QED BY <4>2 DEF SameCounts, Kept
    <3>2. CASE r = StopUnposted(m)
      <4> DEFINE k == StopSet(m, TRUE)
      <4>1. r = PostSet(k, NoTree)
        BY <3>2 DEF StopUnposted, StopSet, PostSet
      <4> HIDE DEF k
      <4>2. IsLoop(k) /\ Kept(k, m, "stop")
        BY <1>1, StopSetIs DEF k
      <4>3. IsLoop(r) /\ Kept(r, k, "post") /\ r.post = NoTree
        BY <4>1, <4>2, PostSetIs
      <4> QED BY <4>2, <4>3 DEF SameCounts, Kept
    <3> QED BY <1>2, <3>1, <3>2
  <2> QED BY <1>1, <2>1, LoopKept
<1> QED BY <1>2

\* A leaf that left the book is gone, and only it.
LEMMA LeftLeaves ==
  ASSUME NEW s, NEW E, NEW base, NEW quote, NEW lock, NEW w, Sane(s, E, base, quote, lock, w),
         NEW side \in Sides, NEW leaf \in s.book[side].leaves, NEW r, LeafLeft(s, side, leaf, r)
  PROVE  /\ r.book[side].leaves = s.book[side].leaves \ {leaf}
         /\ \A other \in Sides : other # side => r.book[other] = s.book[other]
<1>1. BookOk(s.book, OrdersOf(s.oo), w.ids)
  BY SaneParts
<1> DEFINE bs == s.book[side]
           lv == bs.leaves
           bp == bs.bump
<1>2. s.book = [x \in Sides |-> s.book[x]] /\ bs = [leaves |-> lv, bump |-> bp]
  BY <1>1 DEF BookOk, SideOk
<1>3. r.book = [s.book EXCEPT ![side] = remove_leaf(bs, leaf)]
  BY DEF LeafLeft
<1>4. r.book[side] = remove_leaf(bs, leaf)
      /\ \A other \in Sides : other # side => r.book[other] = s.book[other]
  BY <1>2, <1>3
<1> HIDE DEF bs, lv, bp
<1>5. remove_leaf(bs, leaf) = [leaves |-> lv \ {leaf}, bump |-> bp]
  BY <1>2 DEF remove_leaf
<1> QED BY <1>4, <1>5 DEF lv, bs

\* The parts of the loop's invariant that a round starts from.
Round(order, c, left, m, side) ==
  /\ order.side \in Sides /\ side \in Sides /\ side = invert_side(order.side)
  /\ ContextOk(c) /\ LoopOk(order, c, left, m) /\ m.s.ok = TRUE

\* What holds before a round of the loop, part by part.
LEMMA RoundParts ==
  ASSUME NEW order, NEW c, NEW left, NEW m, NEW side, Round(order, c, left, m, side)
  PROVE  /\ side \in Sides /\ IsLoop(m) /\ IsState(m.s) /\ m.s.ok = TRUE
         /\ Sane(m.s, m.s.heap, BaseOwed(order, c, m), QuoteOwed(order, c, m), c.lock, c.w)
         /\ Frame(m.s, c.w)
         /\ left \subseteq m.s.book[side].leaves
         /\ BookOk(m.s.book, OrdersOf(m.s.oo), c.w.ids)
         /\ HeapOk(m.s.heap)
         /\ CountsOk(order, c, m)
<1>1. /\ side \in Sides /\ IsLoop(m) /\ IsState(m.s) /\ m.s.ok = TRUE
      /\ Good(m.s, m.s.heap, BaseOwed(order, c, m), QuoteOwed(order, c, m), c.lock, c.w)
      /\ left \subseteq m.s.book[side].leaves
      /\ CountsOk(order, c, m)
  BY DEF Round, LoopOk
<1>2. Sane(m.s, m.s.heap, BaseOwed(order, c, m), QuoteOwed(order, c, m), c.lock, c.w)
      /\ Frame(m.s, c.w)
  BY <1>1 DEF Good
<1> QED BY <1>1, <1>2, SaneParts

\* A round in which one leaf leaves the book unfilled.
LEMMA LeafLeftOk ==
  ASSUME NEW order, NEW c, NEW left, NEW m, NEW side, Round(order, c, left, m, side),
         NEW leaf \in left, NEW rs, LeafLeft(m.s, side, leaf, rs),
         rs.ok => Sane(rs, rs.heap, BaseOwed(order, c, m), QuoteOwed(order, c, m), c.lock, c.w),
         NEW r, IsLoop(r), SameCounts(r, m), r.post = m.post, r.s = rs
  PROVE  LoopOk(order, c, left \ {leaf}, r)
<1>1. /\ side \in Sides /\ IsLoop(m) /\ IsState(m.s) /\ m.s.ok = TRUE
      /\ Sane(m.s, m.s.heap, BaseOwed(order, c, m), QuoteOwed(order, c, m), c.lock, c.w)
      /\ Frame(m.s, c.w)
      /\ left \subseteq m.s.book[side].leaves
      /\ BookOk(m.s.book, OrdersOf(m.s.oo), c.w.ids)
  BY RoundParts
<1>2. leaf \in m.s.book[side].leaves
  BY <1>1
<1>3. rs.book[side].leaves = m.s.book[side].leaves \ {leaf}
  BY <1>1, <1>2, LeftLeaves
<1>4. Frame(rs, c.w)
  BY <1>1, LeftFrame
<1>5. LoopOk(order, c, left, m) /\ side = invert_side(order.side)
  BY DEF Round
<1>6. IsState(rs) /\ rs.ok \in BOOLEAN
  BY DEF LeafLeft
<1>7. rs.ok => Good(rs, rs.heap, BaseOwed(order, c, m), QuoteOwed(order, c, m), c.lock, c.w)
  BY <1>4 DEF Good
<1> QED BY <1>1, <1>3, <1>5, <1>6, <1>7, LoopKept

\* An invalid order is dropped.
LEMMA DropInvalidOk ==
  ASSUME NEW order, NEW c, NEW left, NEW m, NEW side, Round(order, c, left, m, side),
         NEW leaf \in left, NEW me, NEW rem, NEW r, r = DropInvalid(m, side, leaf, me, rem)
  PROVE  LoopOk(order, c, left \ {leaf}, r)
<1>1. /\ side \in Sides /\ IsLoop(m) /\ IsState(m.s) /\ m.s.ok \in BOOLEAN
      /\ Sane(m.s, m.s.heap, BaseOwed(order, c, m), QuoteOwed(order, c, m), c.lock, c.w)
      /\ left \subseteq m.s.book[side].leaves
  BY RoundParts
<1>2. LoopOk(order, c, left, m)
  BY DEF Round
<1>3. CASE m.dropped >= DROP_EXPIRED_ORDER_LIMIT
  <2>1. r = m
    BY <1>3 DEF DropInvalid
  <2> QED BY <1>2, <2>1 DEF LoopOk
<1>4. CASE ~(m.dropped >= DROP_EXPIRED_ORDER_LIMIT)
  <2> DEFINE rs == RemoveLeaf(process_out_event(m.s, OutEvent(side, leaf), me, rem), side, leaf)
             k == DroppedSet(m, m.dropped + 1)
             st == m.s
             base == BaseOwed(order, c, m)
             quote == QuoteOwed(order, c, m)
             r2 == rs
  <2>1. r = LoopStateSet(k, rs)
    BY <1>4 DEF DropInvalid, LoopStateSet, DroppedSet
  <2>2. IsState(st) /\ st.ok \in BOOLEAN /\ Sane(st, st.heap, base, quote, c.lock, c.w)
        /\ side \in Sides /\ leaf \in st.book[side].leaves
        /\ r2 = RemoveLeaf(process_out_event(st, OutEvent(side, leaf), me, rem), side, leaf)
    BY <1>1
  <2> HIDE DEF st, r2, base, quote, rs, k
  <2>3. LeafLeft(st, side, leaf, r2) /\ (r2.ok => Sane(r2, r2.heap, base, quote, c.lock, c.w))
    BY ONLY <2>2, OwnerTold
  <2>4. IsLoop(k) /\ Kept(k, m, "dropped")
    BY <1>1, DroppedSetIs DEF k
  <2>5. IsLoop(r) /\ r.s = rs /\ Kept(r, k, "s")
    BY <2>1, <2>4, LoopStateSetIs
  <2>6. SameCounts(r, m) /\ r.post = m.post
    BY <2>4, <2>5 DEF SameCounts, Kept
  <2>7. LeafLeft(m.s, side, leaf, rs)
        /\ (rs.ok => Sane(rs, rs.heap, BaseOwed(order, c, m), QuoteOwed(order, c, m), c.lock, c.w))
    BY <2>3 DEF st, r2, base, quote
  <2> QED BY <2>5, <2>6, <2>7, LeafLeftOk
<1> QED BY <1>3, <1>4

\* Orders of who places the order are cancelled.
LEMMA CancelProvideOk ==
  ASSUME NEW order, NEW c, NEW left, NEW m, NEW side, Round(order, c, left, m, side),
         NEW leaf \in left, NEW r,
         r = [m EXCEPT !.s = RemoveLeaf(CancelSlotOf(@, leaf.owner, leaf.owner_slot, leaf.quantity),
                                        side, leaf)]
  PROVE  LoopOk(order, c, left \ {leaf}, r)
<1>1. /\ side \in Sides /\ IsLoop(m) /\ IsState(m.s) /\ m.s.ok \in BOOLEAN
      /\ Sane(m.s, m.s.heap, BaseOwed(order, c, m), QuoteOwed(order, c, m), c.lock, c.w)
      /\ left \subseteq m.s.book[side].leaves /\ HeapOk(m.s.heap)
  BY RoundParts
<1> DEFINE st == m.s
           rs == RemoveLeaf(CancelSlotOf(m.s, leaf.owner, leaf.owner_slot, leaf.quantity), side, leaf)
           r2 == rs
           base == BaseOwed(order, c, m)
           quote == QuoteOwed(order, c, m)
<1>2. r = LoopStateSet(m, rs)
  BY DEF LoopStateSet
<1>3. /\ IsState(st) /\ Sane(st, st.heap, base, quote, c.lock, c.w)
      /\ side \in Sides /\ leaf \in st.book[side].leaves /\ 0 \notin DOMAIN st.heap
      /\ r2 = RemoveLeaf(CancelSlotOf(st, leaf.owner, leaf.owner_slot, leaf.quantity), side, leaf)
  <2>1. 0 \notin DOMAIN st.heap
    BY <1>1, HeapFacts
  <2> QED BY <1>1, <2>1
<1> HIDE DEF st, r2, rs, base, quote
<1>4. LeafLeft(st, side, leaf, r2) /\ r2.heap = st.heap
      /\ (r2.ok => Sane(r2, st.heap, base, quote, c.lock, c.w))
  BY ONLY <1>3, LeafCancelled
<1>5. IsLoop(r) /\ r.s = rs /\ Kept(r, m, "s")
  BY <1>1, <1>2, LoopStateSetIs
<1>6. SameCounts(r, m) /\ r.post = m.post
  BY <1>5 DEF SameCounts, Kept
<1>7. LeafLeft(m.s, side, leaf, rs)
      /\ (rs.ok => Sane(rs, rs.heap, BaseOwed(order, c, m), QuoteOwed(order, c, m), c.lock, c.w))
  BY <1>4 DEF st, r2, base, quote
<1> QED BY <1>5, <1>6, <1>7, LeafLeftOk

\* The transaction fails.
LEMMA AbortOk ==
  ASSUME NEW order, NEW c, NEW left, NEW m, LoopOk(order, c, left, m), NEW fewer,
         NEW r, r = [m EXCEPT !.s.ok = FALSE]
  PROVE  LoopOk(order, c, fewer, r)
<1> DEFINE rs == OkSet(m.s, FALSE)
<1>1. IsLoop(m) /\ IsState(m.s)
  BY DEF LoopOk
<1>2. r = LoopStateSet(m, rs)
  <2> DEFINE x == m.base
             y == m.quote
             st == m.s
             rest == m
  <2>1. [m EXCEPT !.s.ok = FALSE] = [m EXCEPT !.s = [st EXCEPT !.ok = FALSE]]
    BY <1>1 DEF IsLoop
  <2> QED BY <2>1 DEF LoopStateSet, OkSet
<1>3. IsState(rs) /\ rs.ok = FALSE
  <2> DEFINE st == m.s
             no == FALSE
             k == rs
  <2>1. IsState(st) /\ k = OkSet(st, no)
    BY <1>1
  <2> HIDE DEF st, no, k
  <2>2. IsState(k) /\ k.ok = no
    BY ONLY <2>1, OkSetIs
  <2> QED BY <2>2 DEF k, no
<1> HIDE DEF rs
<1>4. IsLoop(r) /\ r.s = rs /\ Kept(r, m, "s")
  BY <1>1, <1>2, LoopStateSetIs
<1>5. SameCounts(r, m) /\ r.post = m.post
  BY <1>4 DEF SameCounts, Kept
<1> QED BY <1>3, <1>4, <1>5, LoopKept

\* The loop's state once q lots at a price were matched.
Matched(m, r, q, quote, self, rebate, st) ==
  /\ IsLoop(r) /\ r.s = st /\ r.post = m.post
  /\ r.base = m.base - q /\ r.quote = m.quote - quote
  /\ r.decremented = m.decremented + self /\ r.rebates = m.rebates + rebate
  /\ r.limit = m.limit - 1 /\ r.dropped = m.dropped /\ r.filled = m.filled /\ r.stop = m.stop

\* The loop's state after a round's counts were booked.
LEMMA MatchedFields ==
  ASSUME NEW m, IsLoop(m), NEW q, NEW quote, NEW self, NEW rebate, NEW st, NEW r,
         r = [m EXCEPT !.base = @ - q, !.quote = @ - quote, !.limit = @ - 1,
                       !.decremented = @ + self, !.rebates = @ + rebate, !.s = st]
  PROVE  Matched(m, r, q, quote, self, rebate, st)
<1> DEFINE k1 == BaseSet(m, m.base - q)
           k2 == QuoteSet(k1, k1.quote - quote)
           k3 == LimitSet(k2, k2.limit - 1)
           k4 == DecrementedSet(k3, k3.decremented + self)
           k5 == RebatesSet(k4, k4.rebates + rebate)
           k6 == LoopStateSet(k5, st)
<1>1. r = k6
  BY DEF BaseSet, QuoteSet, LimitSet, DecrementedSet, RebatesSet, LoopStateSet
<1> HIDE DEF k6
<1>2. IsLoop(k1) /\ k1.base = m.base - q /\ Kept(k1, m, "base")
  BY BaseSetIs
<1> HIDE DEF k1
<1>3. IsLoop(k2) /\ k2.quote = k1.quote - quote /\ Kept(k2, k1, "quote")
  BY <1>2, QuoteSetIs
<1> HIDE DEF k2
<1>4. IsLoop(k3) /\ k3.limit = k2.limit - 1 /\ Kept(k3, k2, "limit")
  BY <1>3, LimitSetIs
<1> HIDE DEF k3
<1>5. IsLoop(k4) /\ k4.decremented = k3.decremented + self /\ Kept(k4, k3, "decremented")
  BY <1>4, DecrementedSetIs
<1> HIDE DEF k4
<1>6. IsLoop(k5) /\ k5.rebates = k4.rebates + rebate /\ Kept(k5, k4, "rebates")
  BY <1>5, RebatesSetIs
<1> HIDE DEF k5
<1>7. IsLoop(k6) /\ k6.s = st /\ Kept(k6, k5, "s")
  BY <1>6, LoopStateSetIs DEF k6
<1>8. k6.base = m.base - q /\ k6.post = m.post
  BY <1>2, <1>3, <1>4, <1>5, <1>6, <1>7 DEF Kept
<1>9. k6.quote = m.quote - quote
  BY <1>2, <1>3, <1>4, <1>5, <1>6, <1>7 DEF Kept
<1>10. k6.decremented = m.decremented + self
  BY <1>2, <1>3, <1>4, <1>5, <1>6, <1>7 DEF Kept
<1>11. k6.rebates = m.rebates + rebate
  BY <1>2, <1>3, <1>4, <1>5, <1>6, <1>7 DEF Kept
<1>12. k6.limit = m.limit - 1
  BY <1>2, <1>3, <1>4, <1>5, <1>6, <1>7 DEF Kept
<1>13. k6.dropped = m.dropped /\ k6.filled = m.filled /\ k6.stop = m.stop
  BY <1>2, <1>3, <1>4, <1>5, <1>6, <1>7 DEF Kept
<1> QED BY <1>1, <1>7, <1>8, <1>9, <1>10, <1>11, <1>12, <1>13 DEF Matched

\* The fills an order settles on the spot, after one of a maker's order.
FilledThen(m, maker, rem) ==
  IF m.filled < FILL_EVENT_REMAINING_LIMIT /\ maker \in rem THEN m.filled + 1 ELSE m.filled

\* A fill leads on to the maker's settlement or to an event on the heap.
LEMMA FillEventFields ==
  ASSUME NEW m, IsLoop(m), NEW fill, NEW rem, NEW r, r = process_fill_event(m, fill, rem)
  PROVE  /\ IsLoop(r) /\ SameCounts(r, m) /\ r.post = m.post
         /\ r.limit = m.limit /\ r.dropped = m.dropped /\ r.stop = m.stop
         /\ r.filled = FilledThen(m, fill.maker, rem)
         /\ FillOutcome(m.s, fill, r.s)
<1>1. CASE m.filled < FILL_EVENT_REMAINING_LIMIT /\ fill.maker \in rem
  <2> DEFINE k == LoopStateSet(m, ExecuteMaker(m.s, fill))
  <2>1. r = FilledSet(k, k.filled + 1)
    BY <1>1 DEF process_fill_event, LoopStateSet, FilledSet
  <2>2. IsLoop(k) /\ k.s = ExecuteMaker(m.s, fill) /\ Kept(k, m, "s")
    BY LoopStateSetIs
  <2> HIDE DEF k
  <2>3. IsLoop(r) /\ r.filled = k.filled + 1 /\ Kept(r, k, "filled")
    BY <2>1, <2>2, FilledSetIs
  <2>4. r.s = ExecuteMaker(m.s, fill)
    BY <2>2, <2>3 DEF Kept
  <2>5. SameCounts(r, m) /\ r.post = m.post
    BY <2>2, <2>3 DEF Kept, SameCounts
  <2>6. r.limit = m.limit /\ r.dropped = m.dropped /\ r.stop = m.stop /\ r.filled = m.filled + 1
    BY <2>2, <2>3 DEF Kept
  <2> QED BY <1>1, <2>3, <2>4, <2>5, <2>6 DEF FillOutcome, FilledThen
<1>2. CASE ~(m.filled < FILL_EVENT_REMAINING_LIMIT /\ fill.maker \in rem)
  <2> DEFINE v == push_back(m.s, fill)
  <2>1. r = LoopStateSet(m, v)
    BY <1>2 DEF process_fill_event, LoopStateSet
  <2> HIDE DEF v
  <2>2. IsLoop(r) /\ r.s = v /\ Kept(r, m, "s")
    BY <2>1, LoopStateSetIs
  <2>3. SameCounts(r, m) /\ r.post = m.post
    BY <2>2 DEF Kept, SameCounts
  <2>4. r.limit = m.limit /\ r.dropped = m.dropped /\ r.stop = m.stop /\ r.filled = m.filled
    BY <2>2 DEF Kept
  <2> QED BY <1>2, <2>2, <2>3, <2>4 DEF FillOutcome, FilledThen, v
<1> QED BY <1>1, <1>2

\* The loop's counts from m to r, when q lots are filled at a price and db and dq
\* are due by the event.
FillBooked(order, c, m, q, price, self, rebate, r, db, dq) ==
  /\ order.side \in Sides /\ ContextOk(c) /\ CountsOk(order, c, m)
  /\ q \in Nat \ {0} /\ price \in Nat \ {0} /\ q <= m.base /\ q * price <= m.quote
  /\ self \in Nat /\ rebate \in Nat
  /\ \/ self = q * price /\ rebate = 0
     \/ self = 0
  /\ r.base = m.base - q /\ r.quote = m.quote - q * price
  /\ r.decremented = m.decremented + self /\ r.rebates = m.rebates + rebate
  /\ db = IF order.side = "Ask" THEN q * base_lot_size ELSE -(q * base_lot_size)
  /\ dq = rebate + IF order.side = "Bid" THEN q * price * quote_lot_size
                   ELSE -(q * price * quote_lot_size)

\* A booked fill keeps the counts sound and shifts what the taker owes by its price and
\* rebate.
LEMMA FillBookedCounts ==
  ASSUME NEW order, NEW c, NEW m, NEW q, NEW price, NEW self, NEW rebate, NEW r, NEW db, NEW dq,
         FillBooked(order, c, m, q, price, self, rebate, r, db, dq)
  PROVE  /\ CountsOk(order, c, r)
         /\ BaseOwed(order, c, r) = BaseOwed(order, c, m) + db
         /\ QuoteOwed(order, c, r) = QuoteOwed(order, c, m) + dq
BY FillCounts DEF FillBooked

\* An order on the book is filled.
LEMMA FillOk ==
  ASSUME NEW order, NEW c, NEW left, NEW m, NEW side, Round(order, c, left, m, side),
         NEW item, item.leaf \in left, ItemFits(side, item), NEW me \in Traders, NEW rem,
         NEW q \in Nat \ {0}, q <= item.leaf.quantity, q <= m.base, q * item.price <= m.quote,
         NEW r, r = Fill(m, order, item, q, me, rem)
  PROVE  LoopOk(order, c, left \ {item.leaf}, r)
<1> DEFINE leaf == item.leaf
           quote == q * item.price
           self == leaf.owner = me
           e == FillEvent(order.side, item, q, me)
           taken == IF self THEN quote ELSE 0
           rebate == IF self THEN 0 ELSE maker_rebate_floor(quote * quote_lot_size)
           rs == Reduce(m.s, side, leaf, q)
           k == [m EXCEPT !.base = @ - q, !.quote = @ - quote, !.limit = @ - 1,
                          !.decremented = @ + taken, !.rebates = @ + rebate, !.s = rs]
           h == m.s.heap
           base == BaseOwed(order, c, m)
           owed == QuoteOwed(order, c, m)
<1>1. /\ side \in Sides /\ IsLoop(m) /\ IsState(m.s) /\ m.s.ok = TRUE
      /\ Sane(m.s, m.s.heap, base, owed, c.lock, c.w)
      /\ Frame(m.s, c.w) /\ left \subseteq m.s.book[side].leaves
      /\ BookOk(m.s.book, OrdersOf(m.s.oo), c.w.ids) /\ HeapOk(m.s.heap)
      /\ CountsOk(order, c, m)
  BY RoundParts, Zenon
<1>2. order.side \in Sides /\ side = invert_side(order.side) /\ order.side = invert_side(side)
      /\ ContextOk(c) /\ LoopOk(order, c, left, m)
      /\ (side = "Bid" <=> order.side = "Ask") /\ (side = "Ask" <=> order.side = "Bid")
  BY DEF Round, invert_side, Sides
<1>3. leaf \in m.s.book[side].leaves /\ leaf \in LeafValues /\ LeafOk(leaf)
  BY <1>1, AllLeavesFacts
<1>4. r = process_fill_event(k, e, rem)
  BY <1>2 DEF Fill, FillEvent
<1>5. LeafFilled(m.s, side, leaf, q, rs)
  <2>1. /\ m.s.book = [d \in Sides |-> m.s.book[d]]
        /\ m.s.book[side] = [leaves |-> m.s.book[side].leaves, bump |-> m.s.book[side].bump]
    BY <1>1 DEF BookOk, SideOk
  <2> DEFINE st == m.s
             x == rs
  <2>2. /\ IsState(st) /\ side \in Sides /\ leaf \in LeafValues
        /\ st.book = [d \in Sides |-> st.book[d]]
        /\ st.book[side] = [leaves |-> st.book[side].leaves, bump |-> st.book[side].bump]
    BY <1>1, <1>3, <2>1
  <2> HIDE DEF st, leaf
  <2>3. LeafFilled(st, side, leaf, q, Reduce(st, side, leaf, q))
    BY ONLY <2>2, ReduceFields
  <2> QED BY <2>3 DEF st
<1> HIDE DEF rs, k, e, taken, rebate, base, owed
<1>6. Matched(m, k, q, quote, taken, rebate, rs)
  BY <1>1, MatchedFields DEF k
<1>7. IsLoop(k) /\ k.s = rs /\ k.post = m.post
      /\ k.base = m.base - q /\ k.quote = m.quote - quote
      /\ k.decremented = m.decremented + taken /\ k.rebates = m.rebates + rebate
  BY <1>6 DEF Matched
<1>8. IsLoop(r) /\ SameCounts(r, k) /\ r.post = k.post /\ FillOutcome(rs, e, r.s)
  BY <1>4, <1>7, FillEventFields
<1>9. IsState(rs) /\ rs.ok = TRUE /\ rs.mkt = m.s.mkt /\ rs.oo = m.s.oo /\ rs.heap = h
      /\ rs.book = [m.s.book EXCEPT ![side] = ReducedSide(m.s.book[side], leaf, q)]
  BY <1>1, <1>5 DEF LeafFilled
<1>10. ASSUME NEW n, n \notin DOMAIN h
       PROVE  /\ FillEventOk(side, item, q, me, e)
              /\ Sane(rs, Plus(h, n, e), base + Due("base", e), owed + Due("quote", e), c.lock, c.w)
  <2> DEFINE st == m.s
             lock == c.lock
             w == c.w
  <2>1. /\ Sane(st, h, base, owed, lock, w) /\ side \in Sides
        /\ item.leaf \in st.book[side].leaves /\ ItemFits(side, item)
        /\ LeafFilled(st, side, item.leaf, q, rs)
        /\ e = FillEvent(invert_side(side), item, q, me)
    BY <1>1, <1>2, <1>3, <1>5 DEF e
  <2> HIDE DEF st, h, lock, w
  <2>2. /\ FillEventOk(side, item, q, me, e)
        /\ Sane(rs, Plus(h, n, e), base + Due("base", e), owed + Due("quote", e), lock, w)
    BY ONLY <1>10, <2>1, q \in Nat \ {0}, q <= item.leaf.quantity, me \in Traders, LeafFilledOk
  <2> QED BY <2>2 DEF lock, w
<1>11. FillEventOk(side, item, q, me, e)
  <2>1. 0 \notin DOMAIN h
    BY <1>1, HeapFacts
  <2> QED BY <1>10, <2>1
<1>12. /\ e \in EventValues /\ e.kind = "Fill" /\ rebate \in Nat
       /\ Due("base", e) = IF order.side = "Ask" THEN q * base_lot_size ELSE -(q * base_lot_size)
       /\ Due("quote", e) = rebate + IF order.side = "Bid" THEN q * item.price * quote_lot_size
                                     ELSE -(q * item.price * quote_lot_size)
  BY <1>2, <1>11 DEF FillEventOk, rebate
<1>13. item.price \in Nat \ {0}
  BY DEF ItemFits
<1>14. /\ taken \in Nat
       /\ \/ taken = q * item.price /\ rebate = 0
          \/ taken = 0
  <2>1. quote \in Nat
    BY <1>13
  <2> QED BY <2>1 DEF taken, rebate
<1>15. /\ CountsOk(order, c, k)
       /\ BaseOwed(order, c, k) = base + Due("base", e)
       /\ QuoteOwed(order, c, k) = owed + Due("quote", e)
  <2> DEFINE price == item.price
             db == Due("base", e)
             dq == Due("quote", e)
  <2>1. /\ order.side \in Sides /\ ContextOk(c) /\ CountsOk(order, c, m)
        /\ q \in Nat \ {0} /\ price \in Nat \ {0} /\ q <= m.base /\ q * price <= m.quote
        /\ taken \in Nat /\ rebate \in Nat
        /\ (\/ taken = q * price /\ rebate = 0
            \/ taken = 0)
        /\ k.base = m.base - q /\ k.quote = m.quote - q * price
        /\ k.decremented = m.decremented + taken /\ k.rebates = m.rebates + rebate
    BY <1>1, <1>2, <1>7, <1>13, <1>14, <1>12
  <2>2. /\ db = IF order.side = "Ask" THEN q * base_lot_size ELSE -(q * base_lot_size)
        /\ dq = rebate + IF order.side = "Bid" THEN q * price * quote_lot_size
                         ELSE -(q * price * quote_lot_size)
    BY <1>12
  <2> HIDE DEF price, db, dq
  <2>3. /\ CountsOk(order, c, k)
        /\ BaseOwed(order, c, k) = BaseOwed(order, c, m) + db
        /\ QuoteOwed(order, c, k) = QuoteOwed(order, c, m) + dq
    <3>1. FillBooked(order, c, m, q, price, taken, rebate, k, db, dq)
      BY ONLY <2>1, <2>2 DEF FillBooked
    <3> QED BY ONLY <3>1, FillBookedCounts
  <2> QED BY <2>3 DEF base, owed, db, dq
<1> DEFINE base2 == BaseOwed(order, c, k)
           owed2 == QuoteOwed(order, c, k)
<1>16. \A n : n \notin DOMAIN rs.heap => Sane(rs, Plus(rs.heap, n, e), base2, owed2, c.lock, c.w)
  BY <1>9, <1>10, <1>15
<1>17. /\ IsState(r.s) /\ r.s.ok \in BOOLEAN /\ r.s.book = rs.book
       /\ r.s.mkt.time_expiry = rs.mkt.time_expiry /\ r.s.mkt.closed = rs.mkt.closed
       /\ \A x \in Accounts : r.s.oo[x].open = rs.oo[x].open
       /\ r.s.ok => Sane(r.s, r.s.heap, base2, owed2, c.lock, c.w)
  <2> DEFINE x == r.s
             lock == c.lock
             w == c.w
  <2>1. /\ IsState(rs) /\ rs.ok \in BOOLEAN /\ HeapOk(rs.heap) /\ e \in EventValues /\ e.kind = "Fill"
        /\ FillOutcome(rs, e, x)
        /\ \A n : n \notin DOMAIN rs.heap => Sane(rs, Plus(rs.heap, n, e), base2, owed2, lock, w)
    BY <1>1, <1>8, <1>9, <1>12, <1>16, Zenon
  <2> HIDE DEF x, lock, w, base2, owed2
  <2>2. /\ IsState(x) /\ x.ok \in BOOLEAN /\ (x.ok => rs.ok) /\ x.book = rs.book
        /\ x.mkt.time_expiry = rs.mkt.time_expiry /\ x.mkt.closed = rs.mkt.closed
        /\ \A y \in Accounts : x.oo[y].open = rs.oo[y].open
        /\ x.ok => Sane(x, x.heap, base2, owed2, lock, w)
    BY ONLY <2>1, FillHandled
  <2> QED BY <2>2 DEF x, lock, w
<1>18. /\ Frame(r.s, c.w)
       /\ \A l \in m.s.book[side].leaves : l # leaf => l \in r.s.book[side].leaves
  <2> DEFINE x == r.s
             st == m.s
             w == c.w
             o == OrdersOf(m.s.oo)
             ids == c.w.ids
  <2>1. /\ Frame(st, w) /\ BookOk(st.book, o, ids) /\ side \in Sides /\ leaf \in st.book[side].leaves
        /\ q \in Nat \ {0} /\ q <= leaf.quantity
        /\ x.mkt.time_expiry = st.mkt.time_expiry /\ x.mkt.closed = st.mkt.closed
        /\ \A a \in Accounts : x.oo[a].open = st.oo[a].open
        /\ x.book = [st.book EXCEPT ![side] = ReducedSide(st.book[side], leaf, q)]
    BY <1>1, <1>3, <1>9, <1>17
  <2> HIDE DEF x, st, w, o, ids, leaf
  <2>2. Frame(x, w) /\ \A l \in st.book[side].leaves : l # leaf => l \in x.book[side].leaves
    BY ONLY <2>1, FrameFilled
  <2> QED BY <2>2 DEF x, st, w
<1>19. /\ BaseOwed(order, c, r) = base2 /\ QuoteOwed(order, c, r) = owed2 /\ CountsOk(order, c, r)
  <2>1. r.base = k.base /\ r.quote = k.quote /\ r.rebates = k.rebates /\ r.decremented = k.decremented
    BY <1>8 DEF SameCounts
  <2> QED BY <1>15, <2>1 DEF BaseOwed, QuoteOwed, CountsOk
<1>20. r.post \in {NoTree, post_target(order)}
  BY <1>2, <1>7, <1>8 DEF LoopOk
<1>21. r.s.ok => /\ Good(r.s, r.s.heap, BaseOwed(order, c, r), QuoteOwed(order, c, r), c.lock, c.w)
                 /\ left \ {leaf} \subseteq r.s.book[invert_side(order.side)].leaves
  BY <1>1, <1>2, <1>17, <1>18, <1>19 DEF Good
<1> QED BY <1>8, <1>17, <1>19, <1>20, <1>21 DEF LoopOk

\* The loop's invariant speaks of fewer leaves.
LEMMA LoopFewer ==
  ASSUME NEW order, NEW c, NEW left, NEW m, LoopOk(order, c, left, m), NEW fewer, fewer \subseteq left
  PROVE  LoopOk(order, c, fewer, m)
BY DEF LoopOk

\* An item of the other side that the loop is to look at.
Opposing(order, left, px, time, side, item) ==
  /\ order.side \in Sides /\ side = invert_side(order.side)
  /\ item.leaf \in left /\ px \in Int
  /\ item = Item(side, item.leaf, px, time) /\ Priced(side, item.leaf, px)

\* The quantity that is filled: at least a lot, and no more than there is.
LEMMA FillQuantity ==
  ASSUME NEW base \in Nat \ {0}, NEW quote \in Nat, NEW n \in Nat \ {0}, NEW price \in Nat \ {0},
         NEW by_quote, by_quote = quote \div price, by_quote # 0,
         NEW q, q = Min({base, n, by_quote})
  PROVE  q \in Nat \ {0} /\ q <= n /\ q <= base /\ q * price <= quote
<1>1. by_quote \in Int /\ by_quote * price <= quote /\ by_quote >= 0
  BY DivFacts
<1>2. q \in {base, n, by_quote} /\ q <= base /\ q <= n /\ q <= by_quote
  <2>1. base \in Int /\ n \in Int /\ by_quote \in Int
    BY <1>1
  <2>2. /\ Min({base, n, by_quote}) \in {base, n, by_quote}
        /\ Min({base, n, by_quote}) <= base /\ Min({base, n, by_quote}) <= n
        /\ Min({base, n, by_quote}) <= by_quote
    BY ONLY <2>1, Min3
  <2> QED BY <2>2
<1>3. q \in Nat \ {0}
  BY <1>1, <1>2
<1>4. q * price <= by_quote * price
  <2>1. \A a, b, d \in Nat : a <= b => a * d <= b * d
    OBVIOUS
  <2> QED BY <1>1, <1>2, <1>3, <2>1
<1>5. q * price \in Nat /\ by_quote * price \in Nat
  BY <1>1, <1>3
<1> QED BY <1>1, <1>2, <1>3, <1>4, <1>5

\* A round of the loop that fills.
LEMMA FillRoundOk ==
  ASSUME NEW order, NEW c, NEW left, NEW m, NEW side, Round(order, c, left, m, side),
         NEW px, NEW time, NEW item, Opposing(order, left, px, time, side, item),
         NEW me \in Traders, NEW rem, item.state = "Valid", m.base # 0,
         NEW by_quote, by_quote = m.quote \div item.price, by_quote # 0,
         NEW q, q = Min({m.base, item.leaf.quantity, by_quote}),
         NEW r, r = Fill(m, order, item, q, me, rem)
  PROVE  LoopOk(order, c, left \ {item.leaf}, r)
<1> DEFINE leaf == item.leaf
<1>1. /\ side \in Sides /\ left \subseteq m.s.book[side].leaves
      /\ BookOk(m.s.book, OrdersOf(m.s.oo), c.w.ids) /\ CountsOk(order, c, m)
  BY RoundParts, Zenon
<1>2. leaf \in left /\ px \in Int /\ item = Item(side, leaf, px, time) /\ Priced(side, leaf, px)
  BY DEF Opposing
<1>3. leaf \in LeafValues /\ LeafOk(leaf)
  BY <1>1, <1>2, AllLeavesFacts
<1>4. ItemFits(side, item)
  BY <1>1, <1>2, <1>3, ValidItem
<1>5. item.price \in Nat \ {0} /\ leaf.quantity \in Nat \ {0}
  BY <1>3, <1>4 DEF ItemFits, LeafValues
<1>6. m.base \in Nat \ {0} /\ m.quote \in Nat
  BY <1>1 DEF CountsOk
<1>7. q \in Nat \ {0} /\ q <= leaf.quantity /\ q <= m.base /\ q * item.price <= m.quote
  BY <1>5, <1>6, FillQuantity
<1> QED BY <1>2, <1>4, <1>7, FillOk

\* A round of the loop keeps its invariant; the item's leaf is no longer to come.
LEMMA MatchStepOk ==
  ASSUME NEW order, NEW c, ContextOk(c), NEW left, NEW m, LoopOk(order, c, left, m),
         NEW side, NEW px, NEW time, NEW item, Opposing(order, left, px, time, side, item),
         NEW me \in Traders, NEW price_lots, NEW rem,
         NEW r, r = MatchStep(m, order, price_lots, item, me, rem)
  PROVE  LoopOk(order, c, left \ {item.leaf}, r)
<1> DEFINE leaf == item.leaf
           fewer == left \ {leaf}
           by_quote == m.quote \div item.price
           q == Min({m.base, leaf.quantity, by_quote})
<1>1. LoopOk(order, c, fewer, m)
  BY LoopFewer
<1>2. m.s.ok \in BOOLEAN /\ side = invert_side(order.side) /\ order.side \in Sides /\ leaf \in left
      /\ side \in Sides
  BY DEF LoopOk, Opposing, invert_side, Sides
<1>3. CASE m.stop \/ ~m.s.ok
  <2>1. r = m
    BY <1>3 DEF MatchStep
  <2> QED BY <1>1, <2>1
<1>4. CASE ~(m.stop \/ ~m.s.ok)
  <2>1. Round(order, c, left, m, side)
    BY <1>2, <1>4 DEF Round
  <2>2. CASE m.base = 0 \/ m.quote = 0
    <3>1. r = Stop(m)
      BY <1>4, <2>2 DEF MatchStep
    <3> QED BY <1>1, <3>1, StopOk
  <2>3. CASE ~(m.base = 0 \/ m.quote = 0)
    <3>1. CASE item.state # "Valid"
      <4>1. r = DropInvalid(m, side, leaf, me, rem)
        BY <1>2, <1>4, <2>3, <3>1 DEF MatchStep
      <4> QED BY <1>2, <2>1, <4>1, DropInvalidOk
    <3>2. CASE ~(item.state # "Valid")
      <4>1. CASE ~is_price_within_limit(order.side, item.price, price_lots)
        <5>1. r = Stop(m)
          BY <1>4, <2>3, <3>2, <4>1 DEF MatchStep
        <5> QED BY <1>1, <5>1, StopOk
      <4>2. CASE is_price_within_limit(order.side, item.price, price_lots)
        <5> DEFINE k == IF leaf.owner = me /\ order.self_trade_behavior = "AbortTransaction"
                        THEN [m EXCEPT !.s.ok = FALSE]
                        ELSE IF leaf.owner = me /\ order.self_trade_behavior = "CancelProvide"
                        THEN [m EXCEPT !.s = RemoveLeaf(CancelSlotOf(@, me, leaf.owner_slot, leaf.quantity),
                                                        side, leaf)]
                        ELSE Fill(m, order, item, q, me, rem)
        <5>1. r = IF is_post_only(order) \/ m.limit = 0 \/ by_quote = 0 THEN StopUnposted(m) ELSE k
          BY <1>2, <1>4, <2>3, <3>2, <4>2 DEF MatchStep
        <5>2. CASE is_post_only(order) \/ m.limit = 0 \/ by_quote = 0
          <6>1. r = StopUnposted(m)
            BY <5>1, <5>2
          <6> QED BY <1>1, <6>1, StopOk
        <5>3. CASE ~(is_post_only(order) \/ m.limit = 0 \/ by_quote = 0)
          <6>1. r = k
            BY <5>1, <5>3
          <6>2. CASE leaf.owner = me /\ order.self_trade_behavior = "AbortTransaction"
            <7>1. r = [m EXCEPT !.s.ok = FALSE]
              BY <6>1, <6>2
            <7> QED BY <7>1, AbortOk
          <6>3. CASE /\ ~(leaf.owner = me /\ order.self_trade_behavior = "AbortTransaction")
                     /\ leaf.owner = me /\ order.self_trade_behavior = "CancelProvide"
            <7>1. r = [m EXCEPT !.s = RemoveLeaf(CancelSlotOf(@, leaf.owner, leaf.owner_slot, leaf.quantity),
                                                 side, leaf)]
              BY <6>1, <6>3
            <7> QED BY <1>2, <2>1, <7>1, CancelProvideOk
          <6>4. CASE /\ ~(leaf.owner = me /\ order.self_trade_behavior = "AbortTransaction")
                     /\ ~(leaf.owner = me /\ order.self_trade_behavior = "CancelProvide")
            <7>1. r = Fill(m, order, item, q, me, rem)
              BY <6>1, <6>4
            <7>2. by_quote # 0 /\ m.base # 0 /\ item.state = "Valid"
              BY <2>3, <3>2, <5>3
            <7> HIDE DEF by_quote, k
            <7> QED BY <2>1, <7>1, <7>2, FillRoundOk DEF by_quote
          <6> QED BY <6>2, <6>3, <6>4
        <5> QED BY <5>2, <5>3
      <4> QED BY <4>1, <4>2
    <3> QED BY <3>1, <3>2
  <2> QED BY <2>2, <2>3
<1> QED BY <1>3, <1>4

\* A set of numbers up to n has a greatest one.
LEMMA MaxFacts ==
  ASSUME NEW n \in Nat
  PROVE  \A T \in SUBSET (1 .. n) : T # {} => Max(T) \in T /\ \A y \in T : y <= Max(T)
<1> DEFINE S == {k \in Nat : \A T \in SUBSET (1 .. k) : T # {} => \E x \in T : \A y \in T : y <= x}
<1>1. 0 \in S
  <2>1. 1 .. 0 = {}
    OBVIOUS
  <2>2. \A T \in SUBSET (1 .. 0) : T = {}
    BY <2>1
  <2> QED BY <2>2
<1>2. ASSUME NEW k \in Nat, k \in S
      PROVE  k + 1 \in S
  <2>1. ASSUME NEW T \in SUBSET (1 .. k + 1), T # {}
        PROVE  \E x \in T : \A y \in T : y <= x
    <3>1. CASE k + 1 \in T
      BY <3>1
    <3>2. CASE k + 1 \notin T
      <4>1. T \in SUBSET (1 .. k)
        BY <3>2
      <4> QED BY <1>2, <2>1, <4>1
    <3> QED BY <3>1, <3>2
  <2> QED BY <2>1
<1>3. n \in S
  <2> HIDE DEF S
  <2> QED BY <1>1, <1>2, NatInd
<1>4. ASSUME NEW T \in SUBSET (1 .. n), T # {}
      PROVE  Max(T) \in T /\ \A y \in T : y <= Max(T)
  <2>1. PICK x \in T : \A y \in T : y <= x
    BY <1>3, <1>4
  <2>2. x \in T /\ \A y \in T : x >= y
    BY <2>1
  <2>3. Max(T) \in T /\ \A y \in T : Max(T) >= y
    BY <2>2 DEF Max
  <2> QED BY <2>3
<1> QED BY <1>4

\* The matching loop as an instance of the recursion: the state it starts in ...
MatchFirst(p) == p.start
\* ... and one round over the item the iterator yielded.
MatchRound(p, m, i) == MatchStep(m, p.order, p.price_lots, p.items[i], p.me, p.rem)
\* The instance whose fold these operators define.
Rounds == INSTANCE Recursion WITH Start <- MatchFirst, Step <- MatchRound, Pick <- Max

\* The loop's state before its first round.
MatchStart(s, order, limit) ==
  [s |-> s, base |-> order.max_base_lots, quote |-> order_max_quote_lots(order),
   decremented |-> 0, rebates |-> 0, dropped |-> 0, filled |-> 0,
   limit |-> limit, post |-> post_target(order), stop |-> FALSE]

\* The leaves of the items from the k-th on.
LeavesFrom(items, k) == {items[i].leaf : i \in {j \in 1 .. Len(items) : j >= k}}

\* Before the first round the loop's invariant holds.
LEMMA LoopStart ==
  ASSUME NEW order, order.side \in Sides, order.max_base_lots \in Nat,
         order_max_quote_lots(order) \in Nat,
         NEW c, ContextOk(c), c.base_lots = order.max_base_lots,
         c.quote_lots = order_max_quote_lots(order),
         NEW s, IsState(s), s.ok = TRUE, Good(s, s.heap, c.base, c.quote, c.lock, c.w),
         NEW left, left \subseteq s.book[invert_side(order.side)].leaves, NEW limit
  PROVE  LoopOk(order, c, left, MatchStart(s, order, limit))
<1> DEFINE m == MatchStart(s, order, limit)
<1>1. IsLoop(m)
  BY DEF IsLoop, MatchStart
<1>2. m.s = s /\ m.base = c.base_lots /\ m.quote = c.quote_lots /\ m.decremented = 0 /\ m.rebates = 0
      /\ m.post = post_target(order)
  BY DEF MatchStart
<1> HIDE DEF m
<1>3. c.base \in Int /\ c.quote \in Int /\ c.base_lots \in Nat /\ c.quote_lots \in Nat
  BY DEF ContextOk
<1>4. CountsOk(order, c, m)
  BY <1>2, <1>3 DEF CountsOk
<1>5. BaseOwed(order, c, m) = c.base /\ QuoteOwed(order, c, m) = c.quote
  <2>1. base_lot_size \in Nat /\ quote_lot_size \in Nat
    BY FeeAssumption
  <2>2. (c.base_lots - m.base) * base_lot_size = 0 /\ (c.quote_lots - m.quote) * quote_lot_size = 0
    <3>1. c.base_lots - m.base = 0 /\ c.quote_lots - m.quote = 0
      BY <1>2, <1>3
    <3>2. 0 * base_lot_size = 0 /\ 0 * quote_lot_size = 0
      BY <2>1
    <3> QED BY <3>1, <3>2
  <2> DEFINE bn == (c.base_lots - m.base) * base_lot_size
             qn == (c.quote_lots - m.quote) * quote_lot_size
  <2>3. BaseOwed(order, c, m) = c.base + (IF order.side = "Ask" THEN bn ELSE -bn)
        /\ QuoteOwed(order, c, m) = c.quote + m.rebates + (IF order.side = "Bid" THEN qn ELSE -qn)
    BY DEF BaseOwed, QuoteOwed
  <2>4. bn = 0 /\ qn = 0
    BY <2>2
  <2> HIDE DEF bn, qn
  <2>5. \A u, v \in Int : v = 0 => u + (-v) = u /\ u + v = u
    OBVIOUS
  <2>6. BaseOwed(order, c, m) = c.base
    BY <1>3, <2>3, <2>4, <2>5
  <2>7. c.quote + m.rebates = c.quote
    BY <1>2, <1>3
  <2>8. QuoteOwed(order, c, m) = c.quote
    BY <1>3, <2>3, <2>4, <2>5, <2>7
  <2> QED BY <2>6, <2>8
<1>6. Good(m.s, m.s.heap, BaseOwed(order, c, m), QuoteOwed(order, c, m), c.lock, c.w)
  BY <1>2, <1>5
<1>7. /\ IsLoop(m) /\ IsState(m.s) /\ m.s.ok \in BOOLEAN
      /\ Good(m.s, m.s.heap, BaseOwed(order, c, m), QuoteOwed(order, c, m), c.lock, c.w)
      /\ left \subseteq m.s.book[invert_side(order.side)].leaves
      /\ CountsOk(order, c, m) /\ m.post \in {NoTree, post_target(order)}
  BY <1>1, <1>2, <1>4, <1>6
<1>8. LoopOk(order, c, left, m)
  BY ONLY <1>7 DEF LoopOk
<1> QED BY <1>8 DEF m

\* The leaves of a side have numbers of their own.
LEMMA SideKeyed ==
  ASSUME NEW s, NEW E, NEW base, NEW quote, NEW lock, NEW w, Sane(s, E, base, quote, lock, w),
         NEW side \in Sides
  PROVE  Keyed(s.book[side].leaves)
<1> DEFINE L == s.book[side].leaves
           o == OrdersOf(s.oo)
<1>1. BookOk(s.book, o, w.ids) /\ LeavesClaim(o, AllLeaves(s.book))
  BY SaneParts
<1>2. L \subseteq AllLeaves(s.book) /\ L \subseteq LeafValues /\ IsFiniteSet(L)
  <2>1. L \subseteq AllLeaves(s.book)
    BY <1>1, AllLeavesFacts, Zenon
  <2>2. SideOk(s.book[side], w.ids)
    BY <1>1 DEF BookOk
  <2>3. L \subseteq LeafValues /\ IsFiniteSet(L)
    BY <2>2 DEF SideOk
  <2> QED BY <2>1, <2>3
<1> HIDE DEF o, L
<1>3. \A l \in L : l.price \in Int /\ l.id \in Int /\ l.tree \in Trees /\ PlaceOfLeaf(l) \in Places
  BY <1>2 DEF LeafValues, PlaceOfLeaf, Places
<1>4. ASSUME NEW l \in L, NEW k \in L, l.id = k.id
      PROVE  l = k
  <2>1. o[PlaceOfLeaf(l)].id = l.id
    BY <1>1, <1>2 DEF LeavesClaim, LeafFits
  <2>2. PlaceOfLeaf(l) = PlaceOfLeaf(k)
    BY <1>1, <1>2, <1>3, <1>4, <2>1 DEF LeavesClaim
  <2> QED BY <1>1, <1>2, <2>2 DEF LeavesClaim
<1> QED BY <1>2, <1>3, <1>4 DEF Keyed, L

\* The loop's state after the first k of the items.
MatchedUpTo(s, order, price_lots, items, limit, me, rem, k) ==
  Rounds!Fold([start |-> MatchStart(s, order, limit), order |-> order, price_lots |-> price_lots,
               items |-> items, me |-> me, rem |-> rem], 1 .. k)

\* The loop's records after each item, from a good state to the loop's result.
GoodRounds(s, order, c, price_lots, px, time, limit, me, rem, side, items) ==
  LET At(k) == MatchedUpTo(s, order, price_lots, items, limit, me, rem, k)
  IN  /\ Len(items) \in Nat
      /\ Match(s, order, price_lots, px, time, limit, me, rem) = At(Len(items))
      /\ At(0) = MatchStart(s, order, limit)
      /\ \A k \in 1 .. Len(items) :
           /\ At(k) = MatchStep(At(k - 1), order, price_lots, items[k], me, rem)
           /\ Opposing(order, LeavesFrom(items, k), px, time, side, items[k])
      /\ \A k \in 0 .. Len(items) : LoopOk(order, c, LeavesFrom(items, k + 1), At(k))

\* The loop takes the items one by one and keeps its invariant.
LEMMA MatchRoundsOk ==
  ASSUME NEW order, order.side \in Sides, order.max_base_lots \in Nat,
         order_max_quote_lots(order) \in Nat,
         NEW c, ContextOk(c), c.base_lots = order.max_base_lots,
         c.quote_lots = order_max_quote_lots(order),
         NEW s, IsState(s), s.ok = TRUE, Good(s, s.heap, c.base, c.quote, c.lock, c.w),
         NEW px \in Int, NEW time, NEW limit, NEW me \in Traders, NEW rem, NEW price_lots,
         NEW side, side = invert_side(order.side),
         NEW items, items = iter_all(side, s.book[side], px, time)
  PROVE  GoodRounds(s, order, c, price_lots, px, time, limit, me, rem, side, items)
<1> DEFINE bs == s.book[side]
           start == MatchStart(s, order, limit)
           p == [start |-> start, order |-> order, price_lots |-> price_lots, items |-> items,
                 me |-> me, rem |-> rem]
           n == Len(items)
           at(k) == Rounds!Fold(p, 1 .. k)
           left(k) == LeavesFrom(items, k + 1)
<1>1. /\ Match(s, order, price_lots, px, time, limit, me, rem) = Rounds!Fold(p, DOMAIN items)
      /\ items = iter_all(side, bs, px, time)
  BY DEF Match, FoldLeft, MapThenFoldSet, Rounds!Fold, MatchFirst, MatchRound, MatchStart
<1>2. p.start = start /\ p.order = order /\ p.price_lots = price_lots /\ p.items = items
      /\ p.me = me /\ p.rem = rem
  OBVIOUS
<1>3. side \in Sides
  BY DEF invert_side, Sides
<1>4. Keyed(bs.leaves)
  BY <1>3, SideKeyed DEF Good
<1>5. /\ items \in Seq({Item(side, l, px, time) : l \in bs.leaves})
      /\ \A i \in 1 .. Len(items) : Priced(side, items[i].leaf, px)
      /\ \A i, j \in 1 .. Len(items) : items[i].leaf = items[j].leaf => i = j
  <2>1. px \in Int
    OBVIOUS
  <2> HIDE DEF bs
  <2> QED BY ONLY <1>1, <1>3, <1>4, <2>1, IterAllFacts
<1>0. \A k : at(k) = MatchedUpTo(s, order, price_lots, items, limit, me, rem, k)
  BY DEF MatchedUpTo
<1> HIDE DEF bs, start, p
<1>6. n \in Nat /\ DOMAIN items = 1 .. n
  BY <1>5
<1>7. ASSUME NEW i \in 1 .. n
      PROVE  items[i].leaf \in bs.leaves /\ items[i] = Item(side, items[i].leaf, px, time)
  <2>1. PICK l \in bs.leaves : items[i] = Item(side, l, px, time)
    BY <1>5, <1>7
  <2> QED BY <2>1, ItemFacts
<1>8. /\ Rounds!Fold(p, 1 .. 0) = start
      /\ \A k \in 1 .. n : Rounds!Fold(p, 1 .. k) = MatchRound(p, Rounds!Fold(p, 1 .. (k - 1)), k)
  <2>1. \A T \in SUBSET (1 .. n) : T # {} => Max(T) \in T /\ \A y \in T : y <= Max(T)
    BY <1>6, MaxFacts
  <2>2. /\ Rounds!Fold(p, 1 .. 0) = MatchFirst(p)
        /\ \A k \in 1 .. n : Rounds!Fold(p, 1 .. k) = MatchRound(p, Rounds!Fold(p, 1 .. (k - 1)), k)
    BY <1>6, <2>1, Rounds!FoldInTurn
  <2> QED BY <1>2, <2>2 DEF MatchFirst
<1> DEFINE S == {k \in Nat : k <= n => LoopOk(order, c, left(k), at(k))}
<1>9. 0 \in S
  <2>1. left(0) \subseteq s.book[invert_side(order.side)].leaves
    BY <1>7 DEF LeavesFrom, bs
  <2>2. LoopOk(order, c, left(0), start)
    <3> HIDE DEF left
    <3> QED BY <2>1, LoopStart DEF start
  <2> QED BY <1>8, <2>2
<1>10. ASSUME NEW k \in Nat, k \in S
       PROVE  k + 1 \in S
  <2>1. CASE k + 1 <= n
    <3> DEFINE item == items[k + 1]
               m == at(k)
               r == at(k + 1)
    <3>1. k + 1 \in 1 .. n /\ k + 1 - 1 = k /\ LoopOk(order, c, left(k), at(k))
      BY <1>6, <1>10, <2>1
    <3>2. r = MatchStep(m, order, price_lots, item, me, rem)
      <4>1. r = MatchRound(p, m, k + 1)
        BY <1>8, <3>1
      <4> QED BY <1>2, <4>1 DEF MatchRound
    <3>3. item.leaf \in left(k)
      BY <3>1 DEF LeavesFrom
    <3>4. Opposing(order, left(k), px, time, side, item)
      BY <1>5, <1>7, <3>1, <3>3 DEF Opposing
    <3>5. LoopOk(order, c, left(k), m)
      BY <3>1
    <3>6. left(k + 1) \subseteq left(k) \ {item.leaf}
      <4>1. ASSUME NEW i \in 1 .. n, i >= k + 1 + 1
            PROVE  items[i].leaf \in left(k) /\ items[i].leaf # item.leaf
        <5>1. items[i].leaf \in left(k)
          BY <4>1, <1>6 DEF LeavesFrom
        <5>2. i # k + 1
          BY <4>1, <1>6
        <5> QED BY <1>5, <3>1, <5>1, <5>2
      <4> QED BY <4>1 DEF LeavesFrom
    <3> HIDE DEF left, at, item, r, m
    <3>7. LoopOk(order, c, left(k) \ {item.leaf}, r)
      BY <3>2, <3>4, <3>5, MatchStepOk
    <3>8. LoopOk(order, c, left(k + 1), r)
      BY <3>6, <3>7, LoopFewer
    <3> QED BY <3>8 DEF r
  <2>2. CASE ~(k + 1 <= n)
    BY <2>2
  <2> QED BY <2>1, <2>2
<1>11. \A k \in 0 .. n : LoopOk(order, c, left(k), at(k))
  <2>1. Nat \subseteq S
    <3> HIDE DEF S
    <3> QED BY <1>9, <1>10, NatInd
  <2> QED BY <1>6, <2>1
<1>12. ASSUME NEW k \in 1 .. n
       PROVE  /\ at(k) = MatchStep(at(k - 1), order, price_lots, items[k], me, rem)
              /\ Opposing(order, LeavesFrom(items, k), px, time, side, items[k])
  <2>1. at(k) = MatchRound(p, at(k - 1), k)
    BY <1>8
  <2>2. at(k) = MatchStep(at(k - 1), order, price_lots, items[k], me, rem)
    <3> HIDE DEF at
    <3> QED BY <1>2, <2>1 DEF MatchRound
  <2>3. items[k].leaf \in LeavesFrom(items, k)
    BY <1>6 DEF LeavesFrom
  <2>4. Opposing(order, LeavesFrom(items, k), px, time, side, items[k])
    BY <1>5, <1>7, <2>3 DEF Opposing
  <2> QED BY <2>2, <2>4
<1>13. at(0) = start /\ Match(s, order, price_lots, px, time, limit, me, rem) = at(n)
  BY <1>1, <1>6, <1>8
<1> HIDE DEF at, left, S
<1> DEFINE At(k) == MatchedUpTo(s, order, price_lots, items, limit, me, rem, k)
<1>14. \A k \in 0 .. n : LoopOk(order, c, LeavesFrom(items, k + 1), At(k))
  BY <1>0, <1>11 DEF left
<1>15. At(0) = MatchStart(s, order, limit) /\ Match(s, order, price_lots, px, time, limit, me, rem) = At(n)
  BY <1>0, <1>13 DEF start
<1>16. \A k \in 1 .. n : /\ At(k) = MatchStep(At(k - 1), order, price_lots, items[k], me, rem)
                         /\ Opposing(order, LeavesFrom(items, k), px, time, side, items[k])
  BY <1>0, <1>12
<1> QED BY ONLY <1>6, <1>14, <1>15, <1>16 DEF GoodRounds

\* The loop over all items keeps its invariant.
LEMMA MatchOk ==
  ASSUME NEW order, order.side \in Sides, order.max_base_lots \in Nat,
         order_max_quote_lots(order) \in Nat,
         NEW c, ContextOk(c), c.base_lots = order.max_base_lots,
         c.quote_lots = order_max_quote_lots(order),
         NEW s, IsState(s), s.ok = TRUE, Good(s, s.heap, c.base, c.quote, c.lock, c.w),
         NEW px \in Int, NEW time, NEW limit, NEW me \in Traders, NEW rem, NEW price_lots
  PROVE  LoopOk(order, c, {}, Match(s, order, price_lots, px, time, limit, me, rem))
<1> DEFINE side == invert_side(order.side)
           items == iter_all(side, s.book[side], px, time)
           n == Len(items)
           m == Match(s, order, price_lots, px, time, limit, me, rem)
           At(k) == MatchedUpTo(s, order, price_lots, items, limit, me, rem, k)
<1>1. n \in Nat /\ m = At(n) /\ \A k \in 0 .. n : LoopOk(order, c, LeavesFrom(items, k + 1), At(k))
  <2>1. GoodRounds(s, order, c, price_lots, px, time, limit, me, rem, side, items)
    BY MatchRoundsOk
  <2> QED BY ONLY <2>1 DEF GoodRounds
<1> HIDE DEF n, items, m, At
<1>2. LoopOk(order, c, LeavesFrom(items, n + 1), m)
  BY <1>1
<1>3. LoopOk(order, c, {}, m)
  <2>1. {} \subseteq LeavesFrom(items, n + 1)
    OBVIOUS
  <2> QED BY <1>2, <2>1, LoopFewer
<1> QED BY <1>3 DEF m

\* What is owed for what an order took, by a taker without an account and by
\* an account whose part was credited.
DueBase(side, t) == IF side = "Ask" THEN t.base ELSE -t.base
\* The quote an order's taker part still has to pay in, and the base and quote its account
\* pays at once.
DueQuote(side, t) ==
  (t.fees - t.referrer_amount) + (IF side = "Bid" THEN t.quote ELSE -t.quote)
\* The base an order's taker part leaves to be paid in.
TakenBase(side, t, me) ==
  IF me \in Accounts THEN IF side = "Ask" THEN t.base ELSE 0 ELSE DueBase(side, t)
\* The quote it leaves to be paid in.
TakenQuote(side, t, me) ==
  IF me \in Accounts THEN IF side = "Bid" THEN t.quote + t.fees ELSE 0 ELSE DueQuote(side, t)

\* The amounts of the taker part are natural numbers, all 0 when nothing matched.
TakenOk(t) ==
  /\ t.base \in Nat /\ t.quote \in Nat /\ t.quote_lots \in Nat
  /\ t.fees \in Nat /\ t.referrer_amount \in Int
  /\ t.any \in BOOLEAN
  /\ ~t.any => t.base = 0 /\ t.quote = 0 /\ t.fees = 0 /\ t.referrer_amount = 0

\* The taker fee is a number of tokens.
LEMMA TakerFeeNat ==
  ASSUME NEW x \in Nat
  PROVE  taker_fees_ceil(x) \in Nat
<1> DEFINE S == FEES_SCALE_FACTOR
           p == x * taker_fee
<1>1. S \in Nat \ {0} /\ taker_fee \in Nat
  BY FeeAssumption
<1>2. p \in Nat
  BY <1>1
<1> HIDE DEF p, S
<1>3. p + S - 1 \in Int /\ p + S - 1 >= 0
  BY <1>1, <1>2
<1>4. (p + S - 1) \div S \in Int /\ (p + S - 1) \div S >= 0
  BY <1>1, <1>3, DivFacts
<1>5. taker_fees_ceil(x) = (p + S - 1) \div S
  BY DEF taker_fees_ceil, ceil_fee_division, p, S
<1> QED BY <1>4, <1>5

\* The loop's counts say what the order took and what is owed for it.
LEMMA TakenFacts ==
  ASSUME NEW order, order.side \in Sides, order.max_base_lots \in Nat,
         NEW c, ContextOk(c), c.base_lots = order.max_base_lots,
         c.quote_lots = order_max_quote_lots(order),
         NEW m, CountsOk(order, c, m), NEW t, t = Taken(order, m)
  PROVE  /\ TakenOk(t) /\ t.fees - t.referrer_amount = m.rebates
         /\ BaseOwed(order, c, m) = c.base + DueBase(order.side, t)
         /\ QuoteOwed(order, c, m) = c.quote + DueQuote(order.side, t)
<1> DEFINE bl == c.base_lots - m.base
           ql == c.quote_lots - m.quote
           bn == bl * base_lot_size
           qn == ql * quote_lot_size
           charged == (ql - m.decremented) * quote_lot_size
           fees == IF charged > 0 THEN taker_fees_ceil(charged) ELSE 0
           amount == IF charged > 0 THEN fees - m.rebates ELSE 0
<1>1. t = [any |-> bl > 0 \/ ql > 0, base |-> bn, quote_lots |-> ql, quote |-> qn,
           fees |-> fees, referrer_amount |-> amount]
  BY DEF Taken
<1>2. /\ bl \in Nat /\ ql \in Nat /\ m.rebates \in Nat /\ m.decremented \in Nat
      /\ m.decremented <= ql
      /\ m.rebates # 0 => m.decremented < ql
      /\ c.base \in Int /\ c.quote \in Int
  BY DEF CountsOk, ContextOk
<1>3. /\ BaseOwed(order, c, m) = c.base + (IF order.side = "Ask" THEN bn ELSE -bn)
      /\ QuoteOwed(order, c, m) = c.quote + m.rebates + (IF order.side = "Bid" THEN qn ELSE -qn)
  BY DEF BaseOwed, QuoteOwed
<1> HIDE DEF bl, ql
<1> DEFINE rest == ql - m.decremented
<1>4. base_lot_size \in Nat \ {0} /\ quote_lot_size \in Nat \ {0}
  BY FeeAssumption
<1>5. /\ bn \in Nat /\ qn \in Nat /\ charged \in Nat
      /\ bl = 0 => bn = 0
      /\ ql = 0 => qn = 0 /\ charged = 0
      /\ m.rebates # 0 => charged > 0
  <2>1. \A n \in Nat, k \in Nat \ {0} : n * k \in Nat /\ (n = 0 => n * k = 0) /\ (n > 0 => n * k > 0)
    <3>1. \A n \in Nat, k \in Nat \ {0} : n * k \in Nat /\ (n = 0 => n * k = 0)
      OBVIOUS
    <3>2. ASSUME NEW n \in Nat, NEW k \in Nat \ {0}, n > 0
          PROVE  n * k > 0
      <4>1. n * k >= n
        <5>1. \A u, v \in Nat : v >= 1 => u * v >= u
          OBVIOUS
        <5> QED BY <5>1
      <4>2. n * k \in Nat
        OBVIOUS
      <4> QED BY <3>2, <4>1, <4>2
    <3> QED BY <3>1, <3>2
  <2>2. rest \in Nat /\ (ql = 0 => rest = 0) /\ (m.rebates # 0 => rest > 0)
    BY <1>2
  <2> HIDE DEF rest
  <2>3. charged = rest * quote_lot_size
    BY DEF rest
  <2> QED BY <1>2, <1>4, <2>1, <2>2, <2>3
<1> HIDE DEF bn, qn, charged
<1>6. fees \in Nat /\ amount \in Int /\ fees - amount = m.rebates /\ (charged = 0 => fees = 0 /\ amount = 0)
  <2>1. taker_fees_ceil(charged) \in Nat
    BY <1>5, TakerFeeNat
  <2> DEFINE f == taker_fees_ceil(charged)
  <2> HIDE DEF f
  <2>2. f \in Nat /\ fees = IF charged > 0 THEN f ELSE 0
    BY <2>1 DEF f
  <2>3. CASE charged > 0
    <3>1. fees = f /\ amount = f - m.rebates
      BY <2>2, <2>3
    <3> QED BY <1>2, <1>5, <2>2, <2>3, <3>1
  <2>4. CASE ~(charged > 0)
    <3>1. fees = 0 /\ amount = 0 /\ m.rebates = 0
      BY <1>2, <1>5, <2>4
    <3> QED BY <3>1
  <2> QED BY <2>3, <2>4
<1> HIDE DEF fees, amount
<1>7. /\ t.any = (bl > 0 \/ ql > 0) /\ t.base = bn /\ t.quote_lots = ql /\ t.quote = qn
      /\ t.fees = fees /\ t.referrer_amount = amount
  BY <1>1
<1>8. ~t.any => t.base = 0 /\ t.quote = 0 /\ t.fees = 0 /\ t.referrer_amount = 0
  <2>1. ASSUME ~t.any
        PROVE  ~(bl > 0) /\ ~(ql > 0)
    BY <1>7, <2>1, Zenon
  <2>2. ~(bl > 0) /\ ~(ql > 0) => bl = 0 /\ ql = 0
    BY <1>2
  <2>3. bl = 0 /\ ql = 0 => bn = 0 /\ qn = 0 /\ fees = 0 /\ amount = 0
    BY <1>5, <1>6
  <2> QED BY <1>7, <2>1, <2>2, <2>3, Zenon
<1>9. TakenOk(t)
  BY <1>2, <1>5, <1>6, <1>7, <1>8 DEF TakenOk
<1>10. BaseOwed(order, c, m) = c.base + DueBase(order.side, t)
  BY <1>3, <1>7 DEF DueBase
<1>11. QuoteOwed(order, c, m) = c.quote + DueQuote(order.side, t)
  <2> DEFINE x == IF order.side = "Bid" THEN qn ELSE -qn
  <2>1. x \in Int
    BY <1>5
  <2>2. DueQuote(order.side, t) = m.rebates + x
    BY <1>6, <1>7 DEF DueQuote
  <2>3. QuoteOwed(order, c, m) = c.quote + m.rebates + x
    BY <1>3
  <2> HIDE DEF x
  <2> QED BY <1>2, <2>1, <2>2, <2>3
<1>12. t.fees - t.referrer_amount = m.rebates
  BY <1>6, <1>7
<1> QED BY <1>9, <1>10, <1>11, <1>12

-----------------------------------------------------------------------------
\* An account with other amounts of tokens and the same orders.
MoneySet(acc, base, quote, locked, rebates, penalty) ==
  [acc EXCEPT !.base_free_native = base, !.quote_free_native = quote,
              !.locked_maker_fees = locked, !.referrer_rebates_available = rebates,
              !.penalty_heap_count = penalty]

\* An account whose balances were replaced and whose orders were not.
MoneyIs(acc, old, base, quote, locked, rebates) ==
  /\ acc \in AccountValues /\ SameOrders(acc, old)
  /\ acc.base_free_native = base /\ acc.quote_free_native = quote
  /\ acc.locked_maker_fees = locked /\ acc.referrer_rebates_available = rebates
  /\ OwedTo("base", acc) = OwedTo("base", old) + (base - old.base_free_native)
  /\ OwedTo("quote", acc) = OwedTo("quote", old) + (quote - old.quote_free_native)
                            + (locked - old.locked_maker_fees)
                            + (rebates - old.referrer_rebates_available)
  /\ OwedTo("rebates", acc) = OwedTo("rebates", old) + (rebates - old.referrer_rebates_available)

\* Replacing the balances yields that account.
LEMMA MoneySetFacts ==
  ASSUME NEW old \in AccountValues, NEW base \in Int, NEW quote \in Int, NEW locked \in Int,
         NEW rebates \in Int, NEW penalty \in Int,
         NEW acc, acc = MoneySet(old, base, quote, locked, rebates, penalty)
  PROVE  MoneyIs(acc, old, base, quote, locked, rebates)
<1>1. acc \in AccountValues
  BY Zenon DEF MoneySet, AccountValues
<1>2. /\ acc.open = old.open /\ acc.open_orders = old.open_orders
      /\ acc.bids_base_lots = old.bids_base_lots /\ acc.asks_base_lots = old.asks_base_lots
      /\ acc.bids_quote_lots = old.bids_quote_lots
      /\ acc.base_free_native = base /\ acc.quote_free_native = quote
      /\ acc.locked_maker_fees = locked /\ acc.referrer_rebates_available = rebates
  BY DEF MoneySet, AccountValues
<1>3. /\ old.base_free_native \in Int /\ old.quote_free_native \in Int
      /\ old.locked_maker_fees \in Int /\ old.referrer_rebates_available \in Int
      /\ old.asks_base_lots \in Int /\ old.bids_quote_lots \in Int
  BY DEF AccountValues
<1> DEFINE x == old.asks_base_lots * base_lot_size
           y == old.bids_quote_lots * quote_lot_size
<1>4. x \in Int /\ y \in Int
  BY <1>3, FeeAssumption
<1>5. /\ OwedTo("base", acc) = base + x /\ OwedTo("base", old) = old.base_free_native + x
      /\ OwedTo("quote", acc) = quote + y + locked + rebates
      /\ OwedTo("quote", old) = old.quote_free_native + y + old.locked_maker_fees
                                + old.referrer_rebates_available
      /\ OwedTo("rebates", acc) = rebates /\ OwedTo("rebates", old) = old.referrer_rebates_available
  BY <1>2, OwedFacts
<1> HIDE DEF x, y
<1>6. OwedTo("base", acc) = OwedTo("base", old) + (base - old.base_free_native)
  BY <1>3, <1>4, <1>5
<1>7. OwedTo("quote", acc) = OwedTo("quote", old) + (quote - old.quote_free_native)
                            + (locked - old.locked_maker_fees)
                            + (rebates - old.referrer_rebates_available)
  BY <1>3, <1>4, <1>5
<1>8. OwedTo("rebates", acc) = OwedTo("rebates", old) + (rebates - old.referrer_rebates_available)
  BY <1>3, <1>5
<1> QED BY <1>1, <1>2, <1>6, <1>7, <1>8 DEF MoneyIs, SameOrders

\* An account credited with what its taker part bought or sold.
TakerPaid(acc, old, side, t) ==
  /\ acc \in AccountValues /\ SameOrders(acc, old)
  /\ acc.locked_maker_fees = old.locked_maker_fees
  /\ OwedTo("base", acc) = OwedTo("base", old) + (IF side = "Bid" THEN t.base ELSE 0)
  /\ OwedTo("quote", acc) = OwedTo("quote", old) + t.referrer_amount
                            + (IF side = "Bid" THEN 0 ELSE t.quote - t.fees)
  /\ OwedTo("rebates", acc) = OwedTo("rebates", old) + t.referrer_amount

\* A taker's account gets what the order took.
LEMMA ExecuteTakerFacts ==
  ASSUME NEW old \in AccountValues, NEW side \in Sides, NEW t, TakenOk(t)
  PROVE  TakerPaid(execute_taker(old, side, t.base, t.quote, t.fees, t.referrer_amount), old, side, t)
<1> DEFINE acc == execute_taker(old, side, t.base, t.quote, t.fees, t.referrer_amount)
           base == old.base_free_native + (IF side = "Bid" THEN t.base ELSE 0)
           quote == old.quote_free_native + (IF side = "Bid" THEN 0 ELSE t.quote - t.fees)
           locked == old.locked_maker_fees
           rebates == old.referrer_rebates_available + t.referrer_amount
           penalty == old.penalty_heap_count
<1>1. /\ t.base \in Int /\ t.quote \in Int /\ t.fees \in Int /\ t.referrer_amount \in Int
      /\ old.base_free_native \in Int /\ old.quote_free_native \in Int
      /\ old.locked_maker_fees \in Int /\ old.referrer_rebates_available \in Int
      /\ old.penalty_heap_count \in Int
  BY DEF TakenOk, AccountValues
<1>2. base \in Int /\ quote \in Int /\ locked \in Int /\ rebates \in Int /\ penalty \in Int
  BY <1>1
<1>3. acc = MoneySet(old, base, quote, locked, rebates, penalty)
  <2>1. CASE side = "Bid"
    <3>1. base = old.base_free_native + t.base /\ quote = old.quote_free_native
      BY <1>1, <2>1
    <3>2. acc = [old EXCEPT !.base_free_native = base, !.referrer_rebates_available = rebates]
      BY <2>1, <3>1 DEF execute_taker
    <3> HIDE DEF base, rebates, acc, quote
    <3> QED BY <3>1, <3>2, Zenon DEF MoneySet, AccountValues
  <2>2. CASE side = "Ask"
    <3>1. base = old.base_free_native /\ quote = old.quote_free_native + t.quote - t.fees
      BY <1>1, <2>2
    <3>2. acc = [old EXCEPT !.quote_free_native = quote, !.referrer_rebates_available = rebates]
      BY <2>2, <3>1 DEF execute_taker
    <3> HIDE DEF base, rebates, acc, quote
    <3> QED BY <3>1, <3>2, Zenon DEF MoneySet, AccountValues
  <2> QED BY <2>1, <2>2 DEF Sides
<1> HIDE DEF acc, base, quote, locked, rebates, penalty
<1>4. MoneyIs(acc, old, base, quote, locked, rebates)
  BY ONLY <1>2, <1>3, old \in AccountValues, MoneySetFacts
<1>5. /\ base - old.base_free_native = (IF side = "Bid" THEN t.base ELSE 0)
      /\ quote - old.quote_free_native = (IF side = "Bid" THEN 0 ELSE t.quote - t.fees)
      /\ locked = old.locked_maker_fees
      /\ rebates - old.referrer_rebates_available = t.referrer_amount
  BY <1>1 DEF base, quote, locked, rebates
<1>6. OwedTo("base", acc) = OwedTo("base", old) + (IF side = "Bid" THEN t.base ELSE 0)
      /\ OwedTo("rebates", acc) = OwedTo("rebates", old) + t.referrer_amount
  BY <1>4, <1>5 DEF MoneyIs
<1>7. OwedTo("quote", acc) = OwedTo("quote", old) + t.referrer_amount
                            + (IF side = "Bid" THEN 0 ELSE t.quote - t.fees)
  <2> DEFINE x == IF side = "Bid" THEN 0 ELSE t.quote - t.fees
             y == OwedTo("quote", old)
             z == t.referrer_amount
  <2>1. x \in Int /\ y \in Int /\ z \in Int
    BY <1>1, OwedToInt DEF Units
  <2>2. OwedTo("quote", acc) = y + x + 0 + z
    BY <1>1, <1>2, <1>4, <1>5 DEF MoneyIs
  <2> HIDE DEF x, y, z
  <2>3. OwedTo("quote", acc) = y + z + x
    BY <2>1, <2>2
  <2> QED BY <2>3 DEF x, y, z
<1> QED BY <1>4, <1>5, <1>6, <1>7 DEF TakerPaid, MoneyIs, acc

\* The market with its two accrued totals replaced.
Accrued(m, fees, rebates) ==
  [m EXCEPT !.fees_accrued = fees, !.referrer_rebates_accrued = rebates]

\* Counting fees and rebates changes no other total.
LEMMA AccruedFacts ==
  ASSUME NEW m \in MarketValues, NEW fees \in Int, NEW rebates \in Int, NEW w, TotalsOk(m, w)
  PROVE  LET k == Accrued(m, fees, rebates)
         IN  /\ TotalsOk(k, w)
             /\ k.time_expiry = m.time_expiry /\ k.closed = m.closed
             /\ k.fees_available = m.fees_available
             /\ k.base_deposit_total = m.base_deposit_total
             /\ k.quote_deposit_total = m.quote_deposit_total
             /\ k.referrer_rebates_accrued = rebates
<1> DEFINE k == Accrued(m, fees, rebates)
<1>1. /\ k \in MarketValues /\ k.seq_num = m.seq_num
      /\ k.time_expiry = m.time_expiry /\ k.closed = m.closed
      /\ k.fees_available = m.fees_available
      /\ k.base_deposit_total = m.base_deposit_total
      /\ k.quote_deposit_total = m.quote_deposit_total
      /\ k.referrer_rebates_accrued = rebates
  BY DEF Accrued, MarketValues
<1> HIDE DEF k
<1>2. TotalsOk(k, w)
  BY <1>1 DEF TotalsOk
<1> QED BY <1>1, <1>2 DEF k

\* r is s with other accounts and another market; it may have failed.
Became(s, r, accs, m) ==
  /\ IsState(r) /\ r.ok \in BOOLEAN /\ (r.ok => s.ok) /\ r.oo = accs /\ r.mkt = m
  /\ r.book = s.book /\ r.heap = s.heap

\* What recording a taker's part writes.
LEMMA RecordTakenFields ==
  ASSUME NEW s, IsState(s), s.ok \in BOOLEAN, s.mkt \in MarketValues,
         NEW order, NEW t, TakenOk(t), NEW me,
         NEW ra, ra = t.referrer_amount,
         NEW r, r = RecordTaken(s, order, t, me),
         NEW acc, acc = execute_taker(s.oo[me], order.side, t.base, t.quote, t.fees, ra),
         NEW fees, fees = s.mkt.fees_accrued + ra,
         NEW rra, rra = s.mkt.referrer_rebates_accrued
  PROVE  /\ ~t.any => r = s
         /\ t.any /\ me \notin DOMAIN s.oo => Became(s, r, s.oo, Accrued(s.mkt, fees, rra))
         /\ t.any /\ me \in DOMAIN s.oo =>
              /\ Became(s, r, [s.oo EXCEPT ![me] = acc], Accrued(s.mkt, fees, rra + ra))
              /\ r.ok => Sound(acc)
<1> DEFINE ok == s.ok /\ ra >= 0
           q == MarketSet(OkSet(s, ok), Accrued(s.mkt, fees, rra))
           a == [s EXCEPT !.ok = @ /\ ra >= 0, !.mkt.fees_accrued = @ + ra]
           b == [a EXCEPT !.ok = @ /\ Sound(acc), !.oo[me] = acc,
                          !.mkt.referrer_rebates_accrued = @ + ra]
<1>1. r = IF ~t.any THEN s ELSE IF me \notin DOMAIN s.oo THEN a ELSE b
  BY DEF RecordTaken
<1>2. a = q
  <2> DEFINE k == s.ok
             m == s.mkt
             o == s.oo
             bk == s.book
             h == s.heap
  <2>1. s = [ok |-> k, mkt |-> m, oo |-> o, book |-> bk, heap |-> h]
    BY DEF IsState
  <2>2. [m EXCEPT !.fees_accrued = fees] = Accrued(m, fees, rra)
    BY DEF Accrued, MarketValues
  <2>3. fees = m.fees_accrued + ra
    OBVIOUS
  <2>4. ok = (k /\ ra >= 0)
    OBVIOUS
  <2> HIDE DEF k, m, o, bk, h, ok
  <2>5. a = [ok |-> ok, mkt |-> [m EXCEPT !.fees_accrued = fees], oo |-> o, book |-> bk, heap |-> h]
    <3> DEFINE p == OkSet(s, ok)
               x == [p EXCEPT !.mkt.fees_accrued = @ + ra]
    <3>1. a = x
      BY DEF OkSet, ok, k
    <3>2. p = [ok |-> ok, mkt |-> m, oo |-> o, book |-> bk, heap |-> h]
      BY ONLY <2>1 DEF OkSet
    <3> HIDE DEF p, a
    <3>3. x = [ok |-> ok, mkt |-> [m EXCEPT !.fees_accrued = fees], oo |-> o, book |-> bk, heap |-> h]
      BY ONLY <2>3, <3>2
    <3> QED BY <3>1, <3>3
  <2>6. OkSet(s, ok) = [ok |-> ok, mkt |-> m, oo |-> o, book |-> bk, heap |-> h]
    BY ONLY <2>1 DEF OkSet
  <2>7. q = [ok |-> ok, mkt |-> Accrued(m, fees, rra), oo |-> o, book |-> bk, heap |-> h]
    <3>1. s.mkt = m
      BY ONLY <2>1
    <3> QED BY ONLY <2>6, <3>1 DEF MarketSet
  <2> QED BY ONLY <2>2, <2>5, <2>7
<1>3. ok \in BOOLEAN /\ (ok => s.ok)
  OBVIOUS
<1> HIDE DEF ok, a
<1>4. /\ IsState(q) /\ q.ok = ok /\ q.oo = s.oo /\ q.mkt = Accrued(s.mkt, fees, rra)
      /\ q.book = s.book /\ q.heap = s.heap
  <2> DEFINE p == OkSet(s, ok)
             m == Accrued(s.mkt, fees, rra)
  <2>1. IsState(p) /\ p.ok = ok /\ p.oo = s.oo /\ p.book = s.book /\ p.heap = s.heap
    BY OkSetIs
  <2> HIDE DEF p, m
  <2>2. q = MarketSet(p, m)
    BY DEF p, m
  <2> HIDE DEF q
  <2>3. /\ IsState(q) /\ q.ok = p.ok /\ q.mkt = m /\ q.oo = p.oo
        /\ q.book = p.book /\ q.heap = p.heap
    BY <2>1, <2>2, MarketSetIs
  <2> QED BY <2>1, <2>3 DEF m
<1> HIDE DEF q
<1>5. Became(s, q, s.oo, Accrued(s.mkt, fees, rra))
  BY <1>3, <1>4 DEF Became
<1>6. b = [ok |-> ok /\ Sound(acc), mkt |-> Accrued(s.mkt, fees, rra + ra),
           oo |-> [s.oo EXCEPT ![me] = acc], book |-> s.book, heap |-> s.heap]
  <2> DEFINE m == Accrued(s.mkt, fees, rra)
             o == s.oo
             bk == s.book
             h == s.heap
  <2>1. q = [ok |-> ok, mkt |-> m, oo |-> o, book |-> bk, heap |-> h]
    BY <1>4 DEF IsState
  <2>2. [m EXCEPT !.referrer_rebates_accrued = @ + ra] = Accrued(s.mkt, fees, rra + ra)
    BY DEF Accrued, MarketValues
  <2> HIDE DEF m, o, bk, h
  <2>3. b = [ok |-> ok /\ Sound(acc), mkt |-> [m EXCEPT !.referrer_rebates_accrued = @ + ra],
             oo |-> [o EXCEPT ![me] = acc], book |-> bk, heap |-> h]
    <3> DEFINE v == ok /\ Sound(acc)
               p == OkSet(q, q.ok /\ Sound(acc))
               y == AccountSet(p, me, acc)
               x == [y EXCEPT !.mkt.referrer_rebates_accrued = @ + ra]
               o2 == [o EXCEPT ![me] = acc]
    <3>1. b = x
      BY <1>2 DEF OkSet, AccountSet
    <3>2. p = OkSet(q, v)
      BY <1>4
    <3> HIDE DEF v, p
    <3>3. p = [ok |-> v, mkt |-> m, oo |-> o, book |-> bk, heap |-> h]
      BY ONLY <2>1, <3>2 DEF OkSet
    <3>4. y = [ok |-> v, mkt |-> m, oo |-> o2, book |-> bk, heap |-> h]
      BY ONLY <3>3 DEF AccountSet
    <3> HIDE DEF y, b, o2
    <3>5. x = [ok |-> v, mkt |-> [m EXCEPT !.referrer_rebates_accrued = @ + ra], oo |-> o2,
               book |-> bk, heap |-> h]
      BY ONLY <3>4
    <3> QED BY <3>1, <3>5 DEF v, o2
  <2> QED BY <2>2, <2>3 DEF o, bk, h
<1> HIDE DEF b
<1>7. /\ IsState(b) /\ b.ok = (ok /\ Sound(acc)) /\ b.mkt = Accrued(s.mkt, fees, rra + ra)
      /\ b.oo = [s.oo EXCEPT ![me] = acc] /\ b.book = s.book /\ b.heap = s.heap
  <2> DEFINE v == ok /\ Sound(acc)
             m == Accrued(s.mkt, fees, rra + ra)
             o == [s.oo EXCEPT ![me] = acc]
             bk == s.book
             h == s.heap
  <2>1. b = [ok |-> v, mkt |-> m, oo |-> o, book |-> bk, heap |-> h]
    BY <1>6
  <2> HIDE DEF v, m, o, bk, h
  <2>2. IsState(b) /\ b.ok = v /\ b.mkt = m /\ b.oo = o /\ b.book = bk /\ b.heap = h
    BY <2>1, MadeState
  <2> QED BY <2>2 DEF v, m, o, bk, h
<1>8. Became(s, b, [s.oo EXCEPT ![me] = acc], Accrued(s.mkt, fees, rra + ra)) /\ (b.ok => Sound(acc))
  <2>1. b.ok \in BOOLEAN /\ (b.ok => s.ok) /\ (b.ok => Sound(acc))
    BY <1>3, <1>7, Zenon
  <2> QED BY <1>7, <2>1 DEF Became
<1>9. CASE ~t.any
  BY <1>1, <1>9, Zenon
<1>10. CASE t.any /\ me \notin DOMAIN s.oo
  <2>1. r = q
    BY <1>1, <1>2, <1>10, Zenon
  <2> QED BY <1>5, <1>10, <2>1, Zenon
<1>11. CASE t.any /\ me \in DOMAIN s.oo
  <2>1. r = b
    BY <1>1, <1>11, Zenon
  <2> QED BY <1>8, <1>11, <2>1, Zenon
<1> QED BY <1>9, <1>10, <1>11, Zenon

\* The same book and the same open accounts stay within the frame when numbers are issued.
LEMMA FrameSameBook ==
  ASSUME NEW s, NEW w, Frame(s, w), NEW r, r.book = s.book, NEW w2, w2.ids >= w.ids, w.ids \in Int,
         w2.ids \in Int, mkt.seq_num \in Int,
         r.mkt.time_expiry = s.mkt.time_expiry, r.mkt.closed = s.mkt.closed,
         \A a \in Accounts : r.oo[a].open = s.oo[a].open
  PROVE  Frame(r, w2)
<1>1. w2.ids >= mkt.seq_num
  BY DEF Frame
<1> QED BY <1>1 DEF Frame

\* The sequence number is a natural number.
SeqOk == mkt.seq_num \in Nat

\* A part of an instruction that leads from s to r, with what is owed on the way.
Leads(s, r, E, base, quote, lock, w) ==
  /\ IsState(r) /\ r.ok \in BOOLEAN
  /\ r.ok => s.ok /\ Good(r, E, base, quote, lock, w)

\* When nothing matched, nothing is to be paid.
LEMMA TakenSame ==
  ASSUME NEW side \in Sides, NEW t, TakenOk(t), ~t.any, NEW me
  PROVE  /\ DueBase(side, t) = 0 /\ DueQuote(side, t) = 0
         /\ TakenBase(side, t, me) = 0 /\ TakenQuote(side, t, me) = 0
<1>1. t.base = 0 /\ t.quote = 0 /\ t.fees = 0 /\ t.referrer_amount = 0
  BY Zenon DEF TakenOk
<1>2. DueBase(side, t) = 0 /\ DueQuote(side, t) = 0
  <2>1. t.base \in Int /\ t.quote \in Int /\ t.fees \in Int /\ t.referrer_amount \in Int
    BY <1>1
  <2> DEFINE b == t.base
             q == t.quote
             f == t.fees
             r == t.referrer_amount
  <2>2. DueBase(side, t) = IF side = "Ask" THEN b ELSE -b
    BY DEF DueBase
  <2>3. DueQuote(side, t) = (f - r) + (IF side = "Bid" THEN q ELSE -q)
    BY DEF DueQuote
  <2>4. b = 0 /\ q = 0 /\ f = 0 /\ r = 0
    BY <1>1
  <2> HIDE DEF b, q, f, r
  <2>5. -b = 0 /\ -q = 0 /\ f - r = 0
    <3>1. /\ b \in Int /\ b <= 0 /\ b >= 0 /\ q \in Int /\ q <= 0 /\ q >= 0
          /\ f \in Int /\ r \in Int /\ f <= r /\ f >= r
      BY <2>4
    <3> QED BY ONLY <3>1
  <2> QED BY <2>2, <2>3, <2>4, <2>5
<1>3. TakenBase(side, t, me) = 0 /\ TakenQuote(side, t, me) = 0
  BY <1>1, <1>2 DEF TakenBase, TakenQuote
<1> QED BY <1>2, <1>3

\* The amounts to be paid are integers.
LEMMA TakenInt ==
  ASSUME NEW side \in Sides, NEW t, TakenOk(t), NEW me
  PROVE  /\ DueBase(side, t) \in Int /\ DueQuote(side, t) \in Int
         /\ TakenBase(side, t, me) \in Int /\ TakenQuote(side, t, me) \in Int
<1>1. t.base \in Int /\ t.quote \in Int /\ t.fees \in Int /\ t.referrer_amount \in Int
  BY DEF TakenOk
<1>2. DueBase(side, t) \in Int /\ DueQuote(side, t) \in Int
  BY <1>1 DEF DueBase, DueQuote
<1> QED BY <1>1, <1>2 DEF TakenBase, TakenQuote

\* What RecordTaken is given.
TakeGiven(s, side, order, t, base, quote, lock, w, me) ==
  /\ SeqOk /\ IsState(s) /\ s.ok = TRUE /\ side \in Sides /\ order.side = side /\ TakenOk(t)
  /\ base \in Int /\ quote \in Int
  /\ Good(s, s.heap, base + DueBase(side, t), quote + DueQuote(side, t), lock, w)
  /\ me \in Traders /\ (me \in Accounts => s.oo[me].open)

\* What an order took is recorded in its account, if it has one.
LEMMA TakeRecorded ==
  ASSUME NEW s, NEW side, NEW order, NEW t, NEW base, NEW quote, NEW lock, NEW w, NEW me,
         TakeGiven(s, side, order, t, base, quote, lock, w, me)
  PROVE  LET r == RecordTaken(s, order, t, me)
         IN  /\ Leads(s, r, r.heap, base + TakenBase(side, t, me), quote + TakenQuote(side, t, me),
                      lock, w)
             /\ r.heap = s.heap
<1> DEFINE r == RecordTaken(s, order, t, me)
           ra == t.referrer_amount
           old == s.oo[me]
           acc == execute_taker(old, side, t.base, t.quote, t.fees, ra)
           fees == s.mkt.fees_accrued + ra
           rra == s.mkt.referrer_rebates_accrued
           base1 == base + DueBase(side, t)
           quote1 == quote + DueQuote(side, t)
           base2 == base + TakenBase(side, t, me)
           quote2 == quote + TakenQuote(side, t, me)
           h == s.heap
           Goal == Leads(s, r, r.heap, base2, quote2, lock, w) /\ r.heap = h
<1>0. /\ SeqOk /\ IsState(s) /\ s.ok = TRUE /\ side \in Sides /\ order.side = side /\ TakenOk(t)
      /\ base \in Int /\ quote \in Int
      /\ Good(s, s.heap, base + DueBase(side, t), quote + DueQuote(side, t), lock, w)
      /\ me \in Traders /\ (me \in Accounts => s.oo[me].open)
  BY DEF TakeGiven
<1> USE <1>0
<1>1. Sane(s, h, base1, quote1, lock, w) /\ Frame(s, w)
  BY DEF Good
<1> HIDE DEF base1, quote1, base2, quote2
<1>2. /\ s.oo \in [Accounts -> AccountValues] /\ HeapOk(h) /\ s.mkt \in MarketValues
      /\ TotalsOk(s.mkt, w) /\ w.ids \in Nat /\ lock \in [Accounts -> Nat]
  BY <1>1, SaneParts
<1>3. t.any \in BOOLEAN /\ ra \in Int
  BY DEF TakenOk
<1>4. /\ base1 \in Int /\ quote1 \in Int /\ base2 \in Int /\ quote2 \in Int
  <2>1. DueBase(side, t) \in Int /\ DueQuote(side, t) \in Int
        /\ TakenBase(side, t, me) \in Int /\ TakenQuote(side, t, me) \in Int
    BY TakenInt
  <2> QED BY <2>1 DEF base1, quote1, base2, quote2
<1>5. /\ ~t.any => r = s
      /\ t.any /\ me \notin DOMAIN s.oo => Became(s, r, s.oo, Accrued(s.mkt, fees, rra))
      /\ t.any /\ me \in DOMAIN s.oo =>
           /\ Became(s, r, [s.oo EXCEPT ![me] = acc], Accrued(s.mkt, fees, rra + ra))
           /\ r.ok => Sound(acc)
  <2>1. /\ ra = t.referrer_amount /\ fees = s.mkt.fees_accrued + ra
        /\ rra = s.mkt.referrer_rebates_accrued
        /\ acc = execute_taker(s.oo[me], order.side, t.base, t.quote, t.fees, ra)
        /\ r = RecordTaken(s, order, t, me)
        /\ s.mkt \in MarketValues /\ s.ok \in BOOLEAN /\ IsState(s) /\ TakenOk(t)
    BY <1>2
  <2> HIDE DEF ra, fees, rra, acc, r
  <2> QED BY ONLY <2>1, RecordTakenFields
<1> HIDE DEF r
<1>6. DOMAIN s.oo = Accounts
  BY <1>2
<1>7. ASSUME ~t.any PROVE Goal
  <2>1. base2 = base1 /\ quote2 = quote1
    BY <1>7, TakenSame DEF base1, quote1, base2, quote2
  <2>2. Good(s, h, base1, quote1, lock, w)
    BY DEF base1, quote1
  <2>3. r = s
    BY <1>5, <1>7
  <2> QED BY <2>1, <2>2, <2>3 DEF Leads
<1>8. fees \in Int /\ rra \in Int /\ rra + ra \in Int
  BY <1>2, <1>3 DEF MarketValues
<1>9. ASSUME t.any, me \notin Accounts PROVE Goal
  <2> DEFINE m == Accrued(s.mkt, fees, rra)
  <2>1. Became(s, r, s.oo, m)
    BY <1>5, <1>6, <1>9
  <2>2. /\ IsState(r) /\ r.ok \in BOOLEAN /\ r.oo = s.oo /\ r.mkt = m
        /\ r.book = s.book /\ r.heap = h
    BY <2>1 DEF Became
  <2>3. /\ TotalsOk(m, w) /\ m.time_expiry = s.mkt.time_expiry /\ m.closed = s.mkt.closed
        /\ m.fees_available = s.mkt.fees_available
        /\ m.base_deposit_total = s.mkt.base_deposit_total
        /\ m.quote_deposit_total = s.mkt.quote_deposit_total
        /\ m.referrer_rebates_accrued = rra
    <3> HIDE DEF fees, rra
    <3> QED BY <1>2, <1>8, AccruedFacts
  <2> HIDE DEF m
  <2>4. base2 = base1 /\ quote2 = quote1
    BY <1>9 DEF base1, base2, quote1, quote2, TakenBase, TakenQuote
  <2>5. Sane(r, h, base1, quote1, lock, w)
    BY <1>1, <1>2, <1>4, <2>2, <2>3, MarketTouched
  <2>6. Frame(r, w)
    BY <1>1, <1>2, <2>2, <2>3, FrameSameBook DEF SeqOk
  <2>7. Good(r, r.heap, base2, quote2, lock, w)
    BY <2>2, <2>4, <2>5, <2>6 DEF Good
  <2> QED BY <2>2, <2>7, Zenon DEF Leads
<1>10. ASSUME t.any, me \in Accounts PROVE Goal
  <2> DEFINE rra2 == rra + ra
             m == Accrued(s.mkt, fees, rra2)
  <2>1. Became(s, r, [s.oo EXCEPT ![me] = acc], m) /\ (r.ok => Sound(acc))
    BY <1>5, <1>6, <1>10
  <2>2. /\ IsState(r) /\ r.ok \in BOOLEAN /\ r.oo = [s.oo EXCEPT ![me] = acc] /\ r.mkt = m
        /\ r.book = s.book /\ r.heap = h
    BY <2>1 DEF Became
  <2>3. /\ TotalsOk(m, w) /\ m.time_expiry = s.mkt.time_expiry /\ m.closed = s.mkt.closed
        /\ m.fees_available = s.mkt.fees_available
        /\ m.base_deposit_total = s.mkt.base_deposit_total
        /\ m.quote_deposit_total = s.mkt.quote_deposit_total
        /\ m.referrer_rebates_accrued = rra2
    <3>1. rra2 \in Int
      BY <1>8
    <3> HIDE DEF fees, rra2, rra
    <3>2. s.mkt \in MarketValues /\ fees \in Int /\ rra2 \in Int /\ TotalsOk(s.mkt, w)
      BY <1>2, <1>8, <3>1
    <3> QED BY ONLY <3>2, AccruedFacts, Zenon
  <2> HIDE DEF m
  <2>4. old \in AccountValues /\ old.open
    BY <1>2, <1>10
  <2>5. TakerPaid(acc, old, side, t)
    BY <2>4, ExecuteTakerFacts
  <2> HIDE DEF acc
  <2>6. acc \in AccountValues /\ SameOrders(acc, old) /\ acc.locked_maker_fees = old.locked_maker_fees
    BY <2>5 DEF TakerPaid
  <2>7. /\ OwedTo("base", acc) \in Int /\ OwedTo("quote", acc) \in Int
        /\ OwedTo("base", old) \in Int /\ OwedTo("quote", old) \in Int /\ OwedTo("rebates", old) \in Int
    BY <2>4, <2>6, OwedToInt DEF Units
  <2>8. ASSUME r.ok PROVE Sane(r, h, base2, quote2, lock, w)
    <3>1. Sound(acc)
      BY <2>1, <2>8, Zenon
    <3>2. acc.locked_maker_fees - lock[me] >= FeesToCover(s, h, me)
      BY <1>1, <1>10, <2>6, FeesCovered
    <3>3. /\ s.mkt.base_deposit_total \in Int /\ s.mkt.quote_deposit_total \in Int
          /\ s.mkt.fees_available \in Int
      BY <1>2 DEF MarketValues
    <3>4. r.mkt.base_deposit_total + base2 - OwedTo("base", acc)
            = s.mkt.base_deposit_total + base1 - OwedTo("base", old)
      <4>1. base2 = base1 + (IF side = "Bid" THEN t.base ELSE 0)
        BY <1>10 DEF base1, base2, TakenBase, DueBase, TakenOk, Sides
      <4>2. OwedTo("base", acc) = OwedTo("base", old) + (IF side = "Bid" THEN t.base ELSE 0)
        BY <2>5 DEF TakerPaid
      <4> DEFINE d == IF side = "Bid" THEN t.base ELSE 0
      <4>3. d \in Int
        BY DEF TakenOk
      <4> HIDE DEF d
      <4>4. base2 = base1 + d /\ OwedTo("base", acc) = OwedTo("base", old) + d
        BY <4>1, <4>2 DEF d
      <4> QED BY <1>4, <2>2, <2>3, <2>7, <3>3, <4>3, <4>4
    <3>5. r.mkt.quote_deposit_total + quote2 - r.mkt.fees_available - OwedTo("quote", acc)
            = s.mkt.quote_deposit_total + quote1 - s.mkt.fees_available - OwedTo("quote", old)
      <4> DEFINE d == ra + (IF side = "Bid" THEN 0 ELSE t.quote - t.fees)
      <4>1. d \in Int
        BY <1>3 DEF TakenOk
      <4>2. OwedTo("quote", acc) = OwedTo("quote", old) + d
        BY <1>3, <2>5, <2>7 DEF TakerPaid, TakenOk
      <4>3. quote2 = quote1 + d
        <5>1. CASE side = "Bid"
          BY <1>10, <5>1 DEF quote1, quote2, TakenQuote, DueQuote, TakenOk
        <5>2. CASE side = "Ask"
          BY <1>10, <5>2 DEF quote1, quote2, TakenQuote, DueQuote, TakenOk
        <5> QED BY <5>1, <5>2 DEF Sides
      <4> HIDE DEF d
      <4> QED BY <1>4, <2>2, <2>3, <2>7, <3>3, <4>1, <4>2, <4>3
    <3>6. r.mkt.referrer_rebates_accrued - OwedTo("rebates", acc)
            = s.mkt.referrer_rebates_accrued - OwedTo("rebates", old)
      BY <1>3, <1>8, <2>2, <2>3, <2>5, <2>7 DEF TakerPaid
    <3>7. me \in Accounts /\ s.oo[me].open /\ old = s.oo[me]
      BY <1>10
    <3>8. /\ r.oo = [s.oo EXCEPT ![me] = acc] /\ r.book = s.book /\ HeapOk(r.heap) /\ TotalsOk(r.mkt, w)
      BY <1>2, <2>2, <2>3
    <3> HIDE DEF h, old
    <3>9. /\ \A x \in Accounts : x # me => lock[x] = lock[x]
          /\ SameOrders(acc, s.oo[me])
      BY <2>6, <3>7
    <3>10. TouchedAccount(s, h, base1, quote1, lock, w, me, acc, lock, base2, quote2, w, r)
      BY <1>1, <1>2, <1>4, <2>6, <3>1, <3>2, <3>4, <3>5, <3>6, <3>7, <3>8, <3>9
      DEF TouchedAccount
    <3> QED BY ONLY <3>10, AccountTouched
  <2>9. Frame(r, w)
    <3>1. \A x \in Accounts : r.oo[x].open = s.oo[x].open
      BY <1>2, <1>10, <2>2, <2>6, OpenKept DEF SameOrders
    <3> QED BY <1>1, <1>2, <2>2, <2>3, <3>1, FrameSameBook DEF SeqOk
  <2>10. r.ok => Good(r, r.heap, base2, quote2, lock, w)
    BY <2>2, <2>8, <2>9 DEF Good
  <2> QED BY <2>2, <2>10, Zenon DEF Leads
<1>11. Goal
  BY <1>7, <1>9, <1>10, Zenon
<1> QED BY <1>11 DEF r, base2, quote2

\* A finite non-empty set has a least element under an integer measure.
LEMMA LeastExists ==
  ASSUME NEW S, IsFiniteSet(S), S # {}, NEW g, \A x \in S : g[x] \in Int
  PROVE  \E x \in S : \A y \in S : g[x] <= g[y]
<1> DEFINE D == {T \in SUBSET S : T # {} => \E x \in T : \A y \in T : g[x] <= g[y]}
<1>1. ASSUME NEW T \in SUBSET S, \A x \in T : T \ {x} \in D
      PROVE  T \in D
  <2> SUFFICES ASSUME T # {} PROVE \E x \in T : \A y \in T : g[x] <= g[y]
    OBVIOUS
  <2>1. PICK x \in T : TRUE
    OBVIOUS
  <2>2. T \ {x} # {} => \E z \in T \ {x} : \A y \in T \ {x} : g[z] <= g[y]
    BY <1>1
  <2>3. CASE T \ {x} = {}
    <3>1. \A y \in T : y = x
      BY <2>3
    <3> QED BY <3>1
  <2>4. CASE T \ {x} # {}
    <3>1. PICK z \in T \ {x} : \A y \in T \ {x} : g[z] <= g[y]
      BY <2>2, <2>4
    <3>2. g[x] \in Int /\ g[z] \in Int /\ \A y \in T : g[y] \in Int
      OBVIOUS
    <3>3. CASE g[x] <= g[z]
      <4>1. \A y \in T : g[x] <= g[y]
        BY <3>1, <3>2, <3>3
      <4> QED BY <4>1
    <3>4. CASE g[z] <= g[x]
      <4>1. \A y \in T : g[z] <= g[y]
        BY <3>1, <3>2, <3>4
      <4> QED BY <4>1
    <3> QED BY <3>2, <3>3, <3>4
  <2> QED BY <2>3, <2>4
<1> HIDE DEF D
<1>2. S \in D
  BY <1>1, FiniteInd
<1> QED BY <1>2 DEF D

\* The ordered leaves of a set: the ends belong to it.
LEMMA InOrderElements ==
  ASSUME NEW side \in Sides, NEW L, Keyed(L)
  PROVE  LET s == InOrder(side, L)
         IN  /\ s # << >> => s[1] \in L /\ s[Len(s)] \in L
             /\ L # {} => s # << >>
<1> DEFINE s == InOrder(side, L)
<1>1. s \in Seq(L) /\ Len(s) = Cardinality(L)
  BY InOrderFacts
<1>2. L # {} => Cardinality(L) # 0
  BY FS_EmptySet DEF Keyed
<1> HIDE DEF s
<1>3. s # << >> => Len(s) \in 1 .. Len(s) /\ 1 \in 1 .. Len(s)
  BY <1>1
<1>4. L # {} => s # << >>
  BY <1>1, <1>2
<1> QED BY <1>1, <1>3, <1>4 DEF s

\* The expired leaf of a tree, when there is one, is a leaf of the side.
LEMMA ExpiredFacts ==
  ASSUME NEW side \in Sides, NEW bs, Keyed(bs.leaves), bs.leaves \subseteq LeafValues,
         NEW tree, NEW time \in Int
  PROVE  ExpiredOfTree(side, bs, tree, time) \subseteq bs.leaves
<1> DEFINE expiry(leaf) == leaf.timestamp + leaf.time_in_force
           mortal == {leaf \in LeavesOf(bs, tree) : leaf.time_in_force > 0}
           earliest == {l \in mortal : \A k \in mortal : expiry(l) <= expiry(k)}
           s == InOrder(side, earliest)
           lowest == IF side = "Bid" THEN Len(s) ELSE 1
           g == [l \in mortal |-> expiry(l)]
<1>1. mortal \subseteq bs.leaves /\ earliest \subseteq mortal
  BY DEF LeavesOf
<1>2. IsFiniteSet(mortal)
  BY <1>1, FS_Subset DEF Keyed
<1>3. \A l \in mortal : g[l] \in Int
  <2>1. \A l \in mortal : l.timestamp \in Int /\ l.time_in_force \in Int
    BY <1>1 DEF LeafValues
  <2> HIDE DEF mortal
  <2> QED BY <2>1
<1>4. ASSUME mortal # {} PROVE s[lowest] \in bs.leaves
  <2>1. PICK x \in mortal : \A y \in mortal : g[x] <= g[y]
    <3> HIDE DEF g, mortal
    <3> QED BY <1>2, <1>3, <1>4, LeastExists
  <2>2. x \in earliest
    <3> HIDE DEF mortal
    <3> QED BY <2>1
  <2>3. Keyed(earliest)
    <3> HIDE DEF earliest, mortal
    <3> QED BY <1>1, KeyedSubset
  <2> HIDE DEF earliest
  <2>4. s # << >> /\ s[1] \in earliest /\ s[Len(s)] \in earliest
    BY <2>2, <2>3, InOrderElements
  <2> QED BY <1>1, <2>4
<1>5. ExpiredOfTree(side, bs, tree, time)
        = IF mortal # {} /\ expiry(s[lowest]) < time THEN {s[lowest]} ELSE {}
  BY DEF ExpiredOfTree
<1> HIDE DEF mortal, s, lowest
<1> QED BY <1>4, <1>5

\* The expired leaf removed to make room is a leaf of the side.
LEMMA RemoveOneExpiredFacts ==
  ASSUME NEW side \in Sides, NEW bs, Keyed(bs.leaves), bs.leaves \subseteq LeafValues,
         NEW tree, NEW time \in Int
  PROVE  remove_one_expired(side, bs, tree, time) \subseteq bs.leaves
BY ExpiredFacts DEF remove_one_expired

\* So is the worst one.
LEMMA WorstFacts ==
  ASSUME NEW side \in Sides, NEW bs, Keyed(bs.leaves), NEW px, NEW time,
         NEW item \in worst_item(side, bs, px, time)
  PROVE  item.leaf \in bs.leaves
<1> DEFINE LastOf(s) == IF s = << >> THEN s ELSE <<s[Len(s)]>>
           f == InOrder(side, LeavesOf(bs, "Fixed"))
           p == InOrder(side, LeavesOf(bs, "OraclePegged"))
           fixed == LastOf(f)
           pegged == IF px = NoPrice THEN << >> ELSE LastOf(p)
           tree == rank_orders(side, fixed, pegged, TRUE, px)
<1>1. /\ LeavesOf(bs, "Fixed") \in SUBSET bs.leaves
      /\ LeavesOf(bs, "OraclePegged") \in SUBSET bs.leaves
  BY DEF LeavesOf
<1>2. /\ f # << >> => f[Len(f)] \in bs.leaves
      /\ p # << >> => p[Len(p)] \in bs.leaves
  BY <1>1, KeyedSubset, InOrderElements
<1> HIDE DEF f, p
<1>3. /\ fixed # << >> => fixed[1] \in bs.leaves
      /\ pegged # << >> => pegged[1] \in bs.leaves
  BY <1>2
<1>4. worst_item(side, bs, px, time) = CASE tree = "None" -> {}
        [] tree = "Fixed" -> {Item(side, fixed[1], px, time)}
        [] tree = "OraclePegged" -> {Item(side, pegged[1], px, time)}
  BY DEF worst_item, f, p
<1> HIDE DEF fixed, pegged
<1>5. /\ tree \in {"None", "Fixed", "OraclePegged"}
      /\ tree = "Fixed" => fixed # << >>
      /\ tree = "OraclePegged" => pegged # << >>
  BY RankOrdersFacts
<1> HIDE DEF tree
<1>6. CASE tree = "None"
  BY <1>4, <1>6
<1>7. CASE tree = "Fixed"
  <2>1. item = Item(side, fixed[1], px, time)
    BY <1>4, <1>7
  <2> QED BY <1>3, <1>5, <1>7, <2>1, ItemFacts
<1>8. CASE tree = "OraclePegged"
  <2>1. item = Item(side, pegged[1], px, time)
    BY <1>4, <1>8
  <2> QED BY <1>3, <1>5, <1>8, <2>1, ItemFacts
<1> QED BY <1>5, <1>6, <1>7, <1>8

\* An item's price is an integer.
LEMMA ItemPriceInt ==
  ASSUME NEW side, NEW leaf, leaf.price \in Int, NEW px \in Int, NEW time
  PROVE  Item(side, leaf, px, time).price \in Int
<1> DEFINE price == px + leaf.price
           o == oracle_pegged_price(side, leaf, px)
<1>1. price \in Int
  OBVIOUS
<1>2. o.price = IF price \notin 1 .. MaxPrice - 1 THEN IF price < 1 THEN 1 ELSE MaxPrice ELSE price
  BY DEF oracle_pegged_price
<1> HIDE DEF price, o
<1>3. o.price \in Int
  BY <1>1, <1>2, BookSideAssumption
<1>4. Item(side, leaf, px, time).price = IF leaf.tree = "Fixed" THEN leaf.price ELSE o.price
  BY DEF Item, o
<1> QED BY <1>3, <1>4

\* So is the best price of a side.
LEMMA BestPriceFacts ==
  ASSUME NEW side \in Sides, NEW bs, Keyed(bs.leaves), NEW px \in Int, NEW time
  PROVE  best_price(side, bs, px, time) \in Int
<1> DEFINE items == iter_all(side, bs, px, time)
           valid == {i \in DOMAIN items : items[i].state = "Valid"}
           P == IF valid = {} THEN NoPrice ELSE items[Min(valid)].price
<1>1. items \in Seq({Item(side, l, px, time) : l \in bs.leaves})
  BY IterAllFacts
<1> HIDE DEF items
<1>2. best_price(side, bs, px, time) = P
  BY DEF best_price, With, items
<1>3. \A i \in DOMAIN items : items[i].price \in Int
  <2> SUFFICES ASSUME NEW i \in DOMAIN items PROVE items[i].price \in Int
    OBVIOUS
  <2>1. items[i] \in {Item(side, l, px, time) : l \in bs.leaves}
    BY <1>1
  <2>2. PICK l \in bs.leaves : items[i] = Item(side, l, px, time)
    BY <2>1
  <2>3. l.price \in Int
    BY DEF Keyed
  <2> QED BY <2>2, <2>3, ItemPriceInt
<1>4. valid # {} => Min(valid) \in valid
  <2>1. valid \in SUBSET Nat
    BY <1>1
  <2> HIDE DEF valid
  <2>2. valid # {} => \E i \in valid : \A j \in valid : i <= j
    BY <2>1, MinExists
  <2> QED BY <2>2 DEF Min
<1> QED BY <1>2, <1>3, <1>4 DEF NoPrice

\* The price an order stands at is a number.
LEMMA OrderPriceFacts ==
  ASSUME NEW order, order.side \in Sides, order.price \in Int,
         NEW b, Keyed(b[invert_side(order.side)].leaves), NEW px \in Int, NEW time
  PROVE  order_price(order, b, px, time) \in Int
<1> DEFINE other == invert_side(order.side)
           asked == IF order.pegged THEN px + order.price ELSE order.price
           best == best_price(other, b[other], px, time)
           Slid == IF best = NoPrice THEN asked
                   ELSE IF order.side = "Bid" THEN Min({asked, best - 1}) ELSE Max({asked, best + 1})
<1>1. asked \in Int
  OBVIOUS
<1>2. best \in Int
  BY BestPriceFacts DEF invert_side, Sides
<1> HIDE DEF asked, best
<1>3. order_price(order, b, px, time) \in
        {IF order.side = "Bid" THEN MaxPrice ELSE 1, NoPrice, Slid, asked}
  BY DEF order_price, With, asked, best
<1>4. Slid \in Int
  <2>1. best - 1 \in Int /\ best + 1 \in Int
    BY <1>2
  <2>2. Min({asked, best - 1}) \in {asked, best - 1}
    BY <1>1, <2>1, Min2
  <2>3. Max({asked, best + 1}) \in {asked, best + 1}
    <3> DEFINE x == best + 1
    <3>1. x \in Int
      BY <2>1
    <3> HIDE DEF x
    <3>2. \E z \in {asked, x} : \A y \in {asked, x} : z >= y
      <4>1. CASE asked >= x
        BY <1>1, <3>1, <4>1
      <4>2. CASE x >= asked
        BY <1>1, <3>1, <4>2
      <4> QED BY <1>1, <3>1, <4>1, <4>2
    <3>3. Max({asked, x}) \in {asked, x}
      BY <3>2 DEF Max
    <3> QED BY <3>3 DEF x
  <2> QED BY <1>1, <2>1, <2>2, <2>3
<1>5. MaxPrice \in Int /\ NoPrice \in Int
  BY BookSideAssumption DEF NoPrice
<1> QED BY <1>1, <1>3, <1>4, <1>5

\* A part of an instruction that leaves the market account alone.
Room(s, r, base, quote, lock, w) ==
  /\ IsState(r) /\ r.ok \in BOOLEAN
  /\ r.ok => s.ok /\ r.mkt = s.mkt /\ Good(r, r.heap, base, quote, lock, w)
\* A working state that has failed, or is good.
Ready(s, base, quote, lock, w) ==
  IsState(s) /\ s.ok \in BOOLEAN /\ (s.ok => Good(s, s.heap, base, quote, lock, w))

\* Evicting does not undo a failure.
LEMMA EvictFails ==
  ASSUME NEW s, IsState(s), s.ok = FALSE, NEW side, NEW leaf, NEW me, NEW rem
  PROVE  IsState(Evict(s, side, leaf, me, rem)) /\ Evict(s, side, leaf, me, rem).ok = FALSE
<1> DEFINE p == process_out_event(s, OutEvent(side, leaf), me, rem)
           r == RemoveLeaf(p, side, leaf)
<1>1. IsState(p) /\ p.ok = FALSE
  <2>1. CASE leaf.owner = me \/ leaf.owner \in rem
    <3> DEFINE c == CancelSlotOf(s, leaf.owner, leaf.owner_slot, leaf.quantity)
    <3>1. p = c
      BY <2>1 DEF process_out_event, OutEvent
    <3> DEFINE a == leaf.owner
               slot == leaf.owner_slot
               acc == cancel_slot(s.oo[a], slot, leaf.quantity)
    <3>2. /\ IsState(c) /\ c.ok \in BOOLEAN /\ c.ok = (s.ok /\ ~is_free_slot(s.oo[a], slot) /\ Sound(acc))
          /\ c.oo = [s.oo EXCEPT ![a] = acc] /\ c.mkt = s.mkt /\ c.book = s.book /\ c.heap = s.heap
      BY ONLY IsState(s), CancelSlotOfFields
    <3>3. c.ok = FALSE
      BY <3>2, Zenon
    <3> HIDE DEF c, p
    <3> QED BY ONLY <3>1, <3>2, <3>3, Zenon
  <2>2. CASE ~(leaf.owner = me \/ leaf.owner \in rem)
    <3> DEFINE c == push_back(s, OutEvent(side, leaf))
    <3>1. p = c
      BY <2>2 DEF process_out_event, OutEvent
    <3>2. IsState(c) /\ c.ok = (s.ok /\ Len(s.heap) < MAX_NUM_EVENTS)
      BY PushBackFields
    <3>3. c.ok = FALSE
      BY <3>2, Zenon
    <3> HIDE DEF c, p
    <3> QED BY ONLY <3>1, <3>2, <3>3, Zenon
  <2> QED BY <2>1, <2>2, Zenon
<1> HIDE DEF p
<1>2. LeafGone(p, side, leaf, r)
  BY <1>1, RemoveLeafFields
<1>3. IsState(r) /\ r.ok = FALSE
  BY <1>1, <1>2 DEF LeafGone
<1> QED BY <1>3 DEF Evict, p

\* Evicting a leaf of the book leaves a state that has failed, or is good with the same market.
LEMMA EvictOk ==
  ASSUME NEW s, NEW base, NEW quote, NEW lock, NEW w, Ready(s, base, quote, lock, w),
         NEW side \in Sides, NEW leaf, s.ok => leaf \in s.book[side].leaves, NEW me, NEW rem
  PROVE  Room(s, Evict(s, side, leaf, me, rem), base, quote, lock, w)
<1> DEFINE r == Evict(s, side, leaf, me, rem)
<1>1. IsState(s) /\ s.ok \in BOOLEAN
  BY DEF Ready
<1>2. CASE s.ok = FALSE
  BY <1>1, <1>2, EvictFails DEF Room
<1>3. CASE s.ok = TRUE
  <2>1. Sane(s, s.heap, base, quote, lock, w) /\ Frame(s, w)
    BY <1>3 DEF Ready, Good
  <2>2. BookOk(s.book, OrdersOf(s.oo), w.ids)
    BY <2>1, SaneParts
  <2>3. leaf \in s.book[side].leaves
    BY <1>3
  <2>4. r = RemoveLeaf(process_out_event(s, OutEvent(side, leaf), me, rem), side, leaf)
    BY DEF Evict
  <2> HIDE DEF r
  <2>5. LeafLeft(s, side, leaf, r) /\ (r.ok => Sane(r, r.heap, base, quote, lock, w))
    BY <1>1, <2>1, <2>3, <2>4, OwnerTold
  <2>6. Frame(r, w)
    BY <2>1, <2>2, <2>5, LeftFrame
  <2>7. IsState(r) /\ r.ok \in BOOLEAN /\ (r.ok => s.ok) /\ r.mkt = s.mkt
    BY <2>5 DEF LeafLeft
  <2>8. r.ok => Good(r, r.heap, base, quote, lock, w)
    BY <2>5, <2>6 DEF Good
  <2>9. Room(s, r, base, quote, lock, w)
    BY ONLY <2>7, <2>8, Zenon DEF Room
  <2> QED BY <2>9 DEF r
<1> QED BY <1>1, <1>2, <1>3

\* Making no room changes nothing.
LEMMA RoomSame ==
  ASSUME NEW s, NEW base, NEW quote, NEW lock, NEW w, Ready(s, base, quote, lock, w)
  PROVE  Room(s, s, base, quote, lock, w)
<1> QED BY Zenon DEF Room, Ready

\* Making room twice makes room.
LEMMA RoomThenRoom ==
  ASSUME NEW s, NEW t, NEW r, NEW base, NEW quote, NEW lock, NEW w,
         Room(s, t, base, quote, lock, w), Room(t, r, base, quote, lock, w)
  PROVE  Room(s, r, base, quote, lock, w) /\ Ready(t, base, quote, lock, w)
<1>1. Room(s, r, base, quote, lock, w)
  BY Zenon DEF Room
<1>2. Ready(t, base, quote, lock, w)
  BY Zenon DEF Room, Ready
<1> QED BY <1>1, <1>2

\* Evicting the worst leaf makes room.
LEMMA EvictWorstOk ==
  ASSUME NEW s, NEW base, NEW quote, NEW lock, NEW w, Ready(s, base, quote, lock, w),
         NEW side \in Sides, NEW price_lots, NEW px, NEW time, NEW me, NEW rem
  PROVE  Room(s, EvictWorst(s, side, price_lots, px, time, me, rem), base, quote, lock, w)
<1> DEFINE worst == worst_item(side, s.book[side], px, time)
           better == {item \in worst : is_price_better(side, price_lots, item.price)}
           item == CHOOSE i \in better : TRUE
           r == EvictWorst(s, side, price_lots, px, time, me, rem)
           Goal == Room(s, r, base, quote, lock, w)
<1>1. IsState(s) /\ s.ok \in BOOLEAN
  BY DEF Ready
<1>2. ASSUME ~is_full(s.book[side]) PROVE Goal
  <2>1. r = s
    BY <1>2 DEF EvictWorst
  <2> HIDE DEF r
  <2> QED BY <2>1, RoomSame
<1>3. ASSUME is_full(s.book[side]), better = {} PROVE Goal
  <2>1. r = OkSet(s, FALSE)
    BY <1>3 DEF EvictWorst, OkSet
  <2>2. IsState(r) /\ r.ok = FALSE
    <3>1. OkSet(s, FALSE) = [ok |-> FALSE, mkt |-> s.mkt, oo |-> s.oo, book |-> s.book, heap |-> s.heap]
      BY ONLY <1>1, SetFields, Zenon
    <3>2. r = [ok |-> FALSE, mkt |-> s.mkt, oo |-> s.oo, book |-> s.book, heap |-> s.heap]
      BY <2>1, <3>1
    <3> HIDE DEF r
    <3> QED BY ONLY <3>2, MadeState
  <2> HIDE DEF r
  <2> QED BY <2>2 DEF Room
<1>4. ASSUME is_full(s.book[side]), better # {} PROVE Goal
  <2>1. r = Evict(s, side, item.leaf, me, rem)
    BY <1>4 DEF EvictWorst
  <2>2. s.ok => item.leaf \in s.book[side].leaves
    <3> SUFFICES ASSUME s.ok PROVE item.leaf \in s.book[side].leaves
      OBVIOUS
    <3>1. Sane(s, s.heap, base, quote, lock, w)
      BY DEF Ready, Good
    <3>2. Keyed(s.book[side].leaves)
      BY <3>1, SideKeyed
    <3>3. item \in worst
      BY <1>4
    <3> HIDE DEF item
    <3> QED BY <3>2, <3>3, WorstFacts
  <2> HIDE DEF r, item
  <2> QED BY <2>1, <2>2, EvictOk
<1>5. Goal
  BY <1>2, <1>3, <1>4
<1> QED BY <1>5

\* Both evictions of new_order together make room.
LEMMA MakeRoomOk ==
  ASSUME NEW s, NEW base, NEW quote, NEW lock, NEW w, Ready(s, base, quote, lock, w),
         s.ok = TRUE,
         NEW side \in Sides, NEW tree, NEW price_lots, NEW px, NEW time \in Int, NEW me, NEW rem
  PROVE  Room(s, MakeRoom(s, side, tree, price_lots, px, time, me, rem), base, quote, lock, w)
<1> DEFINE expired == remove_one_expired(side, s.book[side], tree, time)
           leaf == CHOOSE l \in expired : TRUE
           v == IF expired = {} THEN s ELSE Evict(s, side, leaf, me, rem)
           r == MakeRoom(s, side, tree, price_lots, px, time, me, rem)
<1>1. r = EvictWorst(v, side, price_lots, px, time, me, rem)
  <2> HIDE DEF v
  <2>1. r = CHOOSE x \in {EvictWorst(st, side, price_lots, px, time, me, rem) : st \in {v}} : TRUE
    BY DEF MakeRoom, With, v
  <2> QED BY <2>1
<1>2. Room(s, v, base, quote, lock, w)
  <2>1. CASE expired = {}
    <3>1. v = s
      BY <2>1
    <3> HIDE DEF v
    <3> QED BY <3>1, RoomSame
  <2>2. CASE expired # {}
    <3>1. Sane(s, s.heap, base, quote, lock, w)
      BY DEF Ready, Good
    <3>2. Keyed(s.book[side].leaves) /\ BookOk(s.book, OrdersOf(s.oo), w.ids)
      BY <3>1, SideKeyed, SaneParts
    <3>3. s.book[side].leaves \subseteq LeafValues
      BY <3>2 DEF BookOk, SideOk
    <3>4. expired \subseteq s.book[side].leaves
      BY <3>2, <3>3, RemoveOneExpiredFacts
    <3>5. leaf \in s.book[side].leaves
      BY <2>2, <3>4
    <3>6. v = Evict(s, side, leaf, me, rem)
      BY <2>2
    <3> HIDE DEF v, leaf
    <3> QED BY <3>5, <3>6, EvictOk
  <2> QED BY <2>1, <2>2
<1> HIDE DEF v, r
<1>3. Ready(v, base, quote, lock, w)
  BY <1>2, Zenon DEF Room, Ready
<1>4. Room(v, r, base, quote, lock, w)
  BY <1>1, <1>3, EvictWorstOk
<1>5. Room(s, r, base, quote, lock, w)
  BY <1>2, <1>4, RoomThenRoom
<1> QED BY <1>5 DEF r

\* The fees reserved for a posted bid, in its owner's account ...
FeesAdded(acc, fees) == [acc EXCEPT !.locked_maker_fees = @ + fees]
\* ... and as the lock the proof carries for that account.
FeesLocked(me, fees) == [NoLock EXCEPT ![me] = fees]

\* What reserving fees changes, and keeps.
FeesAreAdded(acc, old, fees) ==
  /\ acc \in AccountValues /\ SameOrders(acc, old) /\ acc.open = old.open
  /\ (Sound(old) => Sound(acc))
  /\ acc.open_orders = old.open_orders
  /\ acc.locked_maker_fees = old.locked_maker_fees + fees
  /\ OwedTo("base", acc) = OwedTo("base", old)
  /\ OwedTo("quote", acc) = OwedTo("quote", old) + fees
  /\ OwedTo("rebates", acc) = OwedTo("rebates", old)

\* Reserving fees yields that account.
LEMMA FeesAddedFacts ==
  ASSUME NEW old \in AccountValues, NEW fees \in Nat
  PROVE  FeesAreAdded(FeesAdded(old, fees), old, fees)
<1> DEFINE acc == FeesAdded(old, fees)
           n == old.locked_maker_fees + fees
<1>1. acc = [old EXCEPT !.locked_maker_fees = n]
  BY DEF FeesAdded
<1>2. n \in Int /\ old.locked_maker_fees \in Int /\ old.quote_free_native \in Int
      /\ old.bids_quote_lots \in Int /\ old.referrer_rebates_available \in Int
      /\ old.base_free_native \in Int
  BY DEF AccountValues
<1> HIDE DEF n
<1>3. acc \in AccountValues
  BY <1>1, <1>2 DEF AccountValues
<1>4. /\ acc.open = old.open /\ acc.open_orders = old.open_orders
      /\ acc.bids_base_lots = old.bids_base_lots /\ acc.asks_base_lots = old.asks_base_lots
      /\ acc.bids_quote_lots = old.bids_quote_lots
      /\ acc.base_free_native = old.base_free_native
      /\ acc.quote_free_native = old.quote_free_native
      /\ acc.locked_maker_fees = n
      /\ acc.referrer_rebates_available = old.referrer_rebates_available
  BY <1>1 DEF AccountValues
<1> HIDE DEF acc
<1>5. n = old.locked_maker_fees + fees
  BY DEF n
<1>6. Sound(old) => Sound(acc)
  BY <1>2, <1>4, <1>5 DEF Sound
<1>7. SameOrders(acc, old)
  BY <1>4 DEF SameOrders
<1>8. OwedTo("base", acc) = OwedTo("base", old) /\ OwedTo("rebates", acc) = OwedTo("rebates", old)
  BY <1>4, OwedFacts
<1>9. OwedTo("quote", acc) = OwedTo("quote", old) + fees
  <2> DEFINE x == old.bids_quote_lots * quote_lot_size
  <2>1. x \in Int
    BY <1>2, FeeAssumption
  <2>2. /\ OwedTo("quote", acc) = old.quote_free_native + x + n + old.referrer_rebates_available
        /\ OwedTo("quote", old) = old.quote_free_native + x + old.locked_maker_fees
                                  + old.referrer_rebates_available
    BY <1>4, OwedFacts
  <2> HIDE DEF x
  <2> QED BY <1>2, <1>5, <2>1, <2>2
<1>10. acc.locked_maker_fees = old.locked_maker_fees + fees
  BY <1>4, <1>5
<1>11. FeesAreAdded(acc, old, fees)
  BY <1>3, <1>4, <1>6, <1>7, <1>8, <1>9, <1>10 DEF FeesAreAdded
<1> QED BY <1>11 DEF acc

\* The fees of an order that is about to be posted are locked.
LEMMA FeesLockedOk ==
  ASSUME SeqOk, NEW s, IsState(s), s.ok = TRUE, NEW base, NEW quote, NEW w,
         Good(s, s.heap, base, quote, NoLock, w), NEW me \in Accounts, s.oo[me].open,
         NEW fees \in Nat
  PROVE  LET r == AccountSet(s, me, FeesAdded(s.oo[me], fees))
         IN  /\ Ready(r, base, quote + fees, FeesLocked(me, fees), w)
             /\ r.ok = TRUE /\ r.mkt = s.mkt
<1> DEFINE old == s.oo[me]
           acc == FeesAdded(old, fees)
           r == AccountSet(s, me, acc)
           lock == FeesLocked(me, fees)
           quote2 == quote + fees
           h == s.heap
<1>1. Sane(s, h, base, quote, NoLock, w) /\ Frame(s, w)
  BY DEF Good
<1>2. /\ s.oo \in [Accounts -> AccountValues] /\ HeapOk(h) /\ s.mkt \in MarketValues
      /\ TotalsOk(s.mkt, w) /\ w.ids \in Nat /\ base \in Int /\ quote \in Int
      /\ AccountsOk(s.oo, w.ids)
  BY <1>1, SaneParts
<1>3. old \in AccountValues /\ Sound(old) /\ old.open
  BY <1>2 DEF AccountsOk
<1>4. FeesAreAdded(acc, old, fees)
  BY <1>3, FeesAddedFacts
<1> HIDE DEF acc
<1>5. r = [ok |-> s.ok, mkt |-> s.mkt, oo |-> [s.oo EXCEPT ![me] = acc], book |-> s.book,
           heap |-> s.heap]
  BY SetFields
<1>6. /\ IsState(r) /\ r.ok = s.ok /\ r.mkt = s.mkt /\ r.oo = [s.oo EXCEPT ![me] = acc]
      /\ r.book = s.book /\ r.heap = h
  BY <1>5, MadeState
<1> HIDE DEF r, h
<1>7. /\ lock \in [Accounts -> Nat] /\ lock[me] = fees
      /\ \A x \in Accounts : x # me => lock[x] = NoLock[x]
  BY DEF FeesLocked, NoLock
<1>8. NoLock[me] = 0
  BY DEF NoLock
<1> HIDE DEF lock
<1>9. acc.locked_maker_fees - lock[me] >= FeesToCover(s, h, me)
  <2>1. FeesToCover(s, h, me) \in Nat /\ old.locked_maker_fees - NoLock[me] >= FeesToCover(s, h, me)
    BY <1>1, FeesCovered
  <2>2. acc.locked_maker_fees = old.locked_maker_fees + fees
    BY <1>4 DEF FeesAreAdded
  <2>3. old.locked_maker_fees \in Int
    BY <1>3 DEF AccountValues
  <2> DEFINE f == FeesToCover(s, h, me)
             k == old.locked_maker_fees
             n == NoLock[me]
  <2>4. f \in Nat /\ k - n >= f /\ k \in Int /\ n = 0 /\ acc.locked_maker_fees = k + fees
        /\ lock[me] = fees
    BY <1>7, <1>8, <2>1, <2>2, <2>3
  <2> HIDE DEF f, k, n
  <2>5. acc.locked_maker_fees - lock[me] >= f
    BY <2>4
  <2> QED BY <2>5 DEF f
<1>10. /\ OwedTo("base", acc) = OwedTo("base", old)
       /\ OwedTo("quote", acc) = OwedTo("quote", old) + fees
       /\ OwedTo("rebates", acc) = OwedTo("rebates", old)
       /\ acc \in AccountValues /\ Sound(acc) /\ SameOrders(acc, old) /\ acc.open = old.open
  BY <1>3, <1>4 DEF FeesAreAdded
<1>11. OwedTo("quote", old) \in Int
  BY <1>3, OwedToInt DEF Units
<1>12. /\ s.mkt.base_deposit_total \in Int /\ s.mkt.quote_deposit_total \in Int
       /\ s.mkt.fees_available \in Int
  BY <1>2 DEF MarketValues
<1>13. quote2 \in Int
  BY <1>2
<1>14. r.mkt.quote_deposit_total + quote2 - r.mkt.fees_available - OwedTo("quote", acc)
         = s.mkt.quote_deposit_total + quote - s.mkt.fees_available - OwedTo("quote", old)
  BY <1>2, <1>6, <1>10, <1>11, <1>12
<1> HIDE DEF quote2
<1>15. Sane(r, h, base, quote2, lock, w)
  <2>1. /\ SameOrders(acc, s.oo[me]) /\ s.oo[me].open /\ HeapOk(r.heap) /\ TotalsOk(r.mkt, w)
        /\ r.mkt.base_deposit_total + base - OwedTo("base", acc)
             = s.mkt.base_deposit_total + base - OwedTo("base", s.oo[me])
        /\ r.mkt.quote_deposit_total + quote2 - r.mkt.fees_available - OwedTo("quote", acc)
             = s.mkt.quote_deposit_total + quote - s.mkt.fees_available - OwedTo("quote", s.oo[me])
        /\ r.mkt.referrer_rebates_accrued - OwedTo("rebates", acc)
             = s.mkt.referrer_rebates_accrued - OwedTo("rebates", s.oo[me])
    BY <1>2, <1>6, <1>10, <1>14
  <2> HIDE DEF old
  <2>2. TouchedAccount(s, h, base, quote, NoLock, w, me, acc, lock, base, quote2, w, r)
    BY <1>1, <1>2, <1>6, <1>7, <1>9, <1>10, <1>13, <2>1 DEF TouchedAccount
  <2> QED BY ONLY <2>2, AccountTouched
<1>16. Frame(r, w)
  <2>1. \A x \in Accounts : r.oo[x].open = s.oo[x].open
    BY <1>2, <1>6, <1>10, OpenKept
  <2> QED BY <1>1, <1>2, <1>6, <2>1, FrameSameBook DEF SeqOk
<1>17. Good(r, r.heap, base, quote2, lock, w)
  BY <1>6, <1>15, <1>16 DEF Good
<1>18. Ready(r, base, quote2, lock, w)
  BY <1>6, <1>17 DEF Ready
<1> QED BY <1>6, <1>18 DEF r, acc, quote2, lock

\* What new_order is given.
OrderOk(order) ==
  /\ order.side \in Sides /\ order.price \in Int
  /\ order.max_base_lots \in Nat /\ order.max_quote_lots_including_fees \in Nat
  /\ order.client_id \in Nat /\ order.time_in_force \in Int
  /\ order.pegged \in BOOLEAN
  /\ order.pegged => order.peg_limit \in Nat \ {0}

\* The leaf an order posts.
PostLeaf(order, tree, price_lots, px, id, slot, quantity, time, me) ==
  [tree |-> tree,
   price |-> IF order.pegged THEN price_lots - px ELSE price_lots,
   id |-> id, owner |-> me,
   owner_slot |-> slot, quantity |-> quantity,
   timestamp |-> time, time_in_force |-> order.time_in_force,
   peg_limit |-> peg_limit(order), client_id |-> order.client_id]

\* That leaf is well formed and carries the order's terms.
LEMMA PostLeafFacts ==
  ASSUME NEW order, OrderOk(order), NEW tree, tree = post_target(order), tree # NoTree,
         NEW price_lots \in Nat \ {0}, price_lots <= MaxPrice, NEW px \in Int, NEW id \in Nat \ {0},
         NEW slot \in OrderSlots, NEW quantity \in Nat \ {0}, NEW time \in Int, NEW me \in Accounts
  PROVE  LET l == PostLeaf(order, tree, price_lots, px, id, slot, quantity, time, me)
             price == locking_price(order, price_lots)
         IN  /\ l \in LeafValues /\ LeafOk(l) /\ l.owner = me /\ l.id = id
             /\ l.owner_slot = slot /\ l.tree = tree /\ l.quantity = quantity
             /\ price \in Nat
             /\ order.side = "Bid" => price = IF l.tree = "Fixed" THEN l.price ELSE l.peg_limit
<1> DEFINE l == PostLeaf(order, tree, price_lots, px, id, slot, quantity, time, me)
           price == locking_price(order, price_lots)
           lp == IF order.pegged THEN price_lots - px ELSE price_lots
           pl == peg_limit(order)
<1>1. tree = IF order.pegged THEN "OraclePegged" ELSE "Fixed"
  BY DEF post_target
<1>2. /\ order.side \in Sides /\ order.pegged \in BOOLEAN /\ order.time_in_force \in Int
      /\ order.client_id \in Nat
      /\ order.pegged => order.peg_limit \in Nat \ {0}
  BY DEF OrderOk
<1>3. pl = (IF order.pegged THEN order.peg_limit ELSE NoPegLimit) /\ pl \in Int
      /\ (order.pegged => pl >= 1)
  BY <1>2 DEF peg_limit, NoPegLimit
<1>4. lp \in Int /\ (~order.pegged => lp = price_lots)
  OBVIOUS
<1>5. tree \in Trees
  BY <1>1 DEF Trees
<1> HIDE DEF lp, pl
<1>6. l = [tree |-> tree, price |-> lp, id |-> id, owner |-> me, owner_slot |-> slot,
           quantity |-> quantity, timestamp |-> time, time_in_force |-> order.time_in_force,
           peg_limit |-> pl, client_id |-> order.client_id]
  BY DEF PostLeaf, lp, pl
<1>7. l \in LeafValues
  BY <1>2, <1>3, <1>4, <1>5, <1>6 DEF LeafValues
<1>8. /\ l.owner = me /\ l.id = id /\ l.owner_slot = slot /\ l.tree = tree /\ l.quantity = quantity
      /\ l.price = lp /\ l.peg_limit = pl
  BY <1>6
<1> HIDE DEF l
<1>9. LeafOk(l)
  BY <1>1, <1>2, <1>3, <1>4, <1>8 DEF LeafOk
<1>10. price = IF order.pegged /\ order.side = "Bid" THEN order.peg_limit ELSE price_lots
  BY DEF locking_price
<1> HIDE DEF price
<1>11. price \in Nat
  BY <1>2, <1>10
<1>12. order.side = "Bid" => price = IF l.tree = "Fixed" THEN l.price ELSE l.peg_limit
  BY <1>1, <1>2, <1>3, <1>4, <1>8, <1>10
<1>13. /\ l \in LeafValues /\ LeafOk(l) /\ l.owner = me /\ l.id = id
       /\ l.owner_slot = slot /\ l.tree = tree /\ l.quantity = quantity
       /\ price \in Nat
       /\ order.side = "Bid" => price = IF l.tree = "Fixed" THEN l.price ELSE l.peg_limit
  BY <1>7, <1>8, <1>9, <1>11, <1>12
<1> QED BY <1>13 DEF l, price

\* A side of the book and an account replaced together.
BookAccountSet(s, side, bs, a, acc) == [s EXCEPT !.book[side] = bs, !.oo[a] = acc]

\* The record this yields.
LEMMA SetBookAndAccount ==
  ASSUME NEW s, IsState(s), NEW side, NEW bs, NEW a, NEW acc
  PROVE  BookAccountSet(s, side, bs, a, acc)
           = [ok |-> s.ok, mkt |-> s.mkt, oo |-> [s.oo EXCEPT ![a] = acc],
              book |-> [s.book EXCEPT ![side] = bs], heap |-> s.heap]
<1> DEFINE p == BookSet(s, side, bs)
<1>1. BookAccountSet(s, side, bs, a, acc) = AccountSet(p, a, acc)
  BY DEF BookAccountSet, AccountSet, BookSet
<1>2. p = [ok |-> s.ok, mkt |-> s.mkt, oo |-> s.oo, book |-> [s.book EXCEPT ![side] = bs],
           heap |-> s.heap]
  BY SetFields
<1> HIDE DEF p
<1>3. /\ IsState(p) /\ p.ok = s.ok /\ p.mkt = s.mkt /\ p.oo = s.oo
      /\ p.book = [s.book EXCEPT ![side] = bs] /\ p.heap = s.heap
  BY <1>2, MadeState
<1>4. AccountSet(p, a, acc) = [ok |-> p.ok, mkt |-> p.mkt, oo |-> [p.oo EXCEPT ![a] = acc],
                               book |-> p.book, heap |-> p.heap]
  BY <1>3, SetFields
<1> QED BY <1>1, <1>3, <1>4

\* The totals with the last number issued replaced.
Ids(w, id) == [w EXCEPT !.ids = id]
\* What one has to pay for an order that is posted.
PostedBase(side, quantity) == IF side = "Ask" THEN quantity * base_lot_size ELSE 0
\* The quote a posted order locks.
PostedQuote(side, quantity, price) == IF side = "Bid" THEN quantity * price * quote_lot_size ELSE 0

\* The totals when a number has been taken from the market and not yet used.
WOk(w, id) ==
  /\ w = [base_total |-> w.base_total, quote_total |-> w.quote_total, ids |-> w.ids,
          seq_num |-> w.seq_num]
  /\ w.seq_num = id /\ id \in Nat \ {0} /\ w.ids \in Nat /\ w.ids < id

\* Inserting the leaf and its order leaves a good state, the posted lots to be paid in.
LEMMA InsertedOk ==
  ASSUME SeqOk, NEW s, IsState(s), s.ok = TRUE, NEW base \in Int, NEW quote \in Int, NEW w,
         NEW me \in Accounts, s.oo[me].open, NEW side \in Sides, NEW l \in LeafValues, LeafOk(l),
         l.owner = me, l.id = s.mkt.seq_num, WOk(w, l.id),
         s.oo[me].open_orders[l.owner_slot].id = 0, can_insert(s.book[side], l.tree),
         NEW price \in Nat,
         side = "Bid" => price = IF l.tree = "Fixed" THEN l.price ELSE l.peg_limit,
         NEW fees, fees = Locks("fees", side, l.quantity, price),
         Good(s, s.heap, base, quote, FeesLocked(me, fees), w)
  PROVE  LET r == BookAccountSet(s, side, insert_leaf(s.book[side], l), me,
                                 add_order(s.oo[me], side, l, price))
         IN  Leads(s, r, r.heap, base + PostedBase(side, l.quantity),
                   quote + PostedQuote(side, l.quantity, price), NoLock, Ids(w, l.id))
<1> DEFINE bs == insert_leaf(s.book[side], l)
           acc == add_order(s.oo[me], side, l, price)
           r == BookAccountSet(s, side, bs, me, acc)
           lock == FeesLocked(me, fees)
           w2 == Ids(w, l.id)
           h == s.heap
           nb == [s.book EXCEPT ![side] = bs]
<1>1. Sane(s, h, base, quote, lock, w) /\ Frame(s, w)
  BY DEF Good
<1>2. /\ s.oo \in [Accounts -> AccountValues] /\ HeapOk(h) /\ s.mkt \in MarketValues
      /\ TotalsOk(s.mkt, w) /\ w.ids \in Nat /\ lock \in [Accounts -> Nat]
      /\ BookOk(s.book, OrdersOf(s.oo), w.ids)
  BY <1>1, SaneParts
<1>3. r = [ok |-> s.ok, mkt |-> s.mkt, oo |-> [s.oo EXCEPT ![me] = acc], book |-> nb, heap |-> h]
  BY SetBookAndAccount
<1> HIDE DEF r
<1>4. /\ IsState(r) /\ r.ok = s.ok /\ r.mkt = s.mkt /\ r.oo = [s.oo EXCEPT ![me] = acc]
      /\ r.book = nb /\ r.heap = h
  <2> HIDE DEF nb, acc, h
  <2> QED BY <1>3, MadeState
<1>5. /\ w2.ids = l.id /\ w2.ids \in Nat /\ TotalsOk(s.mkt, w2)
  <2>1. /\ w2.ids = l.id /\ w2.base_total = w.base_total /\ w2.quote_total = w.quote_total
        /\ w2.seq_num = w.seq_num
    BY DEF WOk, Ids
  <2> HIDE DEF w2
  <2> QED BY <1>2, <2>1 DEF TotalsOk, WOk
<1>6. l.id > w.ids /\ l.id \in Nat
  BY <1>2 DEF WOk
<1>7. lock[me] = Locks("fees", side, l.quantity, price) /\ [lock EXCEPT ![me] = 0] = NoLock
  BY DEF FeesLocked, NoLock
<1> HIDE DEF lock, w2, h
<1>8. Sane(r, h, base + (IF side = "Ask" THEN l.quantity * base_lot_size ELSE 0),
           quote + (IF side = "Bid" THEN l.quantity * price * quote_lot_size ELSE 0),
           [lock EXCEPT ![me] = 0], w2)
  <2>1. /\ r.mkt = s.mkt /\ TotalsOk(r.mkt, w2) /\ HeapOk(r.heap) /\ l.id <= w2.ids
        /\ r.oo = [s.oo EXCEPT ![me] = add_order(s.oo[me], side, l, price)]
        /\ r.book = [s.book EXCEPT ![side] = insert_leaf(@, l)]
    BY <1>2, <1>4, <1>5, <1>6
  <2> HIDE DEF acc, nb, bs
  <2>2. /\ Sane(s, h, base, quote, lock, w) /\ me \in Accounts /\ s.oo[me].open /\ side \in Sides
        /\ l \in LeafValues /\ LeafOk(l) /\ l.owner = me /\ l.id > w.ids
        /\ s.oo[me].open_orders[l.owner_slot].id = 0 /\ can_insert(s.book[side], l.tree)
        /\ price \in Nat
        /\ side = "Bid" => price = IF l.tree = "Fixed" THEN l.price ELSE l.peg_limit
        /\ lock[me] = Locks("fees", side, l.quantity, price)
        /\ w2.ids \in Nat /\ l.id <= w2.ids
    BY <1>1, <1>5, <1>6, <1>7, <2>1
  <2> QED BY ONLY <2>1, <2>2, OrderPlaced
<1>9. Sane(r, r.heap, base + PostedBase(side, l.quantity),
           quote + PostedQuote(side, l.quantity, price), NoLock, w2)
  BY <1>4, <1>7, <1>8 DEF PostedBase, PostedQuote
<1>10. acc.open = s.oo[me].open
  BY <1>2, AddOrderFacts
<1> HIDE DEF acc
<1>11. Frame(r, w2)
  <2>1. \A x \in Accounts : r.oo[x].open = s.oo[x].open
    BY <1>2, <1>4, <1>10, OpenKept
  <2>2. /\ w.ids >= mkt.seq_num /\ mkt.seq_num \in Nat
        /\ s.mkt.time_expiry = mkt.time_expiry /\ s.mkt.closed = mkt.closed
        /\ \A a \in Accounts : s.oo[a].open = oo[a].open
        /\ \A d \in Sides : book[d].leaves \subseteq LeafValues
    BY <1>1 DEF Frame, SeqOk
  <2>3. w2.ids >= mkt.seq_num /\ l.id > mkt.seq_num
    BY <1>2, <1>5, <1>6, <2>2
  <2>4. DOMAIN s.book = Sides
    BY <1>2 DEF BookOk
  <2>5. \A d \in Sides : \A k \in r.book[d].leaves : k = l \/ k \in s.book[d].leaves
    <3>1. bs.leaves = s.book[side].leaves \cup {l}
      BY DEF insert_leaf
    <3> HIDE DEF bs
    <3> QED BY <1>4, <2>4, <3>1
  <2>6. OnlyShrunk(s.book)
    BY <1>1 DEF Frame
  <2>7. OnlyShrunk(r.book)
    BY <2>3, <2>5, <2>6 DEF OnlyShrunk
  <2> QED BY <1>4, <2>1, <2>2, <2>3, <2>7 DEF Frame
<1>12. Good(r, r.heap, base + PostedBase(side, l.quantity),
            quote + PostedQuote(side, l.quantity, price), NoLock, w2)
  BY <1>9, <1>11 DEF Good
<1>13. Leads(s, r, r.heap, base + PostedBase(side, l.quantity),
             quote + PostedQuote(side, l.quantity, price), NoLock, w2)
  BY <1>4, <1>12 DEF Leads
<1> QED BY <1>13 DEF r, acc, bs, w2

\* The slot that a new order gets is free.
LEMMA NextSlotFacts ==
  ASSUME NEW acc, FreeSlots(acc) # {}
  PROVE  next_order_slot(acc) \in OrderSlots /\ acc.open_orders[next_order_slot(acc)].id = 0
<1> DEFINE F == FreeSlots(acc)
<1>1. F \in SUBSET Nat /\ F # {}
  BY OpenOrdersAssumption DEF FreeSlots, OrderSlots
<1> HIDE DEF F
<1>2. \E slot \in F : \A other \in F : slot <= other
  BY <1>1, MinExists
<1>3. next_order_slot(acc) \in F
  BY <1>2 DEF next_order_slot, F
<1> QED BY <1>3 DEF F, FreeSlots, is_free_slot

\* An order is written to the book and to a slot.
WithOrder(v, side, order, tree, price_lots, px, id, quantity, time, me, price) ==
  LET K(acc) == PostLeaf(order, tree, price_lots, px, id, next_order_slot(acc), quantity, time, me)
  IN  [v EXCEPT !.book[side] = insert_leaf(@, K(v.oo[me])),
                !.oo[me] = add_order(@, side, K(@), price)]

\* Writing the new leaf and its slot.
LEMMA InsertForm ==
  ASSUME NEW v, IsState(v), NEW side, NEW me, NEW order, NEW tree, NEW price_lots, NEW px, NEW id,
         NEW quantity, NEW time, NEW price
  PROVE  LET l == PostLeaf(order, tree, price_lots, px, id, next_order_slot(v.oo[me]), quantity, time, me)
         IN  WithOrder(v, side, order, tree, price_lots, px, id, quantity, time, me, price)
               = BookAccountSet(v, side, insert_leaf(v.book[side], l), me, add_order(v.oo[me], side, l, price))
<1> DEFINE K(acc) == PostLeaf(order, tree, price_lots, px, id, next_order_slot(acc), quantity, time, me)
           l == K(v.oo[me])
           bs == insert_leaf(v.book[side], l)
           q == BookSet(v, side, bs)
           x == [v EXCEPT !.book[side] = insert_leaf(@, l), !.oo[me] = add_order(@, side, K(@), price)]
           y == [q EXCEPT !.oo[me] = add_order(@, side, K(@), price)]
           acc == add_order(v.oo[me], side, l, price)
<1>1. x = y
  BY DEF BookSet
<1>2. q.oo = v.oo
  <2> HIDE DEF bs
  <2>1. q = [ok |-> v.ok, mkt |-> v.mkt, oo |-> v.oo, book |-> [v.book EXCEPT ![side] = bs],
             heap |-> v.heap]
    BY SetFields
  <2> HIDE DEF q
  <2> QED BY <2>1
<1> HIDE DEF q
<1>3. y = AccountSet(q, me, add_order(q.oo[me], side, K(q.oo[me]), price))
  BY DEF AccountSet
<1>4. y = AccountSet(q, me, acc)
  BY <1>2, <1>3
<1>5. AccountSet(q, me, acc) = BookAccountSet(v, side, bs, me, acc)
  BY DEF q, AccountSet, BookAccountSet, BookSet
<1>6. WithOrder(v, side, order, tree, price_lots, px, id, quantity, time, me, price) = x
  BY DEF WithOrder
<1> QED BY <1>1, <1>4, <1>5, <1>6

\* What posts an order is given.
PostGiven(s, order, tree, price_lots, quantity, px, time, base, quote, w, me) ==
  /\ SeqOk /\ IsState(s) /\ s.ok = TRUE /\ Good(s, s.heap, base, quote, NoLock, w)
  /\ base \in Int /\ quote \in Int
  /\ me \in Accounts /\ s.oo[me].open /\ OrderOk(order)
  /\ tree = post_target(order) /\ tree # NoTree
  /\ price_lots \in Nat \ {0} /\ price_lots <= MaxPrice /\ quantity \in Nat \ {0} /\ px \in Int /\ time \in Int
  /\ WOk(w, s.mkt.seq_num)

\* The fee an order locks is that of its lots at its locking price.
LEMMA FeesToLockFacts ==
  ASSUME NEW side \in Sides, NEW quantity \in Nat, NEW price \in Nat
  PROVE  /\ fees_to_lock(side, quantity, price) = Locks("fees", side, quantity, price)
         /\ fees_to_lock(side, quantity, price) \in Nat
<1>1. fees_to_lock(side, quantity, price) = Locks("fees", side, quantity, price)
  BY DEF fees_to_lock, Locks
<1>2. Locks("fees", side, quantity, price) \in Nat
  BY LocksFacts DEF Kinds
<1> QED BY <1>1, <1>2

\* The locking price is that of the leaf, whatever the leaf is.
LEMMA LockingPriceFacts ==
  ASSUME NEW order, OrderOk(order), NEW price_lots \in Nat \ {0}
  PROVE  locking_price(order, price_lots) \in Nat \ {0}
BY DEF locking_price, OrderOk

\* Fees are locked, there is room, and the order is inserted.
LEMMA InsertOk ==
  ASSUME NEW s, NEW order, NEW tree, NEW price_lots, NEW quantity, NEW px, NEW time,
         NEW base, NEW quote, NEW w, NEW me,
         PostGiven(s, order, tree, price_lots, quantity, px, time, base, quote, w, me),
         NEW price, price = locking_price(order, price_lots),
         NEW fees, fees = fees_to_lock(order.side, quantity, price),
         NEW v, IsState(v), v.ok = TRUE, v.mkt = s.mkt,
         Good(v, v.heap, base, quote + fees, FeesLocked(me, fees), w),
         FreeSlots(v.oo[me]) # {}, can_insert(v.book[order.side], tree),
         NEW l, l = PostLeaf(order, tree, price_lots, px, s.mkt.seq_num, next_order_slot(v.oo[me]),
                             quantity, time, me),
         NEW r, r = BookAccountSet(v, order.side, insert_leaf(v.book[order.side], l), me,
                                   add_order(v.oo[me], order.side, l, price))
  PROVE  Leads(v, r, r.heap, base + PostedBase(order.side, quantity),
               quote + fees + PostedQuote(order.side, quantity, price), NoLock, Ids(w, s.mkt.seq_num))
<1> DEFINE side == order.side
           slot == next_order_slot(v.oo[me])
           id == s.mkt.seq_num
<1>1. slot \in OrderSlots /\ v.oo[me].open_orders[slot].id = 0
  BY NextSlotFacts
<1>2. /\ OrderOk(order) /\ tree = post_target(order) /\ tree # NoTree
      /\ price_lots \in Nat \ {0} /\ price_lots <= MaxPrice /\ quantity \in Nat \ {0} /\ px \in Int /\ time \in Int
      /\ me \in Accounts /\ id \in Nat \ {0} /\ WOk(w, id) /\ base \in Int /\ quote \in Int /\ SeqOk
      /\ side \in Sides
  BY DEF PostGiven, WOk, OrderOk
<1> HIDE DEF slot
<1>3. l = PostLeaf(order, tree, price_lots, px, id, slot, quantity, time, me)
  BY DEF slot
<1> HIDE DEF id
<1>4. /\ l \in LeafValues /\ LeafOk(l) /\ l.owner = me /\ l.id = id
      /\ l.owner_slot = slot /\ l.tree = tree /\ l.quantity = quantity
      /\ price \in Nat
      /\ order.side = "Bid" => price = IF l.tree = "Fixed" THEN l.price ELSE l.peg_limit
  <2> DEFINE k == PostLeaf(order, tree, price_lots, px, id, slot, quantity, time, me)
             lp == locking_price(order, price_lots)
  <2>1. /\ k \in LeafValues /\ LeafOk(k) /\ k.owner = me /\ k.id = id
        /\ k.owner_slot = slot /\ k.tree = tree /\ k.quantity = quantity
        /\ lp \in Nat
        /\ order.side = "Bid" => lp = IF k.tree = "Fixed" THEN k.price ELSE k.peg_limit
    <3>1. /\ OrderOk(order) /\ tree = post_target(order) /\ tree # NoTree
          /\ price_lots \in Nat \ {0} /\ price_lots <= MaxPrice /\ px \in Int /\ id \in Nat \ {0}
          /\ slot \in OrderSlots /\ quantity \in Nat \ {0} /\ time \in Int /\ me \in Accounts
      BY <1>1, <1>2
    <3> HIDE DEF k, lp
    <3> QED BY ONLY <3>1, PostLeafFacts DEF k, lp
  <2>2. k = l /\ lp = price
    BY <1>3
  <2> HIDE DEF k, lp
  <2> QED BY <2>1, <2>2
<1>5. fees = Locks("fees", side, l.quantity, price)
  <2>1. order.side \in Sides /\ quantity \in Nat /\ price \in Nat
    BY <1>2, <1>4
  <2>2. fees = Locks("fees", order.side, quantity, price)
    BY ONLY <2>1, fees = fees_to_lock(order.side, quantity, price), FeesToLockFacts
  <2> QED BY <1>4, <2>2
<1>6. v.oo[me].open
  <2>1. s.oo[me].open /\ Good(s, s.heap, base, quote, NoLock, w)
    BY DEF PostGiven
  <2>2. s.oo[me].open = oo[me].open /\ v.oo[me].open = oo[me].open
    BY <1>2, <2>1 DEF Good, Frame
  <2> QED BY <2>1, <2>2
<1>7. fees \in Nat
  <2>1. order.side \in Sides /\ quantity \in Nat /\ price \in Nat
    BY <1>2, <1>4
  <2> QED BY ONLY <2>1, fees = fees_to_lock(order.side, quantity, price), FeesToLockFacts
<1> DEFINE quote2 == quote + fees
<1>8. quote2 \in Int /\ Good(v, v.heap, base, quote2, FeesLocked(me, fees), w)
  BY <1>2, <1>7
<1> HIDE DEF quote2
<1>9. /\ SeqOk /\ IsState(v) /\ v.ok = TRUE /\ base \in Int /\ quote2 \in Int
      /\ me \in Accounts /\ v.oo[me].open /\ side \in Sides /\ l \in LeafValues /\ LeafOk(l)
      /\ l.owner = me /\ l.id = v.mkt.seq_num /\ WOk(w, l.id)
      /\ v.oo[me].open_orders[l.owner_slot].id = 0 /\ can_insert(v.book[side], l.tree)
      /\ price \in Nat
      /\ side = "Bid" => price = IF l.tree = "Fixed" THEN l.price ELSE l.peg_limit
      /\ fees = Locks("fees", side, l.quantity, price)
      /\ Good(v, v.heap, base, quote2, FeesLocked(me, fees), w)
  <2>1. l.id = v.mkt.seq_num
    BY <1>4 DEF id
  <2> QED BY <1>1, <1>2, <1>4, <1>5, <1>6, <1>8, <2>1
<1> HIDE DEF side
<1> DEFINE x == BookAccountSet(v, side, insert_leaf(v.book[side], l), me,
                               add_order(v.oo[me], side, l, price))
<1>10. Leads(v, x, x.heap, base + PostedBase(side, l.quantity),
             quote2 + PostedQuote(side, l.quantity, price), NoLock, Ids(w, l.id))
  BY ONLY <1>9, InsertedOk
<1>11. r = x
  BY DEF side
<1> HIDE DEF x
<1>12. Leads(v, r, r.heap, base + PostedBase(side, quantity),
             quote2 + PostedQuote(side, quantity, price), NoLock, Ids(w, id))
  BY <1>4, <1>10, <1>11
<1> QED BY <1>12 DEF side, id, quote2

\* An order is posted: it locks its fees, makes room and gets a slot and a leaf.
LEMMA PostOk ==
  ASSUME NEW s, NEW order, NEW tree, NEW price_lots, NEW quantity, NEW px, NEW time,
         NEW base, NEW quote, NEW w, NEW me,
         PostGiven(s, order, tree, price_lots, quantity, px, time, base, quote, w, me),
         NEW price, price = locking_price(order, price_lots),
         NEW fees, fees = fees_to_lock(order.side, quantity, price),
         NEW rem, NEW r, r = Post(s, order, tree, price_lots, quantity, px, time, me, rem)
  PROVE  Leads(s, r, r.heap, base + PostedBase(order.side, quantity),
               quote + fees + PostedQuote(order.side, quantity, price), NoLock, Ids(w, s.mkt.seq_num))
<1> DEFINE side == order.side
           old == s.oo[me]
           p == AccountSet(s, me, FeesAdded(old, fees))
           v == MakeRoom(p, side, tree, price_lots, px, time, me, rem)
           Insert(st) ==
             IF st.ok /\ FreeSlots(st.oo[me]) # {} /\ can_insert(st.book[side], tree)
             THEN WithOrder(st, side, order, tree, price_lots, px, s.mkt.seq_num, quantity, time, me, price)
             ELSE [st EXCEPT !.ok = FALSE]
           b2 == base + PostedBase(order.side, quantity)
           q2 == quote + fees + PostedQuote(order.side, quantity, price)
           w2 == Ids(w, s.mkt.seq_num)
           Goal == Leads(s, r, r.heap, b2, q2, NoLock, w2)
<1>1. /\ SeqOk /\ IsState(s) /\ s.ok = TRUE /\ Good(s, s.heap, base, quote, NoLock, w)
      /\ base \in Int /\ quote \in Int /\ me \in Accounts /\ s.oo[me].open /\ OrderOk(order)
      /\ price_lots \in Nat \ {0} /\ quantity \in Nat \ {0} /\ px \in Int /\ time \in Int
      /\ side \in Sides
  BY DEF PostGiven, OrderOk
<1>2. price \in Nat /\ fees \in Nat
  BY <1>1, LockingPriceFacts, FeesToLockFacts
<1>3. /\ Ready(p, base, quote + fees, FeesLocked(me, fees), w)
      /\ p.ok = TRUE /\ p.mkt = s.mkt
  BY ONLY <1>1, <1>2, FeesLockedOk
<1>4. r = Insert(v)
  <2>1. [s EXCEPT !.oo[me].locked_maker_fees = @ + fees] = p
    BY DEF AccountSet, FeesAdded
  <2> DEFINE q == [s EXCEPT !.oo[me].locked_maker_fees = @ + fees]
             u == MakeRoom(q, side, tree, price_lots, px, time, me, rem)
  <2>2. r = CHOOSE x \in {Insert(st) : st \in {u}} : TRUE
    BY DEF Post, With, PostLeaf, WithOrder
  <2>3. u = v
    BY <2>1
  <2> HIDE DEF u, v
  <2> QED BY <2>2, <2>3
<1> DEFINE quote2 == quote + fees
           lock == FeesLocked(me, fees)
<1> HIDE DEF p, quote2, lock
<1>5. Ready(p, base, quote2, lock, w) /\ p.ok = TRUE
  BY <1>3 DEF quote2, lock
<1>6. Room(p, v, base, quote2, lock, w)
  BY ONLY <1>1, <1>5, MakeRoomOk
<1> HIDE DEF v
<1>7. IsState(v) /\ v.ok \in BOOLEAN /\ (v.ok => v.mkt = s.mkt /\ Good(v, v.heap, base, quote2, lock, w))
  BY <1>3, <1>6, Zenon DEF Room
<1>8. ASSUME v.ok, FreeSlots(v.oo[me]) # {}, can_insert(v.book[side], tree) PROVE Goal
  <2> DEFINE l == PostLeaf(order, tree, price_lots, px, s.mkt.seq_num, next_order_slot(v.oo[me]), quantity,
                           time, me)
             x == BookAccountSet(v, side, insert_leaf(v.book[side], l), me, add_order(v.oo[me], side, l, price))
  <2>1. r = WithOrder(v, side, order, tree, price_lots, px, s.mkt.seq_num, quantity, time, me, price)
    BY <1>4, <1>8
  <2>2. WithOrder(v, side, order, tree, price_lots, px, s.mkt.seq_num, quantity, time, me, price) = x
    BY ONLY <1>7, InsertForm
  <2>3. r = x
    BY <2>1, <2>2
  <2> HIDE DEF l
  <2>4. v.ok = TRUE /\ v.mkt = s.mkt /\ Good(v, v.heap, base, quote + fees, FeesLocked(me, fees), w)
    BY <1>7, <1>8 DEF quote2, lock
  <2>5. Leads(v, r, r.heap, b2, q2, NoLock, w2)
    BY <1>7, <1>8, <2>3, <2>4, InsertOk DEF l
  <2>6. s.ok
    BY <1>1
  <2> HIDE DEF b2, q2, w2, x
  <2> QED BY <2>5, <2>6, Zenon DEF Leads
<1>9. ASSUME ~(v.ok /\ FreeSlots(v.oo[me]) # {} /\ can_insert(v.book[side], tree)) PROVE Goal
  <2> DEFINE no == FALSE
  <2>1. r = OkSet(v, no)
    BY <1>4, <1>9 DEF OkSet
  <2>2. no = FALSE
    OBVIOUS
  <2> HIDE DEF no
  <2>3. IsState(r) /\ r.ok = no
    BY <1>7, <2>1, OkSetIs
  <2> HIDE DEF b2, q2, w2
  <2> QED BY <2>2, <2>3 DEF Leads
<1>10. Goal
  BY <1>8, <1>9
<1> QED BY <1>10

\* An order for nothing locks no fee.
LEMMA NoFee == maker_fees_ceil(0) = 0
<1> DEFINE S == FEES_SCALE_FACTOR
<1>1. S \in Nat \ {0} /\ maker_fee \in Int
  BY FeeAssumption
<1>2. 0 * maker_fee = 0
  BY <1>1
<1>3. (0 + S - 1) \div S = 0
  <2> HIDE DEF S
  <2> DEFINE q == (S - 1) \div S
  <2>1. q \in Int /\ q * S <= S - 1 /\ q >= 0
    BY <1>1, DivFacts
  <2> HIDE DEF q
  <2>2. ~(q >= 1)
    <3> SUFFICES ASSUME q >= 1 PROVE FALSE
      OBVIOUS
    <3>1. q * S >= 1 * S
      BY <1>1, <2>1
    <3> QED BY <1>1, <2>1, <3>1
  <2>3. q = 0
    BY <2>1, <2>2
  <2> QED BY <1>1, <2>3 DEF q
<1> QED BY <1>2, <1>3 DEF maker_fees_ceil, ceil_fee_division

\* What an order may spend is a number of lots.
LEMMA BudgetFacts ==
  ASSUME NEW order, order.max_quote_lots_including_fees \in Nat
  PROVE  order_max_quote_lots(order) \in Nat
<1> DEFINE x == order.max_quote_lots_including_fees
           S == FEES_SCALE_FACTOR
           n == S + taker_fee
           p == x * S
<1>1. n \in Nat \ {0} /\ S \in Nat
  BY FeeAssumption
<1>2. p \in Int /\ p >= 0
  BY <1>1
<1>3. subtract_taker_fees(x) = p \div n
  BY DEF subtract_taker_fees
<1> HIDE DEF p, n, S
<1>4. p \div n \in Int /\ p \div n >= 0
  BY <1>1, <1>2, DivFacts
<1>5. order_max_quote_lots(order) \in {subtract_taker_fees(x), x}
  BY DEF order_max_quote_lots
<1> QED BY <1>3, <1>4, <1>5

\* The numbers of an order that was refused are zero.
LEMMA RefusedFields ==
  ASSUME NEW s, IsState(s), NEW o, o = Refused(s)
  PROVE  /\ IsState(o.s) /\ o.s.ok = FALSE
         /\ o.base = 0 /\ o.quote = 0 /\ o.posted_base = 0 /\ o.posted_quote = 0
         /\ o.taker_fees = 0 /\ o.maker_fees = 0 /\ o.referrer_amount = 0
<1> DEFINE no == FALSE
           q == OkSet(s, no)
<1>1. o = [s |-> q, posted_base |-> 0, posted_quote |-> 0, base |-> 0,
           quote |-> 0, taker_fees |-> 0, maker_fees |-> 0, referrer_amount |-> 0]
  BY DEF Refused, OkSet
<1>2. no = FALSE
  OBVIOUS
<1> HIDE DEF no
<1>3. IsState(q) /\ q.ok = no
  BY OkSetIs
<1> HIDE DEF q
<1> QED BY <1>1, <1>2, <1>3

\* The last order number is that of an order.
LEMMA Renumbered ==
  ASSUME NEW s, NEW base, NEW quote, NEW w, Good(s, s.heap, base, quote, NoLock, w),
         NEW id, WOk(w, id), SeqOk
  PROVE  Good(s, s.heap, base, quote, NoLock, Ids(w, id))
<1> DEFINE w2 == Ids(w, id)
<1>1. Sane(s, s.heap, base, quote, NoLock, w) /\ Frame(s, w)
  BY DEF Good
<1>2. w.ids \in Nat /\ TotalsOk(s.mkt, w)
  BY <1>1, SaneParts
<1>3. /\ w2.ids = id /\ w2.base_total = w.base_total /\ w2.quote_total = w.quote_total
      /\ w2.seq_num = w.seq_num
  BY DEF WOk, Ids
<1> HIDE DEF w2
<1>4. id \in Nat /\ w.ids < id /\ w.seq_num = id
  BY DEF WOk
<1>5. w2.ids \in Nat /\ w.ids <= w2.ids /\ TotalsOk(s.mkt, w2)
  BY <1>2, <1>3, <1>4 DEF TotalsOk
<1>6. Sane(s, s.heap, base, quote, NoLock, w2)
  BY <1>1, <1>5, MoreIds
<1>7. w2.ids >= mkt.seq_num
  BY <1>1, <1>2, <1>3, <1>4 DEF Frame, SeqOk
<1>8. Frame(s, w2)
  BY <1>1, <1>7 DEF Frame
<1> QED BY <1>6, <1>8 DEF Good, w2

\* The totals are those of the market.
LEMMA IdsAreTotals ==
  ASSUME NEW s, NEW base, NEW quote, NEW w, NEW id, WOk(w, id),
         Good(s, s.heap, base, quote, NoLock, Ids(w, id))
  PROVE  /\ Ids(w, id) = Totals(s.mkt)
         /\ s.mkt.base_deposit_total = w.base_total
         /\ s.mkt.quote_deposit_total = w.quote_total
         /\ s.mkt.seq_num = id
<1> DEFINE w2 == Ids(w, id)
<1>1. Sane(s, s.heap, base, quote, NoLock, w2)
  BY DEF Good
<1>2. w2 = [base_total |-> w.base_total, quote_total |-> w.quote_total, ids |-> id,
            seq_num |-> id]
  BY DEF WOk, Ids
<1> HIDE DEF w2
<1>3. TotalsOk(s.mkt, w2)
  BY <1>1, SaneParts
<1>4. /\ s.mkt.base_deposit_total = w2.base_total /\ s.mkt.quote_deposit_total = w2.quote_total
      /\ s.mkt.seq_num = w2.seq_num
  BY <1>3 DEF TotalsOk
<1>5. /\ s.mkt.base_deposit_total = w.base_total /\ s.mkt.quote_deposit_total = w.quote_total
      /\ s.mkt.seq_num = id
  BY <1>2, <1>4
<1> QED BY <1>2, <1>5 DEF Totals, w2

\* The maker fee of any amount, also a negative one, is a whole number.
LEMMA CeilInt ==
  ASSUME NEW x \in Int
  PROVE  maker_fees_ceil(x) \in Int
<1> DEFINE S == FEES_SCALE_FACTOR
           n == x * maker_fee + S - 1
<1>1. S \in Nat \ {0} /\ maker_fee \in Int
  BY FeeAssumption
<1>2. n \in Int
  BY <1>1
<1>3. maker_fees_ceil(x) = n \div S \/ maker_fees_ceil(x) = 0
  BY DEF maker_fees_ceil, ceil_fee_division
<1> HIDE DEF n, S
<1>4. n \div S \in Int
  BY <1>1, <1>2, DivFacts
<1> QED BY <1>3, <1>4

\* What is left to post is a whole number of lots, though perhaps not positive.
LEMMA RestInt ==
  ASSUME NEW order, order.max_quote_lots_including_fees \in Nat, NEW m, m.base \in Nat,
         NEW t, TakenOk(t), NEW price \in Nat \ {0}
  PROVE  book_base_quantity_lots(order, m, t, price) \in Int
<1> DEFINE a == t.fees + quote_lot_size - 1
           fee_lots == a \div quote_lot_size
           rest == order.max_quote_lots_including_fees - t.quote_lots - fee_lots
           b == rest - maker_fees_ceil(rest)
           d == b \div price
<1>1. quote_lot_size \in Nat \ {0} /\ t.fees \in Nat /\ t.quote_lots \in Nat
  BY FeeAssumption DEF TakenOk
<1>2. a \in Int
  BY <1>1
<1>3. book_base_quantity_lots(order, m, t, price) = Min({m.base, d})
  BY DEF book_base_quantity_lots
<1> HIDE DEF a
<1>4. fee_lots \in Int
  BY <1>1, <1>2, DivFacts
<1> HIDE DEF fee_lots
<1>5. rest \in Int
  BY <1>1, <1>4
<1> HIDE DEF rest
<1>6. maker_fees_ceil(rest) \in Int
  BY <1>5, CeilInt
<1>7. b \in Int
  BY <1>5, <1>6
<1> HIDE DEF b
<1>8. d \in Int
  BY <1>7, DivFacts
<1> HIDE DEF d
<1>9. m.base \in Int
  OBVIOUS
<1>10. Min({m.base, d}) \in {m.base, d}
  BY <1>8, <1>9, Min2
<1> QED BY <1>3, <1>8, <1>9, <1>10

\* What an order owes: the cost of an account's order, or what a taker without
\* an account exchanges.
PlacedBase(side, o, me) ==
  IF me \in Accounts THEN Cost(side, o).base ELSE IF side = "Ask" THEN o.base ELSE -o.base
\* The quote a whole order leaves to be paid in.
PlacedQuote(side, o, me) ==
  IF me \in Accounts THEN Cost(side, o).quote
  ELSE (o.taker_fees - o.referrer_amount) + (IF side = "Bid" THEN o.quote ELSE -o.quote)

\* The numbers an order ends with.
NumbersOk(o) ==
  /\ o.base \in Nat /\ o.quote \in Nat /\ o.posted_base \in Nat /\ o.posted_quote \in Nat
  /\ o.taker_fees \in Nat /\ o.maker_fees \in Nat /\ o.referrer_amount \in Int

\* How an order ends that took t and posted some lots.
Ended(o, s, side, t, posted, price) ==
  /\ o.s = s /\ o.base = t.base /\ o.quote = t.quote /\ o.taker_fees = t.fees
  /\ o.referrer_amount = t.referrer_amount
  /\ o.posted_base = posted * base_lot_size
  /\ o.posted_quote = posted * price * quote_lot_size
  /\ o.maker_fees = fees_to_lock(side, posted, price)

\* An order costs what it took and what it posted.
LEMMA EndedCosts ==
  ASSUME NEW side \in Sides, NEW t, TakenOk(t), NEW posted \in Nat, NEW price \in Nat,
         NEW me, NEW s, NEW o, Ended(o, s, side, t, posted, price),
         me \notin Accounts => posted = 0
  PROVE  /\ NumbersOk(o)
         /\ me \in Accounts =>
              /\ PlacedBase(side, o, me) = TakenBase(side, t, me) + PostedBase(side, posted)
              /\ PlacedQuote(side, o, me) = TakenQuote(side, t, me)
                                            + (fees_to_lock(side, posted, price)
                                               + PostedQuote(side, posted, price))
         /\ me \notin Accounts =>
              /\ PlacedBase(side, o, me) = TakenBase(side, t, me)
              /\ PlacedQuote(side, o, me) = TakenQuote(side, t, me)
<1> DEFINE pb == posted * base_lot_size
           pq == posted * price * quote_lot_size
           fees == fees_to_lock(side, posted, price)
<1>1. base_lot_size \in Nat /\ quote_lot_size \in Nat
  BY FeeAssumption
<1>2. pb \in Nat /\ posted * price \in Nat
  BY <1>1
<1>3. pq \in Nat
  BY <1>1, <1>2
<1>4. fees \in Nat
  BY FeesToLockFacts
<1>5. side = "Ask" => fees = 0
  BY DEF fees_to_lock
<1>6. /\ o.base = t.base /\ o.quote = t.quote /\ o.taker_fees = t.fees
      /\ o.referrer_amount = t.referrer_amount /\ o.posted_base = pb /\ o.posted_quote = pq
      /\ o.maker_fees = fees
  BY DEF Ended
<1>7. /\ t.base \in Nat /\ t.quote \in Nat /\ t.fees \in Nat /\ t.referrer_amount \in Int
  BY DEF TakenOk
<1>8. /\ PostedBase(side, posted) = IF side = "Ask" THEN pb ELSE 0
      /\ PostedQuote(side, posted, price) = IF side = "Bid" THEN pq ELSE 0
  BY DEF PostedBase, PostedQuote
<1> HIDE DEF pb, pq, fees
<1>9. NumbersOk(o)
  BY <1>2, <1>3, <1>4, <1>6, <1>7 DEF NumbersOk
<1>10. side = "Bid" \/ (side = "Ask" /\ side # "Bid")
  BY DEF Sides
<1>11. ASSUME me \in Accounts
       PROVE  /\ PlacedBase(side, o, me) = TakenBase(side, t, me) + PostedBase(side, posted)
              /\ PlacedQuote(side, o, me) = TakenQuote(side, t, me) + (fees + PostedQuote(side, posted, price))
  <2>1. CASE side = "Bid"
    <3>1. /\ PlacedBase(side, o, me) = 0
          /\ PlacedQuote(side, o, me) = t.quote + pq + t.fees + fees
      BY <1>6, <1>11, <2>1 DEF PlacedBase, PlacedQuote, Cost
    <3>2. TakenBase(side, t, me) = 0 /\ TakenQuote(side, t, me) = t.quote + t.fees
      BY <1>11, <2>1 DEF TakenBase, TakenQuote
    <3> QED BY <1>3, <1>4, <1>7, <1>8, <2>1, <3>1, <3>2
  <2>2. CASE side = "Ask" /\ side # "Bid"
    <3>1. PlacedBase(side, o, me) = t.base + pb /\ PlacedQuote(side, o, me) = 0
      BY <1>6, <1>11, <2>2 DEF PlacedBase, PlacedQuote, Cost
    <3>2. TakenBase(side, t, me) = t.base /\ TakenQuote(side, t, me) = 0
      BY <1>11, <2>2 DEF TakenBase, TakenQuote
    <3> QED BY <1>2, <1>5, <1>7, <1>8, <2>2, <3>1, <3>2
  <2> QED BY <1>10, <2>1, <2>2
<1>12. ASSUME me \notin Accounts
       PROVE  /\ PlacedBase(side, o, me) = TakenBase(side, t, me)
              /\ PlacedQuote(side, o, me) = TakenQuote(side, t, me)
  BY <1>6, <1>12 DEF PlacedBase, PlacedQuote, TakenBase, TakenQuote, DueBase, DueQuote
<1> QED BY <1>9, <1>11, <1>12 DEF fees

\* An order that posts nothing locks nothing.
LEMMA NothingPosted ==
  ASSUME NEW side, NEW price \in Nat
  PROVE  /\ fees_to_lock(side, 0, price) = 0
         /\ PostedBase(side, 0) = 0 /\ PostedQuote(side, 0, price) = 0
<1>1. base_lot_size \in Nat /\ quote_lot_size \in Nat
  BY FeeAssumption
<1>2. 0 * price = 0 /\ 0 * base_lot_size = 0 /\ 0 * quote_lot_size = 0
  BY <1>1
<1>3. 0 * price * quote_lot_size = 0
  BY <1>2
<1> QED BY <1>2, <1>3, NoFee DEF fees_to_lock, PostedBase, PostedQuote

\* What the end of new_order is given.
EndGiven(m, t, taken, order, price_lots, px, time, base, quote, w, me) ==
  /\ SeqOk /\ OrderOk(order) /\ TakenOk(t) /\ m.base \in Nat
  /\ m.post \in {NoTree, post_target(order)}
  /\ me \in Accounts \/ post_target(order) = NoTree
  /\ price_lots \in Nat \ {0} /\ price_lots <= MaxPrice /\ px \in Int /\ time \in Int /\ base \in Int /\ quote \in Int
  /\ IsState(taken) /\ taken.ok \in BOOLEAN
  /\ taken.ok =>
       /\ Good(taken, taken.heap, base + TakenBase(order.side, t, me),
               quote + TakenQuote(order.side, t, me), NoLock, w)
       /\ WOk(w, taken.mkt.seq_num)
       /\ me \in Accounts => taken.oo[me].open

\* An order ended: it failed, or everything it owes is accounted for.
EndsWell(o, taken, side, me, base, quote, w) ==
  /\ IsState(o.s) /\ o.s.ok \in BOOLEAN /\ NumbersOk(o)
  /\ o.s.ok =>
       /\ taken.ok
       /\ Good(o.s, o.s.heap, base + PlacedBase(side, o, me), quote + PlacedQuote(side, o, me),
               NoLock, Ids(w, taken.mkt.seq_num))

\* An order that is refused owes nothing.
LEMMA RefusedEnds ==
  ASSUME NEW taken, IsState(taken), NEW side, NEW me, NEW base, NEW quote, NEW w,
         NEW o, o = Refused(taken)
  PROVE  EndsWell(o, taken, side, me, base, quote, w)
<1>1. /\ IsState(o.s) /\ o.s.ok = FALSE
      /\ o.base = 0 /\ o.quote = 0 /\ o.posted_base = 0 /\ o.posted_quote = 0
      /\ o.taker_fees = 0 /\ o.maker_fees = 0 /\ o.referrer_amount = 0
  BY RefusedFields
<1>2. NumbersOk(o)
  BY <1>1 DEF NumbersOk
<1> QED BY <1>1, <1>2, Zenon DEF EndsWell

\* An order that posts nothing is done when its part was recorded.
LEMMA UnpostedEnds ==
  ASSUME NEW m, NEW t, NEW taken, NEW order, NEW price_lots, NEW px, NEW time, NEW base, NEW quote,
         NEW w, NEW me, EndGiven(m, t, taken, order, price_lots, px, time, base, quote, w, me),
         taken.ok, NEW price \in Nat, NEW o, Ended(o, taken, order.side, t, 0, price)
  PROVE  EndsWell(o, taken, order.side, me, base, quote, w)
<1> DEFINE side == order.side
           tb == TakenBase(side, t, me)
           tq == TakenQuote(side, t, me)
           pb == PlacedBase(side, o, me)
           pq == PlacedQuote(side, o, me)
           id == taken.mkt.seq_num
<1>1. /\ SeqOk /\ side \in Sides /\ TakenOk(t) /\ base \in Int /\ quote \in Int
      /\ IsState(taken) /\ taken.ok \in BOOLEAN
      /\ Good(taken, taken.heap, base + tb, quote + tq, NoLock, w) /\ WOk(w, id)
  BY DEF EndGiven, OrderOk
<1>2. tb \in Int /\ tq \in Int
  BY <1>1, TakenInt
<1>3. /\ fees_to_lock(side, 0, price) = 0
      /\ PostedBase(side, 0) = 0 /\ PostedQuote(side, 0, price) = 0
  BY NothingPosted
<1>4. /\ NumbersOk(o)
      /\ me \in Accounts =>
           /\ pb = tb + PostedBase(side, 0)
           /\ pq = tq + (fees_to_lock(side, 0, price) + PostedQuote(side, 0, price))
      /\ me \notin Accounts => pb = tb /\ pq = tq
  <2>1. side \in Sides /\ TakenOk(t) /\ 0 \in Nat /\ price \in Nat /\ Ended(o, taken, side, t, 0, price)
        /\ (me \notin Accounts => 0 = 0)
    BY <1>1
  <2> QED BY ONLY <2>1, EndedCosts
<1> HIDE DEF tb, tq, pb, pq, id
<1>5. pb = tb /\ pq = tq
  BY <1>2, <1>3, <1>4
<1> DEFINE b == base + tb
           q == quote + tq
<1>6. Good(taken, taken.heap, b, q, NoLock, w)
  BY <1>1
<1>7. base + pb = b /\ quote + pq = q
  BY <1>5
<1> HIDE DEF b, q
<1>8. Good(taken, taken.heap, b, q, NoLock, Ids(w, id))
  BY ONLY <1>1, <1>6, Renumbered
<1>9. o.s = taken
  BY DEF Ended
<1>10. Good(o.s, o.s.heap, base + pb, quote + pq, NoLock, Ids(w, id))
  BY <1>7, <1>8, <1>9
<1>11. IsState(o.s) /\ o.s.ok \in BOOLEAN
  BY <1>1, <1>9
<1> QED BY <1>4, <1>10, <1>11 DEF EndsWell, pb, pq, id

\* The rest of an order is posted.
LEMMA PostedEnds ==
  ASSUME NEW m, NEW t, NEW taken, NEW order, NEW price_lots, NEW px, NEW time, NEW base, NEW quote,
         NEW w, NEW me, EndGiven(m, t, taken, order, price_lots, px, time, base, quote, w, me),
         taken.ok, m.post # NoTree, NEW quantity \in Nat \ {0}, NEW rem, NEW r,
         r = Post(taken, order, m.post, price_lots, quantity, px, time, me, rem),
         NEW price, price = locking_price(order, price_lots),
         NEW o, Ended(o, r, order.side, t, quantity, price)
  PROVE  EndsWell(o, taken, order.side, me, base, quote, w)
<1> DEFINE side == order.side
           tb == TakenBase(side, t, me)
           tq == TakenQuote(side, t, me)
           fees == fees_to_lock(side, quantity, price)
           pb == PlacedBase(side, o, me)
           pq == PlacedQuote(side, o, me)
           id == taken.mkt.seq_num
           b == base + tb
           q == quote + tq
           xb == PostedBase(side, quantity)
           xq == PostedQuote(side, quantity, price)
<1>1. /\ SeqOk /\ side \in Sides /\ TakenOk(t) /\ base \in Int /\ quote \in Int
      /\ IsState(taken) /\ taken.ok = TRUE /\ OrderOk(order)
      /\ Good(taken, taken.heap, b, q, NoLock, w) /\ WOk(w, id)
      /\ m.post = post_target(order) /\ me \in Accounts /\ taken.oo[me].open
      /\ price_lots \in Nat \ {0} /\ price_lots <= MaxPrice /\ px \in Int /\ time \in Int
  BY DEF EndGiven, OrderOk
<1>2. tb \in Int /\ tq \in Int
  BY <1>1, TakenInt
<1>3. price \in Nat \ {0}
  BY <1>1, LockingPriceFacts
<1>4. fees \in Nat
  BY <1>1, <1>3, FeesToLockFacts
<1>5. /\ NumbersOk(o)
      /\ me \in Accounts => pb = tb + xb /\ pq = tq + (fees + xq)
      /\ me \notin Accounts => pb = tb /\ pq = tq
  <2>1. side \in Sides /\ TakenOk(t) /\ quantity \in Nat /\ price \in Nat
        /\ Ended(o, r, side, t, quantity, price) /\ (me \notin Accounts => quantity = 0)
    BY <1>1, <1>3
  <2> QED BY ONLY <2>1, EndedCosts
<1>6. xb \in Int /\ xq \in Int
  <2>1. base_lot_size \in Nat /\ quote_lot_size \in Nat
    BY FeeAssumption
  <2>2. quantity * base_lot_size \in Int /\ quantity * price \in Int
    BY <1>3, <2>1
  <2>3. quantity * price * quote_lot_size \in Int
    BY <2>1, <2>2
  <2> QED BY <2>2, <2>3 DEF PostedBase, PostedQuote
<1> HIDE DEF tb, tq, pb, pq, xb, xq
<1>7. b \in Int /\ q \in Int
  BY <1>1, <1>2
<1>8. base + pb = b + xb /\ quote + pq = q + fees + xq
  <2> HIDE DEF fees
  <2> QED BY <1>1, <1>2, <1>4, <1>5, <1>6
<1> HIDE DEF b, q
<1>9. PostGiven(taken, order, m.post, price_lots, quantity, px, time, b, q, w, me)
  BY <1>1, <1>7 DEF PostGiven, id
<1>10. Leads(taken, r, r.heap, b + PostedBase(side, quantity),
             q + fees + PostedQuote(side, quantity, price), NoLock, Ids(w, taken.mkt.seq_num))
  <2>1. fees = fees_to_lock(side, quantity, price)
    OBVIOUS
  <2> HIDE DEF fees
  <2> QED BY <1>9, <2>1, PostOk
<1>11. o.s = r
  BY DEF Ended
<1> HIDE DEF fees, id
<1>12. /\ IsState(r) /\ r.ok \in BOOLEAN
       /\ r.ok => Good(r, r.heap, base + pb, quote + pq, NoLock, Ids(w, id))
  BY <1>8, <1>10, Zenon DEF Leads, id, xb, xq
<1> QED BY <1>5, <1>11, <1>12 DEF EndsWell, pb, pq, id

\* The end of new_order.
LEMMA TakeAndPostOk ==
  ASSUME NEW m, NEW t, NEW taken, NEW order, NEW price_lots, NEW px, NEW time, NEW base, NEW quote,
         NEW w, NEW me, EndGiven(m, t, taken, order, price_lots, px, time, base, quote, w, me),
         NEW rem, NEW o, o = TakeAndPost(m, t, taken, order, price_lots, px, time, me, rem)
  PROVE  EndsWell(o, taken, order.side, me, base, quote, w)
<1> DEFINE side == order.side
           price == locking_price(order, price_lots)
           quantity == book_base_quantity_lots(order, m, t, price)
           posts == /\ m.post # NoTree
                    /\ quantity > 0
                    /\ ~(order.pegged /\ is_price_better(order.side, price_lots, order.peg_limit))
           fails == ~taken.ok \/ (is_fill_or_kill(order) /\ m.base > 0)
           posted == IF posts THEN quantity ELSE 0
           s == IF posts THEN Post(taken, order, m.post, price_lots, quantity, px, time, me, rem)
                ELSE taken
           Goal == EndsWell(o, taken, order.side, me, base, quote, w)
<1>1. /\ OrderOk(order) /\ TakenOk(t) /\ m.base \in Nat /\ price_lots \in Nat \ {0}
      /\ IsState(taken) /\ order.max_quote_lots_including_fees \in Nat
  BY DEF EndGiven, OrderOk
<1>2. price \in Nat \ {0}
  BY <1>1, LockingPriceFacts
<1>3. fails => o = Refused(taken)
  BY DEF TakeAndPost
<1>4. ~fails => o = [s |-> s, posted_base |-> posted * base_lot_size,
                     posted_quote |-> posted * price * quote_lot_size,
                     base |-> t.base, quote |-> t.quote, taker_fees |-> t.fees,
                     maker_fees |-> fees_to_lock(order.side, posted, price),
                     referrer_amount |-> t.referrer_amount]
  BY DEF TakeAndPost
<1>5. ~fails => Ended(o, s, side, t, posted, price)
  <2> HIDE DEF fails, posted, s, price
  <2> QED BY <1>4 DEF Ended
<1>6. quantity \in Int
  <2> HIDE DEF price
  <2> QED BY <1>1, <1>2, RestInt
<1>7. ~fails => taken.ok
  OBVIOUS
<1>8. posts => m.post # NoTree /\ quantity \in Nat \ {0}
  <2> HIDE DEF quantity
  <2> QED BY <1>6
<1>9. ASSUME fails PROVE Goal
  <2> HIDE DEF fails
  <2> QED BY <1>1, <1>3, <1>9, RefusedEnds
<1>10. ASSUME ~fails, ~posts PROVE Goal
  <2>1. Ended(o, taken, side, t, 0, price)
    BY <1>5, <1>10
  <2> HIDE DEF fails, posts, price
  <2>2. price \in Nat
    BY <1>2
  <2> QED BY <1>7, <1>10, <2>1, <2>2, UnpostedEnds
<1>11. ASSUME ~fails, posts PROVE Goal
  <2> DEFINE r == Post(taken, order, m.post, price_lots, quantity, px, time, me, rem)
  <2>1. Ended(o, r, side, t, quantity, price)
    BY <1>5, <1>11
  <2>2. price = locking_price(order, price_lots)
    OBVIOUS
  <2>3. r = Post(taken, order, m.post, price_lots, quantity, px, time, me, rem)
    OBVIOUS
  <2>4. quantity \in Nat \ {0} /\ m.post # NoTree /\ taken.ok
    BY <1>7, <1>8, <1>11
  <2> HIDE DEF fails, posts, price, quantity, r
  <2> QED BY <2>1, <2>2, <2>3, <2>4, PostedEnds
<1> HIDE DEF fails, posts, Goal
<1>12. Goal
  BY <1>9, <1>10, <1>11
<1> QED BY <1>12 DEF Goal
-----------------------------------------------------------------------------
\* The market with the next sequence number.
NextSeq(m) == [m EXCEPT !.seq_num = @ + 1]
\* The totals of a market that has given out a number no order has yet.
Numbered(w) == [w EXCEPT !.seq_num = @ + 1]

\* Taking a number changes only the sequence number.
LEMMA NextSeqFacts ==
  ASSUME NEW m \in MarketValues, NEW w, w = Totals(m), NEW k, k = NextSeq(m), NEW w2, w2 = Numbered(w)
  PROVE  /\ TotalsOk(k, w2) /\ w2.ids = w.ids /\ WOk(w2, k.seq_num)
         /\ k.seq_num = m.seq_num + 1 /\ k.seq_num \in Nat
         /\ k.time_expiry = m.time_expiry /\ k.closed = m.closed
         /\ k.base_deposit_total = m.base_deposit_total
         /\ k.quote_deposit_total = m.quote_deposit_total
         /\ k.fees_available = m.fees_available
         /\ k.referrer_rebates_accrued = m.referrer_rebates_accrued
         /\ w2.base_total = m.base_deposit_total /\ w2.quote_total = m.quote_deposit_total
<1>1. k \in MarketValues /\ k.seq_num = m.seq_num + 1
      /\ k.time_expiry = m.time_expiry /\ k.closed = m.closed
      /\ k.base_deposit_total = m.base_deposit_total
      /\ k.quote_deposit_total = m.quote_deposit_total
      /\ k.fees_available = m.fees_available
      /\ k.referrer_rebates_accrued = m.referrer_rebates_accrued
  BY DEF NextSeq, MarketValues
<1>2. m.seq_num \in Nat
  BY DEF MarketValues
<1>3. w2 = [base_total |-> m.base_deposit_total, quote_total |-> m.quote_deposit_total,
            ids |-> m.seq_num, seq_num |-> m.seq_num + 1]
  BY DEF Totals, Numbered
<1>4. w.ids = m.seq_num
  BY DEF Totals
<1>5. w2.ids = m.seq_num /\ w2.seq_num = m.seq_num + 1 /\ w2.base_total = m.base_deposit_total
      /\ w2.quote_total = m.quote_deposit_total
      /\ w2 = [base_total |-> w2.base_total, quote_total |-> w2.quote_total, ids |-> w2.ids,
          seq_num |-> w2.seq_num]
  BY <1>3
<1>6. m.seq_num + 1 \in Nat \ {0} /\ m.seq_num < m.seq_num + 1 /\ m.seq_num <= m.seq_num + 1
  BY <1>2
<1> QED BY <1>1, <1>2, <1>4, <1>5, <1>6 DEF TotalsOk, WOk

\* An order gets the next number.
LEMMA GenOrderId ==
  ASSUME SeqOk, NEW s0, IsState(s0), s0.ok \in BOOLEAN, NEW base, NEW quote,
         Good(s0, s0.heap, base, quote, NoLock, Totals(s0.mkt)), NEW s, s = gen_order_id(s0)
  PROVE  LET w == Numbered(Totals(s0.mkt))
         IN  /\ IsState(s) /\ s.ok = s0.ok /\ s.oo = s0.oo /\ s.book = s0.book /\ s.heap = s0.heap
             /\ s.mkt = NextSeq(s0.mkt)
             /\ Good(s, s.heap, base, quote, NoLock, w) /\ WOk(w, s.mkt.seq_num)
             /\ s.mkt.seq_num = s0.mkt.seq_num + 1 /\ s.mkt.seq_num \in Nat
             /\ w.base_total = s0.mkt.base_deposit_total
             /\ w.quote_total = s0.mkt.quote_deposit_total
<1> DEFINE w0 == Totals(s0.mkt)
           w == Numbered(w0)
           k == NextSeq(s0.mkt)
<1>1. s = MarketSet(s0, k)
  BY DEF gen_order_id, MarketSet, NextSeq
<1>2. Sane(s0, s0.heap, base, quote, NoLock, w0) /\ Frame(s0, w0)
  BY DEF Good
<1>3. s0.mkt \in MarketValues /\ base \in Int /\ quote \in Int /\ HeapOk(s0.heap) /\ w0.ids \in Nat
      /\ s0.mkt.base_deposit_total \in Int /\ s0.mkt.quote_deposit_total \in Int
  <2>1. s0.mkt \in MarketValues /\ base \in Int /\ quote \in Int /\ HeapOk(s0.heap) /\ w0.ids \in Nat
    BY <1>2, SaneParts
  <2> QED BY <2>1 DEF MarketValues
<1> HIDE DEF k
<1>4. /\ IsState(s) /\ s.ok = s0.ok /\ s.mkt = k /\ s.oo = s0.oo
      /\ s.book = s0.book /\ s.heap = s0.heap
  BY <1>1, MarketSetIs
<1>5. /\ TotalsOk(k, w) /\ w.ids = w0.ids /\ WOk(w, k.seq_num)
      /\ k.seq_num = s0.mkt.seq_num + 1 /\ k.seq_num \in Nat
      /\ k.time_expiry = s0.mkt.time_expiry /\ k.closed = s0.mkt.closed
      /\ k.base_deposit_total = s0.mkt.base_deposit_total
      /\ k.quote_deposit_total = s0.mkt.quote_deposit_total
      /\ k.fees_available = s0.mkt.fees_available
      /\ k.referrer_rebates_accrued = s0.mkt.referrer_rebates_accrued
      /\ w.base_total = s0.mkt.base_deposit_total /\ w.quote_total = s0.mkt.quote_deposit_total
  BY <1>3, NextSeqFacts DEF k
<1> HIDE DEF w, w0
<1>6. Sane(s, s.heap, base, quote, NoLock, w)
  <2>1. /\ s.oo = s0.oo /\ s.book = s0.book /\ HeapOk(s.heap) /\ TotalsOk(s.mkt, w)
        /\ s.mkt.base_deposit_total + base = s0.mkt.base_deposit_total + base
        /\ s.mkt.quote_deposit_total + quote - s.mkt.fees_available
             = s0.mkt.quote_deposit_total + quote - s0.mkt.fees_available
        /\ s.mkt.referrer_rebates_accrued = s0.mkt.referrer_rebates_accrued
        /\ w.ids = w0.ids /\ base \in Int /\ quote \in Int
        /\ Sane(s0, s0.heap, base, quote, NoLock, w0)
    BY <1>2, <1>3, <1>4, <1>5
  <2>2. Sane(s, s0.heap, base, quote, NoLock, w)
    BY ONLY <2>1, MarketTouched
  <2> QED BY <1>4, <2>2
<1>7. Frame(s, w)
  BY <1>2, <1>4, <1>5 DEF Frame
<1> QED BY <1>3, <1>4, <1>5, <1>6, <1>7 DEF Good, w, w0, k

\* Recording what was taken does not mend a failed instruction.
LEMMA RecordFails ==
  ASSUME NEW s, IsState(s), s.ok = FALSE, NEW order, NEW t, NEW me,
         NEW r, r = RecordTaken(s, order, t, me)
  PROVE  IsState(r) /\ r.ok = FALSE
<1> DEFINE ra == t.referrer_amount
           acc == execute_taker(s.oo[me], order.side, t.base, t.quote, t.fees, ra)
           good == Sound(acc)
           a == [s EXCEPT !.ok = @ /\ ra >= 0, !.mkt.fees_accrued = @ + ra]
           b == [a EXCEPT !.ok = @ /\ good, !.oo[me] = acc, !.mkt.referrer_rebates_accrued = @ + ra]
<1>1. r \in {s, a, b}
  BY DEF RecordTaken
<1> HIDE DEF good, acc
<1>2. ASSUME NEW k, NEW x, NEW y, IsState(x), x.ok = FALSE, y = [x EXCEPT !.ok = @ /\ k] 
      PROVE  IsState(y) /\ y.ok = FALSE
  <2>1. y = OkSet(x, x.ok /\ k)
    BY <1>2 DEF OkSet
  <2> DEFINE v == x.ok /\ k
  <2>2. v = FALSE
    BY <1>2
  <2>3. y = OkSet(x, v)
    BY <2>1
  <2> HIDE DEF v
  <2>4. IsState(y) /\ y.ok = v
    <3>1. IsState(x) /\ y = OkSet(x, v)
      BY <1>2, <2>3
    <3> QED BY ONLY <3>1, OkSetIs
  <2> QED BY <2>2, <2>4
<1> DEFINE a1 == [s EXCEPT !.ok = @ /\ ra >= 0]
           ma == [a1.mkt EXCEPT !.fees_accrued = @ + ra]
<1>3. a = MarketSet(a1, ma)
  BY DEF MarketSet, IsState
<1>4. IsState(a1) /\ a1.ok = FALSE
  <2> DEFINE k == ra >= 0
  <2>1. a1 = [s EXCEPT !.ok = @ /\ k]
    OBVIOUS
  <2> HIDE DEF k, a1
  <2> QED BY <1>2, <2>1, Zenon
<1> HIDE DEF a1, ma
<1>5. IsState(a) /\ a.ok = FALSE
  <2> HIDE DEF a
  <2> QED BY <1>3, <1>4, MarketSetIs
<1> HIDE DEF a
<1> DEFINE b1 == [a EXCEPT !.ok = @ /\ good]
           b2 == AccountSet(b1, me, acc)
           mb == [b2.mkt EXCEPT !.referrer_rebates_accrued = @ + ra]
<1>6. IsState(b1) /\ b1.ok = FALSE
  <2> HIDE DEF b1
  <2>1. b1 = [a EXCEPT !.ok = @ /\ good]
    BY DEF b1
  <2> QED BY <1>2, <1>5, <2>1, Zenon
<1>7. b = MarketSet(b2, mb)
  BY <1>5 DEF MarketSet, AccountSet, IsState
<1> HIDE DEF b1
<1>8. IsState(b2) /\ b2.ok = FALSE
  <2>1. IsState(b1) /\ b2 = AccountSet(b1, me, acc)
    BY <1>6
  <2> HIDE DEF b2
  <2>2. /\ IsState(b2) /\ b2.ok = b1.ok /\ b2.mkt = b1.mkt /\ b2.oo = [b1.oo EXCEPT ![me] = acc]
        /\ b2.book = b1.book /\ b2.heap = b1.heap
    BY ONLY <2>1, AccountSetIs
  <2> QED BY <1>6, <2>2
<1> HIDE DEF b2, mb
<1>9. IsState(b) /\ b.ok = FALSE
  <2> HIDE DEF b
  <2> QED BY <1>7, <1>8, MarketSetIs
<1> HIDE DEF b
<1> QED BY <1>1, <1>5, <1>9

\* What new_order is given.
OrderGiven(s, order, px, time, me, base, quote) ==
  /\ SeqOk /\ IsState(s) /\ s.ok \in BOOLEAN /\ base \in Int /\ quote \in Int
  /\ OrderOk(order) /\ px \in Int /\ time \in Int /\ me \in Traders
  /\ me \in Accounts \/ post_target(order) = NoTree
  /\ s.ok => /\ Good(s, s.heap, base, quote, NoLock, Totals(s.mkt))
             /\ me \in Accounts => s.oo[me].open

\* What new_order leaves.
Ordered(o, s, side, me, base, quote) ==
  /\ IsState(o.s) /\ o.s.ok \in BOOLEAN /\ NumbersOk(o)
  /\ o.s.ok =>
       /\ s.ok
       /\ Good(o.s, o.s.heap, base + PlacedBase(side, o, me), quote + PlacedQuote(side, o, me),
               NoLock, Totals(o.s.mkt))
       /\ o.s.mkt.base_deposit_total = s.mkt.base_deposit_total
       /\ o.s.mkt.quote_deposit_total = s.mkt.quote_deposit_total
       /\ o.s.mkt.seq_num = s.mkt.seq_num + 1

\* A refused order promises nothing.
LEMMA RefusedOrdered ==
  ASSUME NEW s, NEW r, IsState(r), NEW side, NEW me, NEW base, NEW quote, NEW o, o = Refused(r)
  PROVE  Ordered(o, s, side, me, base, quote)
<1>1. /\ IsState(o.s) /\ o.s.ok = FALSE
      /\ o.base = 0 /\ o.quote = 0 /\ o.posted_base = 0 /\ o.posted_quote = 0
      /\ o.taker_fees = 0 /\ o.maker_fees = 0 /\ o.referrer_amount = 0
  BY RefusedFields, Zenon
<1>2. NumbersOk(o)
  BY <1>1 DEF NumbersOk
<1> QED BY <1>1, <1>2, Zenon DEF Ordered

\* Nested steps of new_order at a price.
Recorded(s, order, price_lots, px, time, limit, me, rem) ==
  LET m == Match(s, order, price_lots, px, time, limit, me, rem)
  IN  RecordTaken(m.s, order, Taken(order, m), me)
\* An order matched, recorded and posted at one price.
PlacedAt(s, order, price_lots, px, time, limit, me, rem) ==
  LET m == Match(s, order, price_lots, px, time, limit, me, rem)
  IN  TakeAndPost(m, Taken(order, m), Recorded(s, order, price_lots, px, time, limit, me, rem),
                  order, price_lots, px, time, me, rem)

\* When an order is refused, and what it does otherwise.
LEMMA NewOrderOutcome ==
  ASSUME NEW s0, NEW order, NEW px, NEW time, NEW limit, NEW me, NEW rem,
         NEW s, s = gen_order_id(s0), NEW price_lots, price_lots = order_price(order, s.book, px, time),
         NEW o, o = new_order(s0, order, px, time, limit, me, rem)
  PROVE  o = IF ~s.ok \/ (order.pegged /\ px = NoPrice) \/ price_lots \notin 1 .. MaxPrice
             THEN Refused(s)
             ELSE PlacedAt(s, order, price_lots, px, time, limit, me, rem)
<1> DEFINE Inner(x) ==
             With(Match(s, order, x, px, time, limit, me, rem),
                  LAMBDA m : With(Taken(order, m),
                  LAMBDA t : With(RecordTaken(m.s, order, t, me),
                  LAMBDA taken :
                    TakeAndPost(m, t, taken, order, x, px, time, me, rem))))
           AtPrice(x) == IF x \notin 1 .. MaxPrice THEN Refused(s) ELSE Inner(x)
           Finally(m, t, x) == With(RecordTaken(m.s, order, t, me),
                  LAMBDA taken :
                    TakeAndPost(m, t, taken, order, x, px, time, me, rem))
           Then(m, x) == With(Taken(order, m), LAMBDA t : Finally(m, t, x))
<1>1. \A m, t, x : Finally(m, t, x)
                    = TakeAndPost(m, t, RecordTaken(m.s, order, t, me), order, x, px, time, me, rem)
  BY DEF With
<1>2. \A m, x : Then(m, x) = Finally(m, Taken(order, m), x)
  <2> HIDE DEF Finally
  <2> QED BY DEF With
<1>3. \A x : Inner(x) = With(Match(s, order, x, px, time, limit, me, rem), LAMBDA m : Then(m, x))
  OBVIOUS
<1>4. \A x : Inner(x) = Then(Match(s, order, x, px, time, limit, me, rem), x)
  <2> HIDE DEF Then, Inner
  <2> QED BY <1>3 DEF With
<1>5. \A x : Inner(x) = PlacedAt(s, order, x, px, time, limit, me, rem)
  <2> HIDE DEF Then, Inner, Finally
  <2> QED BY <1>1, <1>2, <1>4 DEF PlacedAt, Recorded
<1>6. o = IF ~s.ok \/ (order.pegged /\ px = NoPrice) THEN Refused(s)
          ELSE With(order_price(order, s.book, px, time), AtPrice)
  BY DEF new_order
<1>7. With(price_lots, AtPrice) = AtPrice(price_lots)
  <2> HIDE DEF AtPrice
  <2> QED BY DEF With
<1>8. o = IF ~s.ok \/ (order.pegged /\ px = NoPrice) THEN Refused(s) ELSE AtPrice(price_lots)
  <2> HIDE DEF AtPrice
  <2> QED BY <1>6, <1>7
<1> HIDE DEF Inner
<1> QED BY <1>5, <1>8

\* An order is placed at its price unless it is refused.
LEMMA NewOrderIs ==
  ASSUME NEW s0, NEW order, NEW px, NEW time, NEW limit, NEW me, NEW rem,
         NEW s, s = gen_order_id(s0), NEW price_lots, price_lots = order_price(order, s.book, px, time),
         NEW o, o = new_order(s0, order, px, time, limit, me, rem)
  PROVE  \/ o = Refused(s)
         \/ /\ s.ok /\ price_lots \in 1 .. MaxPrice
            /\ o = PlacedAt(s, order, price_lots, px, time, limit, me, rem)
<1> DEFINE placed == PlacedAt(s, order, price_lots, px, time, limit, me, rem)
<1>1. o = IF ~s.ok \/ (order.pegged /\ px = NoPrice) \/ price_lots \notin 1 .. MaxPrice
          THEN Refused(s) ELSE placed
  BY NewOrderOutcome
<1> HIDE DEF placed
<1>2. \/ o = Refused(s)
      \/ s.ok /\ price_lots \in 1 .. MaxPrice /\ o = placed
  BY <1>1
<1> QED BY <1>2 DEF placed

\* The matching of an order, and the recording of what it took.
MatchGiven(s, order, base, quote, w, px, me) ==
  /\ SeqOk /\ OrderOk(order) /\ base \in Int /\ quote \in Int
  /\ IsState(s) /\ s.ok = TRUE /\ Good(s, s.heap, base, quote, NoLock, w)
  /\ px \in Int /\ me \in Traders
  /\ me \in Accounts => s.oo[me].open
\* Matching and recording leave a good state in which the taker part remains to be paid.
LEMMA RecordedOk ==
  ASSUME NEW s, NEW order, NEW base, NEW quote, NEW w, NEW px, NEW me,
         MatchGiven(s, order, base, quote, w, px, me),
         NEW time, NEW limit, NEW rem, NEW price_lots,
         NEW m, m = Match(s, order, price_lots, px, time, limit, me, rem),
         NEW t, t = Taken(order, m),
         NEW taken, taken = RecordTaken(m.s, order, t, me)
  PROVE  /\ TakenOk(t) /\ m.base \in Nat /\ m.post \in {NoTree, post_target(order)}
         /\ IsState(taken) /\ taken.ok \in BOOLEAN
         /\ taken.ok => Good(taken, taken.heap, base + TakenBase(order.side, t, me),
                             quote + TakenQuote(order.side, t, me), NoLock, w)
<1> DEFINE side == order.side
           c == [base |-> base, quote |-> quote, base_lots |-> order.max_base_lots,
                 quote_lots |-> order_max_quote_lots(order), lock |-> NoLock, w |-> w]
<1>0. /\ SeqOk /\ OrderOk(order) /\ base \in Int /\ quote \in Int
      /\ IsState(s) /\ s.ok = TRUE /\ Good(s, s.heap, base, quote, NoLock, w)
      /\ px \in Int /\ me \in Traders
      /\ me \in Accounts => s.oo[me].open
  BY DEF MatchGiven
<1> USE <1>0
<1>1. side \in Sides /\ order.max_base_lots \in Nat /\ order_max_quote_lots(order) \in Nat
  BY BudgetFacts DEF OrderOk
<1>2. /\ c.base = base /\ c.quote = quote /\ c.base_lots = order.max_base_lots
      /\ c.quote_lots = order_max_quote_lots(order) /\ c.lock = NoLock /\ c.w = w
  OBVIOUS
<1> HIDE DEF c
<1>3. ContextOk(c)
  BY <1>1, <1>2 DEF ContextOk
<1>4. LoopOk(order, c, {}, m)
  <2>1. Good(s, s.heap, c.base, c.quote, c.lock, c.w)
    BY <1>2
  <2> DEFINE k == Match(s, order, price_lots, px, time, limit, me, rem)
  <2>2. LoopOk(order, c, {}, k)
    BY <1>1, <1>2, <1>3, <2>1, MatchOk
  <2> QED BY <2>2
<1>5. /\ IsState(m.s) /\ m.s.ok \in BOOLEAN /\ CountsOk(order, c, m)
      /\ m.post \in {NoTree, post_target(order)}
      /\ m.s.ok => Good(m.s, m.s.heap, BaseOwed(order, c, m), QuoteOwed(order, c, m), NoLock, w)
  BY <1>2, <1>4 DEF LoopOk
<1>6. /\ TakenOk(t)
      /\ BaseOwed(order, c, m) = base + DueBase(side, t)
      /\ QuoteOwed(order, c, m) = quote + DueQuote(side, t)
  <2>1. order.side \in Sides /\ order.max_base_lots \in Nat /\ ContextOk(c)
        /\ c.base_lots = order.max_base_lots /\ c.quote_lots = order_max_quote_lots(order)
        /\ CountsOk(order, c, m) /\ t = Taken(order, m)
    BY <1>1, <1>2, <1>3, <1>5
  <2>2. /\ TakenOk(t)
        /\ BaseOwed(order, c, m) = c.base + DueBase(order.side, t)
        /\ QuoteOwed(order, c, m) = c.quote + DueQuote(order.side, t)
    BY ONLY <2>1, TakenFacts
  <2> QED BY <1>2, <2>2
<1>7. m.base \in Nat
  BY <1>5 DEF CountsOk
<1>8. ASSUME m.s.ok = FALSE
      PROVE  IsState(taken) /\ taken.ok = FALSE
  BY <1>5, <1>8, RecordFails, Zenon
<1>9. ASSUME m.s.ok
      PROVE  /\ IsState(taken) /\ taken.ok \in BOOLEAN
             /\ taken.ok => Good(taken, taken.heap, base + TakenBase(side, t, me),
                                 quote + TakenQuote(side, t, me), NoLock, w)
  <2> DEFINE s1 == m.s
             r == RecordTaken(s1, order, t, me)
  <2>1. /\ IsState(s1) /\ s1.ok = TRUE
        /\ Good(s1, s1.heap, base + DueBase(side, t), quote + DueQuote(side, t), NoLock, w)
    BY <1>5, <1>6, <1>9
  <2>2. r = taken
    OBVIOUS
  <2> HIDE DEF s1
  <2>3. ASSUME me \in Accounts PROVE s1.oo[me].open
    BY <2>1, <2>3 DEF Good, Frame
  <2>4. /\ SeqOk /\ IsState(s1) /\ s1.ok = TRUE /\ side \in Sides /\ order.side = side
        /\ TakenOk(t) /\ base \in Int /\ quote \in Int
        /\ Good(s1, s1.heap, base + DueBase(side, t), quote + DueQuote(side, t), NoLock, w)
        /\ me \in Traders /\ (me \in Accounts => s1.oo[me].open)
    BY <1>1, <1>6, <2>1, <2>3
  <2>5. /\ Leads(s1, r, r.heap, base + TakenBase(side, t, me), quote + TakenQuote(side, t, me),
                 NoLock, w)
        /\ r.heap = s1.heap
    <3> HIDE DEF side
    <3>1. TakeGiven(s1, side, order, t, base, quote, NoLock, w, me)
      BY ONLY <2>4 DEF TakeGiven
    <3> QED BY ONLY <3>1, TakeRecorded
  <2> HIDE DEF r
  <2> QED BY <2>2, <2>5, Zenon DEF Leads
<1> QED BY <1>5, <1>6, <1>7, <1>8, <1>9

\* new_order: what the order owes is accounted for.
LEMMA NewOrderOk ==
  ASSUME NEW s0, NEW order, NEW px, NEW time, NEW me, NEW base, NEW quote,
         OrderGiven(s0, order, px, time, me, base, quote), NEW limit, NEW rem,
         NEW o, o = new_order(s0, order, px, time, limit, me, rem)
  PROVE  Ordered(o, s0, order.side, me, base, quote)
<1> DEFINE s == gen_order_id(s0)
           price_lots == order_price(order, s.book, px, time)
           Goal == Ordered(o, s0, order.side, me, base, quote)
<1>1. /\ SeqOk /\ IsState(s0) /\ s0.ok \in BOOLEAN /\ base \in Int /\ quote \in Int
      /\ OrderOk(order) /\ px \in Int /\ time \in Int /\ me \in Traders
      /\ me \in Accounts \/ post_target(order) = NoTree
      /\ s0.ok => /\ Good(s0, s0.heap, base, quote, NoLock, Totals(s0.mkt))
                  /\ me \in Accounts => s0.oo[me].open
  BY DEF OrderGiven
<1>2. s = MarketSet(s0, NextSeq(s0.mkt))
  BY DEF gen_order_id, MarketSet, NextSeq
<1>3. s = gen_order_id(s0) /\ price_lots = order_price(order, s.book, px, time)
  OBVIOUS
<1> HIDE DEF s, price_lots
<1>4. IsState(s) /\ s.ok = s0.ok
  <2> DEFINE k == NextSeq(s0.mkt)
  <2>1. IsState(s0) /\ s = MarketSet(s0, k)
    BY <1>1, <1>2
  <2> HIDE DEF k
  <2>2. /\ IsState(s) /\ s.ok = s0.ok /\ s.mkt = k /\ s.oo = s0.oo
        /\ s.book = s0.book /\ s.heap = s0.heap
    BY ONLY <2>1, MarketSetIs
  <2> QED BY <2>2
<1>5. \/ o = Refused(s)
      \/ s.ok /\ price_lots \in 1 .. MaxPrice /\ o = PlacedAt(s, order, price_lots, px, time, limit, me, rem)
  BY <1>3, NewOrderIs
<1>6. ASSUME o = Refused(s) PROVE Goal
  BY <1>4, <1>6, RefusedOrdered
<1>7. ASSUME s.ok, price_lots \in 1 .. MaxPrice, o = PlacedAt(s, order, price_lots, px, time, limit, me, rem)
      PROVE  Goal
  <2> DEFINE w == Numbered(Totals(s0.mkt))
             m == Match(s, order, price_lots, px, time, limit, me, rem)
             t == Taken(order, m)
             taken == RecordTaken(m.s, order, t, me)
             side == order.side
             id == taken.mkt.seq_num
  <2>1. s0.ok
    BY <1>4, <1>7
  <2>2. /\ IsState(s) /\ s.ok = s0.ok /\ s.oo = s0.oo /\ s.book = s0.book /\ s.heap = s0.heap
        /\ s.mkt = NextSeq(s0.mkt)
        /\ Good(s, s.heap, base, quote, NoLock, w) /\ WOk(w, s.mkt.seq_num)
        /\ s.mkt.seq_num = s0.mkt.seq_num + 1 /\ s.mkt.seq_num \in Nat
        /\ w.base_total = s0.mkt.base_deposit_total
        /\ w.quote_total = s0.mkt.quote_deposit_total
    <3>1. /\ SeqOk /\ IsState(s0) /\ s0.ok \in BOOLEAN
          /\ Good(s0, s0.heap, base, quote, NoLock, Totals(s0.mkt)) /\ s = gen_order_id(s0)
      BY <1>1, <1>3, <2>1
    <3> QED BY ONLY <3>1, GenOrderId
  <2> HIDE DEF w
  <2>3. price_lots \in Nat \ {0} /\ price_lots <= MaxPrice
    <3>1. Sane(s, s.heap, base, quote, NoLock, w)
      BY <2>2 DEF Good
    <3>2. order.side \in Sides /\ order.price \in Int /\ invert_side(order.side) \in Sides
      BY <1>1 DEF OrderOk, Sides, invert_side
    <3>3. Keyed(s.book[invert_side(order.side)].leaves)
      BY <3>1, <3>2, SideKeyed
    <3>4. price_lots \in Int
      BY <1>1, <1>3, <3>2, <3>3, OrderPriceFacts
    <3> QED BY <1>7, <3>4
  <2>4. s.ok = TRUE /\ (me \in Accounts => s.oo[me].open)
    BY <1>1, <1>4, <1>7, <2>1, <2>2
  <2>5. o = TakeAndPost(m, t, taken, order, price_lots, px, time, me, rem)
    BY <1>7 DEF PlacedAt, Recorded
  <2>6. m = Match(s, order, price_lots, px, time, limit, me, rem) /\ t = Taken(order, m)
        /\ taken = RecordTaken(m.s, order, t, me)
    OBVIOUS
  <2> HIDE DEF m, t, taken, id
  <2>7. /\ TakenOk(t) /\ m.base \in Nat /\ m.post \in {NoTree, post_target(order)}
        /\ IsState(taken) /\ taken.ok \in BOOLEAN
        /\ taken.ok => Good(taken, taken.heap, base + TakenBase(order.side, t, me),
                            quote + TakenQuote(order.side, t, me), NoLock, w)
    <3>1. MatchGiven(s, order, base, quote, w, px, me)
      BY <1>1, <1>4, <2>2, <2>4 DEF MatchGiven
    <3>2. /\ m = Match(s, order, price_lots, px, time, limit, me, rem)
          /\ t = Taken(order, m) /\ taken = RecordTaken(m.s, order, t, me)
      BY <2>6
    <3> QED BY ONLY <3>1, <3>2, RecordedOk
  <2>8. ASSUME taken.ok
        PROVE  WOk(w, taken.mkt.seq_num) /\ taken.mkt.seq_num = s.mkt.seq_num
               /\ (me \in Accounts => taken.oo[me].open)
    <3> DEFINE b == base + TakenBase(order.side, t, me)
               q == quote + TakenQuote(order.side, t, me)
    <3>1. Sane(taken, taken.heap, b, q, NoLock, w) /\ Frame(taken, w)
      BY <2>7, <2>8 DEF Good
    <3> HIDE DEF b, q
    <3>2. TotalsOk(taken.mkt, w)
      BY <3>1, SaneParts
    <3>3. taken.mkt.seq_num = w.seq_num
      BY <3>2 DEF TotalsOk
    <3>4. w.seq_num = s.mkt.seq_num
      BY <2>2 DEF WOk
    <3>5. ASSUME me \in Accounts PROVE taken.oo[me].open
      <4>1. s.oo[me].open
        BY <2>4, <3>5
      <4>2. Frame(s, w)
        BY <2>2 DEF Good
      <4> QED BY <3>1, <3>5, <4>1, <4>2 DEF Frame
    <3> QED BY <2>2, <3>3, <3>4, <3>5
  <2>9. EndGiven(m, t, taken, order, price_lots, px, time, base, quote, w, me)
    BY <1>1, <2>3, <2>7, <2>8 DEF EndGiven
  <2>10. EndsWell(o, taken, order.side, me, base, quote, w)
    BY ONLY <2>5, <2>9, TakeAndPostOk
  <2>11. IsState(o.s) /\ o.s.ok \in BOOLEAN /\ NumbersOk(o)
    BY <2>10 DEF EndsWell
  <2>12. ASSUME o.s.ok
         PROVE  /\ Good(o.s, o.s.heap, base + PlacedBase(side, o, me), quote + PlacedQuote(side, o, me),
                        NoLock, Totals(o.s.mkt))
                /\ o.s.mkt.base_deposit_total = s0.mkt.base_deposit_total
                /\ o.s.mkt.quote_deposit_total = s0.mkt.quote_deposit_total
                /\ o.s.mkt.seq_num = s0.mkt.seq_num + 1
    <3> DEFINE b == base + PlacedBase(side, o, me)
               q == quote + PlacedQuote(side, o, me)
               n == s.mkt.seq_num
               v == o.s
    <3>1. taken.ok /\ Good(v, v.heap, b, q, NoLock, Ids(w, taken.mkt.seq_num))
      BY <2>10, <2>12 DEF EndsWell
    <3>2. Good(v, v.heap, b, q, NoLock, Ids(w, n)) /\ WOk(w, n)
      BY <2>2, <2>8, <3>1
    <3> HIDE DEF b, q, n, v
    <3>3. /\ Ids(w, n) = Totals(v.mkt)
          /\ v.mkt.base_deposit_total = w.base_total
          /\ v.mkt.quote_deposit_total = w.quote_total
          /\ v.mkt.seq_num = n
      BY ONLY <3>2, IdsAreTotals
    <3>4. Good(v, v.heap, b, q, NoLock, Totals(v.mkt))
      BY <3>2, <3>3
    <3> QED BY <2>2, <3>3, <3>4 DEF b, q, n, v
  <2> QED BY <2>1, <2>11, <2>12 DEF Ordered
<1> HIDE DEF Goal
<1>8. Goal
  BY <1>5, <1>6, <1>7
<1> QED BY <1>8 DEF Goal

-----------------------------------------------------------------------------
(* From the record an instruction works on to the state it leaves. *)

\* An instruction whose state is s and who has to pay base and quote.
Going(s, base, quote) ==
  /\ SeqOk /\ IsState(s) /\ s.ok \in BOOLEAN /\ base \in Int /\ quote \in Int
  /\ s.ok => Good(s, s.heap, base, quote, NoLock, Totals(s.mkt))

\* What every instruction starts from.
LEMMA LoadedIs ==
  /\ IsState(Loaded) /\ Loaded.ok = TRUE /\ Loaded.mkt = mkt /\ Loaded.oo = oo
  /\ Loaded.book = book /\ Loaded.heap = heap
BY DEF Loaded, IsState

\* Every instruction starts from a good state with nothing to be paid.
LEMMA LoadedGoing ==
  ASSUME IInv
  PROVE  Going(Loaded, 0, 0)
<1>1. Sane(Loaded, heap, 0, 0, NoLock, Totals(mkt))
  BY DEF IInv
<1>2. /\ mkt \in MarketValues /\ BookOk(book, OrdersOf(oo), Totals(mkt).ids)
  BY <1>1, LoadedIs, SaneParts
<1>3. mkt.seq_num \in Nat /\ Totals(mkt).ids = mkt.seq_num
  BY <1>2 DEF MarketValues, Totals
<1>4. \A side \in Sides : book[side].leaves \subseteq LeafValues
  BY <1>2 DEF BookOk, SideOk
<1>5. OnlyShrunk(book)
  <2>1. \A leaf \in LeafValues : leaf = [leaf EXCEPT !.quantity = leaf.quantity] /\ leaf.quantity <= leaf.quantity
    BY DEF LeafValues
  <2> QED BY <1>4, <2>1 DEF OnlyShrunk
<1>6. Frame(Loaded, Totals(mkt))
  BY <1>3, <1>4, <1>5, LoadedIs DEF Frame
<1>7. Loaded.ok => Good(Loaded, Loaded.heap, 0, 0, NoLock, Totals(Loaded.mkt))
  BY <1>1, <1>6, LoadedIs DEF Good
<1>8. SeqOk /\ IsState(Loaded) /\ Loaded.ok \in BOOLEAN /\ 0 \in Int
  <2>1. \A v : v = TRUE => v \in BOOLEAN
    OBVIOUS
  <2>2. Loaded.ok \in BOOLEAN
    BY <2>1, LoadedIs
  <2> QED BY <1>3, <2>2, LoadedIs DEF SeqOk
<1> QED BY ONLY <1>7, <1>8 DEF Going

\* What a step does to the book: OrdersOnlyShrink.
Shrinks ==
  \A side \in Sides : \A leaf \in book'[side].leaves :
    \/ leaf.id > mkt.seq_num
    \/ \E old \in book[side].leaves :
         leaf.quantity <= old.quantity
         /\ leaf = [old EXCEPT !.quantity = leaf.quantity]

\* Sanity depends on the four fields other than the flag.
LEMMA SaneOfRecord ==
  ASSUME NEW s, NEW r, NEW E, NEW base, NEW quote, NEW lock, NEW w, Sane(s, E, base, quote, lock, w),
         r.mkt = s.mkt, r.oo = s.oo, r.book = s.book, r.heap = s.heap
  PROVE  Sane(r, E, base, quote, lock, w)
BY DEF Sane

\* A committed sane state with nothing left to pay makes the next state sane.
LEMMA CommitSane ==
  ASSUME NEW r, Commit(r), Sane(r, r.heap, 0, 0, NoLock, Totals(r.mkt))
  PROVE  Sane(Loaded, heap, 0, 0, NoLock, Totals(mkt))' /\ SoundMarket(mkt)'
<1>1. mkt' = r.mkt /\ oo' = r.oo /\ book' = r.book /\ heap' = r.heap
  BY DEF Commit
<1> DEFINE t == [ok |-> TRUE, mkt |-> mkt', oo |-> oo', book |-> book', heap |-> heap']
<1>2. Sane(t, heap', 0, 0, NoLock, Totals(mkt'))
  <2>1. t.mkt = r.mkt /\ t.oo = r.oo /\ t.book = r.book /\ t.heap = r.heap
    BY <1>1
  <2> HIDE DEF t
  <2> QED BY <1>1, <2>1, SaneOfRecord
<1>3. SoundMarket(mkt)'
  BY <1>1 DEF Commit, SoundMarket
<1>4. Loaded' = t
  BY DEF Loaded
<1> HIDE DEF t
<1>5. Sane(Loaded', heap', 0, 0, NoLock, Totals(mkt'))
  BY <1>2, <1>4
<1> QED BY <1>3, <1>5

\* The market's invariant after an instruction that commits r and moves tokens
\* as the market's totals say.
LEMMA CommitKeeps ==
  ASSUME IInv, NEW r, Commit(r), Sane(r, r.heap, 0, 0, NoLock, Totals(r.mkt)),
         r.mkt.seq_num <= MaxSeqNum, r.mkt.closed = FALSE, KeepWorld,
         wallet' \in [Traders -> TokenAmounts],
         vault' = [base |-> r.mkt.base_deposit_total, quote |-> r.mkt.quote_deposit_total]
  PROVE  IInv'
<1>1. mkt' = r.mkt /\ oo' = r.oo /\ book' = r.book /\ heap' = r.heap
  BY DEF Commit
<1>2. Sane(Loaded, heap, 0, 0, NoLock, Totals(mkt))' /\ SoundMarket(mkt)'
  BY CommitSane
<1>3. (now \in 0 .. MaxTime /\ oracle \in OraclePrices)'
  BY DEF IInv, KeepWorld
<1>4. (vault = [base |-> mkt.base_deposit_total, quote |-> mkt.quote_deposit_total])'
  BY <1>1
<1>5. (mkt.seq_num <= MaxSeqNum /\ ~mkt.closed)'
  BY <1>1
<1>6. (wallet \in [Traders -> TokenAmounts])'
  BY DEF Traders
<1> QED BY <1>2, <1>3, <1>4, <1>5, <1>6 DEF IInv

\* Tokens moved between a wallet and the vaults.
LEMMA TransferFacts ==
  ASSUME IInv, NEW t \in Traders, NEW base \in Int, NEW quote \in Int, NEW to_others \in Int,
         Transfer(t, base, quote, to_others)
  PROVE  /\ wallet' \in [Traders -> TokenAmounts]
         /\ vault' = [base |-> mkt.base_deposit_total + base,
                      quote |-> mkt.quote_deposit_total + quote - to_others]
<1>1. /\ wallet \in [Traders -> TokenAmounts]
      /\ vault = [base |-> mkt.base_deposit_total, quote |-> mkt.quote_deposit_total]
  BY DEF IInv
<1> DEFINE old == wallet[t]
           new == [base |-> old.base - base, quote |-> old.quote - quote]
<1>2. wallet' = [wallet EXCEPT ![t] = new]
  BY DEF Transfer
<1>3. old \in TokenAmounts /\ old.base >= base /\ old.quote >= quote
  BY <1>1 DEF Transfer
<1>4. new \in TokenAmounts
  <2> HIDE DEF old
  <2> QED BY <1>3 DEF TokenAmounts
<1>5. wallet' \in [Traders -> TokenAmounts]
  <2> HIDE DEF new
  <2> QED BY <1>1, <1>2, <1>4
<1>6. vault' = [base |-> vault.base + base, quote |-> vault.quote + quote - to_others]
  BY DEF Transfer
<1> QED BY <1>1, <1>5, <1>6

\* What an instruction that only works on r does to the market.
LEMMA CommitShrinks ==
  ASSUME NEW r, Commit(r), Frame(r, Totals(r.mkt))
  PROVE  Shrinks
<1>1. book' = r.book /\ OnlyShrunk(r.book)
  BY DEF Commit, Frame
<1> QED BY <1>1 DEF Shrinks, OnlyShrunk

\* An account's amounts change to b, q, f and k and the market's totals to those
\* of m, so that what is owed stays in balance.
Moved(s, base, quote, a, acc, b, q, f, k, m, base2, quote2, r) ==
  /\ SeqOk /\ Good(s, s.heap, base, quote, NoLock, Totals(s.mkt))
  /\ a \in Accounts /\ s.oo[a].open
  /\ MoneyIs(acc, s.oo[a], b, q, f, k)
  /\ b \in Nat /\ q \in Nat /\ f \in Nat /\ k \in Nat
  /\ f >= FeesToCover(s, s.heap, a)
  /\ m \in MarketValues /\ m.seq_num = s.mkt.seq_num
  /\ m.time_expiry = s.mkt.time_expiry /\ m.closed = s.mkt.closed
  /\ base2 \in Int /\ quote2 \in Int
  /\ m.base_deposit_total + base2 - (b - s.oo[a].base_free_native)
       = s.mkt.base_deposit_total + base
  /\ m.quote_deposit_total + quote2 - m.fees_available
       - ((q - s.oo[a].quote_free_native) + (f - s.oo[a].locked_maker_fees)
          + (k - s.oo[a].referrer_rebates_available))
       = s.mkt.quote_deposit_total + quote - s.mkt.fees_available
  /\ m.referrer_rebates_accrued - (k - s.oo[a].referrer_rebates_available)
       = s.mkt.referrer_rebates_accrued
  /\ r.oo = [s.oo EXCEPT ![a] = acc] /\ r.mkt = m /\ r.book = s.book /\ r.heap = s.heap

\* Then the market's invariant is kept.
LEMMA MoneyMoved ==
  ASSUME NEW s, NEW base, NEW quote, NEW a, NEW acc, NEW b, NEW q, NEW f, NEW k, NEW m,
         NEW base2, NEW quote2, NEW r, Moved(s, base, quote, a, acc, b, q, f, k, m, base2, quote2, r)
  PROVE  Good(r, r.heap, base2, quote2, NoLock, Totals(r.mkt))
<1>0. /\ SeqOk /\ Good(s, s.heap, base, quote, NoLock, Totals(s.mkt))
      /\ a \in Accounts /\ s.oo[a].open
      /\ MoneyIs(acc, s.oo[a], b, q, f, k)
      /\ b \in Nat /\ q \in Nat /\ f \in Nat /\ k \in Nat
      /\ f >= FeesToCover(s, s.heap, a)
      /\ m \in MarketValues /\ m.seq_num = s.mkt.seq_num
      /\ m.time_expiry = s.mkt.time_expiry /\ m.closed = s.mkt.closed
      /\ base2 \in Int /\ quote2 \in Int
      /\ m.base_deposit_total + base2 - (b - s.oo[a].base_free_native)
           = s.mkt.base_deposit_total + base
      /\ m.quote_deposit_total + quote2 - m.fees_available
           - ((q - s.oo[a].quote_free_native) + (f - s.oo[a].locked_maker_fees)
              + (k - s.oo[a].referrer_rebates_available))
           = s.mkt.quote_deposit_total + quote - s.mkt.fees_available
      /\ m.referrer_rebates_accrued - (k - s.oo[a].referrer_rebates_available)
           = s.mkt.referrer_rebates_accrued
      /\ r.oo = [s.oo EXCEPT ![a] = acc] /\ r.mkt = m /\ r.book = s.book /\ r.heap = s.heap
  BY DEF Moved
<1>1. Sane(s, s.heap, base, quote, NoLock, Totals(s.mkt)) /\ Frame(s, Totals(s.mkt))
  BY <1>0 DEF Good
<1>2. /\ s.mkt \in MarketValues /\ s.oo \in [Accounts -> AccountValues] /\ HeapOk(s.heap)
      /\ base \in Int /\ quote \in Int
  BY <1>1, SaneParts
<1> DEFINE old == s.oo[a]
           ob == OwedTo("base", old)
           oq == OwedTo("quote", old)
           ok == OwedTo("rebates", old)
<1>3. old \in AccountValues /\ ob \in Int /\ oq \in Int /\ ok \in Int
  <2>1. old \in AccountValues
    BY <1>0, <1>2
  <2> QED BY <2>1, OwedToInt DEF Units
<1>4. /\ acc \in AccountValues /\ SameOrders(acc, old)
      /\ acc.base_free_native = b /\ acc.quote_free_native = q
      /\ acc.locked_maker_fees = f /\ acc.referrer_rebates_available = k
      /\ OwedTo("base", acc) = ob + (b - old.base_free_native)
      /\ OwedTo("quote", acc) = oq + (q - old.quote_free_native)
                                + (f - old.locked_maker_fees)
                                + (k - old.referrer_rebates_available)
      /\ OwedTo("rebates", acc) = ok + (k - old.referrer_rebates_available)
  BY <1>0 DEF MoneyIs
<1>5. Sound(acc)
  BY <1>0, <1>4 DEF Sound
<1>6. NoLock \in [Accounts -> Nat] /\ NoLock[a] = 0 /\ \A x \in Accounts : x # a => NoLock[x] = NoLock[x]
  BY <1>0 DEF NoLock
<1>7. Totals(m).ids = Totals(s.mkt).ids /\ TotalsOk(m, Totals(m)) /\ Totals(s.mkt).ids = s.mkt.seq_num
  <2>1. m.seq_num \in Nat
    BY <1>0 DEF MarketValues
  <2> QED BY <1>0, <2>1 DEF Totals, TotalsOk
<1>8. /\ old.base_free_native \in Int /\ old.quote_free_native \in Int
      /\ old.locked_maker_fees \in Int /\ old.referrer_rebates_available \in Int
  BY <1>3 DEF AccountValues
<1>9. /\ m.base_deposit_total \in Int /\ m.quote_deposit_total \in Int /\ m.fees_available \in Int
      /\ m.referrer_rebates_accrued \in Int
      /\ s.mkt.base_deposit_total \in Int /\ s.mkt.quote_deposit_total \in Int
      /\ s.mkt.fees_available \in Int /\ s.mkt.referrer_rebates_accrued \in Int
  BY <1>0, <1>2 DEF MarketValues
<1> HIDE DEF ob, oq, ok
<1>10. /\ r.mkt.base_deposit_total + base2 - OwedTo("base", acc)
            = s.mkt.base_deposit_total + base - ob
       /\ r.mkt.quote_deposit_total + quote2 - r.mkt.fees_available - OwedTo("quote", acc)
            = s.mkt.quote_deposit_total + quote - s.mkt.fees_available - oq
       /\ r.mkt.referrer_rebates_accrued - OwedTo("rebates", acc)
            = s.mkt.referrer_rebates_accrued - ok
  <2> DEFINE mb == m.base_deposit_total
             mq == m.quote_deposit_total
             mf == m.fees_available
             mr == m.referrer_rebates_accrued
             sb == s.mkt.base_deposit_total
             sq == s.mkt.quote_deposit_total
             sf == s.mkt.fees_available
             sr == s.mkt.referrer_rebates_accrued
             b0 == old.base_free_native
             q0 == old.quote_free_native
             f0 == old.locked_maker_fees
             k0 == old.referrer_rebates_available
             nb == OwedTo("base", acc)
             nq == OwedTo("quote", acc)
             nk == OwedTo("rebates", acc)
  <2>1. /\ mb \in Int /\ mq \in Int /\ mf \in Int /\ mr \in Int
        /\ sb \in Int /\ sq \in Int /\ sf \in Int /\ sr \in Int
        /\ b0 \in Int /\ q0 \in Int /\ f0 \in Int /\ k0 \in Int
        /\ ob \in Int /\ oq \in Int /\ ok \in Int
        /\ b \in Int /\ q \in Int /\ f \in Int /\ k \in Int
        /\ base \in Int /\ quote \in Int /\ base2 \in Int /\ quote2 \in Int
    BY <1>0, <1>2, <1>3, <1>8, <1>9
  <2>2. /\ nb = ob + (b - b0)
        /\ nq = oq + (q - q0) + (f - f0) + (k - k0)
        /\ nk = ok + (k - k0)
    BY <1>4
  <2>3. /\ mb + base2 - (b - b0) = sb + base
        /\ mq + quote2 - mf - ((q - q0) + (f - f0) + (k - k0)) = sq + quote - sf
        /\ mr - (k - k0) = sr
    BY <1>0
  <2>4. r.mkt = m
    BY <1>0
  <2> HIDE DEF mb, mq, mf, mr, sb, sq, sf, sr, b0, q0, f0, k0, nb, nq, nk, old
  <2>5. mb + base2 - nb = sb + base - ob
    BY ONLY <2>1, <2>2, <2>3
  <2>6. mq + quote2 - mf - nq = sq + quote - sf - oq
    BY ONLY <2>1, <2>2, <2>3
  <2>7. mr - nk = sr - ok
    BY ONLY <2>1, <2>2, <2>3
  <2> QED BY <2>4, <2>5, <2>6, <2>7 DEF mb, mq, mf, mr, sb, sq, sf, sr, nb, nq, nk
<1>11. f - NoLock[a] >= FeesToCover(s, s.heap, a)
  <2>1. f - 0 = f
    BY <1>0
  <2> QED BY <1>0, <1>6, <2>1
<1>12. TouchedAccount(s, s.heap, base, quote, NoLock, Totals(s.mkt), a, acc, NoLock, base2, quote2,
                      Totals(m), r)
  BY <1>0, <1>1, <1>2, <1>4, <1>5, <1>6, <1>7, <1>10, <1>11 DEF TouchedAccount, ob, oq, ok
<1>13. Sane(r, s.heap, base2, quote2, NoLock, Totals(m))
  BY ONLY <1>12, AccountTouched
<1>14. Frame(r, Totals(m))
  <2>1. acc.open = s.oo[a].open
    BY <1>4 DEF SameOrders
  <2>2. \A x \in Accounts : r.oo[x].open = s.oo[x].open
    BY <1>0, <1>2, <2>1, OpenKept
  <2>3. Totals(s.mkt).ids \in Int /\ Totals(m).ids \in Int /\ Totals(m).ids >= Totals(s.mkt).ids
        /\ mkt.seq_num \in Int
    BY <1>0, <1>2, <1>7 DEF SeqOk, MarketValues
  <2> QED BY <1>0, <1>1, <2>2, <2>3, FrameSameBook, Zenon
<1> QED BY <1>0, <1>13, <1>14 DEF Good

\* The account and the market with more native tokens.
LEMMA CreditFacts ==
  ASSUME NEW old \in AccountValues, NEW base \in Int, NEW quote \in Int,
         NEW acc, acc = Credit(old, base, quote),
         NEW b, b = old.base_free_native + base, NEW q, q = old.quote_free_native + quote
  PROVE  /\ MoneyIs(acc, old, b, q, old.locked_maker_fees, old.referrer_rebates_available)
         /\ b \in Int /\ q \in Int
         /\ old.locked_maker_fees \in Int /\ old.referrer_rebates_available \in Int
<1>1. /\ old.base_free_native \in Int /\ old.quote_free_native \in Int
      /\ old.locked_maker_fees \in Int /\ old.referrer_rebates_available \in Int
      /\ old.penalty_heap_count \in Int
  BY DEF AccountValues
<1>2. b \in Int /\ q \in Int
  BY <1>1
<1>3. acc = MoneySet(old, b, q, old.locked_maker_fees, old.referrer_rebates_available,
                     old.penalty_heap_count)
  BY DEF Credit, MoneySet, AccountValues
<1>4. MoneyIs(acc, old, b, q, old.locked_maker_fees, old.referrer_rebates_available)
  BY <1>1, <1>2, <1>3, MoneySetFacts
<1> QED BY <1>1, <1>2, <1>4

\* Deposits change only the two deposit totals.
LEMMA AddDepositsFacts ==
  ASSUME NEW m \in MarketValues, NEW base \in Int, NEW quote \in Int,
         NEW k, k = AddDeposits(m, base, quote)
  PROVE  /\ k \in MarketValues /\ k.seq_num = m.seq_num
         /\ k.time_expiry = m.time_expiry /\ k.closed = m.closed
         /\ k.base_deposit_total = m.base_deposit_total + base
         /\ k.quote_deposit_total = m.quote_deposit_total + quote
         /\ k.fees_available = m.fees_available
         /\ k.referrer_rebates_accrued = m.referrer_rebates_accrued
<1>1. m.base_deposit_total \in Int /\ m.quote_deposit_total \in Int
  BY DEF MarketValues
<1> DEFINE b == m.base_deposit_total + base
           q == m.quote_deposit_total + quote
<1>2. b \in Int /\ q \in Int
  BY <1>1
<1>3. k = [m EXCEPT !.base_deposit_total = b, !.quote_deposit_total = q]
  BY DEF AddDeposits
<1> HIDE DEF b, q
<1>4. /\ k \in MarketValues /\ k.seq_num = m.seq_num
      /\ k.time_expiry = m.time_expiry /\ k.closed = m.closed
      /\ k.base_deposit_total = b /\ k.quote_deposit_total = q
      /\ k.fees_available = m.fees_available
      /\ k.referrer_rebates_accrued = m.referrer_rebates_accrued
  BY <1>2, <1>3 DEF MarketValues
<1> QED BY <1>4 DEF b, q

\* Going, with what was deposited since the instruction started, and how many
\* sequence numbers it has used at most.
Working(s, base, quote, db, dq, n) ==
  /\ Going(s, base, quote) /\ n \in Nat
  /\ mkt.base_deposit_total \in Int /\ mkt.quote_deposit_total \in Int
  /\ s.ok => /\ db \in Int /\ dq \in Int
             /\ s.mkt.base_deposit_total = mkt.base_deposit_total + db
             /\ s.mkt.quote_deposit_total = mkt.quote_deposit_total + dq
             /\ s.mkt.seq_num <= mkt.seq_num + n

\* The loaded state, for instructions that move money.
LEMMA LoadedWorking ==
  ASSUME IInv
  PROVE  Working(Loaded, 0, 0, 0, 0, 0)
<1>1. Going(Loaded, 0, 0) /\ Loaded.mkt = mkt
  BY LoadedGoing, LoadedIs
<1>2. mkt \in MarketValues
  BY LoadedIs, SaneParts DEF IInv
<1>3. /\ mkt.base_deposit_total \in Int /\ mkt.quote_deposit_total \in Int /\ mkt.seq_num \in Nat
  BY <1>2 DEF MarketValues
<1> HIDE DEF Loaded
<1>4. /\ mkt.base_deposit_total = mkt.base_deposit_total + 0
      /\ mkt.quote_deposit_total = mkt.quote_deposit_total + 0
      /\ mkt.seq_num <= mkt.seq_num + 0
  BY <1>3
<1> QED BY <1>1, <1>3, <1>4 DEF Working

\* What can be said of a record while its instruction has not failed.
LEMMA WorkingParts ==
  ASSUME NEW s, NEW base, NEW quote, NEW db, NEW dq, NEW n, Working(s, base, quote, db, dq, n)
  PROVE  /\ SeqOk /\ IsState(s) /\ s.ok \in BOOLEAN /\ base \in Int /\ quote \in Int /\ n \in Nat
         /\ s.ok =>
              /\ Good(s, s.heap, base, quote, NoLock, Totals(s.mkt))
              /\ Sane(s, s.heap, base, quote, NoLock, Totals(s.mkt))
              /\ Frame(s, Totals(s.mkt))
              /\ s.mkt \in MarketValues /\ s.oo \in [Accounts -> AccountValues] /\ HeapOk(s.heap)
              /\ \A a \in Accounts : s.oo[a].open = oo[a].open /\ Sound(s.oo[a])
              /\ s.mkt.closed = mkt.closed /\ s.mkt.time_expiry = mkt.time_expiry
<1>1. Going(s, base, quote)
  BY DEF Working
<1>2. /\ SeqOk /\ IsState(s) /\ s.ok \in BOOLEAN /\ base \in Int /\ quote \in Int /\ n \in Nat
  BY DEF Working, Going
<1>3. ASSUME s.ok
      PROVE  /\ Good(s, s.heap, base, quote, NoLock, Totals(s.mkt))
             /\ Sane(s, s.heap, base, quote, NoLock, Totals(s.mkt))
             /\ Frame(s, Totals(s.mkt))
             /\ s.mkt \in MarketValues /\ s.oo \in [Accounts -> AccountValues] /\ HeapOk(s.heap)
             /\ \A a \in Accounts : s.oo[a].open = oo[a].open /\ Sound(s.oo[a])
             /\ s.mkt.closed = mkt.closed /\ s.mkt.time_expiry = mkt.time_expiry
  <2>1. Good(s, s.heap, base, quote, NoLock, Totals(s.mkt))
    BY <1>1, <1>3 DEF Going
  <2>2. Sane(s, s.heap, base, quote, NoLock, Totals(s.mkt)) /\ Frame(s, Totals(s.mkt))
    BY <2>1 DEF Good
  <2>3. /\ s.mkt \in MarketValues /\ s.oo \in [Accounts -> AccountValues] /\ HeapOk(s.heap)
        /\ AccountsOk(s.oo, Totals(s.mkt).ids)
    BY <2>2, SaneParts
  <2>4. \A a \in Accounts : s.oo[a].open = oo[a].open /\ Sound(s.oo[a])
    BY <2>2, <2>3 DEF Frame, AccountsOk
  <2>5. s.mkt.closed = mkt.closed /\ s.mkt.time_expiry = mkt.time_expiry
    BY <2>2 DEF Frame
  <2> QED BY <2>1, <2>2, <2>3, <2>4, <2>5
<1> QED BY <1>2, <1>3

\* An account and the market are written.
AccountMarketSet(s, a, acc, m) == [s EXCEPT !.oo[a] = acc, !.mkt = m]

\* The fields after an account and the market were replaced.
LEMMA AccountMarketSetIs ==
  ASSUME NEW s, IsState(s), NEW a, NEW acc, NEW m, NEW r, r = AccountMarketSet(s, a, acc, m)
  PROVE  /\ IsState(r) /\ r.ok = s.ok /\ r.mkt = m /\ r.oo = [s.oo EXCEPT ![a] = acc]
         /\ r.book = s.book /\ r.heap = s.heap
<1> DEFINE t == AccountSet(s, a, acc)
<1>1. /\ IsState(t) /\ t.ok = s.ok /\ t.mkt = s.mkt /\ t.oo = [s.oo EXCEPT ![a] = acc]
      /\ t.book = s.book /\ t.heap = s.heap
  BY AccountSetIs
<1>2. r = MarketSet(t, m)
  BY DEF AccountMarketSet, MarketSet, AccountSet
<1> HIDE DEF t
<1>3. /\ IsState(r) /\ r.ok = t.ok /\ r.mkt = m /\ r.oo = t.oo
      /\ r.book = t.book /\ r.heap = t.heap
  BY <1>1, <1>2, MarketSetIs
<1> QED BY <1>1, <1>3

\* In r account a is credited with x and y, and the market's totals have grown
\* by as much and by what was owed.
CreditedBy(s, base, quote, db, dq, n, a, x, y, d1, d2, r) ==
  /\ Working(s, base, quote, db, dq, n) /\ a \in Accounts /\ oo[a].open
  /\ s.ok => /\ x \in Int /\ y \in Int /\ d1 = base + x /\ d2 = quote + y
             /\ s.oo[a].base_free_native + x >= 0 /\ s.oo[a].quote_free_native + y >= 0
  /\ r = AccountMarketSet(s, a, Credit(s.oo[a], x, y), AddDeposits(s.mkt, d1, d2))

\* Such a credit keeps the record good, with nothing left owed.
LEMMA CreditedOk ==
  ASSUME NEW s, NEW base, NEW quote, NEW db, NEW dq, NEW n, NEW a, NEW x, NEW y, NEW d1, NEW d2,
         NEW r, CreditedBy(s, base, quote, db, dq, n, a, x, y, d1, d2, r)
  PROVE  /\ Working(r, 0, 0, db + d1, dq + d2, n) /\ r.ok = s.ok
         /\ s.ok => d1 \in Int /\ d2 \in Int
<1> DEFINE old == s.oo[a]
           acc == Credit(old, x, y)
           m == AddDeposits(s.mkt, d1, d2)
<1>0. /\ Working(s, base, quote, db, dq, n) /\ a \in Accounts /\ oo[a].open
      /\ s.ok => /\ x \in Int /\ y \in Int /\ d1 = base + x /\ d2 = quote + y
                 /\ s.oo[a].base_free_native + x >= 0 /\ s.oo[a].quote_free_native + y >= 0
      /\ r = AccountMarketSet(s, a, acc, m)
  BY DEF CreditedBy
<1>1. /\ SeqOk /\ IsState(s) /\ s.ok \in BOOLEAN /\ base \in Int /\ quote \in Int /\ n \in Nat
  BY <1>0, WorkingParts
<1>3. /\ IsState(r) /\ r.ok = s.ok /\ r.mkt = m /\ r.oo = [s.oo EXCEPT ![a] = acc]
      /\ r.book = s.book /\ r.heap = s.heap
  <2> HIDE DEF acc, m
  <2>1. IsState(s) /\ r = AccountMarketSet(s, a, acc, m)
    BY <1>0, <1>1
  <2> QED BY ONLY <2>1, AccountMarketSetIs
<1>4. ASSUME s.ok
      PROVE  /\ d1 \in Int /\ d2 \in Int
             /\ Good(r, r.heap, 0, 0, NoLock, Totals(r.mkt))
             /\ r.mkt.base_deposit_total = s.mkt.base_deposit_total + d1
             /\ r.mkt.quote_deposit_total = s.mkt.quote_deposit_total + d2
             /\ r.mkt.seq_num = s.mkt.seq_num
  <2>1. /\ Good(s, s.heap, base, quote, NoLock, Totals(s.mkt))
        /\ Sane(s, s.heap, base, quote, NoLock, Totals(s.mkt))
        /\ s.mkt \in MarketValues /\ s.oo \in [Accounts -> AccountValues]
        /\ s.oo[a].open = oo[a].open /\ Sound(s.oo[a])
    BY <1>0, <1>4, WorkingParts
  <2>2. /\ old \in AccountValues
        /\ old.base_free_native \in Int /\ old.quote_free_native \in Int
        /\ old.locked_maker_fees \in Int /\ old.referrer_rebates_available \in Int
        /\ old.base_free_native >= 0 /\ old.quote_free_native >= 0
        /\ old.locked_maker_fees >= 0 /\ old.referrer_rebates_available >= 0
    <3>1. old \in AccountValues
      BY <1>0, <2>1
    <3> QED BY <2>1, <3>1 DEF AccountValues, Sound
  <2>3. /\ x \in Int /\ y \in Int /\ d1 = base + x /\ d2 = quote + y
        /\ old.base_free_native + x >= 0 /\ old.quote_free_native + y >= 0
    BY <1>0, <1>4
  <2> DEFINE b == old.base_free_native + x
             q == old.quote_free_native + y
             f == old.locked_maker_fees
             k == old.referrer_rebates_available
  <2>4. d1 \in Int /\ d2 \in Int
    BY <1>1, <2>3
  <2>5. MoneyIs(acc, old, b, q, f, k)
    <3> HIDE DEF old
    <3> QED BY <2>2, <2>3, CreditFacts
  <2>6. b \in Nat /\ q \in Nat /\ f \in Nat /\ k \in Nat
    BY <2>2, <2>3
  <2>7. f >= FeesToCover(s, s.heap, a)
    <3>1. FeesToCover(s, s.heap, a) \in Nat /\ f - NoLock[a] >= FeesToCover(s, s.heap, a)
      BY <1>0, <2>1, FeesCovered
    <3>2. NoLock[a] = 0
      BY <1>0 DEF NoLock
    <3> QED BY <2>2, <3>1, <3>2
  <2>8. /\ m \in MarketValues /\ m.seq_num = s.mkt.seq_num
        /\ m.time_expiry = s.mkt.time_expiry /\ m.closed = s.mkt.closed
        /\ m.base_deposit_total = s.mkt.base_deposit_total + d1
        /\ m.quote_deposit_total = s.mkt.quote_deposit_total + d2
        /\ m.fees_available = s.mkt.fees_available
        /\ m.referrer_rebates_accrued = s.mkt.referrer_rebates_accrued
    BY <2>1, <2>4, AddDepositsFacts
  <2>9. /\ s.mkt.base_deposit_total \in Int /\ s.mkt.quote_deposit_total \in Int
        /\ s.mkt.fees_available \in Int /\ s.mkt.referrer_rebates_accrued \in Int
    BY <2>1 DEF MarketValues
  <2> HIDE DEF m, acc
  <2>10. m.base_deposit_total + 0 - (b - old.base_free_native)
           = s.mkt.base_deposit_total + base
    <3> DEFINE sb == s.mkt.base_deposit_total
               b0 == old.base_free_native
    <3>1. sb \in Int /\ b0 \in Int /\ base \in Int /\ x \in Int
      BY <1>1, <2>2, <2>3, <2>9
    <3>2. m.base_deposit_total = sb + (base + x) /\ b = b0 + x
      BY <2>3, <2>8
    <3> HIDE DEF sb, b0, b
    <3>3. m.base_deposit_total + 0 - (b - b0) = sb + base
      BY ONLY <3>1, <3>2
    <3> QED BY <3>3 DEF sb, b0
  <2>11. m.quote_deposit_total + 0 - m.fees_available
           - ((q - old.quote_free_native) + (f - old.locked_maker_fees)
              + (k - old.referrer_rebates_available))
           = s.mkt.quote_deposit_total + quote - s.mkt.fees_available
    <3> DEFINE sq == s.mkt.quote_deposit_total
               sf == s.mkt.fees_available
               q0 == old.quote_free_native
    <3>1. sq \in Int /\ sf \in Int /\ q0 \in Int /\ quote \in Int /\ y \in Int
          /\ f \in Int /\ k \in Int
      BY <1>1, <2>2, <2>3, <2>9
    <3>2. m.quote_deposit_total = sq + (quote + y) /\ q = q0 + y /\ m.fees_available = sf
      BY <2>3, <2>8
    <3> HIDE DEF sq, sf, q0, q, f, k
    <3>3. m.quote_deposit_total + 0 - m.fees_available - ((q - q0) + (f - f) + (k - k))
            = sq + quote - sf
      BY ONLY <3>1, <3>2
    <3> QED BY <3>3 DEF sq, sf, q0, f, k
  <2>12. m.referrer_rebates_accrued - (k - old.referrer_rebates_available)
           = s.mkt.referrer_rebates_accrued
    BY <2>2, <2>8, <2>9
  <2>13. Moved(s, base, quote, a, acc, b, q, f, k, m, 0, 0, r)
    <3> HIDE DEF b, q, f, k
    <3> QED BY <1>0, <1>1, <1>3, <2>1, <2>5, <2>6, <2>7, <2>8, <2>10, <2>11, <2>12 DEF Moved, old
  <2>14. Good(r, r.heap, 0, 0, NoLock, Totals(r.mkt))
    <3> HIDE DEF b, q, f, k
    <3> QED BY ONLY <2>13, MoneyMoved
  <2> QED BY <1>3, <2>4, <2>8, <2>14
<1> DEFINE new_db == db + d1
           new_dq == dq + d2
<1>5. s.ok => /\ new_db \in Int /\ new_dq \in Int
              /\ r.mkt.base_deposit_total = mkt.base_deposit_total + new_db
              /\ r.mkt.quote_deposit_total = mkt.quote_deposit_total + new_dq
              /\ r.mkt.seq_num <= mkt.seq_num + n
  <2> SUFFICES ASSUME s.ok PROVE /\ new_db \in Int /\ new_dq \in Int
              /\ r.mkt.base_deposit_total = mkt.base_deposit_total + new_db
              /\ r.mkt.quote_deposit_total = mkt.quote_deposit_total + new_dq
              /\ r.mkt.seq_num <= mkt.seq_num + n
    OBVIOUS
  <2>1. /\ db \in Int /\ dq \in Int
        /\ s.mkt.base_deposit_total = mkt.base_deposit_total + db
        /\ s.mkt.quote_deposit_total = mkt.quote_deposit_total + dq
        /\ s.mkt.seq_num <= mkt.seq_num + n
    BY <1>0 DEF Working
  <2>2. mkt.base_deposit_total \in Int /\ mkt.quote_deposit_total \in Int
    BY <1>0 DEF Working
  <2> QED BY <1>4, <2>1, <2>2
<1>7. mkt.base_deposit_total \in Int /\ mkt.quote_deposit_total \in Int
  BY <1>0 DEF Working
<1> HIDE DEF new_db, new_dq
<1>6. Working(r, 0, 0, new_db, new_dq, n)
  BY <1>1, <1>3, <1>4, <1>5, <1>7 DEF Working, Going
<1> QED BY <1>3, <1>4, <1>6 DEF new_db, new_dq

\* Who placed an order pays for it.
LEMMA PayOk ==
  ASSUME NEW s, NEW cost, NEW db, NEW dq, NEW n, Working(s, cost.base, cost.quote, db, dq, n),
         NEW a \in Accounts, oo[a].open, NEW p, p = Pay(s, a, cost)
  PROVE  /\ Working(p.s, 0, 0, db + p.deposit.base, dq + p.deposit.quote, n)
         /\ p.s.ok = s.ok
         /\ s.ok => p.deposit.base \in Int /\ p.deposit.quote \in Int
<1> DEFINE old == s.oo[a]
           fb == Min({cost.base, old.base_free_native})
           fq == Min({cost.quote, old.quote_free_native})
           d1 == cost.base - fb
           d2 == cost.quote - fq
           r == AccountMarketSet(s, a, Credit(old, -fb, -fq), AddDeposits(s.mkt, d1, d2))
<1>1. cost.base \in Int /\ cost.quote \in Int
  BY WorkingParts
<1>2. p.s = r /\ p.deposit.base = d1 /\ p.deposit.quote = d2
  BY DEF Pay, AccountMarketSet
<1>3. s.ok => /\ -fb \in Int /\ -fq \in Int /\ d1 = cost.base + (-fb) /\ d2 = cost.quote + (-fq)
              /\ old.base_free_native + (-fb) >= 0 /\ old.quote_free_native + (-fq) >= 0
  <2> SUFFICES ASSUME s.ok
               PROVE  /\ -fb \in Int /\ -fq \in Int
                      /\ d1 = cost.base + (-fb) /\ d2 = cost.quote + (-fq)
                      /\ old.base_free_native + (-fb) >= 0 /\ old.quote_free_native + (-fq) >= 0
    OBVIOUS
  <2>1. s.oo \in [Accounts -> AccountValues]
    BY WorkingParts
  <2>2. old.base_free_native \in Int /\ old.quote_free_native \in Int
    <3>1. old \in AccountValues
      BY <2>1
    <3> QED BY <3>1 DEF AccountValues
  <2>3. fb \in {cost.base, old.base_free_native} /\ fb <= old.base_free_native
    BY <1>1, <2>2, Min2
  <2>4. fq \in {cost.quote, old.quote_free_native} /\ fq <= old.quote_free_native
    BY <1>1, <2>2, Min2
  <2> HIDE DEF fb, fq
  <2> QED BY <1>1, <2>2, <2>3, <2>4
<1> HIDE DEF fb, fq, d1, d2
<1>4. CreditedBy(s, cost.base, cost.quote, db, dq, n, a, -fb, -fq, d1, d2, r)
  BY <1>3 DEF CreditedBy
<1>5. /\ Working(r, 0, 0, db + d1, dq + d2, n) /\ r.ok = s.ok
      /\ s.ok => d1 \in Int /\ d2 \in Int
  <2> HIDE DEF r
  <2> QED BY ONLY <1>4, CreditedOk
<1> QED BY <1>2, <1>5

-----------------------------------------------------------------------------
(* place_order, deposit, refill and place_take_order keep the invariant. *)

\* A step of an instruction that deposits nothing.
LEMMA WorkingStep ==
  ASSUME NEW s, NEW base, NEW quote, NEW db, NEW dq, NEW n, Working(s, base, quote, db, dq, n),
         NEW base2 \in Int, NEW quote2 \in Int, NEW d \in Nat,
         NEW r, IsState(r), r.ok \in BOOLEAN,
         r.ok => /\ s.ok /\ Good(r, r.heap, base2, quote2, NoLock, Totals(r.mkt))
                 /\ r.mkt.base_deposit_total = s.mkt.base_deposit_total
                 /\ r.mkt.quote_deposit_total = s.mkt.quote_deposit_total
                 /\ r.mkt.seq_num <= s.mkt.seq_num + d
  PROVE  Working(r, base2, quote2, db, dq, n + d)
<1>1. /\ SeqOk /\ n \in Nat /\ n + d \in Nat
      /\ mkt.base_deposit_total \in Int /\ mkt.quote_deposit_total \in Int
  <2>1. SeqOk /\ n \in Nat
    BY WorkingParts
  <2>2. mkt.base_deposit_total \in Int /\ mkt.quote_deposit_total \in Int
    BY DEF Working
  <2> QED BY <2>1, <2>2
<1>2. Going(r, base2, quote2)
  BY <1>1 DEF Going
<1>3. ASSUME r.ok
      PROVE  /\ db \in Int /\ dq \in Int
             /\ r.mkt.base_deposit_total = mkt.base_deposit_total + db
             /\ r.mkt.quote_deposit_total = mkt.quote_deposit_total + dq
             /\ r.mkt.seq_num <= mkt.seq_num + (n + d)
  <2>1. s.ok /\ r.mkt.seq_num <= s.mkt.seq_num + d
    BY <1>3
  <2>2. /\ db \in Int /\ dq \in Int
        /\ s.mkt.base_deposit_total = mkt.base_deposit_total + db
        /\ s.mkt.quote_deposit_total = mkt.quote_deposit_total + dq
        /\ s.mkt.seq_num <= mkt.seq_num + n
    BY <2>1 DEF Working
  <2>3. s.mkt.seq_num \in Nat /\ r.mkt.seq_num \in Nat /\ mkt.seq_num \in Nat
    <3>1. s.mkt \in MarketValues
      BY <2>1, WorkingParts
    <3>2. Sane(r, r.heap, base2, quote2, NoLock, Totals(r.mkt))
      BY <1>3 DEF Good
    <3>3. r.mkt \in MarketValues
      BY <3>2, SaneParts
    <3> QED BY <1>1, <3>1, <3>3 DEF MarketValues, SeqOk
  <2>4. r.mkt.seq_num <= mkt.seq_num + (n + d)
    BY <1>1, <2>1, <2>2, <2>3
  <2> QED BY <1>3, <2>2, <2>4
<1> QED BY <1>1, <1>2, <1>3 DEF Working

\* An account that made the heap longer owes a penalty.
LEMMA PenaliseOk ==
  ASSUME NEW s, NEW base, NEW quote, NEW db, NEW dq, NEW n, Working(s, base, quote, db, dq, n),
         NEW a \in Accounts, oo[a].open, NEW h, NEW r, r = Penalise(s, h, a)
  PROVE  Working(r, base, quote, db, dq, n) /\ r.ok = s.ok
<1> DEFINE x == IF Len(s.heap) > h THEN 1 ELSE 0
           old == s.oo[a]
           acc == [old EXCEPT !.penalty_heap_count = old.penalty_heap_count + x]
<1>1. /\ SeqOk /\ IsState(s) /\ s.ok \in BOOLEAN /\ base \in Int /\ quote \in Int /\ n \in Nat
  BY WorkingParts
<1>2. r = AccountSet(s, a, acc)
  BY DEF Penalise, AccountSet
<1>3. x \in Int
  OBVIOUS
<1> HIDE DEF x
<1>4. /\ IsState(r) /\ r.ok = s.ok /\ r.mkt = s.mkt /\ r.oo = [s.oo EXCEPT ![a] = acc]
      /\ r.book = s.book /\ r.heap = s.heap
  <2> HIDE DEF acc
  <2> QED BY <1>1, <1>2, AccountSetIs
<1>5. ASSUME s.ok
      PROVE  Good(r, r.heap, base, quote, NoLock, Totals(r.mkt)) /\ s.mkt.seq_num <= s.mkt.seq_num + 0
  <2>1. /\ Good(s, s.heap, base, quote, NoLock, Totals(s.mkt))
        /\ Sane(s, s.heap, base, quote, NoLock, Totals(s.mkt))
        /\ s.mkt \in MarketValues /\ s.oo \in [Accounts -> AccountValues]
        /\ s.oo[a].open = oo[a].open /\ Sound(s.oo[a])
    BY <1>5, WorkingParts
  <2>2. /\ old \in AccountValues
        /\ old.base_free_native \in Int /\ old.quote_free_native \in Int
        /\ old.locked_maker_fees \in Int /\ old.referrer_rebates_available \in Int
        /\ old.penalty_heap_count \in Int
        /\ old.base_free_native >= 0 /\ old.quote_free_native >= 0
        /\ old.locked_maker_fees >= 0 /\ old.referrer_rebates_available >= 0
    <3>1. old \in AccountValues
      BY <2>1
    <3> QED BY <2>1, <3>1 DEF AccountValues, Sound
  <2> DEFINE b == old.base_free_native
             q == old.quote_free_native
             f == old.locked_maker_fees
             k == old.referrer_rebates_available
             pen == old.penalty_heap_count + x
  <2>3. MoneyIs(acc, old, b, q, f, k)
    <3>1. acc = MoneySet(old, b, q, f, k, pen)
      BY <2>2 DEF MoneySet, AccountValues
    <3>2. pen \in Int
      BY <1>3, <2>2
    <3> HIDE DEF acc, old, pen
    <3> QED BY <2>2, <3>1, <3>2, MoneySetFacts
  <2>4. b \in Nat /\ q \in Nat /\ f \in Nat /\ k \in Nat
    BY <2>2
  <2>5. f >= FeesToCover(s, s.heap, a)
    <3>1. FeesToCover(s, s.heap, a) \in Nat /\ f - NoLock[a] >= FeesToCover(s, s.heap, a)
      BY <2>1, FeesCovered
    <3>2. NoLock[a] = 0
      BY DEF NoLock
    <3> QED BY <2>2, <3>1, <3>2
  <2>6. /\ s.mkt.base_deposit_total \in Int /\ s.mkt.quote_deposit_total \in Int
        /\ s.mkt.fees_available \in Int /\ s.mkt.referrer_rebates_accrued \in Int
        /\ s.mkt.seq_num \in Nat
    BY <2>1 DEF MarketValues
  <2> HIDE DEF acc
  <2>7. s.mkt.base_deposit_total + base - (b - old.base_free_native)
           = s.mkt.base_deposit_total + base
    BY <1>1, <2>4, <2>6
  <2>8. s.mkt.quote_deposit_total + quote - s.mkt.fees_available
           - ((q - old.quote_free_native) + (f - old.locked_maker_fees)
              + (k - old.referrer_rebates_available))
           = s.mkt.quote_deposit_total + quote - s.mkt.fees_available
    BY <1>1, <2>4, <2>6
  <2>9. s.mkt.referrer_rebates_accrued - (k - old.referrer_rebates_available)
           = s.mkt.referrer_rebates_accrued
    BY <2>4, <2>6
  <2> DEFINE m == s.mkt
  <2>10. Moved(s, base, quote, a, acc, b, q, f, k, m, base, quote, r)
    <3>1. oo[a].open
      OBVIOUS
    <3> QED BY <1>1, <1>4, <2>1, <3>1, <2>3, <2>4, <2>5, <2>7, <2>8, <2>9 DEF Moved
  <2> HIDE DEF b, q, f, k, m
  <2>11. Good(r, r.heap, base, quote, NoLock, Totals(r.mkt))
    BY ONLY <2>10, MoneyMoved
  <2>12. s.mkt.seq_num <= s.mkt.seq_num + 0
    BY <2>6
  <2> QED BY <2>11, <2>12
<1>6. Working(r, base, quote, db, dq, n + 0)
  BY <1>1, <1>4, <1>5, WorkingStep
<1> QED BY <1>1, <1>4, <1>6

\* What an order cost is a number.
LEMMA PlacedInt ==
  ASSUME NEW side, NEW o, NumbersOk(o), NEW me
  PROVE  /\ PlacedBase(side, o, me) \in Int /\ PlacedQuote(side, o, me) \in Int
         /\ Cost(side, o).base \in Int /\ Cost(side, o).quote \in Int
<1>1. /\ o.base \in Nat /\ o.quote \in Nat /\ o.posted_base \in Nat /\ o.posted_quote \in Nat
      /\ o.taker_fees \in Nat /\ o.maker_fees \in Nat /\ o.referrer_amount \in Int
  BY DEF NumbersOk
<1>2. Cost(side, o).base \in Int /\ Cost(side, o).quote \in Int
  BY <1>1 DEF Cost
<1> QED BY <1>1, <1>2 DEF PlacedBase, PlacedQuote

\* Who may place an order, and what order.
MayPlace(order, px, time, me) ==
  /\ OrderOk(order) /\ px \in Int /\ time \in Int /\ me \in Traders
  /\ me \in Accounts \/ post_target(order) = NoTree
  /\ me \in Accounts => oo[me].open

\* An order in an instruction.
LEMMA OrderWorks ==
  ASSUME NEW s, NEW base, NEW quote, NEW db, NEW dq, NEW n, Working(s, base, quote, db, dq, n),
         NEW order, NEW px, NEW time, NEW me, MayPlace(order, px, time, me), NEW limit, NEW rem,
         NEW o, o = new_order(s, order, px, time, limit, me, rem)
  PROVE  /\ Working(o.s, base + PlacedBase(order.side, o, me), quote + PlacedQuote(order.side, o, me),
                    db, dq, n + 1)
         /\ NumbersOk(o) /\ (o.s.ok => s.ok)
<1>1. /\ SeqOk /\ IsState(s) /\ s.ok \in BOOLEAN /\ base \in Int /\ quote \in Int /\ n \in Nat
      /\ s.ok => /\ Good(s, s.heap, base, quote, NoLock, Totals(s.mkt))
                 /\ \A a \in Accounts : s.oo[a].open = oo[a].open
                 /\ s.mkt \in MarketValues
  BY WorkingParts
<1>2. OrderGiven(s, order, px, time, me, base, quote)
  BY <1>1 DEF OrderGiven, MayPlace
<1>3. Ordered(o, s, order.side, me, base, quote)
  BY <1>2, NewOrderOk
<1> DEFINE base2 == base + PlacedBase(order.side, o, me)
           quote2 == quote + PlacedQuote(order.side, o, me)
<1>4. /\ IsState(o.s) /\ o.s.ok \in BOOLEAN /\ NumbersOk(o)
      /\ o.s.ok =>
           /\ s.ok
           /\ Good(o.s, o.s.heap, base2, quote2, NoLock, Totals(o.s.mkt))
           /\ o.s.mkt.base_deposit_total = s.mkt.base_deposit_total
           /\ o.s.mkt.quote_deposit_total = s.mkt.quote_deposit_total
           /\ o.s.mkt.seq_num = s.mkt.seq_num + 1
  BY <1>3 DEF Ordered
<1>5. base2 \in Int /\ quote2 \in Int
  <2>1. PlacedBase(order.side, o, me) \in Int /\ PlacedQuote(order.side, o, me) \in Int
    BY <1>4, PlacedInt
  <2> QED BY <1>1, <2>1
<1>6. o.s.ok => o.s.mkt.seq_num <= s.mkt.seq_num + 1
  <2>1. s.ok => s.mkt.seq_num \in Nat
    BY <1>1 DEF MarketValues
  <2> QED BY <1>4, <2>1
<1> HIDE DEF base2, quote2
<1>7. Working(o.s, base2, quote2, db, dq, n + 1)
  BY <1>4, <1>5, <1>6, WorkingStep
<1> QED BY <1>4, <1>7 DEF base2, quote2

\* An instruction that is committed, and the tokens moved as it says.
LEMMA Finished ==
  ASSUME IInv, NEW r, NEW db, NEW dq, NEW n, Working(r, 0, 0, db, dq, n), Commit(r),
         mkt.seq_num + n <= MaxSeqNum, ~mkt.closed, KeepWorld,
         wallet' \in [Traders -> TokenAmounts],
         vault' = [base |-> mkt.base_deposit_total + db, quote |-> mkt.quote_deposit_total + dq]
  PROVE  IInv' /\ Shrinks
<1>1. r.ok
  BY DEF Commit
<1>2. /\ SeqOk /\ n \in Nat
      /\ Sane(r, r.heap, 0, 0, NoLock, Totals(r.mkt)) /\ Frame(r, Totals(r.mkt))
      /\ r.mkt \in MarketValues /\ r.mkt.closed = mkt.closed
  BY <1>1, WorkingParts
<1>3. /\ r.mkt.base_deposit_total = mkt.base_deposit_total + db
      /\ r.mkt.quote_deposit_total = mkt.quote_deposit_total + dq
      /\ r.mkt.seq_num <= mkt.seq_num + n
  BY <1>1 DEF Working
<1>4. r.mkt.seq_num <= MaxSeqNum
  <2>1. r.mkt.seq_num \in Nat /\ mkt.seq_num \in Nat /\ MaxSeqNum \in Nat
    BY <1>2, OpenBookAssumption DEF MarketValues, SeqOk
  <2> QED BY <1>2, <1>3, <2>1
<1>5. r.mkt.closed = FALSE
  <2>1. mkt \in MarketValues
    BY LoadedIs, SaneParts DEF IInv
  <2>2. mkt.closed \in BOOLEAN
    BY <2>1 DEF MarketValues
  <2> QED BY <1>2, <2>2
<1>6. vault' = [base |-> r.mkt.base_deposit_total, quote |-> r.mkt.quote_deposit_total]
  BY <1>3
<1>7. IInv'
  BY <1>2, <1>4, <1>5, <1>6, CommitKeeps
<1>8. Shrinks
  BY <1>2, CommitShrinks
<1> QED BY <1>7, <1>8

\* One that takes tokens from a wallet.
LEMMA FinishedPaid ==
  ASSUME IInv, NEW r, NEW db \in Int, NEW dq \in Int, NEW n, Working(r, 0, 0, db, dq, n), Commit(r),
         mkt.seq_num + n <= MaxSeqNum, ~mkt.closed, KeepWorld,
         NEW t \in Traders, Transfer(t, db, dq, 0)
  PROVE  IInv' /\ Shrinks
<1>1. /\ wallet' \in [Traders -> TokenAmounts]
      /\ vault' = [base |-> mkt.base_deposit_total + db, quote |-> mkt.quote_deposit_total + dq - 0]
  BY TransferFacts
<1>2. mkt.quote_deposit_total + dq - 0 = mkt.quote_deposit_total + dq
  <2>1. mkt.quote_deposit_total \in Int
    BY DEF Working
  <2> QED BY <2>1
<1>3. vault' = [base |-> mkt.base_deposit_total + db, quote |-> mkt.quote_deposit_total + dq]
  BY <1>1, <1>2
<1> QED BY <1>1, <1>3, Finished

\* One that moves no tokens.
LEMMA FinishedUnpaid ==
  ASSUME IInv, NEW r, NEW n, Working(r, 0, 0, 0, 0, n), Commit(r),
         mkt.seq_num + n <= MaxSeqNum, ~mkt.closed, KeepWorld, KeepTokens
  PROVE  IInv' /\ Shrinks
<1>1. wallet' = wallet /\ vault' = vault
  BY DEF KeepTokens
<1>2. wallet' \in [Traders -> TokenAmounts]
  BY <1>1 DEF IInv
<1>3. mkt.base_deposit_total + 0 = mkt.base_deposit_total /\ mkt.quote_deposit_total + 0 = mkt.quote_deposit_total
  <2>1. mkt.base_deposit_total \in Int /\ mkt.quote_deposit_total \in Int
    BY DEF Working
  <2> QED BY <2>1
<1>4. vault' = [base |-> mkt.base_deposit_total + 0, quote |-> mkt.quote_deposit_total + 0]
  BY <1>1, <1>3 DEF IInv
<1> QED BY <1>2, <1>4, Finished

\* The orders that arguments stand for.
LEMMA OrderOfOk ==
  ASSUME IInv, NEW args, args \in FixedArgs \cup PeggedArgs, NEW order, order = OrderOf(args)
  PROVE  /\ OrderOk(order) /\ order.max_base_lots = args.max_base_lots /\ order.side = args.side
         /\ order.type = args.type
         /\ order = [side |-> order.side, type |-> order.type, price |-> order.price,
                     max_base_lots |-> order.max_base_lots,
                     max_quote_lots_including_fees |-> order.max_quote_lots_including_fees,
                     client_id |-> order.client_id, time_in_force |-> order.time_in_force,
                     self_trade_behavior |-> order.self_trade_behavior,
                     pegged |-> order.pegged, peg_limit |-> order.peg_limit]
<1>1. args \in ArgsOfOrders
  BY DEF FixedArgs, PeggedArgs
<1>2. /\ args.side \in Sides /\ args.price \in Int /\ args.max_base_lots \in Nat
      /\ args.max_quote_lots_including_fees \in Nat /\ args.client_id \in Nat /\ args.expiry \in Nat
      /\ args.pegged \in BOOLEAN /\ args.peg_limit \in Int
  BY <1>1 DEF ArgsOfOrders
<1>3. args.pegged => args.peg_limit \in Nat \ {0}
  BY <1>2 DEF FixedArgs, PeggedArgs
<1>4. now \in Int
  BY DEF IInv
<1> DEFINE tif == IF args.expiry = 0 THEN 0
                  ELSE IF args.expiry - now <= 65535 THEN args.expiry - now ELSE 65535
<1>5. tif \in Int
  BY <1>2, <1>4
<1>6. /\ order.side = args.side /\ order.type = args.type /\ order.price = args.price
      /\ order.max_base_lots = args.max_base_lots
      /\ order.max_quote_lots_including_fees = args.max_quote_lots_including_fees
      /\ order.client_id = args.client_id
      /\ order.time_in_force = tif /\ order.pegged = args.pegged /\ order.peg_limit = args.peg_limit
      /\ order = [side |-> order.side, type |-> order.type, price |-> order.price,
                     max_base_lots |-> order.max_base_lots,
                     max_quote_lots_including_fees |-> order.max_quote_lots_including_fees,
                     client_id |-> order.client_id, time_in_force |-> order.time_in_force,
                     self_trade_behavior |-> order.self_trade_behavior,
                     pegged |-> order.pegged, peg_limit |-> order.peg_limit]
  BY DEF OrderOf
<1> HIDE DEF tif
<1> QED BY <1>2, <1>3, <1>5, <1>6 DEF OrderOk

\* The clock and the oracle.
LEMMA WorldFacts ==
  ASSUME IInv
  PROVE  now \in Int /\ now \in Nat /\ oracle \in Int
BY OpenBookAssumption DEF IInv

\* The body of place_order fails in an expired market.
Unexpired(p) == [p EXCEPT !.s.ok = p.s.ok /\ ~is_expired_market]

\* place_order: match and post, charge the penalty, let the owner pay, refuse an expired
\* market.
LEMMA PlaceOrderIs ==
  ASSUME NEW s, NEW a, NEW order, NEW limit, NEW rem,
         NEW r, r = place_order(s, a, order, limit, rem),
         NEW o, o = new_order(s, order, oracle, now, limit, a, rem)
  PROVE  r = Unexpired(Pay(Penalise(o.s, Len(s.heap), a), a, Cost(order.side, o)))
<1> DEFINE Finally(x, cost) ==
             [Pay(Penalise(x.s, Len(s.heap), a), a, cost) EXCEPT !.s.ok = @ /\ ~is_expired_market]
           Then(x) == With(Cost(order.side, x), LAMBDA cost : Finally(x, cost))
<1>1. \A x, cost : Finally(x, cost) = Unexpired(Pay(Penalise(x.s, Len(s.heap), a), a, cost))
  BY DEF Unexpired
<1>2. \A x : Then(x) = Finally(x, Cost(order.side, x))
  <2> HIDE DEF Finally
  <2> QED BY DEF With
<1>3. r = With(new_order(s, order, oracle, now, limit, a, rem), LAMBDA x : Then(x))
  BY DEF place_order
<1>4. With(o, LAMBDA x : Then(x)) = Then(o)
  <2> HIDE DEF Then
  <2> QED BY DEF With
<1> HIDE DEF Then, Finally
<1> QED BY <1>1, <1>2, <1>3, <1>4

\* The refusal changes only the flag.
LEMMA UnexpiredFields ==
  ASSUME NEW s, IsState(s), NEW a, NEW cost, NEW p, p = Pay(s, a, cost),
         IsState(p.s), NEW r, r = Unexpired(p)
  PROVE  r.s = OkSet(p.s, p.s.ok /\ ~is_expired_market) /\ r.deposit = p.deposit
<1> DEFINE st == p.s
           d == p.deposit
           v == p.s.ok /\ ~is_expired_market
<1>1. p = [s |-> st, deposit |-> d]
  BY DEF Pay
<1>2. r = [p EXCEPT !.s.ok = v]
  BY DEF Unexpired
<1> HIDE DEF v, st, d
<1>3. [p EXCEPT !.s.ok = v] = [p EXCEPT !.s = [p.s EXCEPT !.ok = v]]
  OBVIOUS
<1>4. r = [p EXCEPT !.s = OkSet(p.s, v)]
  BY <1>2, <1>3 DEF OkSet
<1>5. r.s = OkSet(p.s, v) /\ r.deposit = d
  BY <1>1, <1>4
<1> QED BY <1>5 DEF v, d

\* An order is placed and paid for.
LEMMA PlaceOrderWorks ==
  ASSUME IInv, NEW s, NEW n, Working(s, 0, 0, 0, 0, n), NEW a \in Accounts, oo[a].open,
         NEW order, OrderOk(order), NEW limit, NEW rem,
         NEW r, r = place_order(s, a, order, limit, rem)
  PROVE  /\ Working(r.s, 0, 0, r.deposit.base, r.deposit.quote, n + 1)
         /\ r.s.ok => /\ ~is_expired_market
                      /\ r.deposit.base \in Int /\ r.deposit.quote \in Int
<1> DEFINE o == new_order(s, order, oracle, now, limit, a, rem)
           side == order.side
           h == Len(s.heap)
           q == Penalise(o.s, h, a)
           cost == Cost(side, o)
           p == Pay(q, a, cost)
           fresh == p.s.ok /\ ~is_expired_market
<1>1. r = Unexpired(p)
  BY PlaceOrderIs
<1>2. MayPlace(order, oracle, now, a)
  BY WorldFacts DEF MayPlace, Traders
<1> HIDE DEF o, h
<1>3. /\ Working(o.s, 0 + PlacedBase(side, o, a), 0 + PlacedQuote(side, o, a), 0, 0, n + 1)
      /\ NumbersOk(o) /\ (o.s.ok => s.ok)
  BY <1>2, OrderWorks DEF o
<1>4. PlacedBase(side, o, a) = cost.base /\ PlacedQuote(side, o, a) = cost.quote
      /\ cost.base \in Int /\ cost.quote \in Int
  <2>1. cost.base \in Int /\ cost.quote \in Int
    BY <1>3, PlacedInt
  <2>2. PlacedBase(side, o, a) = cost.base /\ PlacedQuote(side, o, a) = cost.quote
    BY DEF PlacedBase, PlacedQuote
  <2> QED BY <2>1, <2>2
<1> HIDE DEF q, cost, p
<1>5. Working(o.s, cost.base, cost.quote, 0, 0, n + 1)
  <2>1. 0 + PlacedBase(side, o, a) = cost.base /\ 0 + PlacedQuote(side, o, a) = cost.quote
    BY <1>4
  <2> QED BY <1>3, <2>1
<1>6. Working(q, cost.base, cost.quote, 0, 0, n + 1)
  BY <1>5, PenaliseOk DEF q
<1>7. /\ Working(p.s, 0, 0, 0 + p.deposit.base, 0 + p.deposit.quote, n + 1)
      /\ p.s.ok = q.ok
      /\ q.ok => p.deposit.base \in Int /\ p.deposit.quote \in Int
  BY <1>6, PayOk DEF p
<1>8. IsState(q) /\ IsState(p.s) /\ p.s.ok \in BOOLEAN
  BY <1>6, <1>7, WorkingParts
<1>9. r.s = OkSet(p.s, fresh) /\ r.deposit = p.deposit
  BY <1>1, <1>8, UnexpiredFields DEF p
<1>10. /\ IsState(r.s) /\ r.s.ok = fresh /\ r.s.mkt = p.s.mkt /\ r.s.oo = p.s.oo
       /\ r.s.book = p.s.book /\ r.s.heap = p.s.heap
  BY <1>8, <1>9, OkSetIs
<1>11. r.s.ok \in BOOLEAN
  BY <1>10
<1>12. r.s.ok => p.s.ok /\ q.ok /\ ~is_expired_market
  BY <1>7, <1>10
<1>13. r.s.ok => Good(r.s, r.s.heap, 0, 0, NoLock, Totals(r.s.mkt))
  <2>1. r.s.ok => Sane(p.s, p.s.heap, 0, 0, NoLock, Totals(p.s.mkt)) /\ Frame(p.s, Totals(p.s.mkt))
    BY <1>7, <1>12, WorkingParts
  <2>2. r.s.ok => Sane(r.s, p.s.heap, 0, 0, NoLock, Totals(p.s.mkt))
    BY <1>10, <2>1, SaneOfRecord
  <2>3. r.s.ok => Frame(r.s, Totals(p.s.mkt))
    BY <1>10, <2>1 DEF Frame
  <2> QED BY <1>10, <2>2, <2>3 DEF Good
<1>14. /\ SeqOk /\ n + 1 \in Nat
       /\ mkt.base_deposit_total \in Int /\ mkt.quote_deposit_total \in Int
  <2>1. SeqOk /\ n + 1 \in Nat
    BY <1>6, WorkingParts
  <2> QED BY <1>6, <2>1 DEF Working
<1>15. r.s.ok => /\ r.deposit.base \in Int /\ r.deposit.quote \in Int
                 /\ r.s.mkt.base_deposit_total = mkt.base_deposit_total + r.deposit.base
                 /\ r.s.mkt.quote_deposit_total = mkt.quote_deposit_total + r.deposit.quote
                 /\ r.s.mkt.seq_num <= mkt.seq_num + (n + 1)
  <2>1. r.s.ok => /\ p.s.mkt.base_deposit_total = mkt.base_deposit_total + (0 + p.deposit.base)
                  /\ p.s.mkt.quote_deposit_total = mkt.quote_deposit_total + (0 + p.deposit.quote)
                  /\ p.s.mkt.seq_num <= mkt.seq_num + (n + 1)
    BY <1>7, <1>12 DEF Working
  <2>2. r.s.ok => p.deposit.base \in Int /\ p.deposit.quote \in Int
    BY <1>7, <1>12
  <2>3. r.s.ok => 0 + p.deposit.base = p.deposit.base /\ 0 + p.deposit.quote = p.deposit.quote
    BY <2>2
  <2> QED BY <1>9, <1>10, <2>1, <2>2, <2>3
<1>16. Working(r.s, 0, 0, r.deposit.base, r.deposit.quote, n + 1)
  <2>1. Going(r.s, 0, 0)
    BY <1>10, <1>11, <1>13, <1>14 DEF Going
  <2> QED BY <1>14, <1>15, <2>1 DEF Working
<1> QED BY <1>12, <1>15, <1>16

\* place_order and place_order_pegged.
LEMMA PlaceOrderKeeps ==
  ASSUME IInv, NEW a \in Accounts, NEW args \in OrderArgs, NEW limit, NEW rem,
         PlaceOrder(a, args, limit, rem)
  PROVE  IInv' /\ Shrinks /\ ~is_expired_market
<1>1. /\ ~mkt.closed /\ oo[a].open /\ mkt.seq_num < MaxSeqNum /\ KeepWorld
  BY DEF PlaceOrder
<1>2. PICK r : /\ r = place_order(Loaded, a, OrderOf(args), limit, rem)
               /\ Commit(r.s) /\ Transfer(a, r.deposit.base, r.deposit.quote, 0)
  BY DEF PlaceOrder
<1>3. OrderOk(OrderOf(args))
  BY OrderOfOk, OpenBookAssumption
<1>4. Working(Loaded, 0, 0, 0, 0, 0)
  BY LoadedWorking
<1>5. /\ Working(r.s, 0, 0, r.deposit.base, r.deposit.quote, 0 + 1)
      /\ r.s.ok => /\ ~is_expired_market
                   /\ r.deposit.base \in Int /\ r.deposit.quote \in Int
  BY <1>1, <1>2, <1>3, <1>4, PlaceOrderWorks
<1>6. r.s.ok
  BY <1>2 DEF Commit
<1>7. mkt.seq_num + (0 + 1) <= MaxSeqNum
  <2>1. mkt.seq_num \in Nat /\ MaxSeqNum \in Nat
    BY <1>4, OpenBookAssumption, WorkingParts DEF SeqOk
  <2> QED BY <1>1, <2>1
<1>8. a \in Traders
  BY DEF Traders
<1>9. IInv' /\ Shrinks
  <2>1. /\ r.deposit.base \in Int /\ r.deposit.quote \in Int
        /\ Working(r.s, 0, 0, r.deposit.base, r.deposit.quote, 0 + 1)
        /\ Commit(r.s) /\ Transfer(a, r.deposit.base, r.deposit.quote, 0)
    BY <1>2, <1>5, <1>6
  <2> QED BY <1>1, <1>7, <1>8, <2>1, FinishedPaid
<1> QED BY <1>5, <1>6, <1>9

\* What a step does in an expired market: no order, event or deposit is added.
Drains ==
  /\ mkt'.time_expiry = mkt.time_expiry
  /\ \A side \in Sides : book'[side].leaves \subseteq book[side].leaves
  /\ Len(heap') <= Len(heap)
  /\ mkt'.base_deposit_total <= mkt.base_deposit_total
  /\ mkt'.quote_deposit_total <= mkt.quote_deposit_total

\* What is missing to an amount is not negative.
LEMMA MaxZero ==
  ASSUME NEW b \in Int
  PROVE  Max({0, b}) \in Nat
<1> DEFINE S == {0, b}
<1>1. \E x \in S : \A y \in S : x >= y
  <2>1. CASE 0 >= b
    BY <2>1
  <2>2. CASE b >= 0
    BY <2>2
  <2> QED BY <2>1, <2>2
<1>2. Max(S) = CHOOSE x \in S : \A y \in S : x >= y
  BY DEF Max
<1> HIDE DEF S
<1>3. Max(S) \in S /\ \A y \in S : Max(S) >= y
  BY <1>1, <1>2
<1>4. Max(S) \in Int /\ Max(S) >= 0
  BY <1>3 DEF S
<1> QED BY <1>4 DEF S

\* deposit: the tokens are credited and counted.
LEMMA DepositKeeps ==
  ASSUME IInv, NEW payer \in Traders, NEW a \in Accounts, NEW amount,
         amount.base \in Nat, amount.quote \in Nat, Deposit(payer, a, amount)
  PROVE  IInv' /\ Shrinks /\ ~is_expired_market
<1> DEFINE x == amount.base
           y == amount.quote
           r == AccountMarketSet(Loaded, a, Credit(Loaded.oo[a], x, y), AddDeposits(Loaded.mkt, x, y))
<1>1. /\ ~mkt.closed /\ oo[a].open /\ ~is_expired_market /\ KeepWorld
      /\ Commit(Deposited(a, amount)) /\ Transfer(payer, x, y, 0)
  BY DEF Deposit
<1>2. Loaded.ok = TRUE /\ Loaded.oo = oo /\ Loaded.mkt = mkt
  BY LoadedIs
<1>3. Deposited(a, amount) = r
  <2> HIDE DEF Loaded
  <2> QED BY <1>2 DEF Deposited, AccountMarketSet
<1>4. Working(Loaded, 0, 0, 0, 0, 0)
  BY LoadedWorking
<1>5. /\ Loaded.oo[a].base_free_native \in Int /\ Loaded.oo[a].base_free_native >= 0
      /\ Loaded.oo[a].quote_free_native \in Int /\ Loaded.oo[a].quote_free_native >= 0
  <2>1. Loaded.oo[a] \in AccountValues /\ Sound(Loaded.oo[a])
    BY <1>2, <1>4, WorkingParts
  <2> QED BY <2>1 DEF AccountValues, Sound
<1> HIDE DEF Loaded
<1>6. x \in Int /\ y \in Int /\ x = 0 + x /\ y = 0 + y
      /\ Loaded.oo[a].base_free_native + x >= 0 /\ Loaded.oo[a].quote_free_native + y >= 0
  BY <1>5
<1> HIDE DEF x, y
<1>7. CreditedBy(Loaded, 0, 0, 0, 0, 0, a, x, y, x, y, r)
  BY <1>1, <1>4, <1>6 DEF CreditedBy
<1>8. Working(r, 0, 0, 0 + x, 0 + y, 0)
  <2> HIDE DEF r
  <2> QED BY ONLY <1>7, CreditedOk
<1>9. Working(r, 0, 0, x, y, 0)
  BY <1>6, <1>8
<1>10. mkt.seq_num + 0 <= MaxSeqNum
  <2>1. mkt.seq_num \in Nat /\ mkt.seq_num <= MaxSeqNum
    BY <1>2, <1>4, WorkingParts DEF MarketValues, IInv
  <2> QED BY <2>1
<1> HIDE DEF r
<1>11. IInv' /\ Shrinks
  BY <1>1, <1>3, <1>6, <1>9, <1>10, FinishedPaid
<1> QED BY <1>1, <1>11

\* refill: what is missing is deposited.
LEMMA RefillKeeps ==
  ASSUME IInv, NEW payer \in Traders, NEW a \in Accounts, NEW amount \in DepositAmounts,
         Refill(payer, a, amount)
  PROVE  IInv' /\ Shrinks /\ ~is_expired_market
<1> DEFINE u == amount.base - oo[a].base_free_native
           v == amount.quote - oo[a].quote_free_native
           b == Max({0, u})
           q == Max({0, v})
           missing == [base |-> b, quote |-> q]
<1>1. Deposit(payer, a, missing)
  BY DEF Refill
<1>2. amount.base \in Nat /\ amount.quote \in Nat
  <2>1. amount \in TokenAmounts
    BY OpenBookAssumption
  <2> QED BY <2>1 DEF TokenAmounts
<1>3. oo[a].base_free_native \in Int /\ oo[a].quote_free_native \in Int
  <2>1. oo \in [Accounts -> AccountValues]
    BY LoadedIs, SaneParts DEF IInv
  <2>2. oo[a] \in AccountValues
    BY <2>1
  <2> QED BY <2>2 DEF AccountValues
<1>4. b \in Nat /\ q \in Nat
  <2>1. u \in Int /\ v \in Int
    BY <1>2, <1>3
  <2> HIDE DEF u, v
  <2> QED BY <2>1, MaxZero
<1>5. missing.base \in Nat /\ missing.quote \in Nat
  BY <1>4
<1> HIDE DEF missing
<1> QED BY <1>1, <1>5, DepositKeeps

\* What who has no account owes is paid to the vaults.
LEMMA MarketPaid ==
  ASSUME NEW s, NEW base, NEW quote, NEW db, NEW dq, NEW n, Working(s, base, quote, db, dq, n),
         s.ok, NEW r, r = MarketSet(s, AddDeposits(s.mkt, base, quote))
  PROVE  /\ Working(r, 0, 0, db + base, dq + quote, n)
         /\ db + base \in Int /\ dq + quote \in Int
<1> DEFINE m == AddDeposits(s.mkt, base, quote)
<1>1. /\ SeqOk /\ IsState(s) /\ s.ok \in BOOLEAN /\ base \in Int /\ quote \in Int /\ n \in Nat
      /\ Sane(s, s.heap, base, quote, NoLock, Totals(s.mkt)) /\ Frame(s, Totals(s.mkt))
      /\ s.mkt \in MarketValues /\ HeapOk(s.heap)
  BY WorkingParts
<1>2. /\ m \in MarketValues /\ m.seq_num = s.mkt.seq_num
      /\ m.time_expiry = s.mkt.time_expiry /\ m.closed = s.mkt.closed
      /\ m.base_deposit_total = s.mkt.base_deposit_total + base
      /\ m.quote_deposit_total = s.mkt.quote_deposit_total + quote
      /\ m.fees_available = s.mkt.fees_available
      /\ m.referrer_rebates_accrued = s.mkt.referrer_rebates_accrued
  BY <1>1, AddDepositsFacts
<1>3. r = MarketSet(s, m)
  OBVIOUS
<1> HIDE DEF m
<1>4. /\ IsState(r) /\ r.ok = s.ok /\ r.mkt = m /\ r.oo = s.oo
      /\ r.book = s.book /\ r.heap = s.heap
  <2>1. IsState(s) /\ r = MarketSet(s, m)
    BY <1>1, <1>3
  <2> QED BY ONLY <2>1, MarketSetIs
<1>5. /\ s.mkt.base_deposit_total \in Int /\ s.mkt.quote_deposit_total \in Int
      /\ s.mkt.fees_available \in Int /\ s.mkt.seq_num \in Nat
  BY <1>1 DEF MarketValues
<1>6. /\ Totals(m).ids = Totals(s.mkt).ids /\ Totals(m).ids = m.seq_num
      /\ TotalsOk(m, Totals(m))
  BY <1>2, <1>5 DEF Totals, TotalsOk
<1>7. /\ m.base_deposit_total + 0 = s.mkt.base_deposit_total + base
      /\ m.quote_deposit_total + 0 - m.fees_available
           = s.mkt.quote_deposit_total + quote - s.mkt.fees_available
  BY <1>1, <1>2, <1>5
<1>8. Sane(r, s.heap, 0, 0, NoLock, Totals(m))
  <2>1. /\ r.oo = s.oo /\ r.book = s.book /\ HeapOk(r.heap) /\ TotalsOk(r.mkt, Totals(m))
        /\ r.mkt.base_deposit_total + 0 = s.mkt.base_deposit_total + base
        /\ r.mkt.quote_deposit_total + 0 - r.mkt.fees_available
             = s.mkt.quote_deposit_total + quote - s.mkt.fees_available
        /\ r.mkt.referrer_rebates_accrued = s.mkt.referrer_rebates_accrued
        /\ Totals(m).ids = Totals(s.mkt).ids
    BY <1>1, <1>2, <1>4, <1>6, <1>7
  <2> QED BY <1>1, <2>1, MarketTouched
<1>9. Frame(r, Totals(m))
  BY <1>1, <1>2, <1>4, <1>6 DEF Frame
<1>10. Going(r, 0, 0)
  BY <1>1, <1>4, <1>8, <1>9 DEF Going, Good
<1>11. /\ mkt.base_deposit_total \in Int /\ mkt.quote_deposit_total \in Int
       /\ db \in Int /\ dq \in Int
       /\ s.mkt.base_deposit_total = mkt.base_deposit_total + db
       /\ s.mkt.quote_deposit_total = mkt.quote_deposit_total + dq
       /\ s.mkt.seq_num <= mkt.seq_num + n
  BY DEF Working
<1> DEFINE db2 == db + base
           dq2 == dq + quote
<1>12. /\ db2 \in Int /\ dq2 \in Int
       /\ m.base_deposit_total = mkt.base_deposit_total + db2
       /\ m.quote_deposit_total = mkt.quote_deposit_total + dq2
       /\ m.seq_num <= mkt.seq_num + n
  BY <1>1, <1>2, <1>11
<1> HIDE DEF db2, dq2
<1>13. Working(r, 0, 0, db2, dq2, n)
  BY <1>1, <1>4, <1>10, <1>11, <1>12 DEF Working
<1> QED BY <1>12, <1>13 DEF db2, dq2

\* place_take_order.
LEMMA PlaceTakeOrderKeeps ==
  ASSUME IInv, NEW t \in Takers, NEW args \in TakeArgs, NEW limit, NEW rem,
         PlaceTakeOrder(t, args, limit, rem)
  PROVE  IInv' /\ Shrinks /\ ~is_expired_market
<1> DEFINE order == OrderOf(args)
           Base(o) == IF args.side = "Bid" THEN -o.base ELSE o.base
           Quote(o) == IF args.side = "Bid" THEN o.quote + (o.taker_fees - o.referrer_amount)
                       ELSE -(o.quote - (o.taker_fees - o.referrer_amount))
           Done(o) == MarketSet(o.s, AddDeposits(o.s.mkt, Base(o), Quote(o)))
<1>1. /\ ~mkt.closed /\ ~is_expired_market /\ mkt.seq_num < MaxSeqNum /\ KeepWorld
  BY DEF PlaceTakeOrder
<1>2. PICK o : /\ o = new_order(Loaded, order, oracle, now, limit, t, rem)
               /\ Commit([o.s EXCEPT !.mkt = AddDeposits(@, Base(o), Quote(o))])
               /\ Transfer(t, Base(o), Quote(o), 0)
  BY DEF PlaceTakeOrder
<1>3. args \in FixedArgs /\ args.type \in TakeTypes
  BY OpenBookAssumption
<1>4. OrderOk(order) /\ order.side = args.side /\ order.type = args.type
  BY <1>3, OrderOfOk
<1>5. t \in Traders /\ t \notin Accounts
  BY OpenBookAssumption DEF Traders
<1>6. post_target(order) = NoTree
  BY <1>3, <1>4 DEF post_target, TakeTypes, PostTypes
<1> HIDE DEF order
<1>7. MayPlace(order, oracle, now, t)
  BY <1>4, <1>5, <1>6, WorldFacts DEF MayPlace
<1>8. Working(Loaded, 0, 0, 0, 0, 0)
  BY LoadedWorking
<1>9. /\ Working(o.s, 0 + PlacedBase(order.side, o, t), 0 + PlacedQuote(order.side, o, t), 0, 0, 0 + 1)
      /\ NumbersOk(o)
  BY <1>2, <1>7, <1>8, OrderWorks
<1>10. /\ o.base \in Int /\ o.quote \in Int /\ o.taker_fees \in Int /\ o.referrer_amount \in Int
  BY <1>9 DEF NumbersOk
<1>11. /\ 0 + PlacedBase(order.side, o, t) = Base(o) /\ 0 + PlacedQuote(order.side, o, t) = Quote(o)
  <2>1. args.side = "Bid" \/ args.side = "Ask"
    BY <1>4 DEF OrderOk, Sides
  <2>2. /\ PlacedBase(order.side, o, t) = IF args.side = "Ask" THEN o.base ELSE -o.base
        /\ PlacedQuote(order.side, o, t)
             = (o.taker_fees - o.referrer_amount) + (IF args.side = "Bid" THEN o.quote ELSE -o.quote)
    BY <1>4, <1>5 DEF PlacedBase, PlacedQuote
  <2> QED BY <1>10, <2>1, <2>2
<1> HIDE DEF Base, Quote
<1>12. Working(o.s, Base(o), Quote(o), 0, 0, 0 + 1)
  BY <1>9, <1>11
<1>13. [o.s EXCEPT !.mkt = AddDeposits(@, Base(o), Quote(o))] = Done(o)
  BY DEF MarketSet
<1>14. IsState(o.s)
  BY <1>12, WorkingParts
<1>15. Done(o).ok = o.s.ok
  <2> DEFINE m == AddDeposits(o.s.mkt, Base(o), Quote(o))
  <2> HIDE DEF m
  <2>1. MarketSet(o.s, m).ok = o.s.ok
    BY <1>14, MarketSetIs
  <2> QED BY <2>1 DEF m
<1> HIDE DEF Done
<1>16. Commit(Done(o)) /\ o.s.ok
  <2>1. Commit(Done(o))
    BY <1>2, <1>13
  <2> QED BY <1>15, <2>1 DEF Commit
<1>17. /\ Working(Done(o), 0, 0, 0 + Base(o), 0 + Quote(o), 0 + 1)
       /\ 0 + Base(o) \in Int /\ 0 + Quote(o) \in Int
  BY <1>12, <1>16, MarketPaid DEF Done
<1>18. Base(o) \in Int /\ Quote(o) \in Int
  BY <1>10 DEF Base, Quote
<1>19. Working(Done(o), 0, 0, Base(o), Quote(o), 0 + 1)
  BY <1>17, <1>18
<1>20. mkt.seq_num + (0 + 1) <= MaxSeqNum
  <2>1. mkt.seq_num \in Nat /\ MaxSeqNum \in Nat
    BY <1>8, OpenBookAssumption, WorkingParts DEF SeqOk
  <2> QED BY <1>1, <2>1
<1>21. IInv' /\ Shrinks
  <2>1. /\ Base(o) \in Int /\ Quote(o) \in Int /\ Working(Done(o), 0, 0, Base(o), Quote(o), 0 + 1)
        /\ Commit(Done(o)) /\ Transfer(t, Base(o), Quote(o), 0)
    BY <1>2, <1>16, <1>18, <1>19
  <2> QED BY <1>1, <1>5, <1>20, <2>1, FinishedPaid
<1> QED BY <1>1, <1>21

-----------------------------------------------------------------------------
(* cancel_order, cancel_all_orders and prune_orders keep the invariant. *)

\* The leaf found for an order of an account is the one in that slot.
LEMMA OrderLeaf ==
  ASSUME NEW s, NEW E, NEW base, NEW quote, NEW lock, NEW w, Sane(s, E, base, quote, lock, w),
         NEW a \in Accounts, NEW slot \in OrderSlots,
         NEW order, order = s.oo[a].open_orders[slot], NEW leaf \in LeafOf(s, order)
  PROVE  /\ order.side \in Sides /\ leaf \in s.book[order.side].leaves
         /\ leaf.owner = a /\ leaf.owner_slot = slot /\ leaf.quantity \in Nat
<1>1. /\ s.oo \in [Accounts -> AccountValues] /\ BookOk(s.book, OrdersOf(s.oo), w.ids)
      /\ Claims(s.oo, AllLeaves(s.book), E)
  BY DEF Sane, AccountsOk
<1>2. order.side \in Sides
  <2>1. s.oo[a] \in AccountValues
    BY <1>1
  <2>2. s.oo[a].open_orders \in [OrderSlots -> OrderValues]
    BY <2>1 DEF AccountValues
  <2>3. order \in OrderValues
    BY <2>2
  <2> QED BY <2>3 DEF OrderValues
<1>3. leaf \in s.book[order.side].leaves /\ leaf.id = order.id
  BY DEF LeafOf, LeavesOf
<1>4. leaf \in LeafValues
  <2>1. s.book[order.side].leaves \subseteq LeafValues
    BY <1>1, <1>2 DEF BookOk, SideOk
  <2> QED BY <1>3, <2>1
<1>5. leaf \in AllLeaves(s.book)
  BY <1>2, <1>3 DEF AllLeaves, Sides
<1>6. <<a, slot>> \in Places /\ OrdersOf(s.oo)[<<a, slot>>] = order
  BY DEF Places, OrdersOf
<1>7. <<a, slot>> = PlaceOfLeaf(leaf)
  <2>1. LeavesClaim(OrdersOf(s.oo), AllLeaves(s.book))
    BY <1>1 DEF Claims
  <2>2. \A l \in AllLeaves(s.book), p \in Places : OrdersOf(s.oo)[p].id = l.id => p = PlaceOfLeaf(l)
    BY <2>1 DEF LeavesClaim
  <2> QED BY <1>3, <1>5, <1>6, <2>2
<1>8. leaf.owner = a /\ leaf.owner_slot = slot
  BY <1>7 DEF PlaceOfLeaf
<1>9. leaf.quantity \in Nat
  BY <1>4 DEF LeafValues
<1> QED BY <1>2, <1>3, <1>8, <1>9

\* What cancelling leaves alone.
Drops(s, r) ==
  /\ IsState(r) /\ r.ok \in BOOLEAN
  /\ r.ok => /\ s.ok /\ r.mkt = s.mkt /\ r.heap = s.heap
             /\ \A side \in Sides : r.book[side].leaves \subseteq s.book[side].leaves

\* An order is cancelled.
LEMMA BookCancelOk ==
  ASSUME NEW s, NEW base, NEW quote, NEW db, NEW dq, NEW n, Working(s, base, quote, db, dq, n),
         NEW a \in Accounts, NEW slot \in OrderSlots,
         LeafOf(s, s.oo[a].open_orders[slot]) # {},
         NEW r, r = book_cancel_order(s, a, slot)
  PROVE  Working(r, base, quote, db, dq, n) /\ Drops(s, r)
<1> DEFINE order == s.oo[a].open_orders[slot]
           side == order.side
           leaf == CHOOSE l \in LeafOf(s, order) : TRUE
           t == CancelSlotOf(s, a, leaf.owner_slot, leaf.quantity)
<1>1. /\ SeqOk /\ IsState(s) /\ s.ok \in BOOLEAN /\ base \in Int /\ quote \in Int /\ n \in Nat
      /\ s.ok => /\ Sane(s, s.heap, base, quote, NoLock, Totals(s.mkt))
                 /\ Frame(s, Totals(s.mkt)) /\ HeapOk(s.heap)
  BY WorkingParts
<1>2. leaf \in LeafOf(s, order)
  OBVIOUS
<1>3. r = RemoveLeaf(t, side, leaf)
  BY DEF book_cancel_order
<1> HIDE DEF leaf, order
<1>4. IsState(t) /\ t.ok \in BOOLEAN /\ (t.ok => s.ok)
  BY <1>1, CancelSlotOfFields
<1> HIDE DEF t
<1>5. IsState(r) /\ r.ok = t.ok
  <2> HIDE DEF side
  <2>1. LeafGone(t, side, leaf, r)
    BY <1>3, <1>4, RemoveLeafFields
  <2> QED BY <2>1 DEF LeafGone
<1>6. ASSUME s.ok
      PROVE  /\ LeafLeft(s, side, leaf, r) /\ r.heap = s.heap
             /\ r.ok => Sane(r, s.heap, base, quote, NoLock, Totals(s.mkt))
             /\ Frame(r, Totals(s.mkt))
             /\ \A d \in Sides : r.book[d].leaves \subseteq s.book[d].leaves
  <2>1. Sane(s, s.heap, base, quote, NoLock, Totals(s.mkt)) /\ Frame(s, Totals(s.mkt)) /\ HeapOk(s.heap)
    BY <1>1, <1>6
  <2>2. side \in Sides /\ leaf \in s.book[side].leaves /\ leaf.owner = a /\ leaf.owner_slot = slot
    BY <1>2, <2>1, OrderLeaf DEF order
  <2> HIDE DEF side
  <2>3. r = RemoveLeaf(CancelSlotOf(s, leaf.owner, leaf.owner_slot, leaf.quantity), side, leaf)
    BY <1>3, <2>2 DEF t
  <2>4. 0 \notin DOMAIN s.heap
    BY <2>1, HeapFacts
  <2>5. /\ LeafLeft(s, side, leaf, r) /\ r.heap = s.heap
        /\ r.ok => Sane(r, s.heap, base, quote, NoLock, Totals(s.mkt))
    BY <1>1, <2>1, <2>2, <2>3, <2>4, LeafCancelled
  <2>6. BookOk(s.book, OrdersOf(s.oo), Totals(s.mkt).ids)
    BY <2>1 DEF Sane
  <2>7. Frame(r, Totals(s.mkt))
    BY <2>1, <2>2, <2>5, <2>6, LeftFrame
  <2>8. \A d \in Sides : r.book[d].leaves \subseteq s.book[d].leaves
    BY <2>2, <2>5, <2>6, BookLessLeaves DEF LeafLeft
  <2> QED BY <2>5, <2>7, <2>8
<1>7. r.ok => /\ s.ok /\ r.mkt = s.mkt /\ r.heap = s.heap
              /\ Sane(r, r.heap, base, quote, NoLock, Totals(r.mkt)) /\ Frame(r, Totals(r.mkt))
              /\ \A d \in Sides : r.book[d].leaves \subseteq s.book[d].leaves
  <2>1. r.ok => s.ok
    BY <1>4, <1>5
  <2>2. s.ok => r.mkt = s.mkt
    BY <1>6 DEF LeafLeft
  <2> QED BY <1>6, <2>1, <2>2
<1>8. Drops(s, r)
  BY <1>4, <1>5, <1>7 DEF Drops
<1>9. r.ok => /\ s.ok /\ Good(r, r.heap, base, quote, NoLock, Totals(r.mkt))
              /\ r.mkt.base_deposit_total = s.mkt.base_deposit_total
              /\ r.mkt.quote_deposit_total = s.mkt.quote_deposit_total
              /\ r.mkt.seq_num <= s.mkt.seq_num + 0
  <2>1. s.ok => s.mkt.seq_num \in Nat
    <3>1. s.ok => s.mkt \in MarketValues
      BY WorkingParts
    <3> QED BY <3>1 DEF MarketValues
  <2> QED BY <1>7, <2>1 DEF Good
<1>10. Working(r, base, quote, db, dq, n + 0)
  <2>1. IsState(r) /\ r.ok \in BOOLEAN /\ base \in Int /\ quote \in Int /\ 0 \in Nat
    BY <1>1, <1>4, <1>5
  <2> QED BY <1>9, <2>1, WorkingStep
<1>11. n + 0 = n
  BY <1>1
<1> QED BY <1>8, <1>10, <1>11

\* What a step drains if it is committed.
LEMMA DropsDrain ==
  ASSUME IInv, NEW r, Drops(Loaded, r), Commit(r)
  PROVE  Drains
<1>1. r.ok /\ mkt' = r.mkt /\ book' = r.book /\ heap' = r.heap
  BY DEF Commit
<1>2. r.mkt = mkt /\ r.heap = heap /\ \A side \in Sides : r.book[side].leaves \subseteq book[side].leaves
  BY <1>1, LoadedIs DEF Drops
<1>3. heap \in Seq(EventValues) /\ mkt \in MarketValues
  <2>1. HeapOk(heap) /\ mkt \in MarketValues
    BY LoadedIs, SaneParts DEF IInv
  <2> QED BY <2>1 DEF HeapOk
<1>4. Len(heap) \in Int /\ mkt.base_deposit_total \in Int /\ mkt.quote_deposit_total \in Int
  BY <1>3 DEF MarketValues
<1> QED BY <1>1, <1>2, <1>4 DEF Drains

\* An instruction that only cancels keeps the invariant.
LEMMA CancelledKeeps ==
  ASSUME IInv, NEW r, Working(r, 0, 0, 0, 0, 0), Drops(Loaded, r), Commit(r),
         ~mkt.closed, KeepWorld, KeepTokens
  PROVE  IInv' /\ Shrinks /\ Drains
<1>1. mkt.seq_num + 0 <= MaxSeqNum
  <2>1. mkt \in MarketValues
    BY LoadedIs, SaneParts DEF IInv
  <2>2. mkt.seq_num \in Nat /\ mkt.seq_num <= MaxSeqNum
    BY <2>1 DEF MarketValues, IInv
  <2> QED BY <2>2
<1>2. IInv' /\ Shrinks
  BY <1>1, FinishedUnpaid
<1> QED BY <1>2, DropsDrain

\* A step that drops leaves and events, and transfers nothing, keeps the invariant.
LEMMA CancelledPaid ==
  ASSUME IInv, NEW r, Working(r, 0, 0, 0, 0, 0), Drops(Loaded, r), Commit(r),
         ~mkt.closed, KeepWorld, NEW a \in Accounts, Transfer(a, 0, 0, 0)
  PROVE  IInv' /\ Shrinks /\ Drains
<1>1. mkt.seq_num + 0 <= MaxSeqNum
  <2>1. mkt \in MarketValues
    BY LoadedIs, SaneParts DEF IInv
  <2>2. mkt.seq_num \in Nat /\ mkt.seq_num <= MaxSeqNum
    BY <2>1 DEF MarketValues, IInv
  <2> QED BY <2>2
<1>2. a \in Traders
  BY DEF Traders
<1>3. IInv' /\ Shrinks
  BY <1>1, <1>2, FinishedPaid
<1> QED BY <1>3, DropsDrain

\* cancel_order.
LEMMA CancelOrderKeeps ==
  ASSUME IInv, NEW a \in Accounts, NEW slot \in OrderSlots, CancelOrder(a, slot)
  PROVE  IInv' /\ Shrinks /\ Drains
<1>1. /\ ~mkt.closed /\ KeepWorld /\ KeepTokens
      /\ LeafOf(Loaded, oo[a].open_orders[slot]) # {}
      /\ Commit(book_cancel_order(Loaded, a, slot))
  BY DEF CancelOrder
<1>2. Loaded.oo = oo
  BY LoadedIs
<1> DEFINE r == book_cancel_order(Loaded, a, slot)
<1>3. Working(Loaded, 0, 0, 0, 0, 0)
  BY LoadedWorking
<1>4. Working(r, 0, 0, 0, 0, 0) /\ Drops(Loaded, r)
  BY <1>1, <1>2, <1>3, BookCancelOk
<1> HIDE DEF r
<1> QED BY <1>1, <1>4, CancelledKeeps DEF r

-----------------------------------------------------------------------------
(* Cancelling all orders is a fold over the slots. *)

\* One order of cancel_all_orders.
CancelNextOf(a, wanted, c, slot) ==
  LET order == c.s.oo[a].open_orders[slot]
      leaves == LeafOf(c.s, order)
  IN  IF order.id = 0 \/ slot \notin wanted \/ c.limit = 0 THEN c
      ELSE IF leaves = {} THEN [c EXCEPT !.limit = @ - 1]
      ELSE [s |-> book_cancel_order(c.s, a, slot),
            limit |-> c.limit - 1,
            quantity |-> c.quantity + (CHOOSE l \in leaves : TRUE).quantity]

\* Cancelling a list of slots as an instance of the recursion: where it starts ...
CancelFirst(p) == [s |-> p.s, limit |-> p.limit, quantity |-> 0]
\* ... and one slot cancelled.
CancelRound(p, c, i) == With(c, LAMBDA d : CancelNextOf(p.a, p.wanted, d, p.slots[i]))
\* The instance whose fold these operators define.
Cancelling == INSTANCE Recursion WITH Start <- CancelFirst, Step <- CancelRound, Pick <- Max

\* What has been cancelled so far.
CancelsOk(s, base, quote, db, dq, n, c) ==
  /\ c = [s |-> c.s, limit |-> c.limit, quantity |-> c.quantity]
  /\ Working(c.s, base, quote, db, dq, n) /\ Drops(s, c.s)
  /\ c.s.ok => c.quantity \in Int

\* A record drops what the one before it dropped.
LEMMA DropsMore ==
  ASSUME NEW s, NEW t, Drops(s, t), NEW r, Drops(t, r)
  PROVE  Drops(s, r)
BY DEF Drops

\* Each round cancels an order, or none.
LEMMA CancelNextOk ==
  ASSUME NEW s, NEW base, NEW quote, NEW db, NEW dq, NEW n, NEW c,
         CancelsOk(s, base, quote, db, dq, n, c),
         NEW a \in Accounts, NEW wanted, NEW slot \in OrderSlots,
         NEW r, r = CancelNextOf(a, wanted, c, slot)
  PROVE  CancelsOk(s, base, quote, db, dq, n, r)
<1> DEFINE t == c.s
           order == t.oo[a].open_orders[slot]
           leaves == LeafOf(t, order)
           leaf == CHOOSE l \in leaves : TRUE
           u == book_cancel_order(t, a, slot)
           limit == c.limit
           sum == c.quantity + leaf.quantity
<1>0. /\ c = [s |-> t, limit |-> limit, quantity |-> c.quantity]
      /\ Working(t, base, quote, db, dq, n) /\ Drops(s, t) /\ (t.ok => c.quantity \in Int)
  BY DEF CancelsOk
<1>1. CASE order.id = 0 \/ slot \notin wanted \/ limit = 0
  <2>1. r = c
    BY <1>1 DEF CancelNextOf
  <2> QED BY <2>1
<1>2. CASE ~(order.id = 0 \/ slot \notin wanted \/ limit = 0) /\ leaves = {}
  <2>1. r = [c EXCEPT !.limit = limit - 1]
    BY <1>2 DEF CancelNextOf
  <2> HIDE DEF t, limit
  <2>2. /\ r.s = t /\ r.quantity = c.quantity
        /\ r = [s |-> r.s, limit |-> r.limit, quantity |-> r.quantity]
    BY <1>0, <2>1
  <2> QED BY <1>0, <2>2 DEF CancelsOk
<1>3. CASE ~(order.id = 0 \/ slot \notin wanted \/ limit = 0) /\ leaves # {}
  <2>1. r = [s |-> u, limit |-> limit - 1, quantity |-> sum]
    BY <1>3 DEF CancelNextOf
  <2>2. Working(u, base, quote, db, dq, n) /\ Drops(t, u)
    BY <1>0, <1>3, BookCancelOk
  <2>3. u.ok => t.ok
    <3> HIDE DEF u, t
    <3> QED BY <2>2 DEF Drops
  <2>4. t.ok => leaf.quantity \in Int
    <3>1. t.ok => Sane(t, t.heap, base, quote, NoLock, Totals(t.mkt))
      BY <1>0, WorkingParts
    <3>2. leaf \in LeafOf(t, order)
      BY <1>3
    <3> HIDE DEF leaf
    <3>3. t.ok => leaf.quantity \in Nat
      BY <3>1, <3>2, OrderLeaf
    <3> QED BY <3>3
  <2>5. u.ok => sum \in Int
    <3> HIDE DEF u, leaf, t
    <3> QED BY <1>0, <2>3, <2>4
  <2>6. Drops(s, u)
    BY <1>0, <2>2, DropsMore
  <2> HIDE DEF u, sum, limit
  <2>7. r.s = u /\ r.quantity = sum /\ r = [s |-> r.s, limit |-> r.limit, quantity |-> r.quantity]
    BY <2>1
  <2> QED BY <2>2, <2>5, <2>6, <2>7 DEF CancelsOk
<1> QED BY <1>1, <1>2, <1>3

\* The fold over some slots.
CancelOver(s, a, limit, wanted, slots) ==
  FoldLeft(LAMBDA c, slot : With(c, LAMBDA d : CancelNextOf(a, wanted, d, slot)),
           [s |-> s, limit |-> limit, quantity |-> 0], slots)

\* The fold of the model is the fold of the instance.
LEMMA CancelOverIs ==
  ASSUME NEW s, NEW a, NEW limit, NEW wanted, NEW slots
  PROVE  LET p == [s |-> s, a |-> a, limit |-> limit, wanted |-> wanted, slots |-> slots]
         IN  CancelOver(s, a, limit, wanted, slots) = Cancelling!Fold(p, DOMAIN slots)
BY DEF CancelOver, FoldLeft, MapThenFoldSet, Cancelling!Fold, CancelFirst, CancelRound, With

\* cancel_all_orders is the fold over all of them.
LEMMA CancelAllIs ==
  ASSUME NEW s, NEW a, NEW limit, NEW wanted
  PROVE  book_cancel_all(s, a, limit, wanted)
           = CancelOver(s, a, limit, wanted, [i \in 1 .. MAX_OPEN_ORDERS |-> i - 1])
BY DEF book_cancel_all, CancelOver, CancelNextOf

\* All orders that are wanted and found are cancelled, up to the limit.
LEMMA BookCancelAllOk ==
  ASSUME NEW s, NEW base, NEW quote, NEW db, NEW dq, NEW n, Working(s, base, quote, db, dq, n),
         NEW a \in Accounts, NEW limit, NEW wanted,
         NEW c, c = book_cancel_all(s, a, limit, wanted)
  PROVE  CancelsOk(s, base, quote, db, dq, n, c)
<1> DEFINE slots == [i \in 1 .. MAX_OPEN_ORDERS |-> i - 1]
           p == [s |-> s, a |-> a, limit |-> limit, wanted |-> wanted, slots |-> slots]
           last == MAX_OPEN_ORDERS
           at(k) == Cancelling!Fold(p, 1 .. k)
<1>1. last \in Nat /\ DOMAIN slots = 1 .. last /\ \A i \in 1 .. last : slots[i] \in OrderSlots
  BY OpenOrdersAssumption DEF OrderSlots
<1>2. c = Cancelling!Fold(p, DOMAIN slots)
  <2>1. c = CancelOver(s, a, limit, wanted, slots)
    BY CancelAllIs
  <2> HIDE DEF slots
  <2> QED BY <2>1, CancelOverIs
<1>3. p.s = s /\ p.limit = limit /\ p.a = a /\ p.wanted = wanted /\ p.slots = slots
  OBVIOUS
<1> HIDE DEF p, slots, last
<1>4. /\ Cancelling!Fold(p, 1 .. 0) = CancelFirst(p)
      /\ \A k \in 1 .. last : Cancelling!Fold(p, 1 .. k)
                                = CancelRound(p, Cancelling!Fold(p, 1 .. (k - 1)), k)
  <2>1. \A T \in SUBSET (1 .. last) : T # {} => Max(T) \in T /\ \A y \in T : y <= Max(T)
    BY <1>1, MaxFacts
  <2> QED BY <1>1, <2>1, Cancelling!FoldInTurn
<1> DEFINE S == {k \in Nat : k <= last => CancelsOk(s, base, quote, db, dq, n, at(k))}
<1>5. 0 \in S
  <2>1. at(0) = [s |-> s, limit |-> limit, quantity |-> 0]
    BY <1>3, <1>4 DEF CancelFirst
  <2>2. IsState(s) /\ s.ok \in BOOLEAN
    BY WorkingParts
  <2>3. Drops(s, s)
    BY <2>2 DEF Drops
  <2> HIDE DEF at
  <2>4. CancelsOk(s, base, quote, db, dq, n, at(0))
    BY <2>1, <2>3 DEF CancelsOk
  <2> QED BY <2>4
<1>6. ASSUME NEW k \in Nat, k \in S
      PROVE  k + 1 \in S
  <2>1. CASE k + 1 <= last
    <3>1. k + 1 \in 1 .. last /\ k + 1 - 1 = k /\ CancelsOk(s, base, quote, db, dq, n, at(k))
      BY <1>1, <1>6, <2>1
    <3>2. at(k + 1) = CancelRound(p, at(k), k + 1)
      BY <1>4, <3>1
    <3> HIDE DEF at
    <3>3. at(k + 1) = CancelNextOf(a, wanted, at(k), slots[k + 1])
      BY <1>3, <3>2 DEF CancelRound, With
    <3>4. slots[k + 1] \in OrderSlots
      BY <1>1, <3>1
    <3>5. CancelsOk(s, base, quote, db, dq, n, at(k + 1))
      BY <3>1, <3>3, <3>4, CancelNextOk
    <3> QED BY <3>5
  <2>2. CASE ~(k + 1 <= last)
    BY <2>2
  <2> QED BY <2>1, <2>2
<1>7. last \in S
  <2> HIDE DEF S
  <2> QED BY <1>1, <1>5, <1>6, NatInd
<1>8. CancelsOk(s, base, quote, db, dq, n, at(last))
  BY <1>1, <1>7
<1> HIDE DEF at
<1> QED BY <1>1, <1>2, <1>8 DEF at

\* cancel_all_orders by side, cancel_order_by_client_order_id, prune_orders.
LEMMA CancelAllKeeps ==
  ASSUME IInv, NEW a \in Accounts, NEW limit, NEW wanted,
         Commit(book_cancel_all(Loaded, a, limit, wanted).s), ~mkt.closed, KeepWorld, KeepTokens
  PROVE  IInv' /\ Shrinks /\ Drains
<1> DEFINE c == book_cancel_all(Loaded, a, limit, wanted)
<1>1. Working(Loaded, 0, 0, 0, 0, 0)
  BY LoadedWorking
<1>2. CancelsOk(Loaded, 0, 0, 0, 0, 0, c)
  BY <1>1, BookCancelAllOk
<1>3. Commit(c.s)
  OBVIOUS
<1> HIDE DEF c
<1>4. Working(c.s, 0, 0, 0, 0, 0) /\ Drops(Loaded, c.s)
  BY <1>2 DEF CancelsOk
<1> QED BY <1>3, <1>4, CancelledKeeps

\* cancel_all_orders.
LEMMA CancelAllOrdersKeeps ==
  ASSUME IInv, NEW a \in Accounts, NEW sides, NEW limit, CancelAllOrders(a, sides, limit)
  PROVE  IInv' /\ Shrinks /\ Drains
<1> DEFINE wanted == {slot \in OrderSlots : oo[a].open_orders[slot].side \in sides}
<1>1. Commit(book_cancel_all(Loaded, a, limit, wanted).s) /\ ~mkt.closed /\ KeepWorld /\ KeepTokens
  BY DEF CancelAllOrders
<1> HIDE DEF wanted
<1> QED BY <1>1, CancelAllKeeps

\* cancel_order_by_client_order_id.
LEMMA CancelByClientIdKeeps ==
  ASSUME IInv, NEW a \in Accounts, NEW client_id, CancelOrderByClientOrderId(a, client_id)
  PROVE  IInv' /\ Shrinks /\ Drains
<1> DEFINE wanted == {slot \in OrderSlots : Loaded.oo[a].open_orders[slot].client_id = client_id}
<1>1. Commit(CancelByClientId(Loaded, a, client_id).s) /\ ~mkt.closed /\ KeepWorld /\ KeepTokens
  BY DEF CancelOrderByClientOrderId
<1>2. CancelByClientId(Loaded, a, client_id) = book_cancel_all(Loaded, a, MAX_OPEN_ORDERS, wanted)
  BY DEF CancelByClientId
<1> HIDE DEF wanted
<1>3. Commit(book_cancel_all(Loaded, a, MAX_OPEN_ORDERS, wanted).s)
  BY <1>1, <1>2
<1> QED BY <1>1, <1>3, CancelAllKeeps

\* prune_orders.
LEMMA PruneOrdersKeeps ==
  ASSUME IInv, NEW a \in Accounts, NEW limit, PruneOrders(a, limit)
  PROVE  IInv' /\ Shrinks /\ Drains
<1>1. Commit(book_cancel_all(Loaded, a, limit, OrderSlots).s) /\ ~mkt.closed /\ KeepWorld /\ KeepTokens
  BY DEF PruneOrders
<1> QED BY <1>1, CancelAllKeeps

-----------------------------------------------------------------------------
(* edit_order and cancel_all_and_place_orders keep the invariant. *)

\* An order in an instruction that failed fails.
LEMMA NewOrderFails ==
  ASSUME NEW s, IsState(s), s.ok = FALSE, NEW order, NEW px, NEW time, NEW limit, NEW me, NEW rem,
         NEW o, o = new_order(s, order, px, time, limit, me, rem)
  PROVE  IsState(o.s) /\ o.s.ok = FALSE
<1> DEFINE t == gen_order_id(s)
           price_lots == order_price(order, t.book, px, time)
<1>1. IsState(t) /\ t.ok = FALSE
  <2> DEFINE k == NextSeq(s.mkt)
  <2>1. t = MarketSet(s, k)
    BY DEF gen_order_id, MarketSet, NextSeq
  <2> HIDE DEF t, k
  <2>2. IsState(t) /\ t.ok = s.ok
    BY <2>1, MarketSetIs
  <2> QED BY <2>2
<1>2. o = Refused(t) \/ t.ok
  BY NewOrderIs
<1> HIDE DEF t
<1>3. o = Refused(t)
  BY <1>1, <1>2
<1> QED BY <1>1, <1>3, RefusedFields

\* So does one that is paid for at once.
LEMMA PlaceOrderFails ==
  ASSUME NEW s, IsState(s), s.ok = FALSE, NEW a, NEW order, NEW limit, NEW rem,
         NEW r, r = place_order(s, a, order, limit, rem)
  PROVE  r.s.ok = FALSE
<1> DEFINE o == new_order(s, order, oracle, now, limit, a, rem)
           h == Len(s.heap)
           q == Penalise(o.s, h, a)
           cost == Cost(order.side, o)
           p == Pay(q, a, cost)
           fresh == p.s.ok /\ ~is_expired_market
<1>1. r = Unexpired(p)
  BY PlaceOrderIs
<1>2. IsState(o.s) /\ o.s.ok = FALSE
  BY NewOrderFails
<1> HIDE DEF o, h, cost
<1>3. IsState(q) /\ q.ok = FALSE
  <2> DEFINE acc == [o.s.oo[a] EXCEPT !.penalty_heap_count
                       = o.s.oo[a].penalty_heap_count + (IF Len(o.s.heap) > h THEN 1 ELSE 0)]
  <2>1. q = AccountSet(o.s, a, acc)
    BY DEF Penalise, AccountSet
  <2> HIDE DEF q, acc
  <2>2. /\ IsState(q) /\ q.ok = o.s.ok /\ q.mkt = o.s.mkt /\ q.oo = [o.s.oo EXCEPT ![a] = acc]
        /\ q.book = o.s.book /\ q.heap = o.s.heap
    BY <1>2, <2>1, AccountSetIs
  <2> QED BY <1>2, <2>2
<1> HIDE DEF q
<1>4. IsState(p.s) /\ p.s.ok = FALSE
  <2> DEFINE fb == Min({cost.base, q.oo[a].base_free_native})
             fq == Min({cost.quote, q.oo[a].quote_free_native})
             acc == Credit(q.oo[a], -fb, -fq)
             m == AddDeposits(q.mkt, cost.base - fb, cost.quote - fq)
  <2>1. p.s = AccountMarketSet(q, a, acc, m)
    BY DEF Pay, AccountMarketSet
  <2> HIDE DEF p, acc, m
  <2>2. /\ IsState(p.s) /\ p.s.ok = q.ok /\ p.s.mkt = m /\ p.s.oo = [q.oo EXCEPT ![a] = acc]
        /\ p.s.book = q.book /\ p.s.heap = q.heap
    BY <1>3, <2>1, AccountMarketSetIs
  <2> QED BY <1>3, <2>2
<1>5. r.s = OkSet(p.s, fresh)
  BY <1>1, <1>3, <1>4, UnexpiredFields
<1> HIDE DEF p
<1>6. r.s.ok = fresh
  <2> HIDE DEF fresh
  <2> QED BY <1>4, <1>5, OkSetIs
<1> QED BY <1>4, <1>6

\* An order of another size.
Resized(order, lots, quote_lots) ==
  [order EXCEPT !.max_base_lots = lots, !.max_quote_lots_including_fees = quote_lots]

\* An order with all its fields and nothing else.
IsOrder(order) ==
  order = [side |-> order.side, type |-> order.type, price |-> order.price,
           max_base_lots |-> order.max_base_lots,
           max_quote_lots_including_fees |-> order.max_quote_lots_including_fees,
           client_id |-> order.client_id, time_in_force |-> order.time_in_force,
           self_trade_behavior |-> order.self_trade_behavior,
           pegged |-> order.pegged, peg_limit |-> order.peg_limit]

\* Sizing an order to what its owner can pay keeps it well formed.
LEMMA ResizedOk ==
  ASSUME NEW order, OrderOk(order), IsOrder(order), NEW lots \in Nat, NEW quote_lots \in Nat,
         NEW new, new = Resized(order, lots, quote_lots)
  PROVE  OrderOk(new) /\ new.side = order.side
<1>1. /\ new.side = order.side /\ new.price = order.price
      /\ new.max_base_lots = lots /\ new.max_quote_lots_including_fees = quote_lots
      /\ new.client_id = order.client_id /\ new.time_in_force = order.time_in_force
      /\ new.pegged = order.pegged /\ new.peg_limit = order.peg_limit
  BY DEF Resized, IsOrder
<1> QED BY <1>1 DEF OrderOk

\* edit_order places what was not filled of the order before.
LEMMA EditPlaces ==
  ASSUME IInv, NEW a \in Accounts, oo[a].open, ~mkt.closed, mkt.seq_num < MaxSeqNum, KeepWorld,
         NEW args \in OrderArgs, NEW c, CancelsOk(Loaded, 0, 0, 0, 0, 0, c),
         NEW filled_amount, c.s.ok => filled_amount \in Int, args.max_base_lots > filled_amount,
         NEW order, order = [OrderOf(args) EXCEPT !.max_base_lots = @ - filled_amount],
         NEW limit, NEW rem, NEW r, r = place_order(c.s, a, order, limit, rem),
         Commit(r.s), Transfer(a, r.deposit.base, r.deposit.quote, 0)
  PROVE  IInv' /\ Shrinks /\ ~is_expired_market
<1> DEFINE old == OrderOf(args)
           lots == old.max_base_lots - filled_amount
<1>1. Working(c.s, 0, 0, 0, 0, 0)
  BY DEF CancelsOk
<1>2. IsState(c.s) /\ c.s.ok \in BOOLEAN
  BY <1>1, WorkingParts
<1>3. r.s.ok
  BY DEF Commit
<1>4. c.s.ok
  <2>1. ASSUME c.s.ok = FALSE PROVE FALSE
    BY <1>2, <1>3, <2>1, PlaceOrderFails
  <2> QED BY <1>2, <2>1
<1>5. OrderOk(old) /\ IsOrder(old) /\ old.max_base_lots = args.max_base_lots
  BY OrderOfOk, OpenBookAssumption DEF IsOrder
<1> HIDE DEF old
<1>6. lots \in Nat /\ old.max_quote_lots_including_fees \in Nat
  <2>1. old.max_base_lots \in Nat /\ old.max_quote_lots_including_fees \in Nat
    BY <1>5 DEF OrderOk
  <2> QED BY <1>4, <1>5, <2>1
<1>7. order = Resized(old, lots, old.max_quote_lots_including_fees)
  BY <1>5 DEF Resized, IsOrder, old
<1> HIDE DEF lots
<1>8. OrderOk(order)
  BY <1>5, <1>6, <1>7, ResizedOk
<1>9. /\ Working(r.s, 0, 0, r.deposit.base, r.deposit.quote, 0 + 1)
      /\ r.s.ok => /\ ~is_expired_market
                   /\ r.deposit.base \in Int /\ r.deposit.quote \in Int
  BY <1>1, <1>8, PlaceOrderWorks
<1>10. mkt.seq_num + (0 + 1) <= MaxSeqNum
  <2>1. mkt.seq_num \in Nat /\ MaxSeqNum \in Nat
    BY <1>1, OpenBookAssumption, WorkingParts DEF SeqOk
  <2> QED BY <2>1
<1>11. a \in Traders
  BY DEF Traders
<1>12. IInv' /\ Shrinks
  <2>1. /\ r.deposit.base \in Int /\ r.deposit.quote \in Int
        /\ Working(r.s, 0, 0, r.deposit.base, r.deposit.quote, 0 + 1)
    BY <1>3, <1>9
  <2> QED BY <1>10, <1>11, <2>1, FinishedPaid
<1> QED BY <1>3, <1>9, <1>12

\* edit_order.
LEMMA EditOrderKeeps ==
  ASSUME IInv, NEW a \in Accounts, NEW client_id, NEW size \in CancelSizes, NEW args \in OrderArgs,
         NEW limit, NEW rem, EditOrder(a, client_id, size, args, limit, rem)
  PROVE  IInv' /\ Shrinks /\ (is_expired_market => Drains)
<1> DEFINE c == CancelByClientId(Loaded, a, client_id)
           filled_amount == size - c.quantity
           old == OrderOf(args)
           order == [old EXCEPT !.max_base_lots = @ - filled_amount]
           nothing == [s |-> c.s, deposit |-> [base |-> 0, quote |-> 0]]
           wanted == {slot \in OrderSlots : Loaded.oo[a].open_orders[slot].client_id = client_id}
<1>1. PICK r : /\ r = edit_order(c, a, size, old, limit, rem)
               /\ Commit(r.s) /\ Transfer(a, r.deposit.base, r.deposit.quote, 0)
               /\ ~mkt.closed /\ oo[a].open /\ mkt.seq_num < MaxSeqNum /\ KeepWorld
  BY DEF EditOrder
<1>2. r = IF filled_amount > 0 /\ old.max_base_lots > filled_amount
          THEN place_order(c.s, a, order, limit, rem) ELSE nothing
  <2> HIDE DEF c, old
  <2> QED BY <1>1 DEF edit_order
<1>3. old.max_base_lots = args.max_base_lots
  BY OrderOfOk, OpenBookAssumption
<1>4. c = book_cancel_all(Loaded, a, MAX_OPEN_ORDERS, wanted)
  BY DEF CancelByClientId
<1> HIDE DEF wanted, c, order
<1>5. Working(Loaded, 0, 0, 0, 0, 0)
  BY LoadedWorking
<1>6. CancelsOk(Loaded, 0, 0, 0, 0, 0, c)
  BY <1>4, <1>5, BookCancelAllOk
<1>7. c.s.ok => filled_amount \in Int
  <2>1. size \in Int
    BY OpenBookAssumption
  <2>2. c.s.ok => c.quantity \in Int
    BY <1>6 DEF CancelsOk
  <2> QED BY <2>1, <2>2
<1> HIDE DEF filled_amount
<1>8. CASE filled_amount > 0 /\ args.max_base_lots > filled_amount
  <2>1. r = place_order(c.s, a, order, limit, rem)
    BY <1>2, <1>3, <1>8
  <2> QED BY <1>1, <1>6, <1>7, <1>8, <2>1, EditPlaces DEF order, old
<1>9. CASE ~(filled_amount > 0 /\ args.max_base_lots > filled_amount)
  <2>1. r.s = c.s /\ r.deposit.base = 0 /\ r.deposit.quote = 0
    BY <1>2, <1>3, <1>9
  <2>2. Commit(c.s) /\ Transfer(a, 0, 0, 0)
    BY <1>1, <2>1
  <2>3. Working(c.s, 0, 0, 0, 0, 0) /\ Drops(Loaded, c.s)
    BY <1>6 DEF CancelsOk
  <2> QED BY <1>1, <2>2, <2>3, CancelledPaid
<1> QED BY <1>8, <1>9

\* What the funds for the next order of a batch are, and the order cut to them.
BaseLeft(a, p) == wallet[a].base + p.s.oo[a].base_free_native - p.cost.base
\* What a batch's owner has left, and an order sized to it.
QuoteLeft(a, p) == wallet[a].quote + p.s.oo[a].quote_free_native - p.cost.quote
\* An order sized to what is left.
Sized(a, p, order) ==
  IF order.side = "Bid"
  THEN Resized(order, MaxBaseLots,
               Min({order.max_quote_lots_including_fees, QuoteLeft(a, p) \div quote_lot_size}))
  ELSE Resized(order, Min({MaxBaseLots, BaseLeft(a, p) \div base_lot_size}),
               order.max_quote_lots_including_fees)
\* What is left is not negative.
Affordable(a, p, order) == (IF order.side = "Bid" THEN QuoteLeft(a, p) ELSE BaseLeft(a, p)) >= 0

\* A batch after one more order.
Placed(p, side, o) ==
  [s |-> o.s, cost |-> [base |-> p.cost.base + Cost(side, o).base,
                        quote |-> p.cost.quote + Cost(side, o).quote]]

\* An order cut to size.
LEMMA SizedIs ==
  ASSUME NEW a, NEW p, NEW order, IsOrder(order)
  PROVE  Sized(a, p, order) =
           IF order.side = "Bid"
           THEN [order EXCEPT !.max_base_lots = MaxBaseLots,
                              !.max_quote_lots_including_fees =
                                 Min({@, QuoteLeft(a, p) \div quote_lot_size})]
           ELSE [order EXCEPT !.max_base_lots =
                                 Min({MaxBaseLots, BaseLeft(a, p) \div base_lot_size})]
<1> DEFINE m == Min({order.max_quote_lots_including_fees, QuoteLeft(a, p) \div quote_lot_size})
           k == Min({MaxBaseLots, BaseLeft(a, p) \div base_lot_size})
           u == [order EXCEPT !.max_base_lots = MaxBaseLots, !.max_quote_lots_including_fees = m]
           v == [order EXCEPT !.max_base_lots = k]
<1>1. [order EXCEPT !.max_base_lots = MaxBaseLots,
                    !.max_quote_lots_including_fees = Min({@, QuoteLeft(a, p) \div quote_lot_size})] = u
  OBVIOUS
<1>2. v = Resized(order, k, order.max_quote_lots_including_fees)
  <2> HIDE DEF k
  <2> QED BY DEF Resized, IsOrder
<1>3. u = Resized(order, MaxBaseLots, m)
  BY DEF Resized
<1> HIDE DEF u
<1> QED BY <1>1, <1>2, <1>3 DEF Sized

\* An order of a batch fails or is placed.
LEMMA PlaceNextIs ==
  ASSUME NEW a, NEW p, NEW order, IsOrder(order), NEW limit, NEW rem,
         NEW o, o = new_order(p.s, Sized(a, p, order), oracle, now, limit, a, rem),
         NEW r, r = PlaceNext(a, p, order, limit, rem)
  PROVE  \/ r = [p EXCEPT !.s.ok = FALSE]
         \/ p.s.ok /\ Affordable(a, p, order) /\ r = Placed(p, order.side, o)
<1> DEFINE sized == Sized(a, p, order)
           After(x) == Placed(p, order.side, x)
           Then(z) == With(new_order(p.s, z, oracle, now, limit, a, rem), LAMBDA x : After(x))
<1>1. r = IF ~p.s.ok \/ ~Affordable(a, p, order) THEN [p EXCEPT !.s.ok = FALSE]
          ELSE With(sized, LAMBDA z : Then(z))
  <2> DEFINE raw == IF order.side = "Bid"
                    THEN [order EXCEPT !.max_base_lots = MaxBaseLots,
                              !.max_quote_lots_including_fees =
                                 Min({@, QuoteLeft(a, p) \div quote_lot_size})]
                    ELSE [order EXCEPT !.max_base_lots =
                                 Min({MaxBaseLots, BaseLeft(a, p) \div base_lot_size})]
  <2>1. sized = raw
    BY SizedIs
  <2>2. r = IF ~p.s.ok \/ ~Affordable(a, p, order) THEN [p EXCEPT !.s.ok = FALSE]
            ELSE With(raw, LAMBDA z : Then(z))
    BY DEF PlaceNext, Available, Affordable, QuoteLeft, BaseLeft, Placed
  <2>3. With(raw, LAMBDA z : Then(z)) = With(sized, LAMBDA z : Then(z))
    <3> HIDE DEF raw, sized, Then
    <3> QED BY <2>1 DEF With
  <2> HIDE DEF raw, sized, Then
  <2> QED BY <2>2, <2>3
<1>2. With(sized, LAMBDA z : Then(z)) = Then(sized)
  <2> HIDE DEF Then, sized
  <2> QED BY DEF With
<1>3. Then(sized) = After(o)
  <2> HIDE DEF After
  <2> QED BY DEF With
<1> HIDE DEF Then, sized
<1>4. CASE ~p.s.ok \/ ~Affordable(a, p, order)
  BY <1>1, <1>4
<1>5. CASE ~(~p.s.ok \/ ~Affordable(a, p, order))
  BY <1>1, <1>2, <1>3, <1>5
<1> QED BY <1>4, <1>5

\* An order of a batch that can be paid for has a size.
LEMMA SizedOk ==
  ASSUME NEW a, NEW p, BaseLeft(a, p) \in Int, QuoteLeft(a, p) \in Int,
         NEW order, OrderOk(order), IsOrder(order), Affordable(a, p, order)
  PROVE  OrderOk(Sized(a, p, order)) /\ Sized(a, p, order).side = order.side
<1>1. /\ order.max_base_lots \in Nat /\ order.max_quote_lots_including_fees \in Nat
      /\ MaxBaseLots \in Nat
      /\ quote_lot_size \in Nat \ {0} /\ base_lot_size \in Nat \ {0}
  BY OpenBookAssumption, FeeAssumption DEF OrderOk
<1>2. CASE order.side = "Bid"
  <2> DEFINE u == QuoteLeft(a, p) \div quote_lot_size
             given == order.max_quote_lots_including_fees
             m == Min({given, u})
  <2>1. QuoteLeft(a, p) >= 0
    BY <1>2 DEF Affordable
  <2>2. u \in Int /\ u >= 0
    BY <1>1, <2>1, DivFacts
  <2> HIDE DEF u
  <2>3. m \in {given, u} /\ m <= given /\ m <= u
    <3>1. given \in Int /\ u \in Int
      BY <1>1, <2>2
    <3> HIDE DEF given
    <3> QED BY <3>1, Min2
  <2>4. m \in Nat
    BY <1>1, <2>2, <2>3
  <2>5. Sized(a, p, order) = Resized(order, MaxBaseLots, m)
    BY <1>2 DEF Sized, u
  <2> HIDE DEF m
  <2> QED BY <1>1, <2>4, <2>5, ResizedOk
<1>3. CASE order.side # "Bid"
  <2> DEFINE u == BaseLeft(a, p) \div base_lot_size
             m == Min({MaxBaseLots, u})
  <2>1. BaseLeft(a, p) >= 0
    BY <1>3 DEF Affordable
  <2>2. u \in Int /\ u >= 0
    BY <1>1, <2>1, DivFacts
  <2> HIDE DEF u
  <2>3. m \in {MaxBaseLots, u}
    BY <1>1, <2>2, Min2
  <2>4. m \in Nat
    BY <1>1, <2>2, <2>3
  <2>5. Sized(a, p, order) = Resized(order, m, order.max_quote_lots_including_fees)
    BY <1>3 DEF Sized, u
  <2> HIDE DEF m
  <2> QED BY <1>1, <2>4, <2>5, ResizedOk
<1> QED BY <1>2, <1>3

-----------------------------------------------------------------------------
(* Placing a batch is a fold over it. *)

\* One set of arguments of a batch; what is late is skipped.
PlaceArgsOf(a, limit, rem, p, args) ==
  IF IsLate(args) THEN p ELSE PlaceNext(a, p, OrderOf(args), limit, rem)

\* A batch of orders as an instance of the recursion: where it starts ...
BatchFirst(q) == q.start
\* ... and one order placed.
BatchRound(q, p, i) == PlaceArgsOf(q.a, q.limit, q.rem, p, q.batch[i])
\* The instance whose fold these operators define.
Placing == INSTANCE Recursion WITH Start <- BatchFirst, Step <- BatchRound, Pick <- Max

\* What has been placed so far, at most k orders.
BatchOk(p, k) ==
  /\ p = [s |-> p.s, cost |-> [base |-> p.cost.base, quote |-> p.cost.quote]]
  /\ Working(p.s, p.cost.base, p.cost.quote, 0, 0, k)

\* A batch whose transaction failed.
LEMMA BatchFailed ==
  ASSUME NEW p, NEW k, BatchOk(p, k), NEW r, r = [p EXCEPT !.s.ok = FALSE]
  PROVE  BatchOk(r, k)
<1> DEFINE s == p.s
           cost == p.cost
           t == OkSet(s, FALSE)
<1>1. p = [s |-> s, cost |-> cost] /\ cost = [base |-> cost.base, quote |-> cost.quote]
  BY DEF BatchOk
<1>2. Working(s, cost.base, cost.quote, 0, 0, k)
  BY DEF BatchOk
<1>3. /\ SeqOk /\ IsState(s) /\ s.ok \in BOOLEAN /\ cost.base \in Int /\ cost.quote \in Int /\ k \in Nat
  BY <1>2, WorkingParts
<1> HIDE DEF s, cost
<1>4. r = [p EXCEPT !.s = t]
  BY <1>1 DEF OkSet, s
<1>5. r = [s |-> t, cost |-> cost]
  <2> HIDE DEF t
  <2> QED BY <1>1, <1>4
<1>6. /\ IsState(t) /\ t.ok = FALSE /\ t.mkt = s.mkt /\ t.oo = s.oo
      /\ t.book = s.book /\ t.heap = s.heap
  BY <1>3, OkSetIs
<1> HIDE DEF t
<1>7. Going(t, cost.base, cost.quote)
  BY <1>3, <1>6 DEF Going
<1>8. mkt.base_deposit_total \in Int /\ mkt.quote_deposit_total \in Int
  BY <1>2 DEF Working
<1>9. Working(t, cost.base, cost.quote, 0, 0, k)
  BY <1>3, <1>6, <1>7, <1>8 DEF Working
<1>10. r.s = t /\ r.cost = cost
  BY <1>5
<1> QED BY <1>1, <1>5, <1>9, <1>10 DEF BatchOk

\* Sequence numbers that were not used.
LEMMA WorkingMore ==
  ASSUME NEW s, NEW base, NEW quote, NEW db, NEW dq, NEW n, Working(s, base, quote, db, dq, n)
  PROVE  Working(s, base, quote, db, dq, n + 1)
<1>1. /\ SeqOk /\ IsState(s) /\ s.ok \in BOOLEAN /\ base \in Int /\ quote \in Int /\ n \in Nat
      /\ s.ok => /\ Good(s, s.heap, base, quote, NoLock, Totals(s.mkt)) /\ s.mkt \in MarketValues
  BY WorkingParts
<1>2. s.ok => s.mkt.seq_num <= s.mkt.seq_num + 1
  <2>1. s.ok => s.mkt.seq_num \in Nat
    BY <1>1 DEF MarketValues
  <2> QED BY <2>1
<1> QED BY <1>1, <1>2, WorkingStep

\* Each round places an order or none.
LEMMA BatchNextOk ==
  ASSUME IInv, NEW a \in Accounts, oo[a].open, NEW p, NEW k, BatchOk(p, k),
         NEW args \in FixedArgs, NEW limit, NEW rem,
         NEW r, r = PlaceArgsOf(a, limit, rem, p, args)
  PROVE  BatchOk(r, k + 1)
<1> DEFINE order == OrderOf(args)
           side == order.side
           sized == Sized(a, p, order)
           o == new_order(p.s, sized, oracle, now, limit, a, rem)
           s == p.s
           b == p.cost.base
           q == p.cost.quote
<1>1. Working(s, b, q, 0, 0, k)
  BY DEF BatchOk
<1>2. Working(s, b, q, 0, 0, k + 1)
  BY <1>1, WorkingMore
<1>3. BatchOk(p, k + 1)
  BY <1>2 DEF BatchOk
<1>4. OrderOk(order) /\ IsOrder(order)
  BY OrderOfOk DEF IsOrder
<1>5. CASE IsLate(args)
  <2>1. r = p
    BY <1>5 DEF PlaceArgsOf
  <2> QED BY <1>3, <2>1
<1>6. CASE ~IsLate(args)
  <2>1. r = PlaceNext(a, p, order, limit, rem)
    BY <1>6 DEF PlaceArgsOf
  <2> HIDE DEF order
  <2>2. \/ r = [p EXCEPT !.s.ok = FALSE]
        \/ p.s.ok /\ Affordable(a, p, order) /\ r = Placed(p, order.side, o)
    BY <1>4, <2>1, PlaceNextIs
  <2>3. CASE r = [p EXCEPT !.s.ok = FALSE]
    BY <1>3, <2>3, BatchFailed
  <2>4. CASE p.s.ok /\ Affordable(a, p, order) /\ r = Placed(p, order.side, o)
    <3>1. b \in Int /\ q \in Int /\ s.oo \in [Accounts -> AccountValues]
      BY <1>1, <2>4, WorkingParts
    <3>2. BaseLeft(a, p) \in Int /\ QuoteLeft(a, p) \in Int
      <4>1. s.oo[a] \in AccountValues
        BY <3>1
      <4>2. s.oo[a].base_free_native \in Int /\ s.oo[a].quote_free_native \in Int
        BY <4>1 DEF AccountValues
      <4>3. wallet[a] \in TokenAmounts
        BY DEF IInv, Traders
      <4>4. wallet[a].base \in Int /\ wallet[a].quote \in Int
        BY <4>3 DEF TokenAmounts
      <4> QED BY <3>1, <4>2, <4>4 DEF BaseLeft, QuoteLeft
    <3>3. OrderOk(sized) /\ sized.side = side
      BY <1>4, <2>4, <3>2, SizedOk
    <3>4. MayPlace(sized, oracle, now, a)
      BY <3>3, WorldFacts DEF MayPlace, Traders
    <3> HIDE DEF sized, o
    <3>5. /\ Working(o.s, b + PlacedBase(sized.side, o, a), q + PlacedQuote(sized.side, o, a), 0, 0, k + 1)
          /\ NumbersOk(o)
      BY <1>1, <3>4, OrderWorks DEF o
    <3>6. /\ PlacedBase(sized.side, o, a) = Cost(side, o).base
          /\ PlacedQuote(sized.side, o, a) = Cost(side, o).quote
      BY <3>3 DEF PlacedBase, PlacedQuote
    <3> DEFINE b2 == b + Cost(side, o).base
               q2 == q + Cost(side, o).quote
               t == o.s
    <3>7. Working(t, b2, q2, 0, 0, k + 1)
      BY <3>5, <3>6
    <3>8. r = [s |-> t, cost |-> [base |-> b2, quote |-> q2]]
      BY <2>4 DEF Placed
    <3> HIDE DEF b2, q2, t
    <3>9. r.s = t /\ r.cost.base = b2 /\ r.cost.quote = q2
      BY <3>8
    <3> QED BY <3>7, <3>8, <3>9 DEF BatchOk
  <2> QED BY <2>2, <2>3, <2>4
<1> QED BY <1>5, <1>6

\* A batch that is placed.
BatchOver(a, limit, rem, start, batch) ==
  FoldLeft(LAMBDA p, args : PlaceArgsOf(a, limit, rem, p, args), start, batch)

\* It is a fold over the positions of the batch.
LEMMA BatchOverIs ==
  ASSUME NEW a, NEW limit, NEW rem, NEW start, NEW batch
  PROVE  LET q == [start |-> start, a |-> a, limit |-> limit, rem |-> rem, batch |-> batch]
         IN  BatchOver(a, limit, rem, start, batch) = Placing!Fold(q, DOMAIN batch)
BY DEF BatchOver, FoldLeft, MapThenFoldSet, Placing!Fold, BatchFirst, BatchRound

\* All orders of a batch are placed, as far as they go.
LEMMA BatchOverOk ==
  ASSUME IInv, NEW a \in Accounts, oo[a].open, NEW limit, NEW rem,
         NEW start, BatchOk(start, 0), NEW batch \in Seq(FixedArgs),
         NEW c, c = BatchOver(a, limit, rem, start, batch)
  PROVE  BatchOk(c, Len(batch))
<1> DEFINE q == [start |-> start, a |-> a, limit |-> limit, rem |-> rem, batch |-> batch]
           last == Len(batch)
           at(k) == Placing!Fold(q, 1 .. k)
<1>1. last \in Nat /\ DOMAIN batch = 1 .. last /\ \A i \in 1 .. last : batch[i] \in FixedArgs
  OBVIOUS
<1>2. c = Placing!Fold(q, DOMAIN batch)
  BY BatchOverIs
<1>3. q.start = start /\ q.a = a /\ q.limit = limit /\ q.rem = rem /\ q.batch = batch
  OBVIOUS
<1> HIDE DEF q, last
<1>4. /\ Placing!Fold(q, 1 .. 0) = BatchFirst(q)
      /\ \A k \in 1 .. last : Placing!Fold(q, 1 .. k)
                                = BatchRound(q, Placing!Fold(q, 1 .. (k - 1)), k)
  <2>1. \A T \in SUBSET (1 .. last) : T # {} => Max(T) \in T /\ \A y \in T : y <= Max(T)
    BY <1>1, MaxFacts
  <2> QED BY <1>1, <2>1, Placing!FoldInTurn
<1> DEFINE S == {k \in Nat : k <= last => BatchOk(at(k), k)}
<1>5. 0 \in S
  <2>1. at(0) = start
    BY <1>3, <1>4 DEF BatchFirst
  <2> HIDE DEF at
  <2> QED BY <2>1
<1>6. ASSUME NEW k \in Nat, k \in S
      PROVE  k + 1 \in S
  <2>1. CASE k + 1 <= last
    <3>1. k + 1 \in 1 .. last /\ k + 1 - 1 = k /\ BatchOk(at(k), k)
      BY <1>1, <1>6, <2>1
    <3>2. at(k + 1) = BatchRound(q, at(k), k + 1)
      BY <1>4, <3>1
    <3> HIDE DEF at
    <3>3. at(k + 1) = PlaceArgsOf(a, limit, rem, at(k), batch[k + 1])
      BY <1>3, <3>2 DEF BatchRound
    <3>4. batch[k + 1] \in FixedArgs
      BY <1>1, <3>1
    <3>5. BatchOk(at(k + 1), k + 1)
      BY <3>1, <3>3, <3>4, BatchNextOk
    <3> QED BY <3>5
  <2>2. CASE ~(k + 1 <= last)
    BY <2>2
  <2> QED BY <2>1, <2>2
<1>7. last \in S
  <2> HIDE DEF S
  <2> QED BY <1>1, <1>5, <1>6, NatInd
<1>8. BatchOk(at(last), last)
  BY <1>1, <1>7
<1> HIDE DEF at
<1> QED BY <1>1, <1>2, <1>8 DEF at, last

\* A batch starts with nothing placed.
LEMMA BatchStarts ==
  ASSUME NEW s, Working(s, 0, 0, 0, 0, 0),
         NEW p, p = [s |-> s, cost |-> [base |-> 0, quote |-> 0]]
  PROVE  BatchOk(p, 0)
BY DEF BatchOk

\* What a batch is paid for, and how it is committed.
LEMMA BatchPaid ==
  ASSUME IInv, NEW a \in Accounts, oo[a].open, NEW p, NEW k, BatchOk(p, k), NEW h,
         NEW paid, paid = Pay(Penalise(p.s, h, a), a, p.cost),
         Commit(paid.s), Transfer(a, paid.deposit.base, paid.deposit.quote, 0),
         mkt.seq_num + k <= MaxSeqNum, ~mkt.closed, KeepWorld
  PROVE  IInv' /\ Shrinks
<1> DEFINE s == Penalise(p.s, h, a)
           cost == p.cost
<1>1. Working(p.s, cost.base, cost.quote, 0, 0, k)
  BY DEF BatchOk
<1>2. Working(s, cost.base, cost.quote, 0, 0, k) /\ s.ok = p.s.ok
  BY <1>1, PenaliseOk
<1>3. paid = Pay(s, a, cost)
  OBVIOUS
<1> HIDE DEF s, cost
<1>4. /\ Working(paid.s, 0, 0, 0 + paid.deposit.base, 0 + paid.deposit.quote, k)
      /\ paid.s.ok = s.ok
      /\ s.ok => paid.deposit.base \in Int /\ paid.deposit.quote \in Int
  BY <1>2, <1>3, PayOk
<1>5. paid.s.ok
  BY DEF Commit
<1> DEFINE db == paid.deposit.base
           dq == paid.deposit.quote
           t == paid.s
<1>6. /\ Working(t, 0, 0, 0 + db, 0 + dq, k) /\ db \in Int /\ dq \in Int
      /\ Commit(t) /\ Transfer(a, db, dq, 0) /\ a \in Traders
  BY <1>4, <1>5 DEF Traders
<1> HIDE DEF db, dq, t
<1>7. 0 + db = db /\ 0 + dq = dq
  BY <1>6
<1>8. Working(t, 0, 0, db, dq, k)
  BY <1>6, <1>7
<1> QED BY <1>6, <1>8, FinishedPaid

\* cancel_all_and_place_orders and place_orders.
LEMMA CancelAllAndPlaceOrdersKeeps ==
  ASSUME IInv, NEW a \in Accounts, NEW cancel \in BOOLEAN, NEW batch \in Batches,
         NEW limit, NEW rem, CancelAllAndPlaceOrders(a, cancel, batch, limit, rem)
  PROVE  IInv' /\ Shrinks /\ ~is_expired_market
<1> DEFINE c == book_cancel_all(Loaded, a, MAX_OPEN_ORDERS, OrderSlots)
           s == IF cancel THEN c.s ELSE Loaded
           start == [s |-> s, cost |-> [base |-> 0, quote |-> 0]]
<1>1. /\ ~mkt.closed /\ oo[a].open /\ ~is_expired_market /\ KeepWorld
      /\ mkt.seq_num + Len(batch) <= MaxSeqNum
  BY DEF CancelAllAndPlaceOrders
<1>2. PICK p : /\ p = BatchOver(a, limit, rem, start, batch)
               /\ \E paid \in {Pay(Penalise(p.s, Len(heap), a), a, p.cost)} :
                    Commit(paid.s) /\ Transfer(a, paid.deposit.base, paid.deposit.quote, 0)
  BY DEF CancelAllAndPlaceOrders, place_batch, BatchOver, PlaceArgsOf
<1>3. PICK paid : /\ paid = Pay(Penalise(p.s, Len(heap), a), a, p.cost)
                  /\ Commit(paid.s) /\ Transfer(a, paid.deposit.base, paid.deposit.quote, 0)
  BY <1>2
<1>4. Working(Loaded, 0, 0, 0, 0, 0)
  BY LoadedWorking
<1>5. CancelsOk(Loaded, 0, 0, 0, 0, 0, c)
  BY <1>4, BookCancelAllOk
<1> HIDE DEF c
<1>6. Working(s, 0, 0, 0, 0, 0)
  BY <1>4, <1>5 DEF CancelsOk
<1> HIDE DEF s
<1>7. BatchOk(start, 0)
  BY <1>6, BatchStarts
<1>8. p = BatchOver(a, limit, rem, start, batch)
  BY <1>2
<1> HIDE DEF start
<1>9. batch \in Seq(FixedArgs)
  BY OpenBookAssumption
<1>10. BatchOk(p, Len(batch))
  BY <1>1, <1>7, <1>8, <1>9, BatchOverOk
<1>11. IInv' /\ Shrinks
  BY <1>1, <1>3, <1>10, BatchPaid
<1> QED BY <1>1, <1>11
====================================================================
