------------------------------ MODULE BookSide ------------------------------
(***************************************************************************)
(* One side of the order book: two ordered trees of leaves that share one  *)
(* array of nodes (state/orderbook/bookside.rs, bookside_iterator.rs).     *)
(* The trees are sets of leaves here and their order is a comparison of    *)
(* keys; what is kept of the array is how many of its nodes were ever      *)
(* used (bump), since the capacity checks depend on it.                    *)
(*                                                                         *)
(* A leaf has: tree, price (lots; for oracle pegged orders the offset from *)
(* the oracle price), id (the market's sequence number), owner,            *)
(* owner_slot, quantity, timestamp, time_in_force, peg_limit, client_id.   *)
(***************************************************************************)
EXTENDS Integers, FiniteSets, SequencesExt

CONSTANTS
  MAX_ORDERTREE_NODES,  \* nodes of a side's array (1024 in the program)
  MaxPrice              \* stands for i64::MAX

ASSUME BookSideAssumption ==
  /\ MAX_ORDERTREE_NODES \in Nat \ {0}
  /\ MaxPrice \in Nat \ {0}

Sides == {"Bid", "Ask"}
Trees == {"Fixed", "OraclePegged"}
NoPrice == -1           \* the oracle gave no usable price
NoPegLimit == -1

\* F(v), written so that TLC computes v once.
With(v, F(_)) == CHOOSE result \in {F(x) : x \in {v}} : TRUE

invert_side(side) == IF side = "Bid" THEN "Ask" ELSE "Bid"
is_price_better(side, lhs, rhs) == IF side = "Bid" THEN lhs > rhs ELSE lhs < rhs
is_price_within_limit(side, price, limit) ==
  IF side = "Bid" THEN price <= limit ELSE price >= limit

-----------------------------------------------------------------------------
(* Leaves. *)

is_expired(leaf, now) ==
  leaf.time_in_force > 0 /\ now >= leaf.timestamp + leaf.time_in_force

\* Order of two tree keys at these prices: price first, then age.
BetterKey(side, price1, id1, price2, id2) ==
  \/ is_price_better(side, price1, price2)
  \/ price1 = price2 /\ id1 < id2

\* Variant with a bug: of equal prices the newest comes first.
InOrder_NewestFirst(side, leaves) ==
  LET Before(l, k) == \/ is_price_better(side, l.price, k.price)
                      \/ l.price = k.price /\ l.id > k.id
  IN  [i \in 1 .. Cardinality(leaves) |->
         CHOOSE leaf \in leaves : Cardinality({l \in leaves : Before(l, leaf)}) = i - 1]

\* A tree as its iterator yields it, best key first.
InOrder(side, leaves) ==
  LET Before(l, k) == BetterKey(side, l.price, l.id, k.price, k.id)
  IN  [i \in 1 .. Cardinality(leaves) |->
         CHOOSE leaf \in leaves :
           Cardinality({l \in leaves : Before(l, leaf)}) = i - 1]

LeavesOf(bs, tree) == {leaf \in bs.leaves : leaf.tree = tree}

\* State and price of a pegged leaf at an oracle price.
oracle_pegged_price(side, leaf, oracle) ==
  LET price == oracle + leaf.price
  IN  IF price \notin 1 .. MaxPrice - 1
      THEN [state |-> "Skipped", price |-> IF price < 1 THEN 1 ELSE MaxPrice]
      ELSE [state |-> IF leaf.peg_limit # NoPegLimit
                           /\ is_price_better(side, price, leaf.peg_limit)
                        THEN "Invalid" ELSE "Valid",
            price |-> price]

\* What the iterator says of a leaf.
Item(side, leaf, oracle, now) ==
  LET at == IF leaf.tree = "Fixed" THEN [state |-> "Valid", price |-> leaf.price]
            ELSE oracle_pegged_price(side, leaf, oracle)
  IN  [leaf |-> leaf,
       price |-> at.price,
       state |-> IF is_expired(leaf, now) THEN "Invalid" ELSE at.state]

\* Variant with a bug: a fixed order always goes before a pegged one.
rank_orders_FixedFirst(side, fixed, pegged, return_worse, oracle) ==
  IF fixed # << >> THEN "Fixed" ELSE IF pegged # << >> THEN "OraclePegged" ELSE "None"

\* rank_orders: of the heads of two sequences of leaves, the tree whose leaf is
\* better (worse, if asked); "None" if both are empty.
rank_orders(side, fixed, pegged, return_worse, oracle) ==
  IF fixed = << >> /\ pegged = << >> THEN "None"
  ELSE IF pegged = << >> THEN "Fixed"
  ELSE IF fixed = << >> THEN "OraclePegged"
  ELSE LET price == oracle_pegged_price(side, pegged[1], oracle).price
           fixed_better == BetterKey(side, fixed[1].price, fixed[1].id,
                                     price, pegged[1].id)
       IN  IF fixed_better # return_worse THEN "Fixed" ELSE "OraclePegged"

\* The pegged leaf the iterator looks at (as a sequence of at most one) and
\* what its tree iterator has left.  When the first leaves have no
\* representable price, the loop that skips them leaves the iterator one past
\* the leaf it found.
PeekPegged(side, pegged, oracle) ==
  LET Skipped(leaf) == oracle_pegged_price(side, leaf, oracle).state = "Skipped"
      found == {i \in DOMAIN pegged : ~Skipped(pegged[i])}
      first == CHOOSE i \in found : \A j \in found : i <= j
  IN  IF oracle = NoPrice THEN [peek |-> << >>, rest |-> pegged]
      ELSE IF found = {} THEN [peek |-> << >>, rest |-> << >>]
      ELSE [peek |-> <<pegged[first]>>,
            rest |-> SubSeq(pegged, IF first = 1 THEN 1 ELSE first + 1, Len(pegged))]

\* One call of BookSideIter::next on the iterator it.
NextItem(side, it, oracle, now) ==
  LET o == PeekPegged(side, it.pegged, oracle)
      tree == rank_orders(side, it.fixed, o.peek, FALSE, oracle)
      Rest(s) == IF s = << >> THEN s ELSE Tail(s)
      Yield(leaf) == Append(it.out, Item(side, leaf, oracle, now))
  IN  CASE tree = "None" -> it
        [] tree = "Fixed" ->
             [fixed |-> Tail(it.fixed), pegged |-> o.rest, out |-> Yield(it.fixed[1])]
        [] tree = "OraclePegged" ->
             [fixed |-> it.fixed, pegged |-> Rest(o.rest), out |-> Yield(o.peek[1])]

\* iter_all_including_invalid, as the sequence of items it yields.
iter_all(side, bs, oracle, now) ==
  LET walk[n \in Nat] ==
        IF n = 0 THEN [fixed  |-> InOrder(side, LeavesOf(bs, "Fixed")),
                       pegged |-> InOrder(side, LeavesOf(bs, "OraclePegged")),
                       out    |-> << >>]
        ELSE NextItem(side, walk[n - 1], oracle, now)
  IN  walk[Cardinality(bs.leaves)].out

\* The price of the best valid order, NoPrice if there is none.
best_price(side, bs, oracle, now) ==
  LET FirstPrice(items) ==
        LET valid == {i \in DOMAIN items : items[i].state = "Valid"}
        IN  IF valid = {} THEN NoPrice ELSE items[Min(valid)].price
  IN  With(iter_all(side, bs, oracle, now), FirstPrice)

-----------------------------------------------------------------------------
(* The array of nodes.  A tree of n > 0 leaves has n - 1 inner nodes. *)

EmptySide == [leaves |-> {}, bump |-> 0]

NodesOfTree(n) == IF n = 0 THEN 0 ELSE 2 * n - 1
UsedNodes(bs) == NodesOfTree(Cardinality(LeavesOf(bs, "Fixed")))
                 + NodesOfTree(Cardinality(LeavesOf(bs, "OraclePegged")))
free_list_len(bs) == bs.bump - UsedNodes(bs)
is_full(bs) == free_list_len(bs) <= 1 /\ bs.bump >= MAX_ORDERTREE_NODES - 1

remove_leaf(bs, leaf) == [bs EXCEPT !.leaves = @ \ {leaf}]

\* Variant with a bug: the inner node of a second leaf is not counted.
BumpAfterInsert_LeafOnly(bs, tree) ==
  bs.bump + IF free_list_len(bs) >= 1 THEN 0 ELSE 1

\* New nodes come from the free list first, then from the end of the array.
BumpAfterInsert(bs, tree) ==
  LET needed == IF LeavesOf(bs, tree) = {} THEN 1 ELSE 2
      missing == needed - free_list_len(bs)
  IN  bs.bump + IF missing > 0 THEN missing ELSE 0
can_insert(bs, tree) == BumpAfterInsert(bs, tree) <= MAX_ORDERTREE_NODES
insert_leaf(bs, leaf) ==
  [leaves |-> bs.leaves \cup {leaf}, bump |-> BumpAfterInsert(bs, leaf.tree)]

\* The leaves remove_one_expired would take from one tree: at most one, the
\* first in key order of those that expire first, if that is before now.
ExpiredOfTree(side, bs, tree, now) ==
  LET expiry(leaf) == leaf.timestamp + leaf.time_in_force
      mortal == {leaf \in LeavesOf(bs, tree) : leaf.time_in_force > 0}
      earliest == {l \in mortal : \A k \in mortal : expiry(l) <= expiry(k)}
      s == InOrder(side, earliest)
      lowest == IF side = "Bid" THEN Len(s) ELSE 1
  IN  IF mortal # {} /\ expiry(s[lowest]) < now THEN {s[lowest]} ELSE {}

remove_one_expired(side, bs, tree, now) ==
  LET other == CHOOSE t \in Trees : t # tree
      here == ExpiredOfTree(side, bs, tree, now)
  IN  IF here # {} THEN here ELSE ExpiredOfTree(side, bs, other, now)

\* The item remove_worst takes out, as a set of at most one.  It is empty (and
\* the caller's unwrap fails) if every leaf is pegged and there is no oracle
\* price.
worst_item(side, bs, oracle, now) ==
  LET LastOf(s) == IF s = << >> THEN s ELSE <<s[Len(s)]>>
      fixed == LastOf(InOrder(side, LeavesOf(bs, "Fixed")))
      pegged == IF oracle = NoPrice THEN << >>
                ELSE LastOf(InOrder(side, LeavesOf(bs, "OraclePegged")))
      tree == rank_orders(side, fixed, pegged, TRUE, oracle)
  IN  CASE tree = "None" -> {}
        [] tree = "Fixed" -> {Item(side, fixed[1], oracle, now)}
        [] tree = "OraclePegged" -> {Item(side, pegged[1], oracle, now)}
=============================================================================
