----------------------------- MODULE OrderTree ------------------------------
(***************************************************************************)
(* The crit-bit trees of one side of the book (state/orderbook/            *)
(* ordertree.rs, nodes.rs, ordertree_iterator.rs): the trees of fixed and  *)
(* of oracle pegged orders share one array of nodes with a free list; each *)
(* inner node caches the earliest expiry below either child.               *)
(*                                                                         *)
(* An order is what the tree reads of a leaf: tree, price (lots, or the    *)
(* offset of a pegged order), id (its sequence number), timestamp and      *)
(* time_in_force.  A key of the program has 64 bits of price and 64 bits   *)
(* of sequence number; here it has PriceBits and SeqBits.                  *)
(***************************************************************************)
EXTENDS Integers, FiniteSets, SequencesExt

CONSTANTS
  MAX_ORDERTREE_NODES,  \* size of the array of nodes (1024 in the program)
  PriceBits, SeqBits,   \* widths of the two halves of a key (64 each)
  BidsOrAsks,           \* the side this is: "Bid" or "Ask"
  Orders,               \* the orders that may be posted
  Times,                \* values of the clock
  NoExpiry              \* stands for u64::MAX

ASSUME OrderTreeAssumption ==
  /\ MAX_ORDERTREE_NODES \in Nat \ {0}
  /\ PriceBits \in Nat \ {0} /\ SeqBits \in Nat \ {0}
  /\ BidsOrAsks \in {"Bid", "Ask"}
  /\ NoExpiry \in Nat
  /\ \A o \in Orders : o.timestamp + o.time_in_force < NoExpiry

VARIABLES
  arena,  \* OrderTreeNodes: [nodes, bump_index, free_list_len, free_list_head]
  roots   \* for each tree its OrderTreeRoot: [maybe_node, leaf_count]

vars == <<arena, roots>>

Trees == {"Fixed", "OraclePegged"}
Handles == 0 .. MAX_ORDERTREE_NODES - 1
KeyBits == PriceBits + SeqBits
Keys == 0 .. 2^KeyBits - 1

-----------------------------------------------------------------------------
(* Keys. *)

\* Variant with a bug: sequence numbers of bids are not inverted.
new_node_key_SeqNotInverted(order) ==
  (order.price + IF order.tree = "Fixed" THEN 0 ELSE 2^(PriceBits - 1))
    * 2^SeqBits + order.id

\* The key of an order: the price first (offsets are shifted so that the least
\* is 0), then the age, which is inverted for bids so that of two orders at one
\* price the older is the better on either side.
new_node_key(order) ==
  LET price_data == order.price + IF order.tree = "Fixed" THEN 0 ELSE 2^(PriceBits - 1)
      seq == IF BidsOrAsks = "Bid" THEN 2^SeqBits - 1 - order.id ELSE order.id
  IN  price_data * 2^SeqBits + seq

\* Bits are numbered from the highest, which is 0.
Bit(key, i) == (key \div 2^(KeyBits - 1 - i)) % 2

\* How many of the highest bits two keys have in common.
shared_prefix_len(k, l) ==
  CHOOSE n \in 0 .. KeyBits :
    /\ \A i \in 0 .. n - 1 : Bit(k, i) = Bit(l, i)
    /\ n < KeyBits => Bit(k, n) # Bit(l, n)

-----------------------------------------------------------------------------
(* Nodes. *)

expiry(order) ==
  IF order.time_in_force = 0 THEN NoExpiry ELSE order.timestamp + order.time_in_force

Uninitialized == [tag |-> "Uninitialized"]
LeafNode(order) == [tag |-> "LeafNode", key |-> new_node_key(order), order |-> order]
IsInner(node) == node.tag = "InnerNode"
IsLeaf(node) == node.tag = "LeafNode"

earliest_expiry(node) ==
  IF IsLeaf(node) THEN expiry(node.order)
  ELSE LET e == node.child_earliest_expiry IN IF e[0] < e[1] THEN e[0] ELSE e[1]

walk_down(inner, key) == Bit(key, inner.prefix_len)

\* The walk to the place of a new key goes on below this node.
keep_old_parent(node, key) ==
  IsInner(node) /\ shared_prefix_len(node.key, key) >= node.prefix_len

-----------------------------------------------------------------------------
(* The array: nodes come from the free list first, then from its end. *)

\* Variant with a bug: a freed node is always marked as the last one.
remove_AlwaysLast(a, h) ==
  [a EXCEPT !.nodes[h] = [tag |-> "LastFreeNode", next |-> a.free_list_head],
            !.free_list_len = @ + 1,
            !.free_list_head = h]

remove(a, h) ==
  [a EXCEPT !.nodes[h] = [tag  |-> IF a.free_list_len = 0 THEN "LastFreeNode" ELSE "FreeNode",
                          next |-> a.free_list_head],
            !.free_list_len = @ + 1,
            !.free_list_head = h]

\* The handle the next node gets, and whether there is one.
next_handle(a) == IF a.free_list_len = 0 THEN a.bump_index ELSE a.free_list_head
has_node(a) == a.free_list_len > 0 \/ a.bump_index < MAX_ORDERTREE_NODES

insert(a, node) ==
  IF a.free_list_len = 0
    THEN [a EXCEPT !.nodes[a.bump_index] = node, !.bump_index = @ + 1]
    ELSE [a EXCEPT !.nodes[a.free_list_head] = node,
                   !.free_list_head = a.nodes[a.free_list_head].next,
                   !.free_list_len = @ - 1]

\* Variant with a bug: one free node is taken to be enough for any order.
is_full_NeedsOne(a) == a.free_list_len = 0 /\ a.bump_index >= MAX_ORDERTREE_NODES

is_full(a) == a.free_list_len <= 1 /\ a.bump_index >= MAX_ORDERTREE_NODES - 1

-----------------------------------------------------------------------------
(* Walks.  A path is the sequence of handles from a root downwards, to the *)
(* first one that is not among those to go through.                        *)

InnerHandles(a) == {h \in Handles : IsInner(a.nodes[h])}

Path(a, h, key, through) ==
  LET down[at \in Handles] ==
        IF at \in through
          THEN <<at>> \o down[a.nodes[at].children[walk_down(a.nodes[at], key)]]
          ELSE <<at>>
  IN  down[h]

\* Handles below a node, itself included.
Below(a, h) ==
  LET below[at \in Handles] ==
        IF IsInner(a.nodes[at])
          THEN {at} \cup below[a.nodes[at].children[0]] \cup below[a.nodes[at].children[1]]
          ELSE {at}
  IN  below[h]

NodesOf(a, root) == IF root.leaf_count = 0 THEN {} ELSE Below(a, root.maybe_node)
LeavesUnder(a, root) == {h \in NodesOf(a, root) : IsLeaf(a.nodes[h])}
OrdersOf(a, root) == {a.nodes[h].order : h \in LeavesUnder(a, root)}

\* leaf_min_max
leaf_min_max(a, root, i) ==
  LET down[at \in Handles] ==
        IF IsInner(a.nodes[at]) THEN down[a.nodes[at].children[i]] ELSE at
  IN  down[root.maybe_node]

\* Variant with a bug: the worst order of either side is the one with the highest key.
find_worst_HighestKey(a, root) == leaf_min_max(a, root, 1)

find_worst(a, root) == leaf_min_max(a, root, IF BidsOrAsks = "Bid" THEN 0 ELSE 1)

find_earliest_expiry(a, root) ==
  LET down[at \in Handles] ==
        LET node == a.nodes[at]
        IN  IF ~IsInner(node) THEN at
            ELSE down[node.children[IF node.child_earliest_expiry[0]
                                         > node.child_earliest_expiry[1] THEN 1 ELSE 0]]
  IN  down[root.maybe_node]

\* The orders of a tree as OrderTreeIter yields them: bids right before left.
iter(a, root) ==
  LET left == IF BidsOrAsks = "Bid" THEN 1 ELSE 0
      seq[at \in Handles] ==
        IF IsInner(a.nodes[at])
          THEN seq[a.nodes[at].children[left]] \o seq[a.nodes[at].children[1 - left]]
          ELSE <<a.nodes[at].order>>
  IN  IF root.leaf_count = 0 THEN << >> ELSE seq[root.maybe_node]

-----------------------------------------------------------------------------
(* Operations on one tree. *)

\* Variant with a bug: the nodes above keep the expiry they had cached.
update_parent_earliest_expiry_Stale(a, stack, key, outdated, new) == a

\* The children a path goes through, from the bottom up, have their cached
\* expiry replaced, as long as it was the outdated one.
update_parent_earliest_expiry(a, stack, key, outdated, new) ==
  LET Step(h, acc) ==
        LET node == acc.nodes[h]
            bit == walk_down(node, key)
            fresh == [node EXCEPT !.child_earliest_expiry[bit] = acc.new]
        IN  IF ~acc.live \/ node.child_earliest_expiry[bit] # acc.outdated
              THEN [acc EXCEPT !.live = FALSE]
              ELSE [nodes |-> [acc.nodes EXCEPT ![h] = fresh], live |-> TRUE,
                    outdated |-> earliest_expiry(node), new |-> earliest_expiry(fresh)]
  IN  [a EXCEPT !.nodes =
         FoldRight(Step, stack, [nodes |-> a.nodes, live |-> TRUE,
                                 outdated |-> outdated, new |-> new]).nodes]

\* Takes the leaf with this key, which is in the tree, out of it.  Its parent is
\* overwritten by its sibling.
remove_by_key(a, root, key) ==
  LET path == Path(a, root.maybe_node, key, InnerHandles(a))
      child == path[Len(path)]
  IN  IF Len(path) = 1
        THEN [arena |-> remove(a, child), root |-> [maybe_node |-> 0, leaf_count |-> 0]]
        ELSE LET parent == path[Len(path) - 1]
                 other_child == a.nodes[parent].children[1 - walk_down(a.nodes[parent], key)]
                 other == a.nodes[other_child]
                 moved == [remove(a, other_child) EXCEPT !.nodes[parent] = other]
             IN  [arena |-> update_parent_earliest_expiry(
                              remove(moved, child), SubSeq(path, 1, Len(path) - 2), key,
                              expiry(a.nodes[child].order), earliest_expiry(other)),
                  root  |-> [root EXCEPT !.leaf_count = @ - 1]]

\* Adds a leaf whose key is not in the tree.  The node where the walk ends is
\* moved, and an inner node with it and the new leaf is written in its place.
insert_leaf(a, root, order) ==
  LET leaf == LeafNode(order)
      kept == {h \in Handles : keep_old_parent(a.nodes[h], leaf.key)}
      path == Path(a, root.maybe_node, leaf.key, kept)
      parent == path[Len(path)]
      old == a.nodes[parent]
      prefix == shared_prefix_len(old.key, leaf.key)
      bit == Bit(leaf.key, prefix)
      with_leaf == insert(a, leaf)
      with_both == insert(with_leaf, old)
      ByBit(new, moved) == [b \in 0 .. 1 |-> IF b = bit THEN new ELSE moved]
      inner == [tag |-> "InnerNode", prefix_len |-> prefix, key |-> leaf.key,
                children |-> ByBit(next_handle(a), next_handle(with_leaf)),
                child_earliest_expiry |-> ByBit(expiry(order), earliest_expiry(old))]
      linked == [with_both EXCEPT !.nodes[parent] = inner]
      stack == SubSeq(path, 1, Len(path) - 1)
  IN  IF root.leaf_count = 0
        THEN [ok |-> has_node(a), arena |-> with_leaf,
              root |-> [maybe_node |-> next_handle(a), leaf_count |-> 1]]
        ELSE [ok |-> has_node(a) /\ has_node(with_leaf),
              arena |-> IF expiry(order) < earliest_expiry(old)
                          THEN update_parent_earliest_expiry(linked, stack, leaf.key,
                                 earliest_expiry(old), expiry(order))
                          ELSE linked,
              root |-> [root EXCEPT !.leaf_count = @ + 1]]

-----------------------------------------------------------------------------
(* The operations of a side of the book, each within a transaction: when one *)
(* fails, nothing happens.                                                   *)

Init ==
  /\ arena = [nodes |-> [h \in Handles |-> Uninitialized],
              bump_index |-> 0, free_list_len |-> 0, free_list_head |-> 0]
  /\ roots = [tree \in Trees |-> [maybe_node |-> 0, leaf_count |-> 0]]

OrdersIn(tree) == OrdersOf(arena, roots[tree])

\* No order in its tree has the key of this one: sequence numbers are unique.
IsNew(order) == \A o \in OrdersIn(order.tree) : new_node_key(o) # new_node_key(order)

Takes(removed, tree) ==
  /\ arena' = removed.arena
  /\ roots' = [roots EXCEPT ![tree] = removed.root]

\* The end of new_order when the side has room.
Post(order) ==
  /\ ~is_full(arena)
  /\ IsNew(order)
  /\ LET r == insert_leaf(arena, roots[order.tree], order)
     IN  r.ok /\ Takes(r, order.tree)

\* The end of new_order when it is full: the worst order goes first.  The oracle
\* price decides which tree has it, so it may be either.
BootAndPost(worst, order) ==
  /\ is_full(arena)
  /\ IsNew(order)
  /\ roots[worst].leaf_count > 0
  /\ LET key == arena.nodes[find_worst(arena, roots[worst])].key
         booted == remove_by_key(arena, roots[worst], key)
         rest == [roots EXCEPT ![worst] = booted.root]
         r == insert_leaf(booted.arena, rest[order.tree], order)
     IN  /\ r.ok
         /\ arena' = r.arena
         /\ roots' = [rest EXCEPT ![order.tree] = r.root]

\* Cancelled, or filled.
RemoveByKey(order) ==
  /\ order \in OrdersIn(order.tree)
  /\ Takes(remove_by_key(arena, roots[order.tree], new_node_key(order)), order.tree)

\* The earliest expiring leaf of a tree, if that is before now.
ExpiredIn(tree, now) ==
  LET leaf == arena.nodes[find_earliest_expiry(arena, roots[tree])]
  IN  IF roots[tree].leaf_count > 0 /\ expiry(leaf.order) < now THEN {leaf} ELSE {}

RemoveOneExpired(tree, now) ==
  LET other == CHOOSE t \in Trees : t # tree
      from == IF ExpiredIn(tree, now) # {} THEN tree ELSE other
  IN  \E leaf \in ExpiredIn(from, now) :
        Takes(remove_by_key(arena, roots[from], leaf.key), from)

Next ==
  \/ \E order \in Orders :
       \/ Post(order) \/ RemoveByKey(order)
       \/ \E worst \in Trees : BootAndPost(worst, order)
  \/ \E tree \in Trees, now \in Times : RemoveOneExpired(tree, now)

Spec == Init /\ [][Next]_vars

-----------------------------------------------------------------------------
(* Properties. *)

\* Every node is of one of the kinds of nodes.rs, and the counters stay within
\* the array.
TypeOK ==
  /\ DOMAIN arena.nodes = Handles
  /\ \A h \in Handles :
       LET node == arena.nodes[h]
       IN  \/ node = Uninitialized
           \/ IsLeaf(node) /\ node.order \in Orders /\ node.key = new_node_key(node.order)
           \/ /\ IsInner(node) /\ node.prefix_len \in 0 .. KeyBits - 1 /\ node.key \in Keys
              /\ \A b \in 0 .. 1 : node.children[b] \in Handles
                                 /\ node.child_earliest_expiry[b] \in 0 .. NoExpiry
           \/ node.tag \in {"FreeNode", "LastFreeNode"} /\ node.next \in Handles
  /\ arena.bump_index \in 0 .. MAX_ORDERTREE_NODES
  /\ arena.free_list_len \in 0 .. arena.bump_index
  /\ arena.free_list_head \in Handles
  /\ \A tree \in Trees : roots[tree].maybe_node \in Handles
                       /\ roots[tree].leaf_count \in 0 .. MAX_ORDERTREE_NODES

InnerNodes(tree) == {h \in NodesOf(arena, roots[tree]) : IsInner(arena.nodes[h])}

\* Of every inner node in use all keys below share its prefix, the next bit is 0
\* in the left subtree and 1 in the right one (verify_order_tree_invariant of
\* the tests looks at the next level only): a walk down finds every key.
KeysSplitByBit ==
  \A tree \in Trees : \A h \in InnerNodes(tree) : \A b \in 0 .. 1 :
    LET inner == arena.nodes[h]
    IN  \A k \in Below(arena, inner.children[b]) :
          /\ shared_prefix_len(arena.nodes[k].key, inner.key) >= inner.prefix_len
          /\ IsLeaf(arena.nodes[k]) => Bit(arena.nodes[k].key, inner.prefix_len) = b

\* Every cached expiry is the earliest of the leaves below that child, through
\* insertions, removals and nodes that are moved and reused.
ExpiryCached ==
  \A tree \in Trees : \A h \in InnerNodes(tree) : \A b \in 0 .. 1 :
    LET inner == arena.nodes[h]
        expiries == {expiry(arena.nodes[k].order) :
                       k \in {k \in Below(arena, inner.children[b]) : IsLeaf(arena.nodes[k])}}
    IN  /\ inner.child_earliest_expiry[b] \in expiries
        /\ \A e \in expiries : inner.child_earliest_expiry[b] <= e

\* What an inner node says of the orders below it is true, at every depth.
InnerNodesRight == KeysSplitByBit /\ ExpiryCached

\* The handles of the free list, as far as its length says.
FreeList ==
  LET list[n \in 0 .. arena.free_list_len] ==
        IF n = 0 THEN << >>
        ELSE Append(list[n - 1], IF n = 1 THEN arena.free_list_head
                                 ELSE arena.nodes[list[n - 1][n - 1]].next)
  IN  list[arena.free_list_len]

\* The two trees and the free list share the array: every node ever used is in
\* exactly one of them, the free list is as long as it says and only its last
\* node is marked so (insert asserts it), and leaf_count counts the leaves.
NodesAccounted ==
  LET fixed == NodesOf(arena, roots["Fixed"])
      pegged == NodesOf(arena, roots["OraclePegged"])
      list == FreeList
      free == {list[i] : i \in DOMAIN list}
  IN  /\ fixed \cap pegged = {} /\ (fixed \cup pegged) \cap free = {}
      /\ fixed \cup pegged \cup free = 0 .. arena.bump_index - 1
      /\ Cardinality(free) = arena.free_list_len
      /\ \A i \in DOMAIN list : arena.nodes[list[i]].tag =
                                  IF i = Len(list) THEN "LastFreeNode" ELSE "FreeNode"
      /\ \A tree \in Trees : roots[tree].leaf_count = Cardinality(OrdersIn(tree))

\* The iterator yields every order of a tree once, best price first and of equal
\* prices the oldest first, on either side of the book.
IterationBestFirst ==
  \A tree \in Trees :
    LET seq == iter(arena, roots[tree])
        Before(o, p) == \/ IF BidsOrAsks = "Bid" THEN o.price > p.price ELSE o.price < p.price
                        \/ o.price = p.price /\ o.id < p.id
    IN  /\ {seq[i] : i \in DOMAIN seq} = OrdersIn(tree)
        /\ \A i, j \in DOMAIN seq : i < j => Before(seq[i], seq[j])

\* Whether an order fits once the worst order of a tree is out.
FitsAfterBoot(worst, order) ==
  LET key == arena.nodes[find_worst(arena, roots[worst])].key
      booted == remove_by_key(arena, roots[worst], key)
      root == IF order.tree = worst THEN booted.root ELSE roots[order.tree]
  IN  insert_leaf(booted.arena, root, order).ok

\* A side that does not say it is full takes an order into either tree, which may
\* need a leaf and an inner node.  A full one takes it once the worst order, found
\* and removed as new_order does (book.rs 429), is booted, whichever of the trees
\* that was in, unless it was alone in the other tree (see BootMakesRoom).
RoomUnlessFull ==
  \A order \in Orders : IsNew(order) =>
    IF ~is_full(arena) THEN insert_leaf(arena, roots[order.tree], order).ok
    ELSE \A worst \in Trees :
           roots[worst].leaf_count > (IF order.tree = worst THEN 0 ELSE 1)
           => FitsAfterBoot(worst, order)

\* "If this bid is higher than lowest bid, boot that bid and insert this one": once
\* the worst order is out there is room for the new one.
BootMakesRoom ==
  is_full(arena) => \A worst \in Trees, order \in Orders :
    roots[worst].leaf_count > 0 /\ IsNew(order) => FitsAfterBoot(worst, order)

\* Seen as two sets of orders and a number of nodes, as the matching engine's
\* model has them, the trees do what a side of the book promises.
Set == INSTANCE OrderSet WITH
  bs <- [leaves |-> OrdersIn("Fixed") \cup OrdersIn("OraclePegged"), bump |-> arena.bump_index],
  MaxPrice <- 2^PriceBits - 1
ImplementsOrderSet == Set!Spec
=============================================================================
