------------------------------ MODULE OrderSet ------------------------------
(***************************************************************************)
(* What a side of the book promises to the code above it: a set of orders  *)
(* for each of the two trees, in an array of bounded size, with the        *)
(* operations of BookSide (state/orderbook/bookside.rs).  This is the view *)
(* of the matching engine's model; the crit-bit tree (OrderTree)           *)
(* implements it.                                                          *)
(***************************************************************************)
EXTENDS BookSide

CONSTANTS
  BidsOrAsks,  \* the side this is: "Bid" or "Ask"
  Orders,      \* the orders that may be posted
  Times        \* the values of the clock

VARIABLE bs    \* [leaves, bump], as in BookSide

-----------------------------------------------------------------------------

Init == bs = EmptySide

SameKey(l, k) == l.tree = k.tree /\ l.price = k.price /\ l.id = k.id

\* The side has room: the order is added.
Post(leaf) ==
  /\ ~is_full(bs)
  /\ \A l \in bs.leaves : ~SameKey(l, leaf)
  /\ can_insert(bs, leaf.tree)
  /\ bs' = insert_leaf(bs, leaf)

\* The side is full: the worst order of one of the trees makes room.
BootAndPost(worst, leaf) ==
  /\ is_full(bs)
  /\ \A l \in bs.leaves : ~SameKey(l, leaf)
  /\ LeavesOf(bs, worst) # {}
  /\ LET ordered == InOrder(BidsOrAsks, LeavesOf(bs, worst))
         rest == remove_leaf(bs, ordered[Len(ordered)])
     IN  can_insert(rest, leaf.tree) /\ bs' = insert_leaf(rest, leaf)

RemoveByKey(leaf) ==
  /\ leaf \in bs.leaves
  /\ bs' = remove_leaf(bs, leaf)

\* At most one order goes, of those past their time one that expires first.
RemoveOneExpired(tree, now) ==
  bs' = [bs EXCEPT !.leaves = @ \ remove_one_expired(BidsOrAsks, bs, tree, now)]

Next ==
  \/ \E leaf \in Orders :
       \/ Post(leaf) \/ RemoveByKey(leaf)
       \/ \E worst \in Trees : BootAndPost(worst, leaf)
  \/ \E tree \in Trees, now \in Times : RemoveOneExpired(tree, now)

Spec == Init /\ [][Next]_bs
=============================================================================
