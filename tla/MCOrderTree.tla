---------------------------- MODULE MCOrderTree -----------------------------
(***************************************************************************)
(* Instances of OrderTree: orders for TLC to post.                         *)
(***************************************************************************)
EXTENDS OrderTree

Order(tree, price, id, time_in_force) ==
  [tree |-> tree, price |-> price, id |-> id, timestamp |-> 0,
   time_in_force |-> time_in_force]

\* Two prices and two ages in the fixed tree, two pegged ones; one of
\* each tree expires.
TwoTrees ==
  {Order("Fixed", 1, 0, 0), Order("Fixed", 1, 1, 0), Order("Fixed", 2, 0, 1),
   Order("Fixed", 2, 1, 0),
   Order("OraclePegged", -1, 0, 0), Order("OraclePegged", 1, 0, 1)}

\* Five keys of one tree, four of which fit, so that inner nodes stand three deep;
\* most come with either of two expiries.
OneTree ==
  {Order("Fixed", 3, id, t) : id \in {0, 1}, t \in {1, 2}}
  \cup {Order("Fixed", 2, 1, t) : t \in {0, 2}}
  \cup {Order("Fixed", 1, 0, 1), Order("Fixed", 1, 1, 2)}
=============================================================================
