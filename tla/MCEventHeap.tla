---------------------------- MODULE MCEventHeap -----------------------------
(***************************************************************************)
(* The event heap with 5 nodes and two events, every order of pushes, pops *)
(* and deletions: the array fills, empties and reuses nodes in every order. *)
(***************************************************************************)
EXTENDS EventHeapOrder
=============================================================================
