----------------------------- MODULE EventHeap ------------------------------
(***************************************************************************)
(* state/orderbook/heap.rs: the queue of fill and out events, stored in a  *)
(* fixed array of nodes.  Free nodes form a singly linked list that starts *)
(* at free_head, used nodes a circular doubly linked list that starts at   *)
(* used_head; a node is free exactly when its prev is NO_NODE.  A freed    *)
(* node keeps its old event.  The header's seq_num only stamps the events  *)
(* that the order book builds; no list operation reads it, so it is left   *)
(* out and the model needs no bound on the number of events.               *)
(***************************************************************************)
EXTENDS Integers, Sequences

CONSTANTS
  MAX_NUM_EVENTS,  \* nodes in the array (600 in the program)
  NO_NODE,         \* the null link (u16::MAX in the program)
  Events,          \* the events the order book pushes
  ZeroEvent        \* the content of a node that was never used

ASSUME HeapAssumption ==
  /\ MAX_NUM_EVENTS \in Nat \ {0}
  /\ NO_NODE \in Nat
  /\ NO_NODE >= MAX_NUM_EVENTS

VARIABLES
  header,  \* free_head, used_head and count
  nodes    \* slot -> next, prev and event

Slots == 0 .. MAX_NUM_EVENTS - 1
Links == Slots \cup {NO_NODE}
Headers == [free_head : Links, used_head : Links, count : Nat]
EventNodes == [next : Links, prev : Links, event : Events \cup {ZeroEvent}]

\* Variant with a bug: the last node is linked to a node that is not there.
init_UnterminatedList ==
  /\ header = [free_head |-> 0, used_head |-> NO_NODE, count |-> 0]
  /\ nodes = [i \in Slots |-> [next |-> i + 1, prev |-> NO_NODE, event |-> ZeroEvent]]

init ==
  /\ header = [free_head |-> 0, used_head |-> NO_NODE, count |-> 0]
  /\ nodes = [i \in Slots |->
                [next  |-> IF i = MAX_NUM_EVENTS - 1 THEN NO_NODE ELSE i + 1,
                 prev  |-> NO_NODE,
                 event |-> ZeroEvent]]

is_empty == header.count = 0
is_full == header.count = MAX_NUM_EVENTS
is_free(slot) == nodes[slot].prev = NO_NODE

\* The slots in the order EventHeapIterator yields them: count links followed
\* from used_head.
iter ==
  LET visit[i \in Nat] ==
        IF i = 0 THEN header.used_head ELSE nodes[visit[i - 1]].next
  IN  [i \in 1 .. header.count |-> visit[i - 1]]

\* Whether delete_slot finds an event to return (otherwise it is an error and
\* the transaction changes nothing).
deletable(slot) == slot \in Slots /\ ~is_empty /\ ~is_free(slot)

\* Variant with a bug: the new event becomes the first.
push_back_AtFront(event) ==
  /\ ~is_full
  /\ LET slot == header.free_head
         new_next == IF is_empty THEN slot ELSE header.used_head
         new_prev == IF is_empty THEN slot ELSE nodes[new_next].prev
     IN /\ header' = [free_head |-> nodes[slot].next, used_head |-> slot,
                      count |-> header.count + 1]
        /\ nodes' = [nodes EXCEPT ![new_prev].next = slot, ![new_next].prev = slot,
             ![slot] = [next |-> new_next, prev |-> new_prev, event |-> event]]

\* Variant with a bug: the node keeps the event it had before.
push_back_KeepsOldEvent(event) ==
  /\ ~is_full
  /\ LET slot == header.free_head
         new_next == IF is_empty THEN slot ELSE header.used_head
         new_prev == IF is_empty THEN slot ELSE nodes[new_next].prev
     IN /\ header' = [free_head |-> nodes[slot].next, used_head |-> new_next,
                      count |-> header.count + 1]
        /\ nodes' = [nodes EXCEPT ![new_prev].next = slot, ![new_next].prev = slot,
                                  ![slot].next = new_next, ![slot].prev = new_prev]

\* The assertion that the heap is not full makes the transaction fail.
push_back(event) ==
  /\ ~is_full
  /\ LET slot == header.free_head
         new_next == IF is_empty THEN slot ELSE header.used_head
         new_prev == IF is_empty THEN slot ELSE nodes[new_next].prev
     IN /\ header' = [free_head |-> nodes[slot].next,
                      used_head |-> new_next,
                      count     |-> header.count + 1]
        /\ nodes' = [nodes EXCEPT ![new_prev].next = slot,
                                  ![new_next].prev = slot,
                                  ![slot] = [next  |-> new_next,
                                             prev  |-> new_prev,
                                             event |-> event]]

\* Variant with a bug: used_head still points at the deleted node.
delete_slot_KeepsHead(slot) ==
  /\ deletable(slot)
  /\ header' = [header EXCEPT !.free_head = slot, !.count = @ - 1]
  /\ nodes' = [nodes EXCEPT ![nodes[slot].prev].next = nodes[slot].next,
                            ![nodes[slot].next].prev = nodes[slot].prev,
                            ![slot].next = header.free_head, ![slot].prev = NO_NODE]

delete_slot(slot) ==
  /\ deletable(slot)
  /\ LET prev_slot == nodes[slot].prev
         next_slot == nodes[slot].next
     IN /\ header' = [header EXCEPT
              !.free_head = slot,
              !.used_head = IF header.count = 1 THEN NO_NODE
                            ELSE IF header.used_head = slot THEN next_slot
                            ELSE header.used_head,
              !.count = header.count - 1]
        /\ nodes' = [nodes EXCEPT ![prev_slot].next = next_slot,
                                  ![next_slot].prev = prev_slot,
                                  ![slot].next = header.free_head,
                                  ![slot].prev = NO_NODE]

pop_front == delete_slot(header.used_head)
=============================================================================
