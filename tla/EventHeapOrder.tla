--------------------------- MODULE EventHeapOrder ---------------------------
(***************************************************************************)
(* The event heap of heap.rs with two auxiliary variables that the program *)
(* does not have: the used slots in order of arrival and the free slots in *)
(* order of reuse.  They make it possible to say what the links of the     *)
(* nodes mean, and to map the heap to the queue it implements.             *)
(***************************************************************************)
EXTENDS EventHeap, SequencesExt

VARIABLES
  order,  \* used slots, oldest event first
  free    \* free slots, the next one to be used first

vars == <<header, nodes, order, free>>

PositionOf(slot) == CHOOSE i \in DOMAIN order : order[i] = slot

Init ==
  /\ init
  /\ order = << >>
  /\ free = [i \in 1 .. MAX_NUM_EVENTS |-> i - 1]

Push(event) ==
  /\ push_back(event)
  /\ order' = Append(order, header.free_head)
  /\ free' = Tail(free)

\* The bookkeeping of a deletion, whoever asked for it.
Release(slot) ==
  /\ order' = RemoveAt(order, PositionOf(slot))
  /\ free' = <<slot>> \o free

PopFront == pop_front /\ Release(header.used_head)
Delete(slot) == delete_slot(slot) /\ Release(slot)

Next ==
  \/ \E event \in Events : Push(event)
  \/ PopFront
  \/ \E slot \in Slots : Delete(slot)

Spec == Init /\ [][Next]_vars

-----------------------------------------------------------------------------
\* Every variable holds a value of its type.
TypeOK ==
  /\ header \in Headers
  /\ nodes \in [Slots -> EventNodes]
  /\ order \in Seq(Slots)
  /\ free \in Seq(Slots)

\* Each slot is on exactly one of the two lists, and once.
Partition ==
  /\ Len(order) + Len(free) = MAX_NUM_EVENTS
  /\ \A i, j \in 1 .. Len(order) : order[i] = order[j] => i = j
  /\ \A i, j \in 1 .. Len(free) : free[i] = free[j] => i = j
  /\ \A i \in 1 .. Len(order), j \in 1 .. Len(free) : order[i] # free[j]
  /\ \A slot \in Slots : \/ \E i \in 1 .. Len(order) : order[i] = slot
                         \/ \E i \in 1 .. Len(free) : free[i] = slot

\* The singly linked list that starts at free_head is the sequence free.
FreeList ==
  /\ header.free_head = IF Len(free) = 0 THEN NO_NODE ELSE free[1]
  /\ \A i \in 1 .. Len(free) :
       /\ nodes[free[i]].prev = NO_NODE
       /\ nodes[free[i]].next = IF i = Len(free) THEN NO_NODE ELSE free[i + 1]

\* The circular doubly linked list that starts at used_head is the sequence
\* order.
UsedList ==
  /\ header.used_head = IF Len(order) = 0 THEN NO_NODE ELSE order[1]
  /\ \A i \in 1 .. Len(order) :
       /\ nodes[order[i]].next = order[IF i = Len(order) THEN 1 ELSE i + 1]
       /\ nodes[order[i]].prev = order[IF i = 1 THEN Len(order) ELSE i - 1]

\* heap.rs 14-16: after any sequence of pushes, pops and deletions of middle
\* slots, every node is on exactly one of the two lists, the links of the
\* nodes spell those lists, and count is the length of the used one: no slot
\* is lost, none is used twice.
HeapStructure ==
  /\ Partition
  /\ FreeList
  /\ UsedList
  /\ header.count = Len(order)

\* EventHeapIterator (heap.rs 150-162) yields exactly the waiting events, in
\* the order they were pushed, however many were deleted from the middle.
IterationInArrivalOrder == iter = order

Queue == INSTANCE EventQueue
           WITH queue <- [i \in 1 .. Len(order) |->
                            [slot  |-> order[i],
                             event |-> nodes[order[i]].event]]

\* The array of nodes implements the bounded queue.
ImplementsQueue == Queue!Spec
=============================================================================
