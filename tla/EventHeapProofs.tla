--------------------------- MODULE EventHeapProofs ---------------------------
(***************************************************************************)
(* Proofs about the event heap, for every number of nodes and every set of *)
(* events: the two lists always partition the array and their links are    *)
(* right, and the array implements the bounded queue of EventQueue.        *)
(***************************************************************************)
EXTENDS EventHeapOrder, SequencesExt, FiniteSetTheorems, SequenceTheorems, TLAPS

\* What RemoveAt does to a sequence: the elements after the removed one move
\* up by one place.
LEMMA RemoveAtFacts ==
  ASSUME NEW S, NEW s \in Seq(S), NEW i \in 1 .. Len(s)
  PROVE  /\ RemoveAt(s, i) \in Seq(S)
         /\ Len(RemoveAt(s, i)) = Len(s) - 1
         /\ \A j \in 1 .. Len(s) - 1 :
              RemoveAt(s, i)[j] = IF j < i THEN s[j] ELSE s[j + 1]
<1> DEFINE front == SubSeq(s, 1, i - 1)
           back  == SubSeq(s, i + 1, Len(s))
<1>1. front \in Seq(S) /\ Len(front) = i - 1 /\ \A j \in 1 .. i - 1 : front[j] = s[j]
  OBVIOUS
<1>2. /\ back \in Seq(S) /\ Len(back) = Len(s) - i
      /\ \A j \in 1 .. Len(s) - i : back[j] = s[i + j]
  OBVIOUS
<1>3. RemoveAt(s, i) = front \o back
  BY DEF RemoveAt
<1> HIDE DEF front, back
<1>4. front \o back \in Seq(S) /\ Len(front \o back) = Len(s) - 1
  BY <1>1, <1>2
<1>5. ASSUME NEW j \in 1 .. Len(s) - 1
      PROVE  (front \o back)[j] = IF j < i THEN s[j] ELSE s[j + 1]
  <2>1. CASE j < i
    BY <2>1, <1>1, <1>2
  <2>2. CASE ~(j < i)
    <3>1. j - Len(front) \in 1 .. Len(s) - i /\ i + (j - Len(front)) = j + 1
      BY <2>2, <1>1
    <3>2. (front \o back)[j] = back[j - Len(front)]
      BY <2>2, <1>1, <1>2
    <3> QED BY <2>2, <3>1, <3>2, <1>2
  <2> QED BY <2>1, <2>2
<1> QED BY <1>3, <1>4, <1>5

-----------------------------------------------------------------------------
(* The inductive invariant: the types and the structure of the two lists.  *)

\* The inductive invariant: the types, and what ties the state together.
IInv == TypeOK /\ HeapStructure

\* The zeroed heap (EventHeap::init) has one list, of all the nodes.
LEMMA InitIInv == Init => IInv
<1> SUFFICES ASSUME Init PROVE IInv
  OBVIOUS
<1> USE HeapAssumption DEF Init, init, Slots
<1>1. /\ Len(free) = MAX_NUM_EVENTS /\ free \in Seq(Slots)
      /\ \A i \in 1 .. Len(free) : free[i] = i - 1
  OBVIOUS
<1>2. order = << >> /\ Len(order) = 0 /\ order \in Seq(Slots)
  OBVIOUS
<1>3. TypeOK
  <2>1. header \in Headers
    BY DEF Headers, Links
  <2>2. nodes \in [Slots -> EventNodes]
    BY DEF EventNodes, Links
  <2> QED BY <1>1, <1>2, <2>1, <2>2 DEF TypeOK
<1>4. Partition
  <2>1. \A slot \in Slots : slot + 1 \in 1 .. Len(free) /\ free[slot + 1] = slot
    BY <1>1
  <2>2. Len(order) + Len(free) = MAX_NUM_EVENTS
    BY <1>1, <1>2
  <2>3. \A i, j \in 1 .. Len(free) : free[i] = free[j] => i = j
    <3> SUFFICES ASSUME NEW i \in 1 .. Len(free), NEW j \in 1 .. Len(free), free[i] = free[j]
                 PROVE  i = j
      OBVIOUS
    <3>1. free[i] = i - 1 /\ free[j] = j - 1
      BY <1>1
    <3>2. i \in Int /\ j \in Int
      OBVIOUS
    <3>3. i - 1 = j - 1
      BY <3>1
    <3> QED BY <3>2, <3>3
  <2> HIDE DEF Init, init
  <2>4. \A i \in 1 .. Len(order) : FALSE
    BY <1>2
  <2>5. \A slot \in Slots : \E i \in 1 .. Len(free) : free[i] = slot
    BY <2>1
  <2> QED BY <2>2, <2>3, <2>4, <2>5 DEF Partition
<1>5. FreeList
  <2>1. header.free_head = 0
    OBVIOUS
  <2>2. ASSUME NEW i \in 1 .. Len(free)
        PROVE  /\ nodes[free[i]].prev = NO_NODE
               /\ nodes[free[i]].next = IF i = Len(free) THEN NO_NODE ELSE free[i + 1]
    <3>1. free[i] = i - 1 /\ i - 1 \in Slots /\ (i # Len(free) => free[i + 1] = i)
      BY <1>1
    <3>2. nodes[i - 1] = [next |-> IF i - 1 = MAX_NUM_EVENTS - 1 THEN NO_NODE ELSE (i - 1) + 1,
                          prev |-> NO_NODE, event |-> ZeroEvent]
      BY <3>1
    <3> QED BY <3>1, <3>2, <1>1
  <2>3. Len(free) # 0 /\ free[1] = 0
    BY <1>1
  <2> QED BY <2>1, <2>2, <2>3 DEF FreeList
<1>6. UsedList /\ header.count = Len(order)
  <2>1. header.used_head = NO_NODE /\ header.count = 0
    OBVIOUS
  <2> QED BY <1>2, <2>1 DEF UsedList
<1> QED BY <1>3, <1>4, <1>5, <1>6 DEF IInv, HeapStructure

-----------------------------------------------------------------------------
(* push_back takes the first free node and links it in before used_head,   *)
(* that is at the end of the circular list.                                *)

\* One write to the array of nodes, and the writes of delete_slot and of push_back in
\* their order.
SetNext(array, s, link) == [array EXCEPT ![s].next = link]
\* The node array with one backward link written, after a node was unlinked, and after one
\* was linked.
SetPrev(array, s, link) == [array EXCEPT ![s].prev = link]
\* The array after a node was taken out of its list and put at the head of the free list.
Unlinked(array, slot, prev_slot, next_slot, head) ==
  SetPrev(SetNext(SetPrev(SetNext(array, prev_slot, next_slot), next_slot, prev_slot),
                  slot, head), slot, NO_NODE)
\* The array after a free node was filled and linked between two others.
Linked(array, slot, prev_slot, next_slot, event) ==
  [SetPrev(SetNext(array, prev_slot, slot), next_slot, slot) EXCEPT
     ![slot] = [next |-> next_slot, prev |-> prev_slot, event |-> event]]

\* A node as the pair of its links and its event.
NodeIs(array, k, next, prev, event) ==
  array[k].next = next /\ array[k].prev = prev /\ array[k].event = event
\* The node arrays these lemmas speak of.
Arrays == [Slots -> EventNodes]

\* Writing one link of one node changes nothing else in the array.
LEMMA SetNextFacts ==
  ASSUME NEW array \in Arrays, NEW s \in Slots, NEW link \in Links
  PROVE  /\ SetNext(array, s, link) \in Arrays
         /\ \A k \in Slots : \A next, prev, event : NodeIs(array, k, next, prev, event) => 
              NodeIs(SetNext(array, s, link), k, IF k = s THEN link ELSE next, prev, event)
BY DEF EventNodes, SetNext, Arrays, NodeIs

\* Writing a backward link changes that link of that node and nothing else.
LEMMA SetPrevFacts ==
  ASSUME NEW array \in Arrays, NEW s \in Slots, NEW link \in Links
  PROVE  /\ SetPrev(array, s, link) \in Arrays
         /\ \A k \in Slots : \A next, prev, event : NodeIs(array, k, next, prev, event) => 
              NodeIs(SetPrev(array, s, link), k, next, IF k = s THEN link ELSE prev, event)
BY DEF EventNodes, SetPrev, Arrays, NodeIs

\* push_back puts the new node between the last and the first of the circle.
LEMMA LinkedFacts ==
  ASSUME NEW array \in Arrays, NEW slot \in Slots, NEW prev_slot \in Slots,
         NEW next_slot \in Slots, NEW event \in Events
  PROVE  /\ Linked(array, slot, prev_slot, next_slot, event) \in Arrays
         /\ \A k \in Slots : \A next, prev, old : NodeIs(array, k, next, prev, old) =>
              NodeIs(Linked(array, slot, prev_slot, next_slot, event), k,
                     IF k = slot THEN next_slot ELSE IF k = prev_slot THEN slot ELSE next,
                     IF k = slot THEN prev_slot ELSE IF k = next_slot THEN slot ELSE prev,
                     IF k = slot THEN event ELSE old)
<1> DEFINE a == SetNext(array, prev_slot, slot)
           b == SetPrev(a, next_slot, slot)
           node == [next |-> next_slot, prev |-> prev_slot, event |-> event]
           c == [b EXCEPT ![slot] = node]
<1>1. slot \in Links /\ node \in EventNodes
  BY DEF Links, EventNodes
<1>2. a \in Arrays
  BY <1>1, SetNextFacts
<1>3. b \in Arrays
  BY <1>1, <1>2, SetPrevFacts
<1>4. Linked(array, slot, prev_slot, next_slot, event) = c
  BY DEF Linked
<1>5. ASSUME NEW k \in Slots, NEW next, NEW prev, NEW old, NodeIs(array, k, next, prev, old)
      PROVE  NodeIs(b, k, IF k = prev_slot THEN slot ELSE next,
                    IF k = next_slot THEN slot ELSE prev, old)
  <2> DEFINE next1 == IF k = prev_slot THEN slot ELSE next
  <2>1. NodeIs(a, k, next1, prev, old)
    BY <1>1, <1>5, SetNextFacts
  <2> HIDE DEF a, next1
  <2>2. NodeIs(b, k, next1, IF k = next_slot THEN slot ELSE prev, old)
    BY <1>1, <1>2, <2>1, SetPrevFacts
  <2> QED BY <2>2 DEF next1
<1>6. node.next = next_slot /\ node.prev = prev_slot /\ node.event = event
  OBVIOUS
<1> HIDE DEF b, node
<1>7. c \in Arrays /\ \A k \in Slots : c[k] = IF k = slot THEN node ELSE b[k]
  BY <1>1, <1>3 DEF Arrays
<1> HIDE DEF c
<1>8. ASSUME NEW k \in Slots, NEW next, NEW prev, NEW old, NodeIs(array, k, next, prev, old)
      PROVE  NodeIs(c, k,
                    IF k = slot THEN next_slot ELSE IF k = prev_slot THEN slot ELSE next,
                    IF k = slot THEN prev_slot ELSE IF k = next_slot THEN slot ELSE prev,
                    IF k = slot THEN event ELSE old)
  <2>1. CASE k = slot
    BY <1>6, <1>7, <2>1 DEF NodeIs
  <2>2. CASE k # slot
    BY <1>5, <1>7, <1>8, <2>2 DEF NodeIs
  <2> QED BY <2>1, <2>2
<1> QED BY <1>4, <1>7, <1>8

\* The writes of push_back are those of Linked.
LEMMA PushLinks ==
  ASSUME NEW event, push_back(event)
  PROVE  LET next_slot == IF is_empty THEN header.free_head ELSE header.used_head
             prev_slot == IF is_empty THEN header.free_head ELSE nodes[next_slot].prev
         IN  /\ nodes' = Linked(nodes, header.free_head, prev_slot, next_slot, event)
             /\ header' = [free_head |-> nodes[header.free_head].next, used_head |-> next_slot,
                           count |-> header.count + 1]
BY DEF push_back, Linked, SetNext, SetPrev

\* push_back keeps IInv (heap.rs 76-103).
LEMMA PushIInv ==
  ASSUME IInv, NEW event \in Events, Push(event)
  PROVE  IInv'
<1> DEFINE n == Len(order)
           slot == header.free_head
           prev_slot == IF n = 0 THEN slot ELSE order[n]
           next_slot == IF n = 0 THEN slot ELSE order[1]
<1>1. /\ order \in Seq(Slots) /\ free \in Seq(Slots) /\ n \in Nat
      /\ n = header.count /\ nodes \in [Slots -> EventNodes] /\ header \in Headers
  BY DEF IInv, TypeOK, HeapStructure
<1>2. /\ Len(free) \in Nat \ {0} /\ slot = free[1] /\ slot \in Slots
  <2>1. Len(free) # 0
    BY <1>1, HeapAssumption DEF IInv, HeapStructure, Partition, Push, push_back, is_full
  <2> QED BY <1>1, <2>1 DEF IInv, HeapStructure, FreeList
<1>3. slot # NO_NODE /\ NO_NODE \notin Slots
  BY <1>2, HeapAssumption DEF Slots
<1>4. /\ prev_slot \in Slots /\ next_slot \in Slots
      /\ n # 0 => nodes[order[1]].prev = order[n]
      /\ n # 0 => header.used_head = order[1]
  BY <1>1, <1>2 DEF IInv, HeapStructure, UsedList
<1>5. /\ header' = [free_head |-> nodes[slot].next, used_head |-> next_slot, count |-> n + 1]
      /\ nodes' = Linked(nodes, slot, prev_slot, next_slot, event)
  <2>1. next_slot = IF is_empty THEN header.free_head ELSE header.used_head
    BY <1>1, <1>4 DEF is_empty
  <2>2. prev_slot = IF is_empty THEN header.free_head ELSE nodes[next_slot].prev
    BY <1>1, <1>4 DEF is_empty
  <2> HIDE DEF next_slot, prev_slot, n
  <2> QED BY <1>1, <2>1, <2>2, PushLinks DEF Push
<1>6. /\ order' \in Seq(Slots) /\ Len(order') = n + 1 /\ order'[n + 1] = slot
      /\ \A i \in 1 .. n : order'[i] = order[i]
  BY <1>1, <1>2 DEF Push
<1>7. /\ free' \in Seq(Slots) /\ Len(free') = Len(free) - 1
      /\ \A i \in 1 .. Len(free) - 1 : free'[i] = free[i + 1]
  BY <1>1, <1>2 DEF Push
<1> HIDE DEF n, slot, prev_slot, next_slot
<1>8. /\ nodes' \in [Slots -> EventNodes]
      /\ \A k \in Slots :
           /\ nodes'[k].next = IF k = slot THEN next_slot
                              ELSE IF k = prev_slot THEN slot ELSE nodes[k].next
           /\ nodes'[k].prev = IF k = slot THEN prev_slot
                              ELSE IF k = next_slot THEN slot ELSE nodes[k].prev
           /\ nodes'[k].event = IF k = slot THEN event ELSE nodes[k].event
  <2>1. nodes \in Arrays
    BY <1>1 DEF Arrays
  <2>2. nodes' \in Arrays
    BY <1>2, <1>4, <1>5, <2>1, LinkedFacts
  <2>3. ASSUME NEW k \in Slots
        PROVE  NodeIs(nodes', k,
                 IF k = slot THEN next_slot ELSE IF k = prev_slot THEN slot ELSE nodes[k].next,
                 IF k = slot THEN prev_slot ELSE IF k = next_slot THEN slot ELSE nodes[k].prev,
                 IF k = slot THEN event ELSE nodes[k].event)
    <3>1. NodeIs(nodes, k, nodes[k].next, nodes[k].prev, nodes[k].event)
      BY DEF NodeIs
    <3> QED BY <1>2, <1>4, <1>5, <2>1, <3>1, LinkedFacts
  <2> QED BY <2>2, <2>3 DEF Arrays, NodeIs
<1>9. TypeOK'
  <2>1. header' \in Headers
    BY <1>1, <1>2, <1>4, <1>5 DEF Headers, EventNodes, Links
  <2> QED BY <1>6, <1>7, <1>8, <2>1 DEF TypeOK
<1>10. Partition'
  <2> USE <1>1, <1>2, <1>6, <1>7
  <2>1. Len(order') + Len(free') = MAX_NUM_EVENTS
    BY DEF IInv, HeapStructure, Partition, n
  <2>2. \A i \in 1 .. n : order[i] # slot
    BY DEF IInv, HeapStructure, Partition, n
  <2>3. ASSUME NEW i \in 1 .. Len(order'), NEW j \in 1 .. Len(order'), order'[i] = order'[j]
        PROVE  i = j
    <3>1. (i = n + 1 \/ i \in 1 .. n) /\ (j = n + 1 \/ j \in 1 .. n)
      OBVIOUS
    <3>2. CASE i = n + 1 /\ j \in 1 .. n
      BY <2>2, <2>3, <3>2
    <3>3. CASE j = n + 1 /\ i \in 1 .. n
      BY <2>2, <2>3, <3>3
    <3>4. CASE i \in 1 .. n /\ j \in 1 .. n
      <4>1. order[i] = order[j]
        BY <2>3, <3>4
      <4> QED BY <3>4, <4>1 DEF IInv, HeapStructure, Partition, n
    <3> QED BY <3>1, <3>2, <3>3, <3>4
  <2>4. ASSUME NEW i \in 1 .. Len(free'), NEW j \in 1 .. Len(free'), free'[i] = free'[j]
        PROVE  i = j
    <3>1. /\ i + 1 \in 1 .. Len(free) /\ j + 1 \in 1 .. Len(free)
          /\ free[i + 1] = free[j + 1]
      BY <2>4
    <3>2. i + 1 = j + 1
      BY <3>1 DEF IInv, HeapStructure, Partition
    <3> QED BY <3>2
  <2>5. ASSUME NEW i \in 1 .. Len(order'), NEW j \in 1 .. Len(free')
        PROVE  order'[i] # free'[j]
    <3>1. free'[j] = free[j + 1] /\ j + 1 \in 1 .. Len(free) /\ j + 1 # 1
      OBVIOUS
    <3>2. free[j + 1] # free[1]
      BY <3>1 DEF IInv, HeapStructure, Partition
    <3>3. \A k \in 1 .. n : order[k] # free[j + 1]
      BY <3>1 DEF IInv, HeapStructure, Partition, n
    <3>4. i = n + 1 \/ i \in 1 .. n
      OBVIOUS
    <3>5. CASE i = n + 1
      BY <3>1, <3>2, <3>5
    <3>6. CASE i \in 1 .. n
      BY <3>1, <3>3, <3>6
    <3> QED BY <3>4, <3>5, <3>6
  <2>6. ASSUME NEW k \in Slots
        PROVE  \/ \E i \in 1 .. Len(order') : order'[i] = k
               \/ \E i \in 1 .. Len(free') : free'[i] = k
    <3>1. ASSUME NEW i \in 1 .. n, order[i] = k
          PROVE  \E j \in 1 .. Len(order') : order'[j] = k
      <4>1. i \in 1 .. Len(order') /\ order'[i] = k
        BY <3>1
      <4> QED BY <4>1
    <3>2. CASE k = slot
      <4>1. n + 1 \in 1 .. Len(order') /\ order'[n + 1] = k
        BY <3>2
      <4> QED BY <4>1
    <3>3. ASSUME NEW i \in 1 .. Len(free), free[i] = k, k # slot
          PROVE  \E j \in 1 .. Len(free') : free'[j] = k
      <4>1. i - 1 \in 1 .. Len(free) - 1 /\ (i - 1) + 1 = i
        BY <3>3
      <4>2. free'[i - 1] = k
        BY <3>3, <4>1
      <4> QED BY <4>1, <4>2
    <3>4. (\E i \in 1 .. n : order[i] = k) \/ (\E i \in 1 .. Len(free) : free[i] = k)
      BY DEF IInv, HeapStructure, Partition, n
    <3> QED BY <3>1, <3>2, <3>3, <3>4
  <2> QED BY <2>1, <2>3, <2>4, <2>5, <2>6 DEF Partition
<1>11. FreeList'
  <2>1. header'.free_head = IF Len(free') = 0 THEN NO_NODE ELSE free'[1]
    <3>1. \A i \in 1 .. Len(free) :
            nodes[free[i]].next = IF i = Len(free) THEN NO_NODE ELSE free[i + 1]
      BY DEF IInv, HeapStructure, FreeList
    <3>2. 1 \in 1 .. Len(free) /\ 1 + 1 = 2
      BY <1>2
    <3>3. nodes[slot].next = IF 1 = Len(free) THEN NO_NODE ELSE free[2]
      BY <1>2, <3>1, <3>2
    <3>4. Len(free') # 0 => free'[1] = free[2]
      BY <1>1, <1>2, <1>7
    <3>5. header'.free_head = nodes[slot].next
      BY <1>5
    <3>6. Len(free') = 0 <=> 1 = Len(free)
      BY <1>1, <1>2, <1>7
    <3> QED BY <3>3, <3>4, <3>5, <3>6
  <2>2. ASSUME NEW i \in 1 .. Len(free')
        PROVE  /\ nodes'[free'[i]].prev = NO_NODE
               /\ nodes'[free'[i]].next = IF i = Len(free') THEN NO_NODE ELSE free'[i + 1]
    <3>1. /\ i + 1 \in 2 .. Len(free) /\ free'[i] = free[i + 1] /\ free[i + 1] \in Slots
          /\ i # Len(free') => free'[i + 1] = free[i + 2]
      BY <1>1, <1>2, <1>7
    <3>2. free[i + 1] # slot /\ free[i + 1] # prev_slot /\ free[i + 1] # next_slot
      <4>1. free[i + 1] # free[1]
        BY <3>1, <1>2 DEF IInv, HeapStructure, Partition
      <4>2. \A j \in 1 .. n : order[j] # free[i + 1]
        BY <3>1 DEF IInv, HeapStructure, Partition, n
      <4> QED BY <4>1, <4>2, <1>1, <1>2 DEF prev_slot, next_slot
    <3>3. /\ nodes[free[i + 1]].prev = NO_NODE
          /\ nodes[free[i + 1]].next = IF i + 1 = Len(free) THEN NO_NODE ELSE free[i + 2]
      BY <3>1 DEF IInv, HeapStructure, FreeList
    <3> QED BY <1>2, <1>7, <1>8, <3>1, <3>2, <3>3
  <2> QED BY <2>1, <2>2 DEF FreeList
<1>12. UsedList'
  <2>1. header'.used_head = order'[1] /\ Len(order') # 0
    <3>1. header'.used_head = next_slot
      BY <1>5
    <3>2. order'[1] = next_slot
      <4>1. CASE n = 0
        BY <4>1, <1>1, <1>6 DEF next_slot
      <4>2. CASE n # 0
        BY <4>2, <1>1, <1>6 DEF next_slot
      <4> QED BY <4>1, <4>2
    <3> QED BY <1>1, <1>6, <3>1, <3>2
  <2>2. ASSUME NEW i \in 1 .. n
        PROVE  order[i] \in Slots /\ order[i] # slot
    BY <1>1, <1>2 DEF IInv, HeapStructure, Partition, n
  <2>3. ASSUME NEW i \in 1 .. n + 1
        PROVE  nodes'[order'[i]].next = order'[IF i = n + 1 THEN 1 ELSE i + 1]
    <3>1. CASE i = n + 1
      <4>1. nodes'[slot].next = next_slot
        BY <1>2, <1>8
      <4>2. order'[1] = next_slot
        <5>1. CASE n = 0
          BY <5>1, <1>1, <1>6 DEF next_slot
        <5>2. CASE n # 0
          BY <5>2, <1>1, <1>6 DEF next_slot
        <5> QED BY <5>1, <5>2
      <4> QED BY <3>1, <4>1, <4>2, <1>6
    <3>2. CASE i = n
      <4>1. n # 0 /\ i \in 1 .. n /\ i # n + 1 /\ prev_slot = order[i]
        BY <3>2, <1>1 DEF prev_slot
      <4>2. order'[i] = order[i] /\ order[i] \in Slots /\ order[i] # slot
        BY <4>1, <1>6, <2>2
      <4>3. nodes'[order[i]].next = slot
        BY <4>1, <4>2, <1>8
      <4> QED BY <3>2, <4>1, <4>2, <4>3, <1>6
    <3>3. CASE i < n
      <4>1. i \in 1 .. n /\ i + 1 \in 1 .. n /\ n # 0
        BY <3>3, <1>1
      <4>2. order[i] # order[n]
        BY <3>3, <4>1 DEF IInv, HeapStructure, Partition, n
      <4>3. nodes[order[i]].next = order[i + 1]
        BY <3>3, <4>1 DEF IInv, HeapStructure, UsedList, n
      <4>4. order[i] # prev_slot /\ order[i] # slot /\ order[i] \in Slots
        BY <4>1, <4>2, <2>2 DEF prev_slot
      <4>5. nodes'[order[i]].next = order[i + 1]
        BY <4>3, <4>4, <1>8
      <4>6. order'[i] = order[i] /\ order'[i + 1] = order[i + 1] /\ i # n + 1
        BY <4>1, <1>6, <1>1
      <4> QED BY <4>5, <4>6
    <3>4. i = n + 1 \/ i = n \/ i < n
      BY <1>1
    <3> QED BY <3>1, <3>2, <3>3, <3>4
  <2>4. ASSUME NEW i \in 1 .. n + 1
        PROVE  nodes'[order'[i]].prev = order'[IF i = 1 THEN n + 1 ELSE i - 1]
    <3>1. CASE i = n + 1
      <4>1. nodes'[slot].prev = prev_slot
        BY <1>2, <1>8
      <4>2. order'[IF i = 1 THEN n + 1 ELSE i - 1] = prev_slot
        <5>1. CASE n = 0
          <6>1. i = 1 /\ prev_slot = slot
            BY <3>1, <5>1 DEF prev_slot
          <6> QED BY <5>1, <6>1, <1>6
        <5>2. CASE n # 0
          <6>1. i # 1 /\ i - 1 = n /\ n \in 1 .. n
            BY <3>1, <5>2, <1>1
          <6>2. prev_slot = order[n]
            BY <5>2 DEF prev_slot
          <6> QED BY <6>1, <6>2, <1>6
        <5> QED BY <5>1, <5>2
      <4> QED BY <3>1, <4>1, <4>2, <1>6
    <3>2. CASE i = 1 /\ n # 0
      <4>1. i \in 1 .. n /\ next_slot = order[i]
        BY <3>2, <1>1 DEF next_slot
      <4>2. order'[i] = order[i] /\ order[i] \in Slots /\ order[i] # slot
        BY <4>1, <1>6, <2>2
      <4>3. nodes'[order[i]].prev = slot
        BY <4>1, <4>2, <1>8
      <4> QED BY <3>2, <4>2, <4>3, <1>6
    <3>3. CASE 1 < i /\ i <= n
      <4>1. i \in 1 .. n /\ i - 1 \in 1 .. n /\ n # 0
        BY <3>3, <1>1
      <4>2. order[i] # order[1]
        BY <3>3, <4>1 DEF IInv, HeapStructure, Partition, n
      <4>3. nodes[order[i]].prev = order[i - 1]
        BY <3>3, <4>1 DEF IInv, HeapStructure, UsedList, n
      <4>4. order[i] # next_slot /\ order[i] # slot /\ order[i] \in Slots
        BY <4>1, <4>2, <2>2 DEF next_slot
      <4>5. nodes'[order[i]].prev = order[i - 1]
        BY <4>3, <4>4, <1>8
      <4>6. order'[i] = order[i] /\ order'[i - 1] = order[i - 1] /\ i # 1
        BY <3>3, <4>1, <1>6, <1>1
      <4> QED BY <4>5, <4>6
    <3>4. i = n + 1 \/ (i = 1 /\ n # 0) \/ (1 < i /\ i <= n)
      BY <1>1
    <3> QED BY <3>1, <3>2, <3>3, <3>4
  <2> QED BY <2>1, <2>3, <2>4, <1>6 DEF UsedList
<1>13. header'.count = Len(order')
  BY <1>5, <1>6
<1> QED BY <1>9, <1>10, <1>11, <1>12, <1>13 DEF IInv, HeapStructure

-----------------------------------------------------------------------------
(* delete_slot unlinks a used node from any place of the circular list and *)
(* makes it the first free node; pop_front is the case of the first one.   *)

\* delete_slot links the neighbours of the slot to each other and puts the slot
\* in front of the free nodes; no event changes (heap.rs 109-133).
LEMMA UnlinkedFacts ==
  ASSUME NEW array \in Arrays, NEW slot \in Slots, NEW head \in Links,
         NEW prev_slot \in Slots, NEW next_slot \in Slots
  PROVE  /\ Unlinked(array, slot, prev_slot, next_slot, head) \in Arrays
         /\ \A k \in Slots : \A next, prev, event : NodeIs(array, k, next, prev, event) =>
              NodeIs(Unlinked(array, slot, prev_slot, next_slot, head), k,
                     IF k = slot THEN head ELSE IF k = prev_slot THEN next_slot ELSE next,
                     IF k = slot THEN NO_NODE ELSE IF k = next_slot THEN prev_slot ELSE prev,
                     event)
<1>1. next_slot \in Links /\ prev_slot \in Links /\ NO_NODE \in Links
  BY DEF Links
<1> DEFINE a == SetNext(array, prev_slot, next_slot)
           b == SetPrev(a, next_slot, prev_slot)
           c == SetNext(b, slot, head)
           d == SetPrev(c, slot, NO_NODE)
<1>2. a \in Arrays
  BY <1>1, SetNextFacts
<1>3. b \in Arrays
  BY <1>1, <1>2, SetPrevFacts
<1>4. c \in Arrays
  BY <1>1, <1>3, SetNextFacts
<1>5. d \in Arrays
  BY <1>1, <1>4, SetPrevFacts
<1>6. ASSUME NEW k \in Slots, NEW next, NEW prev, NEW event, NodeIs(array, k, next, prev, event)
      PROVE  NodeIs(d, k,
                    IF k = slot THEN head ELSE IF k = prev_slot THEN next_slot ELSE next,
                    IF k = slot THEN NO_NODE ELSE IF k = next_slot THEN prev_slot ELSE prev,
                    event)
  <2> DEFINE next1 == IF k = prev_slot THEN next_slot ELSE next
             prev1 == IF k = next_slot THEN prev_slot ELSE prev
             prev2 == IF k = slot THEN NO_NODE ELSE prev1
             next2 == IF k = slot THEN head ELSE next1
  <2>1. NodeIs(a, k, next1, prev, event)
    BY <1>1, <1>6, SetNextFacts
  <2> HIDE DEF a, next1
  <2>2. NodeIs(b, k, next1, prev1, event)
    BY <1>1, <1>2, <2>1, SetPrevFacts
  <2> HIDE DEF b, prev1
  <2>3. NodeIs(c, k, next2, prev1, event)
    BY <1>1, <1>3, <2>2, SetNextFacts
  <2> HIDE DEF c, next2
  <2>4. NodeIs(d, k, next2, prev2, event)
    BY <1>1, <1>4, <2>3, SetPrevFacts
  <2> QED BY <2>4 DEF next2, prev2, next1, prev1
<1> QED BY <1>5, <1>6 DEF Unlinked

\* The neighbours of a slot that can be deleted are slots in use.
LEMMA NeighboursUsed ==
  ASSUME IInv, NEW slot, delete_slot(slot)
  PROVE  nodes[slot].prev \in Slots /\ nodes[slot].next \in Slots
<1>1. slot \in Slots /\ nodes[slot].prev # NO_NODE /\ Len(order) \in Nat
  BY DEF delete_slot, deletable, is_free, IInv, TypeOK
<1>2. \A i \in 1 .. Len(free) : nodes[free[i]].prev = NO_NODE
  BY DEF IInv, HeapStructure, FreeList
<1>3. PICK i \in 1 .. Len(order) : order[i] = slot
  BY <1>1, <1>2 DEF IInv, HeapStructure, Partition
<1>4. \A j \in 1 .. Len(order) : order[j] \in Slots
  BY DEF IInv, TypeOK
<1>5. nodes[slot].next \in Slots
  <2>1. nodes[order[i]].next = order[IF i = Len(order) THEN 1 ELSE i + 1]
    BY DEF IInv, HeapStructure, UsedList
  <2> QED BY <1>1, <1>3, <1>4, <2>1
<1>6. nodes[slot].prev \in Slots
  <2>1. nodes[order[i]].prev = order[IF i = 1 THEN Len(order) ELSE i - 1]
    BY DEF IInv, HeapStructure, UsedList
  <2> QED BY <1>1, <1>3, <1>4, <2>1
<1> QED BY <1>5, <1>6

\* The writes of delete_slot to the array are those of Unlinked.
LEMMA DeleteUnlinks ==
  ASSUME NEW slot, delete_slot(slot)
  PROVE  nodes' = Unlinked(nodes, slot, nodes[slot].prev, nodes[slot].next, header.free_head)
BY DEF delete_slot, Unlinked, SetNext, SetPrev

\* delete_slot keeps IInv, whichever used slot it is given (heap.rs 109-133).
LEMMA DeleteIInv ==
  ASSUME IInv, NEW slot, delete_slot(slot), Release(slot)
  PROVE  IInv'
<1> DEFINE n == Len(order)
           p == PositionOf(slot)
           up(i) == IF i < p THEN i ELSE i + 1
           succ(i) == IF i = n THEN 1 ELSE i + 1
           pred(i) == IF i = 1 THEN n ELSE i - 1
           prev_slot == nodes[slot].prev
           next_slot == nodes[slot].next
<1>1. /\ order \in Seq(Slots) /\ free \in Seq(Slots) /\ n \in Nat /\ Len(free) \in Nat
      /\ n = header.count /\ nodes \in [Slots -> EventNodes] /\ header \in Headers
      /\ slot \in Slots /\ prev_slot # NO_NODE /\ NO_NODE \notin Slots
  BY HeapAssumption DEF IInv, TypeOK, HeapStructure, delete_slot, deletable, is_free, Slots
<1>2. /\ \A i, j \in 1 .. n : order[i] = order[j] => i = j
      /\ \A i \in 1 .. n : order[i] \in Slots
      /\ \A i \in 1 .. n : nodes[order[i]].next = order[succ(i)]
      /\ \A i \in 1 .. n : nodes[order[i]].prev = order[pred(i)]
      /\ n # 0 => header.used_head = order[1]
      /\ n + Len(free) = MAX_NUM_EVENTS
  BY <1>1 DEF IInv, HeapStructure, Partition, UsedList
<1>3. /\ \A i, j \in 1 .. Len(free) : free[i] = free[j] => i = j
      /\ \A i \in 1 .. Len(free) : free[i] \in Slots
      /\ \A i \in 1 .. n, j \in 1 .. Len(free) : order[i] # free[j]
      /\ \A i \in 1 .. Len(free) : nodes[free[i]].prev = NO_NODE
      /\ \A i \in 1 .. Len(free) :
           nodes[free[i]].next = IF i = Len(free) THEN NO_NODE ELSE free[i + 1]
      /\ header.free_head = IF Len(free) = 0 THEN NO_NODE ELSE free[1]
  BY <1>1 DEF IInv, HeapStructure, Partition, FreeList
<1>4. \A k \in Slots : \/ \E i \in 1 .. n : order[i] = k
                       \/ \E i \in 1 .. Len(free) : free[i] = k
  BY DEF IInv, HeapStructure, Partition
<1>5. p \in 1 .. n /\ order[p] = slot
  <2>1. \A i \in 1 .. Len(free) : free[i] # slot
    BY <1>1, <1>3
  <2>2. \E i \in 1 .. n : order[i] = slot
    BY <1>1, <1>4, <2>1
  <2>3. DOMAIN order = 1 .. n
    BY <1>1
  <2> QED BY <2>2, <2>3 DEF PositionOf
<1>6. /\ order' \in Seq(Slots) /\ Len(order') = n - 1
      /\ \A j \in 1 .. n - 1 : order'[j] = order[up(j)]
  <2>1. order' = RemoveAt(order, p)
    BY DEF Release
  <2> HIDE DEF p
  <2>2. /\ RemoveAt(order, p) \in Seq(Slots) /\ Len(RemoveAt(order, p)) = n - 1
        /\ \A j \in 1 .. n - 1 :
             RemoveAt(order, p)[j] = IF j < p THEN order[j] ELSE order[j + 1]
    BY <1>1, <1>5, RemoveAtFacts
  <2> QED BY <2>1, <2>2
<1>7. /\ free' \in Seq(Slots) /\ Len(free') = Len(free) + 1 /\ free'[1] = slot
      /\ \A i \in 1 .. Len(free) : free'[i + 1] = free[i]
  BY <1>1 DEF Release
<1>8. /\ prev_slot = order[pred(p)] /\ next_slot = order[succ(p)]
      /\ pred(p) \in 1 .. n /\ succ(p) \in 1 .. n
      /\ prev_slot \in Slots /\ next_slot \in Slots
  <2> HIDE DEF p
  <2>1. pred(p) \in 1 .. n /\ succ(p) \in 1 .. n
    BY <1>1, <1>5
  <2> HIDE DEF succ, pred
  <2> QED BY <1>2, <1>5, <2>1
<1> HIDE DEF p, n, prev_slot, next_slot, succ, pred
<1>9. /\ header' = [free_head |-> slot, count |-> n - 1,
                    used_head |-> IF n = 1 THEN NO_NODE
                                  ELSE IF header.used_head = slot THEN next_slot
                                  ELSE header.used_head]
      /\ header' \in Headers
  <2>1. n # 0 /\ n - 1 \in Nat
    BY <1>1, <1>5
  <2>2. /\ header.used_head \in Links /\ slot \in Links /\ next_slot \in Links
        /\ NO_NODE \in Links
    BY <1>1, <1>8 DEF Headers, Links
  <2>3. header' = [free_head |-> slot, count |-> n - 1,
                   used_head |-> IF n = 1 THEN NO_NODE
                                 ELSE IF header.used_head = slot THEN next_slot
                                 ELSE header.used_head]
    BY <1>1 DEF delete_slot, Headers, next_slot
  <2> QED BY <2>1, <2>2, <2>3 DEF Headers
<1>10. /\ nodes' \in [Slots -> EventNodes]
       /\ \A k \in Slots :
             /\ nodes'[k].next = IF k = slot THEN header.free_head
                                 ELSE IF k = prev_slot THEN next_slot ELSE nodes[k].next
             /\ nodes'[k].prev = IF k = slot THEN NO_NODE
                                 ELSE IF k = next_slot THEN prev_slot ELSE nodes[k].prev
             /\ nodes'[k].event = nodes[k].event
  <2>1. header.free_head \in Links /\ nodes \in Arrays
    BY <1>1 DEF Headers, Arrays
  <2>2. nodes' = Unlinked(nodes, slot, prev_slot, next_slot, header.free_head)
    BY DeleteUnlinks DEF prev_slot, next_slot
  <2>3. nodes' \in Arrays
    BY <1>1, <1>8, <2>1, <2>2, UnlinkedFacts
  <2>4. ASSUME NEW k \in Slots
        PROVE  NodeIs(nodes', k,
                 IF k = slot THEN header.free_head
                 ELSE IF k = prev_slot THEN next_slot ELSE nodes[k].next,
                 IF k = slot THEN NO_NODE
                 ELSE IF k = next_slot THEN prev_slot ELSE nodes[k].prev,
                 nodes[k].event)
    <3>1. NodeIs(nodes, k, nodes[k].next, nodes[k].prev, nodes[k].event)
      BY DEF NodeIs
    <3> QED BY <1>1, <1>8, <2>1, <2>2, <3>1, UnlinkedFacts
  <2> QED BY <2>3, <2>4 DEF Arrays, NodeIs
<1>11. TypeOK'
  <2> QED BY <1>6, <1>7, <1>9, <1>10 DEF TypeOK
<1>12. \A j \in 1 .. n - 1 : up(j) \in 1 .. n /\ up(j) # p /\ order[up(j)] # slot
  <2>1. \A j \in 1 .. n - 1 : up(j) \in 1 .. n /\ up(j) # p
    BY <1>1, <1>5
  <2> HIDE DEF up
  <2> QED BY <1>2, <1>5, <2>1
<1>13. Partition'
  <2>1. Len(order') + Len(free') = MAX_NUM_EVENTS
    BY <1>1, <1>2, <1>6, <1>7
  <2>2. ASSUME NEW i \in 1 .. Len(order'), NEW j \in 1 .. Len(order'), order'[i] = order'[j]
        PROVE  i = j
    <3>1. i \in 1 .. n - 1 /\ j \in 1 .. n - 1
      BY <1>6
    <3>2. up(i) = up(j)
      <4> HIDE DEF up
      <4> QED BY <1>2, <1>6, <1>12, <2>2, <3>1
    <3> QED BY <1>1, <1>5, <3>1, <3>2
  <2>3. \A i \in 1 .. Len(free') :
          \/ i = 1 /\ free'[i] = slot
          \/ i - 1 \in 1 .. Len(free) /\ i # 1 /\ free'[i] = free[i - 1]
    <3> SUFFICES ASSUME NEW i \in 1 .. Len(free'), i # 1
                 PROVE  i - 1 \in 1 .. Len(free) /\ free'[i] = free[i - 1]
      BY <1>7
    <3>1. i - 1 \in 1 .. Len(free) /\ (i - 1) + 1 = i
      BY <1>1, <1>7
    <3> QED BY <1>7, <3>1
  <2>4. \A i \in 1 .. Len(free) : free[i] # slot
    BY <1>3, <1>5
  <2>5. ASSUME NEW i \in 1 .. Len(free'), NEW j \in 1 .. Len(free'), free'[i] = free'[j]
        PROVE  i = j
    <3>1. CASE i = 1
      BY <2>3, <2>4, <2>5, <3>1
    <3>2. CASE i # 1
      <4>1. i - 1 \in 1 .. Len(free) /\ free'[i] = free[i - 1]
        BY <2>3, <3>2
      <4>2. j - 1 \in 1 .. Len(free) /\ free'[j] = free[j - 1]
        BY <2>3, <2>4, <2>5, <4>1
      <4>3. i - 1 = j - 1
        BY <1>3, <2>5, <4>1, <4>2
      <4> QED BY <4>3
    <3> QED BY <3>1, <3>2
  <2>6. ASSUME NEW i \in 1 .. Len(order'), NEW j \in 1 .. Len(free')
        PROVE  order'[i] # free'[j]
    <3>1. order'[i] = order[up(i)] /\ up(i) \in 1 .. n /\ order[up(i)] # slot
      <4> HIDE DEF up
      <4> QED BY <1>6, <1>12
    <3> HIDE DEF up
    <3> QED BY <1>3, <2>3, <3>1
  <2>7. ASSUME NEW k \in Slots
        PROVE  \/ \E i \in 1 .. Len(order') : order'[i] = k
               \/ \E i \in 1 .. Len(free') : free'[i] = k
    <3>1. CASE k = slot
      <4>1. 1 \in 1 .. Len(free') /\ free'[1] = k
        BY <1>1, <1>7, <3>1
      <4> QED BY <4>1
    <3>2. ASSUME NEW i \in 1 .. Len(free), free[i] = k
          PROVE  \E j \in 1 .. Len(free') : free'[j] = k
      <4>1. i + 1 \in 1 .. Len(free') /\ free'[i + 1] = k
        BY <1>1, <1>7, <3>2
      <4> QED BY <4>1
    <3>3. ASSUME NEW i \in 1 .. n, order[i] = k, k # slot
          PROVE  \E j \in 1 .. Len(order') : order'[j] = k
      <4>1. i # p
        BY <1>5, <3>3
      <4>2. \E j \in 1 .. n - 1 : up(j) = i
        <5>1. CASE i < p
          <6>1. i \in 1 .. n - 1 /\ up(i) = i
            BY <1>1, <1>5, <5>1
          <6> QED BY <6>1
        <5>2. CASE p < i
          <6>1. i - 1 \in 1 .. n - 1 /\ up(i - 1) = i
            BY <1>1, <1>5, <5>2
          <6> QED BY <6>1
        <5> QED BY <1>1, <1>5, <4>1, <5>1, <5>2
      <4> HIDE DEF up
      <4> QED BY <1>6, <3>3, <4>2
    <3> QED BY <1>4, <3>1, <3>2, <3>3
  <2> QED BY <2>1, <2>2, <2>5, <2>6, <2>7 DEF Partition
<1>14. FreeList'
  <2>1. header'.free_head = IF Len(free') = 0 THEN NO_NODE ELSE free'[1]
    BY <1>1, <1>7, <1>9
  <2>2. ASSUME NEW i \in 1 .. Len(free')
        PROVE  /\ nodes'[free'[i]].prev = NO_NODE
               /\ nodes'[free'[i]].next = IF i = Len(free') THEN NO_NODE ELSE free'[i + 1]
    <3>1. CASE i = 1
      <4>1. nodes'[slot].prev = NO_NODE /\ nodes'[slot].next = header.free_head
        BY <1>1, <1>10
      <4>2. CASE Len(free) = 0
        BY <1>3, <1>7, <3>1, <4>1, <4>2
      <4>3. CASE Len(free) # 0
        <5>1. 1 \in 1 .. Len(free) /\ 1 + 1 = 2 /\ 1 # Len(free')
          BY <1>1, <1>7, <4>3
        <5>2. free'[2] = free[1]
          BY <1>7, <5>1
        <5> QED BY <1>3, <1>7, <3>1, <4>1, <4>3, <5>1, <5>2
      <4> QED BY <4>2, <4>3
    <3>2. CASE i # 1
      <4> DEFINE k == i - 1
      <4>1. k \in 1 .. Len(free) /\ k + 1 = i /\ (i = Len(free') <=> k = Len(free))
        BY <1>1, <1>7, <3>2
      <4> HIDE DEF k
      <4>2. free'[i] = free[k] /\ free[k] \in Slots
        BY <1>3, <1>7, <4>1
      <4>3. free[k] # slot /\ free[k] # prev_slot /\ free[k] # next_slot
        <5> HIDE DEF succ, pred
        <5> QED BY <1>3, <1>5, <1>8, <4>1
      <4>4. nodes'[free[k]].prev = NO_NODE
        BY <1>3, <1>10, <4>1, <4>2, <4>3
      <4>5. nodes'[free[k]].next = IF k = Len(free) THEN NO_NODE ELSE free[k + 1]
        BY <1>3, <1>10, <4>1, <4>2, <4>3
      <4>6. k # Len(free) => free'[i + 1] = free[k + 1]
        <5>1. k # Len(free) => k + 1 \in 1 .. Len(free)
          BY <1>1, <4>1
        <5> QED BY <1>7, <4>1, <5>1
      <4> QED BY <4>1, <4>2, <4>4, <4>5, <4>6
    <3> QED BY <3>1, <3>2
  <2> QED BY <2>1, <2>2 DEF FreeList
<1>15. UsedList'
  <2>1. header'.used_head = IF Len(order') = 0 THEN NO_NODE ELSE order'[1]
    <3>1. CASE n = 1
      BY <1>6, <1>9, <3>1
    <3>2. CASE n # 1
      <4>1. /\ 1 \in 1 .. n - 1 /\ 1 \in 1 .. n /\ n # 0 /\ Len(order') # 0
            /\ up(1) = IF 1 = p THEN succ(p) ELSE 1
        BY <1>1, <1>5, <1>6, <3>2 DEF succ
      <4> HIDE DEF up, succ
      <4>2. header.used_head = slot <=> 1 = p
        BY <1>2, <1>5, <4>1
      <4> QED BY <1>2, <1>6, <1>8, <1>9, <3>2, <4>1, <4>2
    <3> QED BY <3>1, <3>2
  <2>2. ASSUME NEW j \in 1 .. n - 1
        PROVE  nodes'[order'[j]].next = order'[IF j = n - 1 THEN 1 ELSE j + 1]
    <3> DEFINE r == IF j = n - 1 THEN 1 ELSE j + 1
    <3>1. r \in 1 .. n - 1 /\ up(r) = IF up(j) = pred(p) THEN succ(p) ELSE succ(up(j))
      BY <1>1, <1>5 DEF succ, pred
    <3> HIDE DEF r, up, succ, pred
    <3>2. up(j) \in 1 .. n /\ order[up(j)] # slot /\ order[up(j)] \in Slots
      BY <1>2, <1>12
    <3>3. order[up(j)] = prev_slot <=> up(j) = pred(p)
      BY <1>2, <1>8, <3>2
    <3>4. nodes'[order[up(j)]].next = order[up(r)]
      BY <1>2, <1>8, <1>10, <3>1, <3>2, <3>3
    <3> QED BY <1>6, <3>1, <3>4 DEF r
  <2>3. ASSUME NEW j \in 1 .. n - 1
        PROVE  nodes'[order'[j]].prev = order'[IF j = 1 THEN n - 1 ELSE j - 1]
    <3> DEFINE r == IF j = 1 THEN n - 1 ELSE j - 1
    <3>1. r \in 1 .. n - 1 /\ up(r) = IF up(j) = succ(p) THEN pred(p) ELSE pred(up(j))
      BY <1>1, <1>5 DEF succ, pred
    <3> HIDE DEF r, up, succ, pred
    <3>2. up(j) \in 1 .. n /\ order[up(j)] # slot /\ order[up(j)] \in Slots
      BY <1>2, <1>12
    <3>3. order[up(j)] = next_slot <=> up(j) = succ(p)
      BY <1>2, <1>8, <3>2
    <3>4. nodes'[order[up(j)]].prev = order[up(r)]
      BY <1>2, <1>8, <1>10, <3>1, <3>2, <3>3
    <3> QED BY <1>6, <3>1, <3>4 DEF r
  <2> QED BY <1>6, <2>1, <2>2, <2>3 DEF UsedList
<1>16. header'.count = Len(order')
  BY <1>6, <1>9
<1>17. HeapStructure'
  BY <1>13, <1>14, <1>15, <1>16 DEF HeapStructure
<1> QED BY <1>11, <1>17 DEF IInv

-----------------------------------------------------------------------------
(* The theorems on the array of nodes.                                     *)

\* IInv is inductive: no operation of the heap breaks it.
LEMMA NextIInv == IInv /\ [Next]_vars => IInv'
<1> SUFFICES ASSUME IInv, [Next]_vars PROVE IInv'
  OBVIOUS
<1>1. CASE \E event \in Events : Push(event)
  BY <1>1, PushIInv
<1>2. CASE PopFront
  <2>1. delete_slot(header.used_head) /\ Release(header.used_head)
    BY <1>2 DEF PopFront, pop_front
  <2> QED BY <2>1, DeleteIInv
<1>3. CASE \E slot \in Slots : Delete(slot)
  BY <1>3, DeleteIInv DEF Delete
<1>4. CASE UNCHANGED vars
  <2>1. header' = header /\ nodes' = nodes /\ order' = order /\ free' = free
    BY <1>4 DEF vars
  <2>2. TypeOK' /\ Partition' /\ header'.count = Len(order')
    BY <2>1 DEF IInv, HeapStructure, TypeOK, Partition
  <2>3. FreeList'
    BY <2>1 DEF IInv, HeapStructure, FreeList
  <2>4. UsedList'
    BY <2>1 DEF IInv, HeapStructure, UsedList
  <2> QED BY <2>2, <2>3, <2>4 DEF IInv, HeapStructure
<1> QED BY <1>1, <1>2, <1>3, <1>4 DEF Next

\* Whatever the order book pushes and the cranks take out, for any size of the
\* heap, IInv holds.
THEOREM IInvHolds == Spec => []IInv
<1> QED BY InitIInv, NextIInv, PTL DEF Spec

\* Links never point outside the array and the counters keep their types.
THEOREM TypeCorrect == Spec => []TypeOK
<1>1. IInv => TypeOK
  BY DEF IInv
<1> QED BY <1>1, IInvHolds, PTL

\* push_back, pop_front and delete_slot never lose a node, never use one twice
\* and leave the links of both lists right (heap.rs 76-133).
THEOREM StructureHolds == Spec => []HeapStructure
<1>1. IInv => HeapStructure
  BY DEF IInv
<1> QED BY <1>1, IInvHolds, PTL

-----------------------------------------------------------------------------
(* The array implements the queue: each operation of heap.rs is one step   *)
(* of EventQueue.                                                          *)

\* The abstract queue: slot and event of each waiting node, in order of arrival.
Waiting == [i \in 1 .. Len(order) |-> [slot |-> order[i], event |-> nodes[order[i]].event]]
\* What the abstract queue holds.
Entries == [slot : Slots, event : Events \cup {ZeroEvent}]

\* What waits is a sequence of slots with their events.
LEMMA WaitingType ==
  ASSUME TypeOK
  PROVE  Waiting \in Seq(Entries) /\ Len(Waiting) = Len(order) /\ DOMAIN Waiting = 1 .. Len(order)
<1>1. \A i \in 1 .. Len(order) : order[i] \in Slots /\ nodes[order[i]].event \in Events \cup {ZeroEvent}
  BY DEF TypeOK, EventNodes
<1> QED BY <1>1 DEF TypeOK, Waiting, Entries

\* push_back writes no event but the new one.
LEMMA PushEvents ==
  ASSUME IInv, NEW event \in Events, Push(event)
  PROVE  \A k \in Slots :
           nodes'[k].event = IF k = header.free_head THEN event ELSE nodes[k].event
<1> DEFINE slot == header.free_head
           next_slot == IF is_empty THEN slot ELSE header.used_head
           prev_slot == IF is_empty THEN slot ELSE nodes[next_slot].prev
<1>1. /\ nodes \in Arrays /\ Len(free) # 0 /\ Len(order) \in Nat
      /\ header.count = Len(order) /\ \A i \in 1 .. Len(order) : order[i] \in Slots
  BY HeapAssumption DEF IInv, TypeOK, HeapStructure, Partition, Push, push_back, is_full, Arrays
<1>2. slot \in Slots
  BY <1>1 DEF IInv, TypeOK, HeapStructure, FreeList
<1>3. next_slot \in Slots /\ prev_slot \in Slots
  <2>1. CASE is_empty
    BY <1>2, <2>1
  <2>2. CASE ~is_empty
    <3>1. 1 \in 1 .. Len(order) /\ Len(order) \in 1 .. Len(order) /\ Len(order) # 0
      BY <1>1, <2>2 DEF is_empty
    <3>2. next_slot = order[1] /\ nodes[order[1]].prev = order[Len(order)]
      BY <2>2, <3>1 DEF IInv, HeapStructure, UsedList
    <3> QED BY <1>1, <2>2, <3>1, <3>2
  <2> QED BY <2>1, <2>2
<1>4. nodes' = Linked(nodes, slot, prev_slot, next_slot, event)
  BY PushLinks DEF Push
<1> HIDE DEF slot, next_slot, prev_slot
<1>5. ASSUME NEW k \in Slots
      PROVE  \E next, prev : NodeIs(nodes', k, next, prev, IF k = slot THEN event ELSE nodes[k].event)
  <2>1. NodeIs(nodes, k, nodes[k].next, nodes[k].prev, nodes[k].event)
    BY DEF NodeIs
  <2> QED BY <1>1, <1>2, <1>3, <1>4, <2>1, LinkedFacts
<1> QED BY <1>5 DEF NodeIs, slot

\* push_back appends to the queue, in a slot that no waiting event has.
LEMMA PushRefines ==
  ASSUME IInv, NEW event \in Events, Push(event)
  PROVE  Queue!Push(event)
<1> DEFINE n == Len(order)
           slot == header.free_head
<1>1. IInv' /\ TypeOK /\ TypeOK'
  BY PushIInv DEF IInv
<1>2. slot \in Slots /\ \A i \in 1 .. n : order[i] # slot
  <2>1. Len(free) # 0 /\ 1 \in 1 .. Len(free)
    BY HeapAssumption DEF IInv, TypeOK, HeapStructure, Partition, Push, push_back, is_full
  <2> QED BY <2>1 DEF IInv, TypeOK, HeapStructure, Partition, FreeList
<1>3. /\ Len(order') = n + 1 /\ order'[n + 1] = slot
      /\ \A i \in 1 .. n : order'[i] = order[i] /\ order[i] \in Slots
  BY <1>1, <1>2 DEF TypeOK, Push
<1>4. \A k \in Slots : nodes'[k].event = IF k = slot THEN event ELSE nodes[k].event
  BY PushEvents
<1>5. Waiting' = Append(Waiting, [slot |-> slot, event |-> event])
  <2>1. Waiting \in Seq(Entries) /\ Len(Waiting) = n
    BY <1>1, WaitingType
  <2>2. Waiting' = [i \in 1 .. n + 1 |-> [slot |-> order'[i], event |-> nodes'[order'[i]].event]]
    BY <1>3 DEF Waiting
  <2>3. \A i \in 1 .. n : [slot |-> order'[i], event |-> nodes'[order'[i]].event] = Waiting[i]
    BY <1>2, <1>3, <1>4 DEF Waiting
  <2>4. n + 1 \in 1 .. n + 1 /\ nodes'[order'[n + 1]].event = event /\ n \in Nat
    BY <1>1, <1>2, <1>3, <1>4 DEF TypeOK
  <2> QED BY <1>3, <2>1, <2>2, <2>3, <2>4
<1>6. slot \in Slots \ {Waiting[i].slot : i \in DOMAIN Waiting}
  BY <1>1, <1>2, WaitingType DEF Waiting
<1> QED BY <1>5, <1>6 DEF Queue!Push, Queue!Used, Waiting

\* delete_slot takes out the event of that slot, wherever it waits.
LEMMA DeleteRefines ==
  ASSUME IInv, NEW slot, delete_slot(slot), Release(slot)
  PROVE  \E i \in DOMAIN Waiting : Queue!Take(i)
<1> DEFINE n == Len(order)
           p == PositionOf(slot)
<1>1. IInv' /\ TypeOK /\ TypeOK' /\ n \in Nat
  BY DeleteIInv DEF IInv, TypeOK
<1>2. p \in 1 .. n /\ order[p] = slot
  <2>1. slot \in Slots /\ nodes[slot].prev # NO_NODE
    BY DEF delete_slot, deletable, is_free
  <2>2. \E i \in 1 .. n : order[i] = slot
    BY <2>1 DEF IInv, HeapStructure, Partition, FreeList
  <2>3. DOMAIN order = 1 .. n
    BY <1>1 DEF TypeOK
  <2> QED BY <2>2, <2>3 DEF PositionOf
<1> HIDE DEF p
<1>3. /\ Len(order') = n - 1
      /\ \A j \in 1 .. n - 1 : order'[j] = IF j < p THEN order[j] ELSE order[j + 1]
  <2>1. order' = RemoveAt(order, p)
    BY DEF Release, p
  <2>2. order \in Seq(Slots)
    BY <1>1 DEF TypeOK
  <2>3. /\ Len(RemoveAt(order, p)) = n - 1
        /\ \A j \in 1 .. n - 1 :
             RemoveAt(order, p)[j] = IF j < p THEN order[j] ELSE order[j + 1]
    BY <1>2, <2>2, RemoveAtFacts
  <2> QED BY <2>1, <2>3
<1>4. \A k \in Slots : nodes'[k].event = nodes[k].event
  <2> DEFINE prev_slot == nodes[slot].prev
             next_slot == nodes[slot].next
  <2>1. prev_slot \in Slots /\ next_slot \in Slots /\ slot \in Slots
    <3>1. slot \in Slots
      BY DEF delete_slot, deletable
    <3> QED BY <3>1, NeighboursUsed
  <2>2. nodes \in Arrays /\ header.free_head \in Links
    BY <1>1 DEF TypeOK, Headers, Arrays
  <2>3. nodes' = Unlinked(nodes, slot, prev_slot, next_slot, header.free_head)
    BY DeleteUnlinks
  <2> HIDE DEF prev_slot, next_slot
  <2>4. ASSUME NEW k \in Slots
        PROVE  \E next, prev : NodeIs(nodes', k, next, prev, nodes[k].event)
    <3>1. NodeIs(nodes, k, nodes[k].next, nodes[k].prev, nodes[k].event)
      BY DEF NodeIs
    <3> QED BY <2>1, <2>2, <2>3, <3>1, UnlinkedFacts
  <2> QED BY <2>4 DEF NodeIs
<1>5. Waiting' = RemoveAt(Waiting, p)
  <2>1. Waiting \in Seq(Entries) /\ Len(Waiting) = n
    BY <1>1, WaitingType
  <2>2. Waiting' = [i \in 1 .. n - 1 |-> [slot |-> order'[i], event |-> nodes'[order'[i]].event]]
    BY <1>3 DEF Waiting
  <2>3. \A i \in 1 .. n : /\ order[i] \in Slots
                          /\ Waiting[i] = [slot |-> order[i], event |-> nodes[order[i]].event]
                          /\ Waiting[i] \in Entries
    BY <1>1 DEF TypeOK, EventNodes, Waiting, Entries
  <2>4. ASSUME NEW j \in 1 .. n - 1
        PROVE  /\ Waiting'[j] = IF j < p THEN Waiting[j] ELSE Waiting[j + 1]
               /\ Waiting'[j] \in Entries
    <3>1. j \in 1 .. n /\ j + 1 \in 1 .. n
      BY <1>1
    <3>2. Waiting'[j] = [slot |-> order'[j], event |-> nodes'[order'[j]].event]
      BY <2>2
    <3>3. CASE j < p
      <4>1. order'[j] = order[j]
        BY <1>3, <3>3
      <4>2. order[j] \in Slots /\ Waiting[j] \in Entries
            /\ Waiting[j] = [slot |-> order[j], event |-> nodes[order[j]].event]
        BY <2>3, <3>1
      <4>3. nodes'[order[j]].event = nodes[order[j]].event
        BY <1>4, <4>2
      <4>4. Waiting'[j] = Waiting[j]
        BY <3>2, <4>1, <4>2, <4>3
      <4> QED BY <3>3, <4>2, <4>4
    <3>4. CASE ~(j < p)
      <4>1. order'[j] = order[j + 1]
        BY <1>3, <3>4
      <4>2. order[j + 1] \in Slots /\ Waiting[j + 1] \in Entries
            /\ Waiting[j + 1] = [slot |-> order[j + 1], event |-> nodes[order[j + 1]].event]
        BY <2>3, <3>1
      <4>3. nodes'[order[j + 1]].event = nodes[order[j + 1]].event
        BY <1>4, <4>2
      <4>4. Waiting'[j] = Waiting[j + 1]
        BY <3>2, <4>1, <4>2, <4>3
      <4> QED BY <3>4, <4>2, <4>4
    <3> QED BY <3>3, <3>4
  <2>5. Waiting' \in Seq(Entries) /\ Len(Waiting') = n - 1
    <3>1. n - 1 \in Nat
      BY <1>1, <1>2
    <3>2. Waiting' \in [1 .. n - 1 -> Entries]
      BY <2>2, <2>4
    <3> QED BY <3>1, <3>2
  <2>6. /\ RemoveAt(Waiting, p) \in Seq(Entries) /\ Len(RemoveAt(Waiting, p)) = n - 1
        /\ \A j \in 1 .. n - 1 :
             RemoveAt(Waiting, p)[j] = IF j < p THEN Waiting[j] ELSE Waiting[j + 1]
    BY <1>2, <2>1, RemoveAtFacts
  <2>7. \A j \in 1 .. Len(Waiting') : Waiting'[j] = RemoveAt(Waiting, p)[j]
    BY <2>4, <2>5, <2>6
  <2> QED BY <2>5, <2>6, <2>7, SeqEqual
<1>6. p \in DOMAIN Waiting
  BY <1>1, <1>2, WaitingType
<1> QED BY <1>5, <1>6 DEF Queue!Take, Queue!RemoveAt, RemoveAt, Waiting

\* heap.rs implements the bounded queue whatever the size: a push is the queue's
\* Push into the node at free_head, a deletion the queue's Take at the place of
\* the slot, and nothing else changes the queue.
THEOREM HeapImplementsQueue == Spec => ImplementsQueue
<1>1. Init => Queue!Init
  <2> SUFFICES ASSUME Init PROVE Queue!Init
    OBVIOUS
  <2>1. Len(order) = 0
    BY DEF Init
  <2> QED BY <2>1 DEF Queue!Init
<1>2. IInv /\ [Next]_vars => [Queue!Next]_Waiting
  <2> SUFFICES ASSUME IInv, [Next]_vars PROVE Queue!Next \/ UNCHANGED Waiting
    OBVIOUS
  <2>1. CASE \E event \in Events : Push(event)
    BY <2>1, PushRefines DEF Queue!Next
  <2>2. ASSUME NEW slot, delete_slot(slot), Release(slot)
        PROVE  Queue!Next
    BY <2>2, DeleteRefines DEF Queue!Next, Waiting
  <2>3. CASE PopFront
    BY <2>2, <2>3 DEF PopFront, pop_front
  <2>4. CASE \E slot \in Slots : Delete(slot)
    BY <2>2, <2>4 DEF Delete
  <2>5. CASE UNCHANGED vars
    BY <2>5 DEF vars, Waiting
  <2> QED BY <2>1, <2>3, <2>4, <2>5 DEF Next
<1> QED BY <1>1, <1>2, IInvHolds, PTL DEF Spec, ImplementsQueue, Queue!Spec, Waiting

-----------------------------------------------------------------------------
(* The iterator: the links it follows, as an instance of the recursion.    *)

\* EventHeapIterator starts at used_head ...
VisitStart(heap) == heap.header.used_head
\* ... and goes on along the next links (heap.rs 150-162).
VisitStep(heap, slot, i) == heap.nodes[slot].next
\* The instance whose iteration these operators define (its folds are not used).
VisitPick(T) == CHOOSE x \in T : TRUE
Visits == INSTANCE Recursion WITH Start <- VisitStart, Step <- VisitStep, Pick <- VisitPick

\* Each link followed leads to the next slot in order of arrival.
LEMMA VisitsInOrder ==
  ASSUME IInv
  PROVE  \A i \in 1 .. Len(order) :
           Visits!Iter([header |-> header, nodes |-> nodes])[i - 1] = order[i]
<1> DEFINE heap == [header |-> header, nodes |-> nodes]
           visit == Visits!Iter(heap)
           S == {n \in Nat : n + 1 <= Len(order) => visit[n] = order[n + 1]}
<1>1. /\ visit[0] = header.used_head
      /\ \A n \in Nat : visit[n + 1] = nodes[visit[n]].next
  <2>1. /\ visit[0] = VisitStart(heap)
        /\ \A n \in Nat : visit[n + 1] = VisitStep(heap, visit[n], n + 1)
    BY Visits!IterValues
  <2> HIDE DEF visit
  <2> QED BY <2>1 DEF VisitStart, VisitStep
<1> HIDE DEF visit
<1>2. /\ Len(order) \in Nat
      /\ header.used_head = IF Len(order) = 0 THEN NO_NODE ELSE order[1]
      /\ \A i \in 1 .. Len(order) :
           nodes[order[i]].next = order[IF i = Len(order) THEN 1 ELSE i + 1]
  BY DEF IInv, TypeOK, HeapStructure, UsedList
<1>3. 0 \in S
  BY <1>1, <1>2
<1>4. ASSUME NEW n \in Nat, n \in S PROVE n + 1 \in S
  <2>1. ASSUME n + 2 <= Len(order) PROVE visit[n + 1] = order[n + 2]
    <3>1. n + 1 \in 1 .. Len(order) /\ n + 1 # Len(order) /\ visit[n] = order[n + 1]
      BY <1>2, <1>4, <2>1
    <3>2. nodes[order[n + 1]].next = order[n + 2]
      BY <1>2, <3>1
    <3>3. visit[n + 1] = nodes[visit[n]].next
      BY <1>1
    <3> QED BY <3>1, <3>2, <3>3
  <2> QED BY <2>1
<1>5. Nat \subseteq S
  <2> HIDE DEF S
  <2> QED BY <1>3, <1>4, Visits!NatInd
<1>6. ASSUME NEW i \in 1 .. Len(order) PROVE visit[i - 1] = order[i]
  <2>1. i - 1 \in S /\ (i - 1) + 1 = i
    BY <1>2, <1>5
  <2> QED BY <1>2, <2>1
<1> QED BY <1>6 DEF visit

\* EventHeapIterator yields exactly the waiting events in the order they were pushed,
\* for any size of the heap and however many events were deleted from the middle.
THEOREM ArrivalOrderKept == Spec => []IterationInArrivalOrder
<1>1. IInv => IterationInArrivalOrder
  <2> SUFFICES ASSUME IInv PROVE iter = order
    BY DEF IterationInArrivalOrder
  <2> DEFINE visit == Visits!Iter([header |-> header, nodes |-> nodes])
  <2>1. iter = [i \in 1 .. header.count |-> visit[i - 1]]
    BY DEF iter, Visits!Iter, VisitStart, VisitStep
  <2>2. \A i \in 1 .. Len(order) : visit[i - 1] = order[i]
    BY VisitsInOrder
  <2> HIDE DEF visit
  <2>3. header.count = Len(order) /\ order \in Seq(Slots)
    BY DEF IInv, TypeOK, HeapStructure
  <2>4. iter = [i \in 1 .. Len(order) |-> order[i]]
    BY <2>1, <2>2, <2>3
  <2> QED BY <2>3, <2>4
<1> QED BY <1>1, IInvHolds, PTL

=============================================================================
