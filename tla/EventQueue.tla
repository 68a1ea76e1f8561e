----------------------------- MODULE EventQueue -----------------------------
(***************************************************************************)
(* What the market asks of its event heap, with no linked lists in it: a   *)
(* bounded queue of events.  Every event waits in a slot of its own, new   *)
(* events go to the end, and the event of any slot can be taken out        *)
(* (consume_given_events) without disturbing the order of the others.      *)
(* EventHeapOrder shows that the array of nodes in heap.rs implements it.  *)
(***************************************************************************)
EXTENDS Integers, FiniteSets, SequencesExt

CONSTANTS
  Slots,   \* the places an event can wait in
  Events   \* what the order book can push

VARIABLE queue   \* the waiting events, oldest first: [slot, event] records

Used == {queue[i].slot : i \in DOMAIN queue}

Init == queue = << >>

\* A new event enters last, in a slot nobody waits in.
Push(event) ==
  \E s \in Slots \ Used :
    queue' = Append(queue, [slot |-> s, event |-> event])

\* The event at position i leaves; the others keep their order and slots.
Take(i) == queue' = RemoveAt(queue, i)

Next ==
  \/ \E event \in Events : Push(event)
  \/ \E i \in DOMAIN queue : Take(i)

Spec == Init /\ [][Next]_queue
=============================================================================
