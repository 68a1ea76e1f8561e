----------------------------- MODULE ChainData -----------------------------
(***************************************************************************)
(* The client's view of the chain (lib/client/src/chain_data.rs): slots,   *)
(* the forks they form and the account writes seen in them, fed by the     *)
(* messages of a websocket stream (account_update_stream.rs) and by RPC    *)
(* answers (chain_data_fetcher.rs).  Messages may be lost and, within the  *)
(* limits Faults names, come late or out of order; the cluster forks, and  *)
(* one of its branches becomes final.                                      *)
(***************************************************************************)
EXTENDS Integers, Sequences, FiniteSets, SequencesExt, TLC

CONSTANTS
  Slots,      \* slot numbers
  Pubkeys,    \* the accounts that are followed
  Trees,      \* the forks to consider: [Slots -> parent slot], 0 the common past
  MaxWrites,  \* bound: the writes held for an account
  Faults      \* what the cluster and the network may do beyond the usual

ASSUME ChainDataAssumption ==
  /\ Slots \subseteq Nat \ {0} /\ IsFiniteSet(Slots)
  /\ Trees \subseteq [Slots -> Slots \cup {0}]
  /\ \A tree \in Trees, s \in Slots : tree[s] < s
  /\ MaxWrites \in Nat
  /\ Faults \subseteq {"bank reordered",  \* a child is announced before its parent
                       "root off tip",    \* a slot is rooted while a fork is ahead
                       "rpc ahead"}       \* RPC knows slots the stream has not told of

NoParent == -1

VARIABLES
  chain_data,  \* ChainData
  tree,        \* the cluster's slots: each one's parent
  final,       \* the slot whose ancestors become final
  banks,       \* slots announced, with their parents, by the stream
  seen         \* the slots of the writes received for each account

vars == <<chain_data, tree, final, banks, seen>>

Ancestors(s) ==
  LET past[t \in Slots \cup {0}] == IF t = 0 THEN {} ELSE {t} \cup past[tree[t]]
  IN  past[s]

-----------------------------------------------------------------------------
(* update_slot, on a state c of chain_data *)

new == [slots |-> << >>, accounts |-> [pk \in Pubkeys |-> << >>],
        newest_rooted_slot |-> 0, newest_processed_slot |-> 0, best_chain_slot |-> 0]

\* Variant with a bug: a slot heard of first is taken to be on the best chain.
SlotEntry_OnChain(c, update) ==
  [parent |-> update.parent, status |-> update.status, chain |-> c.best_chain_slot]

\* What is known of a slot after an update about it: a parent and a higher status
\* are kept.
SlotEntry(c, update) ==
  IF update.slot \notin DOMAIN c.slots
  THEN [parent |-> update.parent, status |-> update.status, chain |-> 0]
  ELSE LET v == c.slots[update.slot]
       IN  [v EXCEPT
              !.parent = IF @ = NoParent THEN update.parent ELSE @,
              !.status = IF @ = "Processed" \/ update.status = "Rooted"
                         THEN update.status ELSE @]

\* From the tip down to the first rooted or orphaned slot.
BestChain(c) ==
  LET path[s \in {NoParent, 0} \cup Slots] ==
        IF s \notin DOMAIN c.slots THEN {}
        ELSE {s} \cup (IF c.slots[s].status = "Rooted" THEN {} ELSE path[c.slots[s].parent])
  IN  path[c.best_chain_slot]

\* Variant with a bug: only slots known to be rooted count.
CountsAsRooted_ByStatus(c, w) ==
  w \notin DOMAIN c.slots \/ c.slots[w].status = "Rooted"

\* Notices of roots get lost: what the tip descends from counts as rooted, and so
\* does what was written in a slot that is no longer held.
CountsAsRooted(c, w) ==
  w \in DOMAIN c.slots => \/ c.slots[w].status = "Rooted"
                          \/ c.slots[w].chain = c.best_chain_slot

\* Writes and slots before the newest root go, but for the last rooted write.
DropBeforeRoot(c) ==
  LET root == c.newest_rooted_slot
      newest_rooted_write(writes) ==
        LET i == SelectLastInSeq(writes, LAMBDA w : w <= root /\ CountsAsRooted(c, w))
        IN  IF i = 0 THEN root + 1 ELSE writes[i]
      Retained(writes) ==
        SelectSeq(writes, LAMBDA w : w = newest_rooted_write(writes) \/ w > root)
  IN  [c EXCEPT !.accounts = [pk \in Pubkeys |-> Retained(c.accounts[pk])],
                !.slots = [s \in {t \in DOMAIN c.slots : t >= root} |-> c.slots[s]]]

update_slot(c, update) ==
  LET new_rooted_head == update.slot > c.newest_rooted_slot /\ update.status = "Rooted"
      new_best_chain == update.parent # NoParent /\ update.slot > c.best_chain_slot
      parent_update == /\ update.slot \in DOMAIN c.slots
                       /\ update.parent \notin {NoParent, c.slots[update.slot].parent}
      stored == [c EXCEPT
                   !.newest_processed_slot = IF update.slot > @ THEN update.slot ELSE @,
                   !.newest_rooted_slot = IF new_rooted_head THEN update.slot ELSE @,
                   !.best_chain_slot = IF new_best_chain THEN update.slot ELSE @,
                   !.slots = (update.slot :> SlotEntry(c, update)) @@ @]
      marked == IF new_best_chain \/ parent_update
                THEN [stored EXCEPT !.slots = [s \in DOMAIN @ |->
                        IF s \in BestChain(stored)
                        THEN [@[s] EXCEPT !.chain = stored.best_chain_slot] ELSE @[s]]]
                ELSE stored
  IN  IF new_rooted_head THEN DropBeforeRoot(marked) ELSE marked

-----------------------------------------------------------------------------
(* Account writes.  A write is the slot it was made in: what the account holds   *)
(* there is fixed by that.                                                       *)

\* Variant with a bug: writes are kept in the order they come in.
update_account_Append(c, pk, slot) == [c EXCEPT !.accounts[pk] = Append(@, slot)]

\* Kept in the order of their slots; the position is the one after the last write
\* that is not newer, so it never holds a write of the same slot to overwrite.
update_account(c, pk, slot) ==
  LET v == c.accounts[pk]
      pos == SelectLastInSeq(v, LAMBDA w : w <= slot) + 1
  IN  [c EXCEPT !.accounts[pk] =
         IF pos <= Len(v) /\ v[pos] = slot THEN [v EXCEPT ![pos] = slot]
         ELSE InsertAt(v, pos, slot)]

\* A slot RPC knows and the stream has not told of yet gets a stub, made a child
\* of the tip.
update_from_rpc(c, pk, slot) ==
  update_account(
    IF slot > c.best_chain_slot
    THEN update_slot(c, [slot |-> slot, parent |-> c.best_chain_slot, status |-> "Processed"])
    ELSE c,
    pk, slot)

is_account_write_live(c, w) ==
  IF w \in DOMAIN c.slots
  THEN \/ c.slots[w].status = "Rooted"
       \/ c.slots[w].chain = c.best_chain_slot
       \/ w > c.best_chain_slot
  ELSE w <= c.newest_rooted_slot

\* account_and_slot: the slot of the newest live write, 0 when there is none.
account_and_slot(c, pk) ==
  LET v == c.accounts[pk]
      i == SelectLastInSeq(v, LAMBDA w : is_account_write_live(c, w))
  IN  IF i = 0 THEN 0 ELSE v[i]

-----------------------------------------------------------------------------
(* The messages: account_update_stream.rs and chain_data_fetcher.rs *)

Init ==
  /\ chain_data = new
  /\ tree \in Trees
  /\ final \in Slots
  /\ banks = {}
  /\ seen = [pk \in Pubkeys |-> {}]

\* A bank is made once, on a descendant of the root.
CreatedBank(s) ==
  /\ s \notin banks
  /\ chain_data.newest_rooted_slot \in Ancestors(s) \cup {0}
  /\ tree[s] \in banks \cup {0} \/ "bank reordered" \in Faults
  /\ chain_data' = update_slot(chain_data,
                     [slot |-> s, parent |-> tree[s], status |-> "Processed"])
  /\ banks' = banks \cup {s}
  /\ UNCHANGED <<tree, final, seen>>

\* Sometimes before the parent is known.
OptimisticConfirmation(s) ==
  /\ s \in Ancestors(final)
  /\ s > chain_data.newest_rooted_slot
  /\ chain_data' = update_slot(chain_data,
                     [slot |-> s, parent |-> NoParent, status |-> "Confirmed"])
  /\ UNCHANGED <<tree, final, banks, seen>>

Root(s) ==
  /\ s \in Ancestors(final) \cap banks
  /\ s >= chain_data.newest_rooted_slot
  /\ s \in Ancestors(chain_data.best_chain_slot) \/ "root off tip" \in Faults
  /\ chain_data' = update_slot(chain_data,
                     [slot |-> s, parent |-> NoParent, status |-> "Rooted"])
  /\ UNCHANGED <<tree, final, banks, seen>>

\* The writes of a branch that loses come after it is announced and before the root
\* has passed it.
InTime(s) ==
  s \in Ancestors(final) \/ (s \in banks /\ s > chain_data.newest_rooted_slot)

Account(pk, s) ==
  /\ InTime(s)
  /\ Len(chain_data.accounts[pk]) < MaxWrites
  /\ chain_data' = update_account(chain_data, pk, s)
  /\ seen' = [seen EXCEPT ![pk] = @ \cup {s}]
  /\ UNCHANGED <<tree, final, banks>>

Snapshot(s) ==
  /\ InTime(s)
  /\ \A pk \in Pubkeys : Len(chain_data.accounts[pk]) < MaxWrites
  /\ chain_data' = FoldLeft(LAMBDA c, pk : update_account(c, pk, s), chain_data,
                            SetToSeq(Pubkeys))
  /\ seen' = [pk \in Pubkeys |-> seen[pk] \cup {s}]
  /\ UNCHANGED <<tree, final, banks>>

refresh_account_via_rpc(pk, s) ==
  /\ InTime(s)
  /\ s <= chain_data.best_chain_slot \/ "rpc ahead" \in Faults
  /\ Len(chain_data.accounts[pk]) < MaxWrites
  /\ chain_data' = update_from_rpc(chain_data, pk, s)
  /\ seen' = [seen EXCEPT ![pk] = @ \cup {s}]
  /\ UNCHANGED <<tree, final, banks>>

Next ==
  \/ \E s \in Slots :
       CreatedBank(s) \/ OptimisticConfirmation(s) \/ Root(s) \/ Snapshot(s)
  \/ \E pk \in Pubkeys, s \in Slots : Account(pk, s) \/ refresh_account_via_rpc(pk, s)

Spec == Init /\ [][Next]_vars

-----------------------------------------------------------------------------
(* Properties *)

Statuses == {"Processed", "Confirmed", "Rooted"}

\* update_account: "v is ordered by slot ascending".
TypeOK ==
  /\ DOMAIN chain_data.slots \subseteq Slots
  /\ \A s \in DOMAIN chain_data.slots :
       chain_data.slots[s] \in [parent : Slots \cup {NoParent, 0}, status : Statuses,
                                chain : Slots \cup {0}]
  /\ \A pk \in Pubkeys :
       LET v == chain_data.accounts[pk]
       IN  v \in Seq(Slots) /\ \A i, j \in DOMAIN v : i < j => v[i] <= v[j]
  /\ {chain_data.newest_rooted_slot, chain_data.newest_processed_slot,
      chain_data.best_chain_slot} \subseteq Slots \cup {0}
  /\ tree \in Trees /\ final \in Slots /\ banks \subseteq Slots
  /\ \A pk \in Pubkeys : seen[pk] \subseteq Slots

\* SlotData.chain: "uncles will have values < tip".  A slot marked with the tip is
\* one the tip descends from, once the tip has been announced: switching to
\* another branch and back, and slots confirmed before they are announced, leave
\* no stale mark.
UnclesBelowTip ==
  LET tip == chain_data.best_chain_slot
  IN  tip \in banks =>
        \A s \in DOMAIN chain_data.slots :
          chain_data.slots[s].chain = tip => s \in Ancestors(tip)

\* ChainData: account() is "the current best data for an account".  Of all writes
\* ever received it is the newest one the tip descends from, or in a confirmed slot
\* after the tip; what was dropped at roots is never missed, though notices of
\* roots are lost and the branches change.
AccountIsCurrentBest ==
  \A pk \in Pubkeys :
    LET tip == chain_data.best_chain_slot
        Live == {w \in seen[pk] : \/ w \in Ancestors(tip)
                                  \/ w > tip /\ w \in DOMAIN chain_data.slots}
    IN  account_and_slot(chain_data, pk) \in Live \cup {0}
        /\ \A w \in Live : w <= account_and_slot(chain_data, pk)

\* account_update_stream and snapshots may bring the write of a slot again
\* (chain_data.rs 158: "overwrite if an entry for the slot already exists, otherwise
\* insert"): an account has one entry for a slot.
OneEntryPerSlot ==
  \A pk \in Pubkeys :
    LET v == chain_data.accounts[pk]
    IN  \A i, j \in DOMAIN v : v[i] = v[j] => i = j

\* chain_data.rs 132: "preserved account writes for deleted slots <=
\* newest_rooted_slot are expected to be rooted".
KeptWritesAreRooted ==
  \A pk \in Pubkeys, i \in 1..MaxWrites :
    LET v == chain_data.accounts[pk]
    IN  i <= Len(v) /\ v[i] <= chain_data.newest_rooted_slot
          => v[i] \in Ancestors(chain_data.newest_rooted_slot)
=============================================================================
