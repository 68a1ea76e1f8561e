--------------------------- MODULE MarketInvariant ---------------------------
(***************************************************************************)
(* The inductive invariant of a market.  It is a predicate of the record s *)
(* on which an instruction works, so it can be followed through an         *)
(* instruction step by step.  These vary on the way:                       *)
(*   E            the events that wait: the heap, or, while the crank is   *)
(*                at work, those of the heap that it has not handled yet   *)
(*   base, quote  native tokens that who placed an order still owes        *)
(*   lock         account -> the maker fee that is locked for an order     *)
(*                that is not on the book yet                              *)
(*   w            the market's deposit totals and sequence number, and the *)
(*                last id of an order that has a slot or is on the book    *)
(***************************************************************************)
EXTENDS OpenBookProperties

-----------------------------------------------------------------------------
(* Types *)

OrderValues == [id : Nat, side : Sides, tree : Trees, client_id : Nat, locked_price : Nat]

AccountValues ==
  [open : BOOLEAN, bids_base_lots : Int, asks_base_lots : Int, bids_quote_lots : Int,
   base_free_native : Int, quote_free_native : Int, locked_maker_fees : Int,
   referrer_rebates_available : Int, penalty_heap_count : Int,
   open_orders : [OrderSlots -> OrderValues]]

MarketValues ==
  [seq_num : Nat, time_expiry : Int, closed : BOOLEAN, base_deposit_total : Int,
   quote_deposit_total : Int, fees_accrued : Int, fees_to_referrers : Int,
   referrer_rebates_accrued : Int, fees_available : Int]

LeafValues ==
  [tree : Trees, price : Int, id : Nat \ {0}, owner : Accounts, owner_slot : OrderSlots,
   quantity : Nat \ {0}, timestamp : Int, time_in_force : Int, peg_limit : Int,
   client_id : Nat]

OutEvents ==
  [kind : {"Out"}, side : Sides, owner : Accounts, owner_slot : OrderSlots,
   quantity : Nat \ {0}]
FillEvents ==
  [kind : {"Fill"}, taker_side : Sides, maker_out : BOOLEAN, maker_slot : OrderSlots,
   maker : Accounts, taker : Traders, price : Nat \ {0}, peg_limit : Int,
   quantity : Nat \ {0}]

\* A pegged bid is not filled above its limit.
EventOk(e) ==
  \/ e \in OutEvents
  \/ /\ e \in FillEvents
     /\ e.peg_limit = NoPegLimit \/ e.peg_limit >= 1
     /\ e.taker_side = "Ask" /\ e.peg_limit # NoPegLimit => e.price <= e.peg_limit
EventValues == {e \in OutEvents \cup FillEvents : EventOk(e)}

\* A pegged order has a limit; a fixed one has none, and its price is one.
LeafOk(l) ==
  IF l.tree = "Fixed" THEN l.price \in 1 .. MaxPrice /\ l.peg_limit = NoPegLimit
  ELSE l.peg_limit >= 1

-----------------------------------------------------------------------------
(* Which order slot belongs to which order.  A place is an account and a   *)
(* slot of it.                                                             *)

Places == Accounts \X OrderSlots
OrdersOf(accs) == [p \in Places |-> accs[p[1]].open_orders[p[2]]]
PlaceOfLeaf(l) == <<l.owner, l.owner_slot>>
PlaceOfEvent(e) == <<AccountOf(e), SlotOf(e)>>

AllLeaves(b) == b["Bid"].leaves \cup b["Ask"].leaves

\* The order in its slot is the leaf's, locked at the price of a bid that is not
\* pegged or at the limit of one that is.
LeafFits(order, l) ==
  /\ order.id = l.id /\ order.tree = l.tree
  /\ order.side = "Bid" =>
       order.locked_price = IF l.tree = "Fixed" THEN l.price ELSE l.peg_limit

LeavesClaim(o, L) ==
  /\ \A l \in L : LeafFits(o[PlaceOfLeaf(l)], l)
  /\ \A l, k \in L : PlaceOfLeaf(l) = PlaceOfLeaf(k) => l = k
  /\ \A l \in L, p \in Places : o[p].id = l.id => p = PlaceOfLeaf(l)

EventsClaim(o, L, E) ==
  \A i \in DOMAIN E : IsLast(E[i]) =>
    /\ o[PlaceOfEvent(E[i])].id # 0
    /\ o[PlaceOfEvent(E[i])].side = SideOf(E[i])
    /\ \A l \in L : PlaceOfLeaf(l) # PlaceOfEvent(E[i])
    /\ \A j \in DOMAIN E : IsLast(E[j]) /\ PlaceOfEvent(E[i]) = PlaceOfEvent(E[j]) => i = j

OrdersClaimed(o, L, E) ==
  \A p \in Places : o[p].id # 0 =>
    \/ \E l \in L : PlaceOfLeaf(l) = p
    \/ \E i \in DOMAIN E : IsLast(E[i]) /\ PlaceOfEvent(E[i]) = p

\* Only open accounts have anything at stake.
OwnersOpen(accs, L, E) ==
  /\ \A l \in L : accs[l.owner].open
  /\ \A i \in DOMAIN E : accs[AccountOf(E[i])].open
  /\ \A a \in Accounts : ~accs[a].open => accs[a] = ClosedAccount

Claims(accs, L, E) ==
  /\ LeavesClaim(OrdersOf(accs), L)
  /\ EventsClaim(OrdersOf(accs), L, E)
  /\ OrdersClaimed(OrdersOf(accs), L, E)
  /\ OwnersOpen(accs, L, E)

-----------------------------------------------------------------------------
(* What orders lock, on the book and in the events that wait. *)

Kinds == {"asks_base", "bids_base", "bids_quote", "fees"}

Held(kind, acc) ==
  CASE kind = "asks_base" -> acc.asks_base_lots
    [] kind = "bids_base" -> acc.bids_base_lots
    [] kind = "bids_quote" -> acc.bids_quote_lots
    [] kind = "fees" -> acc.locked_maker_fees

\* What a quantity of lots locks at a price.
Locks(kind, side, quantity, price) ==
  CASE kind = "asks_base" -> IF side = "Ask" THEN quantity ELSE 0
    [] kind = "bids_base" -> IF side = "Bid" THEN quantity ELSE 0
    [] kind = "bids_quote" -> IF side = "Bid" THEN quantity * price ELSE 0
    [] kind = "fees" ->
         IF side = "Bid" THEN maker_fees_ceil(quantity * price * quote_lot_size) ELSE 0
OrderLocks(kind, order, quantity) == Locks(kind, order.side, quantity, order.locked_price)

\* What a fill releases.
FillLocks(kind, fill) ==
  LET t == FillTerms(fill)
  IN  IF kind = "fees" THEN IF t.side = "Bid" THEN t.locked_fees ELSE 0
      ELSE Locks(kind, t.side, fill.quantity, t.locked_price)

LeafLocks(kind, o, a, l) ==
  IF l.owner = a THEN OrderLocks(kind, o[PlaceOfLeaf(l)], l.quantity) ELSE 0
EventLocks(kind, o, a, e) ==
  IF AccountOf(e) # a THEN 0
  ELSE IF e.kind = "Fill" THEN FillLocks(kind, e)
  ELSE OrderLocks(kind, o[PlaceOfEvent(e)], e.quantity)

LeavesLock(kind, o, a, L) == SumFunctionOnSet([l \in L |-> LeafLocks(kind, o, a, l)], L)
EventsLock(kind, o, a, E) ==
  SumFunctionOnSet([i \in DOMAIN E |-> EventLocks(kind, o, a, E[i])], DOMAIN E)

\* The lots of a position are exactly those of its orders; the fees it locked
\* may be more than its orders can cost.
Covers(kind, held, locked) == IF kind = "fees" THEN held >= locked ELSE held = locked
Covered(accs, L, E, lock) ==
  \A a \in Accounts, kind \in Kinds :
    Covers(kind, Held(kind, accs[a]) - (IF kind = "fees" THEN lock[a] ELSE 0),
           LeavesLock(kind, OrdersOf(accs), a, L) + EventsLock(kind, OrdersOf(accs), a, E))

-----------------------------------------------------------------------------
(* What the market owes. *)

Units == {"base", "quote", "rebates"}

OwedTo(unit, acc) ==
  CASE unit = "base" -> acc.base_free_native + acc.asks_base_lots * base_lot_size
    [] unit = "quote" -> acc.quote_free_native + acc.bids_quote_lots * quote_lot_size
                         + acc.locked_maker_fees + acc.referrer_rebates_available
    [] unit = "rebates" -> acc.referrer_rebates_available

\* What a fill that waits adds to that when it is settled.
FillDue(unit, fill) ==
  LET t == FillTerms(fill)
      native == fill.quantity * base_lot_size
  IN  CASE unit = "base" -> IF t.side = "Bid" THEN native ELSE -native
        [] unit = "quote" -> t.rebate + IF t.side = "Ask" THEN t.quote ELSE -t.quote
        [] unit = "rebates" -> 0
Due(unit, e) == IF e.kind = "Fill" THEN FillDue(unit, e) ELSE 0

OwedToAll(unit, accs) ==
  SumFunctionOnSet([a \in Accounts |-> OwedTo(unit, accs[a])], Accounts)
DueToAll(unit, E) == SumFunctionOnSet([i \in DOMAIN E |-> Due(unit, E[i])], DOMAIN E)
Owed(unit, accs, E) == OwedToAll(unit, accs) + DueToAll(unit, E)

Funds(m, accs, E, base, quote) ==
  /\ m.base_deposit_total + base = Owed("base", accs, E)
  /\ m.quote_deposit_total + quote = Owed("quote", accs, E) + m.fees_available
  /\ m.referrer_rebates_accrued = Owed("rebates", accs, E)

-----------------------------------------------------------------------------
(* The book, and what an instruction leaves alone. *)

SideOk(bs, ids) ==
  /\ bs \in [leaves : SUBSET LeafValues, bump : 0 .. MAX_ORDERTREE_NODES]
  /\ IsFiniteSet(bs.leaves)
  /\ UsedNodes(bs) <= bs.bump
  /\ \A l \in bs.leaves : LeafOk(l) /\ l.id <= ids

BookOk(b, o, ids) ==
  /\ b = [side \in Sides |-> b[side]]
  /\ \A side \in Sides :
       SideOk(b[side], ids) /\ \A l \in b[side].leaves : o[PlaceOfLeaf(l)].side = side

AccountsOk(accs, ids) ==
  /\ accs \in [Accounts -> AccountValues]
  /\ \A a \in Accounts : Sound(accs[a])
  /\ \A p \in Places : OrdersOf(accs)[p].id <= ids

HeapOk(h) == h \in Seq(EventValues) /\ Len(h) <= MAX_NUM_EVENTS
EventsOk(E) == IsFiniteSet(DOMAIN E) /\ \A i \in DOMAIN E : E[i] \in EventValues

TotalsOk(m, w) ==
  /\ m \in MarketValues
  /\ w.ids \in Nat /\ w.ids <= m.seq_num /\ m.seq_num = w.seq_num
  /\ m.base_deposit_total = w.base_total /\ m.quote_deposit_total = w.quote_total

\* Everything that does not refer to the state before the instruction.
Sane(s, E, base, quote, lock, w) ==
  /\ base \in Int /\ quote \in Int /\ lock \in [Accounts -> Nat]
  /\ TotalsOk(s.mkt, w)
  /\ AccountsOk(s.oo, w.ids)
  /\ BookOk(s.book, OrdersOf(s.oo), w.ids)
  /\ HeapOk(s.heap) /\ EventsOk(E)
  /\ Claims(s.oo, AllLeaves(s.book), E)
  /\ Covered(s.oo, AllLeaves(s.book), E, lock)
  /\ Funds(s.mkt, s.oo, E, base, quote)

\* Orders on the book of an instruction are new or what is left of old ones.
OnlyShrunk(b) ==
  \A side \in Sides : \A leaf \in b[side].leaves :
    \/ leaf.id > mkt.seq_num
    \/ \E old \in book[side].leaves :
         leaf.quantity <= old.quantity /\ leaf = [old EXCEPT !.quantity = leaf.quantity]

\* What an instruction leaves alone: the market's expiry and end, which accounts
\* are open.  Sequence numbers only grow.
Frame(s, w) ==
  /\ \A side \in Sides : book[side].leaves \subseteq LeafValues
  /\ w.ids >= mkt.seq_num
  /\ s.mkt.time_expiry = mkt.time_expiry /\ s.mkt.closed = mkt.closed
  /\ \A a \in Accounts : s.oo[a].open = oo[a].open
  /\ OnlyShrunk(s.book)

\* The invariant while an instruction has not failed.
Good(s, E, base, quote, lock, w) == Sane(s, E, base, quote, lock, w) /\ Frame(s, w)

\* An instruction's record, whatever is in it.
IsState(s) ==
  s = [ok |-> s.ok, mkt |-> s.mkt, oo |-> s.oo, book |-> s.book, heap |-> s.heap]

NoLock == [a \in Accounts |-> 0]
Totals(m) ==
  [base_total |-> m.base_deposit_total, quote_total |-> m.quote_deposit_total,
   ids |-> m.seq_num, seq_num |-> m.seq_num]

\* The invariant of the market.
IInv ==
  /\ now \in 0 .. MaxTime /\ oracle \in OraclePrices
  /\ mkt.seq_num <= MaxSeqNum
  /\ SoundMarket(mkt)
  /\ Sane(Loaded, heap, 0, 0, NoLock, Totals(mkt))
  /\ wallet \in [Traders -> TokenAmounts]
  /\ vault = [base |-> mkt.base_deposit_total, quote |-> mkt.quote_deposit_total]
  /\ mkt.closed => is_empty_market /\ heap = << >> /\ AllLeaves(book) = {}
=============================================================================
