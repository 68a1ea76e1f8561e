-------------------------- MODULE MarketProofs --------------------------
(***************************************************************************)
(* The invariant of a market holds in every state, and with it the safety  *)
(* properties of OpenBookProperties: funds are conserved, lots and fees of *)
(* positions match their orders, slots are claimed once, nothing is ever   *)
(* stuck, a closed market owes nobody anything; orders on the book only    *)
(* shrink and an expired market only drains.  MarketLemmas and OrderLemmas *)
(* follow the orders through matching, posting and cancelling; this module *)
(* adds the other instructions and draws the conclusions.  At its end the  *)
(* client's walk over the book is shown to agree, item by item, with the   *)
(* matching of the order that it foretells.                                *)
(***************************************************************************)
EXTENDS OrderLemmas, ClientQuotes

-----------------------------------------------------------------------------
(* Steps that leave orders and funds alone. *)

\* What every step of a market keeps, and does to the book and in an expired market.
Allowed ==
  IInv' /\ Shrinks /\ (is_expired_market => Drains /\ now <= now')

\* A step that leaves the book alone only shrinks orders, and only drains if it
\* adds nothing to the totals.
LEMMA BookSameShrinks ==
  ASSUME IInv, book' = book
  PROVE  Shrinks
<1>1. Going(Loaded, 0, 0) /\ Loaded.ok = TRUE
  BY LoadedGoing, LoadedIs
<1>2. Frame(Loaded, Totals(Loaded.mkt)) /\ Loaded.book = book
  BY <1>1, LoadedIs DEF Going, Good
<1>3. OnlyShrunk(book)
  BY <1>2 DEF Frame
<1> QED BY <1>3 DEF OnlyShrunk, Shrinks

\* What the invariant says of the market account and of the heap.
LEMMA MarketFacts ==
  ASSUME IInv
  PROVE  /\ mkt \in MarketValues /\ SoundMarket(mkt) /\ HeapOk(heap)
         /\ oo \in [Accounts -> AccountValues]
         /\ mkt.base_deposit_total \in Int /\ mkt.quote_deposit_total \in Int
         /\ mkt.fees_available \in Int /\ mkt.seq_num \in Nat /\ Len(heap) \in Nat
<1>1. Sane(Loaded, heap, 0, 0, NoLock, Totals(mkt)) /\ SoundMarket(mkt)
  BY DEF IInv
<1>2. /\ Loaded.mkt \in MarketValues /\ Loaded.oo \in [Accounts -> AccountValues]
      /\ HeapOk(Loaded.heap)
  BY <1>1, SaneParts
<1>3. mkt \in MarketValues /\ oo \in [Accounts -> AccountValues] /\ HeapOk(heap)
  BY <1>2, LoadedIs
<1> QED BY <1>1, <1>3 DEF MarketValues, HeapOk

\* A step that leaves the market account, the book and the heap alone.
LEMMA RestKeeps ==
  ASSUME IInv, NEW r, Commit(r), Sane(r, r.heap, 0, 0, NoLock, Totals(r.mkt)),
         r.mkt = mkt, r.book = book, r.heap = heap, KeepTokens,
         now' \in 0 .. MaxTime, oracle' \in OraclePrices
  PROVE  IInv' /\ Shrinks /\ Drains
<1>1. mkt' = mkt /\ book' = book /\ heap' = heap
  BY DEF Commit
<1>2. Sane(Loaded, heap, 0, 0, NoLock, Totals(mkt))' /\ SoundMarket(mkt)'
  BY CommitSane
<1>3. wallet' = wallet /\ vault' = vault
  BY DEF KeepTokens
<1>4. (vault = [base |-> mkt.base_deposit_total, quote |-> mkt.quote_deposit_total])'
  BY <1>1, <1>3 DEF IInv
<1>5. (mkt.seq_num <= MaxSeqNum)'
  BY <1>1 DEF IInv
<1>6. (wallet \in [Traders -> TokenAmounts])'
  BY <1>3 DEF IInv, Traders
<1>7. (mkt.closed => is_empty_market /\ heap = << >> /\ AllLeaves(book) = {})'
  <2>1. mkt.closed => is_empty_market /\ heap = << >> /\ AllLeaves(book) = {}
    BY DEF IInv
  <2>2. is_empty_market' = is_empty_market
    BY <1>1 DEF is_empty_market
  <2> QED BY <1>1, <2>1, <2>2
<1>8. IInv'
  BY <1>2, <1>4, <1>5, <1>6, <1>7 DEF IInv
<1>9. Shrinks
  BY <1>1, BookSameShrinks
<1>10. Drains
  <2>1. mkt.base_deposit_total \in Int /\ mkt.quote_deposit_total \in Int /\ Len(heap) \in Nat
    BY MarketFacts
  <2>2. /\ mkt.base_deposit_total <= mkt.base_deposit_total
        /\ mkt.quote_deposit_total <= mkt.quote_deposit_total /\ Len(heap) <= Len(heap)
    BY <2>1
  <2> QED BY <1>1, <2>2 DEF Drains
<1> QED BY <1>8, <1>9, <1>10

\* A step of the clock or the oracle, or none.
LEMMA WorldKeeps ==
  ASSUME IInv, UNCHANGED <<mkt, oo, book, heap, wallet, vault>>,
         now' \in 0 .. MaxTime, oracle' \in OraclePrices
  PROVE  IInv' /\ Shrinks /\ Drains
<1>1. Commit(Loaded)
  BY LoadedIs DEF Commit, IInv
<1>2. Sane(Loaded, Loaded.heap, 0, 0, NoLock, Totals(Loaded.mkt))
  BY LoadedIs DEF IInv
<1>3. Loaded.mkt = mkt /\ Loaded.book = book /\ Loaded.heap = heap
  BY LoadedIs
<1>4. KeepTokens
  BY DEF KeepTokens
<1> HIDE DEF Loaded
<1> QED BY <1>1, <1>2, <1>3, <1>4, RestKeeps

\* The clock.
LEMMA TickKeeps ==
  ASSUME IInv, Tick
  PROVE  IInv' /\ Shrinks /\ Drains /\ now <= now'
<1>1. /\ UNCHANGED <<mkt, oo, book, heap, wallet, vault>> /\ oracle' = oracle
      /\ now < MaxTime /\ now' = now + 1
  BY DEF Tick, KeepTokens
<1>2. now' \in 0 .. MaxTime /\ now <= now' /\ oracle' \in OraclePrices
  <2>1. now \in 0 .. MaxTime /\ MaxTime \in Nat /\ oracle \in OraclePrices
    BY OpenBookAssumption DEF IInv
  <2> QED BY <1>1, <2>1
<1>3. IInv' /\ Shrinks /\ Drains
  BY <1>1, <1>2, WorldKeeps
<1> QED BY <1>2, <1>3

\* The oracle.
LEMMA MoveOracleKeeps ==
  ASSUME IInv, MoveOracle
  PROVE  IInv' /\ Shrinks /\ Drains /\ now' = now
<1>1. /\ UNCHANGED <<mkt, oo, book, heap, wallet, vault>> /\ oracle' \in OraclePrices /\ now' = now
  BY DEF MoveOracle, KeepTokens
<1>2. now' \in 0 .. MaxTime
  BY <1>1 DEF IInv
<1>3. IInv' /\ Shrinks /\ Drains
  BY <1>1, <1>2, WorldKeeps
<1> QED BY <1>1, <1>3

\* Nothing happens.
LEMMA StutterKeeps ==
  ASSUME IInv, UNCHANGED vars
  PROVE  IInv' /\ Shrinks /\ Drains /\ now' = now
<1>1. UNCHANGED <<mkt, oo, book, heap, wallet, vault>> /\ oracle' = oracle /\ now' = now
  BY DEF vars
<1>2. now' \in 0 .. MaxTime /\ oracle' \in OraclePrices
  BY <1>1 DEF IInv
<1>3. IInv' /\ Shrinks /\ Drains
  BY <1>1, <1>2, WorldKeeps
<1> QED BY <1>1, <1>3

-----------------------------------------------------------------------------
(* Accounts are created and closed; the admin sets the expiry, sweeps fees, closes the market. *)

\* Accounts with nothing at stake hold and are owed the same.
LEMMA ZeroSame ==
  ASSUME NEW acc, AllZero(acc), NEW old, AllZero(old)
  PROVE  /\ Sound(acc)
         /\ \A kind \in Kinds : Held(kind, acc) = Held(kind, old)
         /\ \A unit \in Units : OwedTo(unit, acc) = OwedTo(unit, old)
<1>1. \A kind \in Kinds : Held(kind, acc) = Held(kind, old)
  <2>1. /\ Held("asks_base", acc) = acc.asks_base_lots
        /\ Held("bids_base", acc) = acc.bids_base_lots
        /\ Held("bids_quote", acc) = acc.bids_quote_lots
        /\ Held("fees", acc) = acc.locked_maker_fees
    BY HeldFacts
  <2>2. /\ Held("asks_base", old) = old.asks_base_lots
        /\ Held("bids_base", old) = old.bids_base_lots
        /\ Held("bids_quote", old) = old.bids_quote_lots
        /\ Held("fees", old) = old.locked_maker_fees
    BY HeldFacts
  <2> QED BY <2>1, <2>2 DEF AllZero, Kinds
<1>2. \A unit \in Units : OwedTo(unit, acc) = OwedTo(unit, old)
  BY DEF AllZero, OwedTo
<1>3. Sound(acc)
  BY DEF AllZero, Sound
<1> QED BY <1>1, <1>2, <1>3

\* The record of an instruction that only replaces an account.
LEMMA LoadedAccount ==
  ASSUME NEW a, NEW acc, NEW t, t = Loaded, NEW r, r = AccountSet(t, a, acc)
  PROVE  /\ r.ok = TRUE /\ r.mkt = mkt /\ r.oo = Put(oo, a, acc)
         /\ r.book = book /\ r.heap = heap
         /\ t.mkt = mkt /\ t.oo = oo /\ t.book = book /\ t.heap = heap
<1>1. /\ IsState(t) /\ t.ok = TRUE /\ t.mkt = mkt /\ t.oo = oo
      /\ t.book = book /\ t.heap = heap
  BY LoadedIs
<1>2. /\ IsState(r) /\ r.ok = t.ok /\ r.mkt = t.mkt
      /\ r.oo = [t.oo EXCEPT ![a] = acc]
      /\ r.book = t.book /\ r.heap = t.heap
  BY <1>1, AccountSetIs
<1> QED BY <1>1, <1>2 DEF Put

\* An account is opened or closed.
LEMMA OpenedOrClosed ==
  ASSUME IInv, NEW a \in Accounts, NEW acc \in {EmptyAccount, ClosedAccount},
         Idle(Loaded, heap, a), AllZero(oo[a]),
         oo' = [oo EXCEPT ![a] = acc],
         UNCHANGED <<mkt, book, heap>>, KeepTokens, KeepWorld
  PROVE  IInv' /\ Shrinks /\ Drains /\ now' = now
<1>1. PICK t : t = Loaded
  OBVIOUS
<1>0. PICK r : r = AccountSet(t, a, acc)
  OBVIOUS
<1>2. /\ r.ok = TRUE /\ r.mkt = mkt /\ r.oo = Put(oo, a, acc)
      /\ r.book = book /\ r.heap = heap
      /\ t.mkt = mkt /\ t.oo = oo /\ t.book = book /\ t.heap = heap
  BY ONLY <1>1, <1>0, LoadedAccount, Zenon
<1>3. /\ acc \in AccountValues /\ AllZero(acc)
      /\ \A slot \in OrderSlots : acc.open_orders[slot].id = 0
      /\ acc.open \/ acc = ClosedAccount
  BY NewAccountFacts
<1>4. /\ Sound(acc)
      /\ \A kind \in Kinds : Held(kind, acc) = Held(kind, oo[a])
      /\ \A unit \in Units : OwedTo(unit, acc) = OwedTo(unit, oo[a])
  BY <1>3, ZeroSame
<1>5. Sane(Loaded, heap, 0, 0, NoLock, Totals(mkt))
  BY DEF IInv
<1>6. Replaced(t, heap, 0, 0, NoLock, Totals(mkt), a, acc, r)
  <2>1. Sane(t, heap, 0, 0, NoLock, Totals(mkt)) /\ Idle(t, heap, a)
    BY <1>1, <1>5
  <2>2. r.oo = [t.oo EXCEPT ![a] = acc]
    BY <1>2 DEF Put
  <2> QED BY <1>2, <1>3, <1>4, <2>1, <2>2 DEF Replaced
<1>7. Sane(r, heap, 0, 0, NoLock, Totals(mkt))
  BY ONLY <1>6, AccountReplaced
<1>8. Sane(r, r.heap, 0, 0, NoLock, Totals(r.mkt))
  BY <1>2, <1>7
<1>9. Commit(r)
  BY <1>2 DEF Commit, IInv, Put
<1>10. now' = now /\ now' \in 0 .. MaxTime /\ oracle' \in OraclePrices
  BY DEF KeepWorld, IInv
<1>11. IInv' /\ Shrinks /\ Drains
  BY <1>2, <1>8, <1>9, <1>10, RestKeeps
<1> QED BY <1>10, <1>11

\* create_open_orders_account.
LEMMA CreateOpenOrdersAccountKeeps ==
  ASSUME IInv, NEW a \in Accounts, CreateOpenOrdersAccount(a)
  PROVE  IInv' /\ Shrinks /\ Drains /\ now' = now
<1>1. /\ ~oo[a].open /\ oo' = [oo EXCEPT ![a] = EmptyAccount]
      /\ UNCHANGED <<mkt, book, heap>> /\ KeepTokens /\ KeepWorld
  BY DEF CreateOpenOrdersAccount
<1>2. Sane(Loaded, heap, 0, 0, NoLock, Totals(mkt))
  BY DEF IInv
<1>3. OwnersOpen(Loaded.oo, AllLeaves(Loaded.book), heap)
  BY <1>2, SaneParts
<1>4. OwnersOpen(oo, AllLeaves(book), heap)
  BY <1>3, LoadedIs
<1>5. oo[a] = ClosedAccount
  BY <1>1, <1>4 DEF OwnersOpen
<1>6. AllZero(oo[a])
  BY <1>5, NewAccountFacts
<1>7. Idle(Loaded, heap, a)
  BY <1>1, <1>4, LoadedIs DEF OwnersOpen, Idle
<1> QED BY <1>1, <1>6, <1>7, OpenedOrClosed

\* close_open_orders_account.
LEMMA CloseOpenOrdersAccountKeeps ==
  ASSUME IInv, NEW a \in Accounts, CloseOpenOrdersAccount(a)
  PROVE  IInv' /\ Shrinks /\ Drains /\ now' = now
<1>1. /\ is_empty_position(oo[a]) /\ oo' = [oo EXCEPT ![a] = ClosedAccount]
      /\ UNCHANGED <<mkt, book, heap>> /\ KeepTokens /\ KeepWorld
  BY DEF CloseOpenOrdersAccount
<1>2. oo[a] \in AccountValues
  BY MarketFacts
<1>3. AllZero(oo[a])
  <2>1. ASSUME NEW acc \in AccountValues, NEW e, e = EmptyAccount,
               [acc EXCEPT !.open_orders = e.open_orders] = e
        PROVE  AllZero(acc)
    <3>1. AllZero(e)
      BY <2>1, NewAccountFacts
    <3> DEFINE x == e.open_orders
               t == [acc EXCEPT !.open_orders = x]
    <3>2. t = e
      BY <2>1
    <3> HIDE DEF x
    <3>3. /\ t.bids_base_lots = acc.bids_base_lots
          /\ t.asks_base_lots = acc.asks_base_lots
          /\ t.bids_quote_lots = acc.bids_quote_lots
          /\ t.base_free_native = acc.base_free_native
          /\ t.quote_free_native = acc.quote_free_native
          /\ t.locked_maker_fees = acc.locked_maker_fees
          /\ t.referrer_rebates_available = acc.referrer_rebates_available
      BY <2>1 DEF AccountValues
    <3> HIDE DEF t
    <3> QED BY <3>1, <3>2, <3>3 DEF AllZero
  <2> QED BY <1>1, <1>2, <2>1 DEF is_empty_position
<1>4. Sane(Loaded, heap, 0, 0, NoLock, Totals(mkt))
  BY DEF IInv
<1>5. Loaded.oo[a].bids_base_lots = 0 /\ Loaded.oo[a].asks_base_lots = 0
  BY <1>3, LoadedIs DEF AllZero
<1>6. Idle(Loaded, heap, a)
  BY <1>4, <1>5, NoLotsIdle
<1> QED BY <1>1, <1>3, <1>6, OpenedOrClosed

\* Only the market account changes, and what it owes stays in balance.
MarketMoves(t, m, r) ==
  /\ IInv /\ t = Loaded /\ m \in MarketValues
  /\ m.seq_num = mkt.seq_num /\ m.base_deposit_total = mkt.base_deposit_total
  /\ m.quote_deposit_total - m.fees_available = mkt.quote_deposit_total - mkt.fees_available
  /\ m.referrer_rebates_accrued = mkt.referrer_rebates_accrued
  /\ r = MarketSet(t, m)

\* Then the market's invariant is kept.
LEMMA MarketChanged ==
  ASSUME NEW t, NEW m, NEW r, MarketMoves(t, m, r)
  PROVE  /\ Sane(r, r.heap, 0, 0, NoLock, Totals(r.mkt))
         /\ r.ok = TRUE /\ r.mkt = m /\ r.oo = oo /\ r.book = book /\ r.heap = heap
<1>0. /\ IInv /\ t = Loaded /\ m \in MarketValues
      /\ m.seq_num = mkt.seq_num /\ m.base_deposit_total = mkt.base_deposit_total
      /\ m.quote_deposit_total - m.fees_available = mkt.quote_deposit_total - mkt.fees_available
      /\ m.referrer_rebates_accrued = mkt.referrer_rebates_accrued
      /\ r = MarketSet(t, m)
  BY DEF MarketMoves
<1>1. /\ IsState(t) /\ t.ok = TRUE /\ t.mkt = mkt /\ t.oo = oo
      /\ t.book = book /\ t.heap = heap
  BY <1>0, LoadedIs
<1>2. /\ IsState(r) /\ r.ok = t.ok /\ r.mkt = m /\ r.oo = t.oo
      /\ r.book = t.book /\ r.heap = t.heap
  BY <1>0, <1>1, MarketSetIs
<1>3. Sane(t, heap, 0, 0, NoLock, Totals(mkt))
  BY <1>0 DEF IInv
<1> DEFINE w == Totals(m)
<1>4. /\ w.ids = mkt.seq_num /\ Totals(mkt).ids = mkt.seq_num
      /\ TotalsOk(m, w)
  BY <1>0 DEF TotalsOk, Totals, MarketValues
<1>5. HeapOk(heap) /\ mkt \in MarketValues
  BY <1>0, MarketFacts
<1>6. Sane(r, heap, 0, 0, NoLock, w)
  <2>1. /\ r.oo = t.oo /\ r.book = t.book /\ HeapOk(r.heap) /\ TotalsOk(r.mkt, w)
        /\ w.ids = Totals(mkt).ids
    BY <1>1, <1>2, <1>4, <1>5
  <2>2. /\ r.mkt.base_deposit_total + 0 = t.mkt.base_deposit_total + 0
        /\ r.mkt.quote_deposit_total + 0 - r.mkt.fees_available
             = t.mkt.quote_deposit_total + 0 - t.mkt.fees_available
        /\ r.mkt.referrer_rebates_accrued = t.mkt.referrer_rebates_accrued
    <3> DEFINE b == mkt.base_deposit_total
               q == mkt.quote_deposit_total
               f == mkt.fees_available
               q2 == m.quote_deposit_total
               f2 == m.fees_available
    <3>1. q \in Int /\ f \in Int /\ q2 \in Int /\ f2 \in Int /\ q2 - f2 = q - f
      BY <1>0, <1>5 DEF MarketValues
    <3>2. /\ r.mkt.base_deposit_total = b /\ t.mkt.base_deposit_total = b
          /\ r.mkt.quote_deposit_total = q2 /\ t.mkt.quote_deposit_total = q
          /\ r.mkt.fees_available = f2 /\ t.mkt.fees_available = f
          /\ r.mkt.referrer_rebates_accrued = t.mkt.referrer_rebates_accrued
      BY <1>0, <1>1, <1>2
    <3> HIDE DEF b, q, f, q2, f2
    <3>3. q2 + 0 - f2 = q + 0 - f
      BY <3>1
    <3> QED BY <3>2, <3>3
  <2> HIDE DEF w
  <2> QED BY <1>3, <2>1, <2>2, MarketTouched
<1> QED BY <1>1, <1>2, <1>6

\* set_market_expired.
LEMMA SetMarketExpiredKeeps ==
  ASSUME IInv, SetMarketExpired
  PROVE  IInv' /\ Shrinks /\ ~is_expired_market
<1>1. PICK t : t = Loaded
  OBVIOUS
<1>2. /\ IsState(t) /\ t.ok = TRUE /\ t.mkt = mkt /\ t.oo = oo
      /\ t.book = book /\ t.heap = heap
  BY <1>1, LoadedIs
<1> DEFINE m == [mkt EXCEPT !.time_expiry = -1]
           r == MarketSet(t, m)
<1>3. /\ ~mkt.closed /\ ~is_expired_market /\ KeepTokens /\ KeepWorld
      /\ Commit([t EXCEPT !.mkt.time_expiry = -1])
  BY <1>1 DEF SetMarketExpired
<1>4. Commit(r)
  <2>1. [t EXCEPT !.mkt.time_expiry = -1] = r
    BY <1>2 DEF MarketSet
  <2> QED BY <1>3, <2>1
<1>5. /\ mkt \in MarketValues
  BY MarketFacts
<1>6. /\ m \in MarketValues /\ m.seq_num = mkt.seq_num
      /\ m.base_deposit_total = mkt.base_deposit_total
      /\ m.quote_deposit_total = mkt.quote_deposit_total
      /\ m.fees_available = mkt.fees_available
      /\ m.referrer_rebates_accrued = mkt.referrer_rebates_accrued
      /\ m.closed = mkt.closed
  BY <1>5 DEF MarketValues
<1>7. r = MarketSet(t, m)
  OBVIOUS
<1> HIDE DEF m, r
<1>8. /\ Sane(r, r.heap, 0, 0, NoLock, Totals(r.mkt))
      /\ r.ok = TRUE /\ r.mkt = m /\ r.oo = oo /\ r.book = book /\ r.heap = heap
  <2>1. m.quote_deposit_total - m.fees_available = mkt.quote_deposit_total - mkt.fees_available
    BY <1>6
  <2>2. MarketMoves(t, m, r)
    BY <1>1, <1>6, <1>7, <2>1 DEF MarketMoves
  <2> QED BY ONLY <2>2, MarketChanged
<1>9. /\ wallet' \in [Traders -> TokenAmounts]
      /\ vault' = [base |-> r.mkt.base_deposit_total, quote |-> r.mkt.quote_deposit_total]
  BY <1>3, <1>6, <1>8 DEF KeepTokens, IInv
<1>10. r.mkt.seq_num <= MaxSeqNum /\ r.mkt.closed = FALSE
  <2>1. mkt.closed \in BOOLEAN
    BY <1>5 DEF MarketValues
  <2> QED BY <1>3, <1>6, <1>8, <2>1 DEF IInv
<1>11. IInv'
  BY <1>3, <1>4, <1>8, <1>9, <1>10, CommitKeeps
<1>12. Shrinks
  <2>1. book' = book
    BY <1>4, <1>8 DEF Commit
  <2> QED BY <2>1, BookSameShrinks
<1> QED BY <1>3, <1>11, <1>12

\* The market account once its collected fees have been taken out.
Swept(k, left, z) == [k EXCEPT !.fees_available = z, !.quote_deposit_total = left]

\* What is in it.
LEMMA FeesTaken ==
  ASSUME NEW k \in MarketValues, NEW left \in Int, NEW z \in Int, NEW m, m = Swept(k, left, z)
  PROVE  /\ m \in MarketValues /\ m.seq_num = k.seq_num
         /\ m.base_deposit_total = k.base_deposit_total
         /\ m.quote_deposit_total = left /\ m.fees_available = z
         /\ m.referrer_rebates_accrued = k.referrer_rebates_accrued
         /\ m.closed = k.closed /\ m.time_expiry = k.time_expiry
  BY DEF MarketValues, Swept

\* sweep_fees.
LEMMA SweepFeesKeeps ==
  ASSUME IInv, SweepFees
  PROVE  IInv' /\ Shrinks /\ Drains /\ now' = now
<1>1. PICK t : t = Loaded
  OBVIOUS
<1>2. /\ IsState(t) /\ t.ok = TRUE /\ t.mkt = mkt /\ t.oo = oo
      /\ t.book = book /\ t.heap = heap
  BY <1>1, LoadedIs
<1> DEFINE fees == mkt.fees_available
           total == mkt.quote_deposit_total
           left == total - fees
           m == [mkt EXCEPT !.fees_available = 0, !.quote_deposit_total = left]
           r == MarketSet(t, m)
<1>3. /\ ~mkt.closed /\ wallet' = wallet /\ KeepWorld
      /\ Commit([t EXCEPT !.mkt.fees_available = 0,
                          !.mkt.quote_deposit_total = @ - mkt.fees_available])
      /\ vault' = [vault EXCEPT !.quote = @ - mkt.fees_available]
  BY <1>1 DEF SweepFees
<1>4. /\ mkt \in MarketValues /\ SoundMarket(mkt) /\ fees \in Int /\ total \in Int
      /\ mkt.base_deposit_total \in Int /\ Len(heap) \in Nat
  BY MarketFacts
<1>5. Commit(r)
  <2>1. [t EXCEPT !.mkt.fees_available = 0,
                  !.mkt.quote_deposit_total = @ - mkt.fees_available] = r
    <3> DEFINE u == [t EXCEPT !.mkt = [t.mkt EXCEPT !.fees_available = 0]]
    <3>1. u.mkt = [mkt EXCEPT !.fees_available = 0]
      BY <1>2 DEF IsState
    <3>2. u.mkt.quote_deposit_total = total
      BY <1>4, <3>1 DEF MarketValues
    <3> QED BY <1>2, <1>4, <3>1, <3>2 DEF MarketSet, MarketValues, IsState
  <2> QED BY <1>3, <2>1
<1>6. /\ m \in MarketValues /\ m.seq_num = mkt.seq_num
      /\ m.base_deposit_total = mkt.base_deposit_total
      /\ m.quote_deposit_total = total - fees
      /\ m.fees_available = 0
      /\ m.referrer_rebates_accrued = mkt.referrer_rebates_accrued
      /\ m.closed = mkt.closed /\ m.time_expiry = mkt.time_expiry
  <2>1. left \in Int
    BY <1>4
  <2> HIDE DEF left
  <2>2. /\ m \in MarketValues /\ m.seq_num = mkt.seq_num
        /\ m.base_deposit_total = mkt.base_deposit_total
        /\ m.quote_deposit_total = left /\ m.fees_available = 0
        /\ m.referrer_rebates_accrued = mkt.referrer_rebates_accrued
        /\ m.closed = mkt.closed /\ m.time_expiry = mkt.time_expiry
    <3>1. mkt \in MarketValues
      BY <1>4
    <3>2. PICK z : z = 0
      OBVIOUS
    <3>3. z \in Int
      BY <3>2
    <3>4. m = Swept(mkt, left, z)
      BY <3>2 DEF Swept
    <3> HIDE DEF m
    <3>5. /\ m \in MarketValues /\ m.seq_num = mkt.seq_num
          /\ m.base_deposit_total = mkt.base_deposit_total
          /\ m.quote_deposit_total = left /\ m.fees_available = z
          /\ m.referrer_rebates_accrued = mkt.referrer_rebates_accrued
          /\ m.closed = mkt.closed /\ m.time_expiry = mkt.time_expiry
      BY ONLY <2>1, <3>1, <3>3, <3>4, FeesTaken
    <3> QED BY <3>2, <3>5
  <2> HIDE DEF m
  <2> QED BY <2>2 DEF left
<1>7. r = MarketSet(t, m)
  OBVIOUS
<1>8. vault' = [base |-> mkt.base_deposit_total, quote |-> total - fees]
  BY <1>3 DEF IInv
<1>9. fees >= 0
  BY <1>4 DEF SoundMarket
<1> HIDE DEF m, r
<1>10. m.quote_deposit_total - m.fees_available = mkt.quote_deposit_total - mkt.fees_available
  BY <1>4, <1>6
<1>11. /\ Sane(r, r.heap, 0, 0, NoLock, Totals(r.mkt))
       /\ r.ok = TRUE /\ r.mkt = m /\ r.oo = oo /\ r.book = book /\ r.heap = heap
  <2>1. MarketMoves(t, m, r)
    BY <1>1, <1>6, <1>7, <1>10 DEF MarketMoves
  <2> QED BY ONLY <2>1, MarketChanged
<1>12. /\ wallet' \in [Traders -> TokenAmounts]
       /\ vault' = [base |-> r.mkt.base_deposit_total, quote |-> r.mkt.quote_deposit_total]
  BY <1>3, <1>6, <1>8, <1>11 DEF IInv
<1>13. r.mkt.seq_num <= MaxSeqNum /\ r.mkt.closed = FALSE
  <2>1. mkt.closed \in BOOLEAN
    BY <1>4 DEF MarketValues
  <2> QED BY <1>3, <1>6, <1>11, <2>1 DEF IInv
<1>14. IInv'
  BY <1>3, <1>5, <1>11, <1>12, <1>13, CommitKeeps
<1>15. mkt' = m /\ book' = book /\ heap' = heap /\ now' = now
  BY <1>3, <1>5, <1>11 DEF Commit, KeepWorld
<1>16. Shrinks
  BY <1>15, BookSameShrinks
<1>17. Drains
  <2>1. total - fees <= total /\ mkt.base_deposit_total <= mkt.base_deposit_total
        /\ Len(heap) <= Len(heap)
    BY <1>4, <1>9
  <2> QED BY <1>6, <1>15, <2>1 DEF Drains
<1> QED BY <1>14, <1>15, <1>16, <1>17

\* close_market.
LEMMA CloseMarketKeeps ==
  ASSUME IInv, CloseMarket
  PROVE  IInv' /\ Shrinks /\ Drains /\ now' = now
<1>1. PICK t : t = Loaded
  OBVIOUS
<1>2. /\ IsState(t) /\ t.ok = TRUE /\ t.mkt = mkt /\ t.oo = oo
      /\ t.book = book /\ t.heap = heap
  BY <1>1, LoadedIs
<1> DEFINE m == [mkt EXCEPT !.closed = TRUE]
           r == MarketSet(t, m)
<1>3. /\ is_empty_market /\ KeepTokens /\ KeepWorld /\ heap = << >>
      /\ \A side \in Sides : book[side].leaves = {}
      /\ Commit([t EXCEPT !.mkt.closed = TRUE])
  BY <1>1 DEF CloseMarket
<1>4. Commit(r)
  <2>1. [t EXCEPT !.mkt.closed = TRUE] = r
    BY <1>2 DEF MarketSet
  <2> QED BY <1>3, <2>1
<1>5. /\ mkt \in MarketValues /\ Len(heap) \in Nat
      /\ mkt.base_deposit_total \in Int /\ mkt.quote_deposit_total \in Int
  BY MarketFacts
<1>6. /\ m \in MarketValues /\ m.seq_num = mkt.seq_num
      /\ m.base_deposit_total = mkt.base_deposit_total
      /\ m.quote_deposit_total = mkt.quote_deposit_total
      /\ m.fees_available = mkt.fees_available
      /\ m.referrer_rebates_accrued = mkt.referrer_rebates_accrued
      /\ m.time_expiry = mkt.time_expiry
  BY <1>5 DEF MarketValues
<1>7. r = MarketSet(t, m)
  OBVIOUS
<1> HIDE DEF m, r
<1>8. /\ Sane(r, r.heap, 0, 0, NoLock, Totals(r.mkt))
      /\ r.ok = TRUE /\ r.mkt = m /\ r.oo = oo /\ r.book = book /\ r.heap = heap
  <2>1. m.quote_deposit_total - m.fees_available = mkt.quote_deposit_total - mkt.fees_available
    BY <1>6
  <2>2. MarketMoves(t, m, r)
    BY <1>1, <1>6, <1>7, <2>1 DEF MarketMoves
  <2> QED BY ONLY <2>2, MarketChanged
<1>9. Sane(Loaded, heap, 0, 0, NoLock, Totals(mkt))' /\ SoundMarket(mkt)'
  BY <1>4, <1>8, CommitSane
<1>10. /\ mkt' = m /\ book' = book /\ heap' = heap /\ now' = now /\ oracle' = oracle
       /\ wallet' = wallet /\ vault' = vault
  BY <1>3, <1>4, <1>8 DEF Commit, KeepWorld, KeepTokens
<1>11. (now \in 0 .. MaxTime /\ oracle \in OraclePrices /\ mkt.seq_num <= MaxSeqNum)'
  BY <1>6, <1>10 DEF IInv
<1>12. (vault = [base |-> mkt.base_deposit_total, quote |-> mkt.quote_deposit_total])'
  BY <1>6, <1>10 DEF IInv
<1>13. (wallet \in [Traders -> TokenAmounts])'
  BY <1>10 DEF IInv, Traders
<1>14. (is_empty_market /\ heap = << >> /\ AllLeaves(book) = {})'
  <2>1. is_empty_market'
    BY <1>3, <1>6, <1>10 DEF is_empty_market
  <2>2. AllLeaves(book) = {}
    BY <1>3 DEF AllLeaves, Sides
  <2> QED BY <1>3, <1>10, <2>1, <2>2
<1>15. IInv'
  BY <1>9, <1>11, <1>12, <1>13, <1>14 DEF IInv
<1>16. Shrinks
  BY <1>10, BookSameShrinks
<1>17. Drains
  <2>1. /\ mkt.base_deposit_total <= mkt.base_deposit_total
        /\ mkt.quote_deposit_total <= mkt.quote_deposit_total /\ Len(heap) <= Len(heap)
    BY <1>5
  <2> QED BY <1>6, <1>10, <2>1 DEF Drains
<1> QED BY <1>10, <1>15, <1>16, <1>17

-----------------------------------------------------------------------------
(* settle_funds: what an account holds is paid out. *)

\* The market once an account has been settled.
SettledMarket(m, fr, fa, bt, qt, rr) ==
  [m EXCEPT !.fees_to_referrers = fr, !.fees_available = fa,
            !.base_deposit_total = bt, !.quote_deposit_total = qt,
            !.referrer_rebates_accrued = rr]

\* It differs in these amounts only.
LEMMA SettledMarketFacts ==
  ASSUME NEW m \in MarketValues, NEW fr \in Int, NEW fa \in Int, NEW bt \in Int, NEW qt \in Int,
         NEW rr \in Int,
         NEW k, k = SettledMarket(m, fr, fa, bt, qt, rr)
  PROVE  /\ k \in MarketValues /\ k.seq_num = m.seq_num
         /\ k.time_expiry = m.time_expiry /\ k.closed = m.closed
         /\ k.base_deposit_total = bt /\ k.quote_deposit_total = qt
         /\ k.fees_available = fa /\ k.referrer_rebates_accrued = rr
<1>1. k \in MarketValues
  BY DEF MarketValues, SettledMarket
<1>2. /\ k.seq_num = m.seq_num
      /\ k.time_expiry = m.time_expiry /\ k.closed = m.closed
      /\ k.base_deposit_total = bt /\ k.quote_deposit_total = qt
      /\ k.fees_available = fa /\ k.referrer_rebates_accrued = rr
  BY DEF MarketValues, SettledMarket
<1> QED BY <1>1, <1>2

\* A record with another market account and another open orders account.
MarketAccountSet(s, a, acc, m) == [s EXCEPT !.mkt = m, !.oo[a] = acc]

\* Only they change.
LEMMA MarketAccountSetIs ==
  ASSUME NEW s, IsState(s), NEW a, NEW acc, NEW m, NEW r, r = MarketAccountSet(s, a, acc, m)
  PROVE  /\ IsState(r) /\ r.ok = s.ok /\ r.mkt = m /\ r.oo = [s.oo EXCEPT ![a] = acc]
         /\ r.book = s.book /\ r.heap = s.heap
BY DEF IsState, MarketAccountSet

\* An account with nothing free, whose locked fees are f.
LEMMA SettledAccountFacts ==
  ASSUME NEW old \in AccountValues, NEW f \in Int, NEW zero, zero = 0,
         NEW acc, acc = [old EXCEPT !.locked_maker_fees = f, !.penalty_heap_count = zero,
                                    !.base_free_native = zero, !.quote_free_native = zero,
                                    !.referrer_rebates_available = zero]
  PROVE  MoneyIs(acc, old, zero, zero, f, zero)
<1>1. acc = MoneySet(old, zero, zero, f, zero, zero)
  BY DEF MoneySet, AccountValues
<1>2. zero \in Int
  OBVIOUS
<1> QED BY <1>1, <1>2, MoneySetFacts

\* What is left locked after the settlement covers the fees of the orders.
LEMMA RoundoffFacts ==
  ASSUME NEW s, NEW E, NEW w, Sane(s, E, 0, 0, NoLock, w), NEW a \in Accounts,
         NEW off, off = locked_roundoff(s.oo[a])
  PROVE  /\ s.oo[a].locked_maker_fees \in Nat /\ off \in Nat
         /\ s.oo[a].locked_maker_fees - off \in Nat
         /\ s.oo[a].locked_maker_fees - off >= FeesToCover(s, E, a)
<1> DEFINE acc == s.oo[a]
           held == acc.locked_maker_fees
           cover == FeesToCover(s, E, a)
<1>1. /\ s.oo \in [Accounts -> AccountValues] /\ AccountsOk(s.oo, w.ids)
  BY SaneParts
<1>2. acc \in AccountValues /\ Sound(acc)
  BY <1>1 DEF AccountsOk
<1>3. held \in Nat
  BY <1>2 DEF AccountValues, Sound
<1>4. cover \in Nat /\ held - NoLock[a] >= cover
  BY FeesCovered
<1>5. NoLock[a] = 0
  BY DEF NoLock
<1>6. CASE maker_fee > 0 /\ acc.bids_base_lots = 0
  <2>1. off = held
    BY <1>6 DEF locked_roundoff
  <2>2. cover = 0
    BY <1>6, NoBidsNoFees
  <2> HIDE DEF held, cover
  <2>3. held \in Nat /\ off \in Nat /\ held - off \in Nat /\ held - off >= cover
    BY <1>3, <2>1, <2>2
  <2> QED BY <2>3 DEF held, cover
<1>7. CASE ~(maker_fee > 0 /\ acc.bids_base_lots = 0)
  <2>1. off = 0
    BY <1>7 DEF locked_roundoff
  <2> HIDE DEF held, cover
  <2>2. held \in Nat /\ off \in Nat /\ held - off \in Nat /\ held - off >= cover
    BY <1>3, <1>4, <1>5, <2>1
  <2> QED BY <2>2 DEF held, cover
<1> QED BY <1>6, <1>7

\* The account is settled in a record that may be committed.
Settles(s, a, with_referrer, r) ==
  /\ IInv /\ s = Loaded /\ a \in Accounts /\ s.oo[a].open
  /\ r = settle_funds(s, a, with_referrer)

\* What the account was owed leaves the market, and what it locked for fees it
\* has not to pay goes to the referrer or to the market.
LEMMA SettledOk ==
  ASSUME NEW s, NEW a, NEW with_referrer, NEW r, Settles(s, a, with_referrer, r)
  PROVE  /\ Good(r.s, r.s.heap, 0, 0, NoLock, Totals(r.s.mkt))
         /\ r.to_referrer \in Nat
         /\ r.s.heap = heap /\ r.s.book = book
         /\ r.s.mkt.seq_num = mkt.seq_num /\ r.s.mkt.closed = mkt.closed
         /\ r.s.mkt.time_expiry = mkt.time_expiry
         /\ oo[a].base_free_native \in Nat /\ oo[a].quote_free_native \in Nat
         /\ r.s.mkt.base_deposit_total = mkt.base_deposit_total - oo[a].base_free_native
         /\ r.s.mkt.quote_deposit_total
              = mkt.quote_deposit_total - oo[a].quote_free_native - r.to_referrer
<1>0. /\ IInv /\ s = Loaded /\ a \in Accounts /\ s.oo[a].open
      /\ r = settle_funds(s, a, with_referrer)
  BY DEF Settles
<1>1. /\ IsState(s) /\ s.ok = TRUE /\ s.mkt = mkt /\ s.oo = oo
      /\ s.book = book /\ s.heap = heap
  BY <1>0, LoadedIs
<1>2. /\ SeqOk /\ Good(s, s.heap, 0, 0, NoLock, Totals(s.mkt))
      /\ Sane(s, s.heap, 0, 0, NoLock, Totals(s.mkt))
  <2>1. Going(s, 0, 0)
    BY <1>0, LoadedGoing
  <2>2. SeqOk /\ Good(s, s.heap, 0, 0, NoLock, Totals(s.mkt))
    BY <1>1, <2>1 DEF Going
  <2> QED BY <2>2 DEF Good
<1> DEFINE m == s.mkt
           acc == s.oo[a]
           off == locked_roundoff(acc)
           b == acc.base_free_native
           q == acc.quote_free_native
           f == acc.locked_maker_fees
           k == acc.referrer_rebates_available
           rebate == k + off
           to == IF with_referrer THEN rebate ELSE 0
           fr == m.fees_to_referrers + to
           fa == m.fees_available + rebate - to
           bt == m.base_deposit_total - b
           qt == m.quote_deposit_total - q - to
           rr == m.referrer_rebates_accrued - k
           left == f - off
           market == SettledMarket(m, fr, fa, bt, qt, rr)
<1>3. PICK zero : zero = 0
  OBVIOUS
<1> DEFINE settled == [acc EXCEPT !.locked_maker_fees = left, !.penalty_heap_count = zero,
                                  !.base_free_native = zero, !.quote_free_native = zero,
                                  !.referrer_rebates_available = zero]
<1>4. /\ r.s = MarketAccountSet(s, a, settled, market)
      /\ r.to_referrer = to
  BY <1>0, <1>3 DEF settle_funds, SettledMarket, MarketAccountSet
<1>5. /\ m \in MarketValues /\ s.oo \in [Accounts -> AccountValues]
      /\ AccountsOk(s.oo, Totals(s.mkt).ids)
  BY <1>2, SaneParts
<1>6. acc \in AccountValues /\ Sound(acc)
  BY <1>0, <1>5 DEF AccountsOk
<1>7. b \in Nat /\ q \in Nat /\ f \in Nat /\ k \in Nat
  BY <1>6 DEF AccountValues, Sound
<1>8. /\ m.fees_to_referrers \in Int /\ m.fees_available \in Int
      /\ m.base_deposit_total \in Int /\ m.quote_deposit_total \in Int
      /\ m.referrer_rebates_accrued \in Int
  BY <1>5 DEF MarketValues
<1>9. off \in Nat /\ left \in Nat /\ left >= FeesToCover(s, s.heap, a)
  <2>1. /\ f \in Nat /\ off \in Nat /\ f - off \in Nat
        /\ f - off >= FeesToCover(s, s.heap, a)
    <3> HIDE DEF off
    <3>1. off = locked_roundoff(s.oo[a])
      BY DEF off
    <3> QED BY <1>0, <1>2, <3>1, RoundoffFacts
  <2> QED BY <2>1
<1>10. m \in MarketValues /\ IsState(s) /\ acc \in AccountValues
  BY <1>1, <1>5, <1>6
<1>11. with_referrer = with_referrer /\ rebate \in Nat /\ to \in Nat /\ (to = rebate \/ to = 0)
  BY <1>7, <1>9
<1> HIDE DEF to, off, rebate
<1>12. fr \in Int /\ fa \in Int /\ bt \in Int /\ qt \in Int /\ rr \in Int /\ left \in Int
  BY <1>7, <1>8, <1>9, <1>11
<1> HIDE DEF fr, fa, bt, qt, rr, left
<1>13. /\ market \in MarketValues /\ market.seq_num = m.seq_num
       /\ market.time_expiry = m.time_expiry /\ market.closed = m.closed
       /\ market.base_deposit_total = bt /\ market.quote_deposit_total = qt
       /\ market.fees_available = fa /\ market.referrer_rebates_accrued = rr
  <2>1. market = SettledMarket(m, fr, fa, bt, qt, rr)
    OBVIOUS
  <2> HIDE DEF market, m
  <2> QED BY ONLY <1>10, <1>12, <2>1, SettledMarketFacts
<1>14. MoneyIs(settled, acc, zero, zero, left, zero)
  <2>1. settled = [acc EXCEPT !.locked_maker_fees = left, !.penalty_heap_count = zero,
                              !.base_free_native = zero, !.quote_free_native = zero,
                              !.referrer_rebates_available = zero]
    OBVIOUS
  <2> HIDE DEF settled, acc
  <2> QED BY ONLY <1>3, <1>10, <1>12, <2>1, SettledAccountFacts
<1> HIDE DEF market, settled
<1>15. /\ IsState(r.s) /\ r.s.ok = s.ok /\ r.s.mkt = market /\ r.s.oo = [s.oo EXCEPT ![a] = settled]
       /\ r.s.book = s.book /\ r.s.heap = s.heap
  BY ONLY <1>4, <1>10, MarketAccountSetIs
<1>16. /\ market.base_deposit_total + 0 - (zero - b) = m.base_deposit_total + 0
       /\ market.quote_deposit_total + 0 - market.fees_available
            - ((zero - q) + (left - f) + (zero - k))
            = m.quote_deposit_total + 0 - m.fees_available
       /\ market.referrer_rebates_accrued - (zero - k) = m.referrer_rebates_accrued
  <2> DEFINE m1 == m.base_deposit_total
             m2 == m.quote_deposit_total
             m3 == m.fees_available
             m4 == m.referrer_rebates_accrued
  <2>1. m1 \in Int /\ m2 \in Int /\ m3 \in Int /\ m4 \in Int
    BY <1>8
  <2>2. /\ bt = m1 - b /\ qt = m2 - q - to /\ fa = m3 + rebate - to /\ rr = m4 - k
        /\ rebate = k + off /\ left = f - off
    BY DEF bt, qt, fa, rr, left, rebate
  <2> HIDE DEF m1, m2, m3, m4, b, q, f, k
  <2>3. /\ bt + 0 - (zero - b) = m1 + 0
        /\ qt + 0 - fa - ((zero - q) + (left - f) + (zero - k)) = m2 + 0 - m3
        /\ rr - (zero - k) = m4
    BY <1>3, <1>7, <1>9, <1>11, <2>1, <2>2
  <2> QED BY <1>13, <2>3 DEF m1, m2, m3, m4
<1>17. Moved(s, 0, 0, a, settled, zero, zero, left, zero, market, 0, 0, r.s)
  <2>1. zero \in Nat /\ left \in Nat /\ 0 \in Int
    BY <1>3, <1>9
  <2> QED BY <1>0, <1>2, <1>9, <1>13, <1>14, <1>15, <1>16, <2>1 DEF Moved
<1>18. Good(r.s, r.s.heap, 0, 0, NoLock, Totals(r.s.mkt))
  BY ONLY <1>17, MoneyMoved
<1>19. /\ r.s.heap = heap /\ r.s.book = book
       /\ r.s.mkt.seq_num = mkt.seq_num /\ r.s.mkt.closed = mkt.closed
       /\ r.s.mkt.time_expiry = mkt.time_expiry
       /\ oo[a].base_free_native \in Nat /\ oo[a].quote_free_native \in Nat
  BY <1>1, <1>7, <1>13, <1>15
<1>20. /\ r.s.mkt.base_deposit_total = mkt.base_deposit_total - oo[a].base_free_native
       /\ r.s.mkt.quote_deposit_total
            = mkt.quote_deposit_total - oo[a].quote_free_native - r.to_referrer
  BY <1>1, <1>4, <1>13, <1>15 DEF bt, qt
<1>21. r.to_referrer \in Nat
  BY <1>4, <1>11
<1> QED BY <1>18, <1>19, <1>20, <1>21

\* settle_funds.
LEMMA SettleFundsKeeps ==
  ASSUME IInv, NEW a \in Accounts, NEW with_referrer \in BOOLEAN, SettleFunds(a, with_referrer)
  PROVE  IInv' /\ Shrinks /\ Drains /\ now' = now
<1>1. PICK s : s = Loaded
  OBVIOUS
<1>2. /\ IsState(s) /\ s.ok = TRUE /\ s.mkt = mkt /\ s.oo = oo
      /\ s.book = book /\ s.heap = heap
  BY <1>1, LoadedIs
<1>3. PICK r : /\ r = settle_funds(s, a, with_referrer)
               /\ Commit(r.s)
               /\ Transfer(a, -oo[a].base_free_native, -oo[a].quote_free_native, r.to_referrer)
  BY <1>1 DEF SettleFunds
<1>4. ~mkt.closed /\ oo[a].open /\ KeepWorld
  BY DEF SettleFunds
<1>5. Settles(s, a, with_referrer, r)
  BY <1>1, <1>2, <1>3, <1>4 DEF Settles
<1>6. /\ Good(r.s, r.s.heap, 0, 0, NoLock, Totals(r.s.mkt))
      /\ r.to_referrer \in Nat
      /\ r.s.heap = heap /\ r.s.book = book
      /\ r.s.mkt.seq_num = mkt.seq_num /\ r.s.mkt.closed = mkt.closed
      /\ r.s.mkt.time_expiry = mkt.time_expiry
      /\ oo[a].base_free_native \in Nat /\ oo[a].quote_free_native \in Nat
      /\ r.s.mkt.base_deposit_total = mkt.base_deposit_total - oo[a].base_free_native
      /\ r.s.mkt.quote_deposit_total
           = mkt.quote_deposit_total - oo[a].quote_free_native - r.to_referrer
  BY ONLY <1>5, SettledOk
<1>7. /\ mkt \in MarketValues /\ mkt.closed \in BOOLEAN
      /\ mkt.base_deposit_total \in Int /\ mkt.quote_deposit_total \in Int /\ Len(heap) \in Nat
  BY MarketFacts DEF MarketValues
<1> DEFINE b == oo[a].base_free_native
           q == oo[a].quote_free_native
           to == r.to_referrer
           db == -b
           dq == -q
           bt == mkt.base_deposit_total
           qt == mkt.quote_deposit_total
<1>8. /\ b \in Nat /\ q \in Nat /\ to \in Nat /\ bt \in Int /\ qt \in Int
      /\ r.s.mkt.base_deposit_total = bt - b /\ r.s.mkt.quote_deposit_total = qt - q - to
  BY <1>6, <1>7
<1>9. a \in Traders /\ Transfer(a, db, dq, to)
  BY <1>3 DEF Traders
<1> HIDE DEF b, q, to, bt, qt
<1>10. db \in Int /\ dq \in Int /\ to \in Int
  BY <1>8
<1>11. bt + db = bt - b /\ qt + dq - to = qt - q - to /\ bt - b <= bt /\ qt - q - to <= qt
  BY <1>8
<1> HIDE DEF db, dq
<1>12. /\ wallet' \in [Traders -> TokenAmounts]
       /\ vault' = [base |-> mkt.base_deposit_total + db,
                    quote |-> mkt.quote_deposit_total + dq - to]
  BY <1>9, <1>10, TransferFacts
<1>13. vault' = [base |-> r.s.mkt.base_deposit_total, quote |-> r.s.mkt.quote_deposit_total]
  BY <1>8, <1>11, <1>12 DEF bt, qt
<1>14. /\ Sane(r.s, r.s.heap, 0, 0, NoLock, Totals(r.s.mkt))
       /\ Frame(r.s, Totals(r.s.mkt))
  BY <1>6 DEF Good
<1>15. r.s.mkt.seq_num <= MaxSeqNum /\ r.s.mkt.closed = FALSE
  BY <1>4, <1>6, <1>7 DEF IInv
<1>16. IInv'
  <2>1. PICK u : u = r.s
    OBVIOUS
  <2>2. /\ Commit(u) /\ Sane(u, u.heap, 0, 0, NoLock, Totals(u.mkt))
        /\ u.mkt.seq_num <= MaxSeqNum /\ u.mkt.closed = FALSE
        /\ vault' = [base |-> u.mkt.base_deposit_total, quote |-> u.mkt.quote_deposit_total]
    BY <1>3, <1>13, <1>14, <1>15, <2>1
  <2> QED BY <1>4, <1>12, <2>2, CommitKeeps
<1>17. Shrinks
  BY <1>3, <1>14, CommitShrinks
<1>18. mkt' = r.s.mkt /\ book' = book /\ heap' = heap /\ now' = now
  BY <1>3, <1>4, <1>6 DEF Commit, KeepWorld
<1>19. Drains
  <2>1. /\ mkt'.time_expiry = mkt.time_expiry
        /\ mkt'.base_deposit_total <= mkt.base_deposit_total
        /\ mkt'.quote_deposit_total <= mkt.quote_deposit_total
    BY <1>6, <1>8, <1>11, <1>18 DEF bt, qt
  <2>2. Len(heap) <= Len(heap)
    BY <1>7
  <2> QED BY <1>18, <2>1, <2>2 DEF Drains
<1> QED BY <1>16, <1>17, <1>18, <1>19

\* settle_funds_expired.
LEMMA SettleFundsExpiredKeeps ==
  ASSUME IInv, NEW a \in Accounts, NEW with_referrer \in BOOLEAN,
         SettleFundsExpired(a, with_referrer)
  PROVE  IInv' /\ Shrinks /\ Drains /\ now' = now
<1>1. SettleFunds(a, with_referrer)
  BY DEF SettleFundsExpired
<1> QED BY <1>1, SettleFundsKeeps

-----------------------------------------------------------------------------
(* consume_events: the crank hands events to the accounts they are about. *)

\* Some events are consumed, each once.
LEMMA ConsumeOverOk ==
  ASSUME NEW limit, NEW accs, NEW s, NEW order \in Seq(Nat),
         NEW start, start = [s |-> s, seen |-> {}, handled |-> {}], ConsumedOk(start),
         NEW c, c = ConsumeOver(limit, accs, s, order)
  PROVE  ConsumedOk(c)
<1> DEFINE q == [s |-> s, limit |-> limit, accs |-> accs, order |-> order]
           last == Len(order)
           at(k) == Consuming!Fold(q, 1 .. k)
<1>1. last \in Nat /\ DOMAIN order = 1 .. last
  OBVIOUS
<1>2. c = Consuming!Fold(q, DOMAIN order)
  BY ConsumeOverIs
<1>3. q.s = s /\ q.limit = limit /\ q.accs = accs /\ q.order = order
  OBVIOUS
<1> HIDE DEF q, last
<1>4. /\ Consuming!Fold(q, 1 .. 0) = ConsumeFirst(q)
      /\ \A k \in 1 .. last : Consuming!Fold(q, 1 .. k)
                                = ConsumeRound(q, Consuming!Fold(q, 1 .. (k - 1)), k)
  <2>1. \A T \in SUBSET (1 .. last) : T # {} => Max(T) \in T /\ \A y \in T : y <= Max(T)
    BY <1>1, MaxFacts
  <2> QED BY <1>1, <2>1, Consuming!FoldInTurn
<1> DEFINE S == {k \in Nat : k <= last => ConsumedOk(at(k))}
<1>5. 0 \in S
  <2>1. at(0) = start
    BY <1>3, <1>4 DEF ConsumeFirst
  <2> HIDE DEF at
  <2> QED BY <2>1
<1>6. ASSUME NEW k \in Nat, k \in S
      PROVE  k + 1 \in S
  <2>1. CASE k + 1 <= last
    <3>1. k + 1 \in 1 .. last /\ k + 1 - 1 = k /\ ConsumedOk(at(k))
      BY <1>1, <1>6, <2>1
    <3>2. at(k + 1) = ConsumeRound(q, at(k), k + 1)
      BY <1>4, <3>1
    <3> HIDE DEF at
    <3>3. at(k + 1) = ConsumeNextOf(limit, accs, at(k), order[k + 1])
      BY <1>3, <3>2 DEF ConsumeRound, With
    <3>4. ConsumedOk(at(k + 1))
      BY <3>1, <3>3, ConsumeNextOk
    <3> QED BY <3>4
  <2>2. CASE ~(k + 1 <= last)
    BY <2>2
  <2> QED BY <2>1, <2>2
<1>7. last \in S
  <2> HIDE DEF S
  <2> QED BY <1>1, <1>5, <1>6, NatInd
<1>8. ConsumedOk(at(last))
  BY <1>1, <1>7
<1> HIDE DEF at
<1> QED BY <1>1, <1>2, <1>8 DEF at, last

\* What waits at first.
LEMMA ConsumeStarts ==
  ASSUME IInv, NEW start, start = [s |-> Loaded, seen |-> {}, handled |-> {}]
  PROVE  ConsumedOk(start)
<1>1. /\ IsState(Loaded) /\ Loaded.ok = TRUE /\ Loaded.mkt = mkt /\ Loaded.oo = oo
      /\ Loaded.book = book /\ Loaded.heap = heap
  BY LoadedIs
<1>2. PICK none : none = {}
  OBVIOUS
<1>3. PICK E : E = Rest(none)
  OBVIOUS
<1>4. Sane(Loaded, heap, 0, 0, NoLock, Totals(mkt)) /\ HeapOk(heap)
  <2>1. HeapOk(heap)
    BY MarketFacts
  <2> QED BY <2>1 DEF IInv
<1>5. heap = [i \in DOMAIN heap |-> heap[i]]
  BY <1>4 DEF HeapOk
<1>6. E = heap
  <2>1. DOMAIN heap \ none = DOMAIN heap
    BY <1>2
  <2> QED BY <1>3, <1>5, <2>1 DEF Rest
<1>7. Sane(Loaded, Rest(none), 0, 0, NoLock, Totals(mkt))
  BY <1>3, <1>4, <1>6
<1>8. PICK s : s = Loaded
  OBVIOUS
<1>9. /\ start.s = s /\ start.seen = none /\ start.handled = none
      /\ start = [s |-> start.s, seen |-> start.seen, handled |-> start.handled]
  BY <1>2, <1>8
<1>10. none \subseteq none /\ IsState(s) /\ s.ok \in BOOLEAN
       /\ Sane(s, Rest(none), 0, 0, NoLock, Totals(mkt))
       /\ s.heap = heap /\ s.book = book
       /\ s.mkt.time_expiry = mkt.time_expiry /\ s.mkt.closed = mkt.closed
       /\ \A x \in Accounts : s.oo[x].open = oo[x].open
  BY <1>1, <1>7, <1>8
<1> QED BY <1>9, <1>10 DEF ConsumedOk

\* consume_events and consume_given_events.
LEMMA ConsumeEventsKeeps ==
  ASSUME IInv, NEW limit, NEW slots \in Seq(Nat), NEW accs, ConsumeEvents(limit, slots, accs)
  PROVE  IInv' /\ Shrinks /\ Drains /\ now' = now
<1>1. PICK order : order = slots \o [i \in DOMAIN heap |-> i]
  OBVIOUS
<1>2. PICK s : s = Loaded
  OBVIOUS
<1>3. PICK c : /\ c = ConsumeOver(limit, accs, s, order)
               /\ Commit([c.s EXCEPT !.heap = Remaining(c.handled)])
  BY <1>1, <1>2 DEF ConsumeEvents, ConsumeOver, ConsumeNextOf
<1>4. ~mkt.closed /\ KeepTokens /\ KeepWorld
  BY DEF ConsumeEvents
<1>5. /\ mkt \in MarketValues /\ mkt.closed \in BOOLEAN /\ HeapOk(heap)
      /\ mkt.base_deposit_total \in Int /\ mkt.quote_deposit_total \in Int
  BY MarketFacts DEF MarketValues
<1>6. order \in Seq(Nat)
  <2>1. [i \in DOMAIN heap |-> i] \in Seq(Nat)
    <3>1. Len(heap) \in Nat /\ DOMAIN heap = 1 .. Len(heap)
      BY <1>5 DEF HeapOk
    <3> QED BY <3>1
  <2> DEFINE t == [i \in DOMAIN heap |-> i]
  <2>2. order = slots \o t
    BY <1>1
  <2> HIDE DEF t
  <2> QED BY <2>1, <2>2 DEF t
<1>7. PICK start : start = [s |-> s, seen |-> {}, handled |-> {}]
  OBVIOUS
<1>8. ConsumedOk(start)
  BY <1>2, <1>7, ConsumeStarts
<1>9. ConsumedOk(c)
  BY <1>3, <1>6, <1>7, <1>8, ConsumeOverOk
<1>10. PICK F : F = Remaining(c.handled)
  OBVIOUS
<1>11. PICK E : E = Rest(c.handled)
  OBVIOUS
<1>12. PICK r : r = HeapSet(c.s, F)
  OBVIOUS
<1>13. Commit(r) /\ IsState(c.s)
  BY <1>3, <1>9, <1>10, <1>12 DEF HeapSet, ConsumedOk
<1>14. /\ IsState(r) /\ r.ok = c.s.ok /\ r.mkt = c.s.mkt /\ r.oo = c.s.oo
       /\ r.book = c.s.book /\ r.heap = F
  BY <1>12, <1>13, HeapSetIs
<1>15. c.s.ok
  BY <1>13, <1>14 DEF Commit
<1>16. /\ Sane(c.s, E, 0, 0, NoLock, Totals(mkt))
       /\ c.s.heap = heap /\ c.s.book = book
       /\ c.s.mkt.time_expiry = mkt.time_expiry /\ c.s.mkt.closed = mkt.closed
  BY <1>9, <1>11, <1>15 DEF ConsumedOk
<1>17. HeapOk(F) /\ Len(F) <= Len(heap) /\ \E f : Renames(f, F, E)
  BY <1>5, <1>10, <1>11, RemainingFacts
<1>18. Sane(c.s, F, 0, 0, NoLock, Totals(mkt))
  BY <1>16, <1>17, EventsRenamed
<1>19. Sane(r, F, 0, 0, NoLock, Totals(mkt))
  <2>1. /\ r.oo = c.s.oo /\ r.book = c.s.book /\ HeapOk(r.heap)
        /\ TotalsOk(r.mkt, Totals(mkt)) /\ c.s.mkt \in MarketValues
    BY <1>14, <1>17, <1>18, SaneParts
  <2>2. r.mkt = c.s.mkt
    BY <1>14
  <2>3. /\ r.mkt.base_deposit_total + 0 = c.s.mkt.base_deposit_total + 0
        /\ r.mkt.quote_deposit_total + 0 - r.mkt.fees_available
             = c.s.mkt.quote_deposit_total + 0 - c.s.mkt.fees_available
        /\ r.mkt.referrer_rebates_accrued = c.s.mkt.referrer_rebates_accrued
    BY <2>2
  <2>4. 0 \in Int /\ Totals(mkt).ids = Totals(mkt).ids
    OBVIOUS
  <2> QED BY <1>18, <2>1, <2>3, <2>4, MarketTouched
<1>20. /\ r.mkt \in MarketValues /\ r.mkt.seq_num = mkt.seq_num
       /\ r.mkt.base_deposit_total = mkt.base_deposit_total
       /\ r.mkt.quote_deposit_total = mkt.quote_deposit_total
       /\ Totals(r.mkt) = Totals(mkt)
  <2>1. TotalsOk(r.mkt, Totals(mkt)) /\ r.mkt \in MarketValues
    BY <1>19, SaneParts
  <2> QED BY <2>1 DEF TotalsOk, Totals
<1>21. Sane(r, r.heap, 0, 0, NoLock, Totals(r.mkt))
  BY <1>14, <1>19, <1>20
<1>22. /\ wallet' \in [Traders -> TokenAmounts]
       /\ vault' = [base |-> r.mkt.base_deposit_total, quote |-> r.mkt.quote_deposit_total]
  BY <1>4, <1>20 DEF IInv, KeepTokens
<1>23. r.mkt.seq_num <= MaxSeqNum /\ r.mkt.closed = FALSE
  BY <1>4, <1>5, <1>14, <1>16, <1>20 DEF IInv
<1>24. IInv'
  BY <1>4, <1>13, <1>21, <1>22, <1>23, CommitKeeps
<1>25. mkt' = r.mkt /\ book' = book /\ heap' = F /\ now' = now
  BY <1>4, <1>13, <1>14, <1>16 DEF Commit, KeepWorld
<1>26. Shrinks
  BY <1>25, BookSameShrinks
<1>27. Drains
  <2>1. /\ mkt'.time_expiry = mkt.time_expiry
        /\ mkt'.base_deposit_total <= mkt.base_deposit_total
        /\ mkt'.quote_deposit_total <= mkt.quote_deposit_total
    BY <1>5, <1>14, <1>16, <1>20, <1>25
  <2> QED BY <1>17, <1>25, <2>1 DEF Drains
<1> QED BY <1>24, <1>25, <1>26, <1>27

-----------------------------------------------------------------------------
(* Every step keeps the invariant, and a new market has it. *)

\* A step that keeps the clock, or that an expired market refuses, is allowed.
LEMMA DrainingAllowed ==
  ASSUME IInv, IInv', Shrinks, Drains, KeepWorld \/ now' = now
  PROVE  Allowed
<1>1. now \in 0 .. MaxTime /\ MaxTime \in Nat
  BY OpenBookAssumption DEF IInv
<1>2. now' = now
  BY DEF KeepWorld
<1>3. now <= now'
  BY <1>1, <1>2
<1> QED BY <1>3 DEF Allowed

\* An instruction that only shrinks the orders is allowed in any market.
LEMMA RefusedAllowed ==
  ASSUME IInv', Shrinks, ~is_expired_market
  PROVE  Allowed
BY DEF Allowed

\* Orders are placed.
LEMMA PlacementAllowed ==
  ASSUME IInv, Placement
  PROVE  Allowed
<1>1. PICK limit \in Limits, a \in Accounts : \E rem \in SUBSET (OpenAccounts \ {a}) :
        \/ \E args \in OrderArgs : PlaceOrder(a, args, limit, rem)
        \/ \E batch \in Batches, cancel \in BOOLEAN :
             CancelAllAndPlaceOrders(a, cancel, batch, limit, rem)
        \/ \E args \in OrderArgs, size \in CancelSizes :
             EditOrder(a, args.client_id, size, args, limit, rem)
  BY DEF Placement
<1>2. PICK rem : \/ \E args \in OrderArgs : PlaceOrder(a, args, limit, rem)
                 \/ \E batch \in Batches, cancel \in BOOLEAN :
                      CancelAllAndPlaceOrders(a, cancel, batch, limit, rem)
                 \/ \E args \in OrderArgs, size \in CancelSizes :
                      EditOrder(a, args.client_id, size, args, limit, rem)
  BY <1>1
<1>3. CASE \E args \in OrderArgs : PlaceOrder(a, args, limit, rem)
  <2>1. PICK args \in OrderArgs : PlaceOrder(a, args, limit, rem)
    BY <1>3
  <2>2. IInv' /\ Shrinks /\ ~is_expired_market
    BY <2>1, PlaceOrderKeeps
  <2> QED BY <2>2, RefusedAllowed
<1>4. CASE \E batch \in Batches, cancel \in BOOLEAN :
             CancelAllAndPlaceOrders(a, cancel, batch, limit, rem)
  <2>1. PICK batch \in Batches, cancel \in BOOLEAN :
          CancelAllAndPlaceOrders(a, cancel, batch, limit, rem)
    BY <1>4
  <2>2. IInv' /\ Shrinks /\ ~is_expired_market
    BY <2>1, CancelAllAndPlaceOrdersKeeps
  <2> QED BY <2>2, RefusedAllowed
<1>5. CASE \E args \in OrderArgs, size \in CancelSizes :
             EditOrder(a, args.client_id, size, args, limit, rem)
  <2>1. PICK args \in OrderArgs, size \in CancelSizes :
          EditOrder(a, args.client_id, size, args, limit, rem)
    BY <1>5
  <2>2. IInv' /\ Shrinks /\ (is_expired_market => Drains)
    <3>1. PICK id : id = args.client_id
      OBVIOUS
    <3>2. EditOrder(a, id, size, args, limit, rem)
      BY <2>1, <3>1
    <3> QED BY <3>2, EditOrderKeeps
  <2>3. KeepWorld
    BY <2>1 DEF EditOrder
  <2>4. CASE is_expired_market
    BY <2>2, <2>3, <2>4, DrainingAllowed
  <2>5. CASE ~is_expired_market
    BY <2>2, <2>5, RefusedAllowed
  <2> QED BY <2>4, <2>5
<1> QED BY <1>2, <1>3, <1>4, <1>5

\* An order is taken by who has no account.
LEMMA TakeAllowed ==
  ASSUME IInv, Take
  PROVE  Allowed
<1>1. PICK t \in Takers, args \in TakeArgs, limit \in Limits, rem \in SUBSET OpenAccounts :
        PlaceTakeOrder(t, args, limit, rem)
  BY DEF Take
<1>2. IInv' /\ Shrinks /\ ~is_expired_market
  BY <1>1, PlaceTakeOrderKeeps
<1> QED BY <1>2, RefusedAllowed

\* Orders are cancelled.
LEMMA CancellationAllowed ==
  ASSUME IInv, Cancellation
  PROVE  Allowed
<1>1. PICK a \in Accounts :
        \/ \E slot \in OrderSlots : CancelOrder(a, slot)
        \/ \E sides \in {Sides, {"Bid"}, {"Ask"}}, limit \in Limits :
             CancelAllOrders(a, sides, limit)
        \/ \E args \in OrderArgs : CancelOrderByClientOrderId(a, args.client_id)
  BY DEF Cancellation
<1>2. CASE \E slot \in OrderSlots : CancelOrder(a, slot)
  <2>1. PICK slot \in OrderSlots : CancelOrder(a, slot)
    BY <1>2
  <2>2. IInv' /\ Shrinks /\ Drains
    BY <2>1, CancelOrderKeeps
  <2>3. KeepWorld
    BY <2>1 DEF CancelOrder
  <2> QED BY <2>2, <2>3, DrainingAllowed
<1>3. CASE \E sides \in {Sides, {"Bid"}, {"Ask"}}, limit \in Limits :
             CancelAllOrders(a, sides, limit)
  <2>1. PICK sides, limit : CancelAllOrders(a, sides, limit)
    BY <1>3
  <2>2. IInv' /\ Shrinks /\ Drains
    BY <2>1, CancelAllOrdersKeeps
  <2>3. KeepWorld
    BY <2>1 DEF CancelAllOrders
  <2> QED BY <2>2, <2>3, DrainingAllowed
<1>4. CASE \E args \in OrderArgs : CancelOrderByClientOrderId(a, args.client_id)
  <2>1. PICK id : CancelOrderByClientOrderId(a, id)
    BY <1>4
  <2>2. IInv' /\ Shrinks /\ Drains
    BY <2>1, CancelByClientIdKeeps
  <2>3. KeepWorld
    BY <2>1 DEF CancelOrderByClientOrderId
  <2> QED BY <2>2, <2>3, DrainingAllowed
<1> QED BY <1>1, <1>2, <1>3, <1>4

\* The accounts are opened, closed, paid into and settled.
LEMMA AccountStepAllowed ==
  ASSUME IInv, AccountStep
  PROVE  Allowed
<1>1. PICK a \in Accounts :
        \/ CreateOpenOrdersAccount(a)
        \/ CloseOpenOrdersAccount(a)
        \/ \E payer \in Traders, amount \in DepositAmounts :
             Deposit(payer, a, amount) \/ Refill(payer, a, amount)
        \/ \E with_referrer \in BOOLEAN : SettleFunds(a, with_referrer)
  BY DEF AccountStep
<1>2. CASE CreateOpenOrdersAccount(a)
  <2>1. IInv' /\ Shrinks /\ Drains /\ now' = now
    BY <1>2, CreateOpenOrdersAccountKeeps
  <2> QED BY <2>1, DrainingAllowed
<1>3. CASE CloseOpenOrdersAccount(a)
  <2>1. IInv' /\ Shrinks /\ Drains /\ now' = now
    BY <1>3, CloseOpenOrdersAccountKeeps
  <2> QED BY <2>1, DrainingAllowed
<1>4. CASE \E payer \in Traders, amount \in DepositAmounts :
             Deposit(payer, a, amount) \/ Refill(payer, a, amount)
  <2>1. PICK payer \in Traders, amount \in DepositAmounts :
          Deposit(payer, a, amount) \/ Refill(payer, a, amount)
    BY <1>4
  <2>2. amount.base \in Nat /\ amount.quote \in Nat
    <3>1. amount \in TokenAmounts
      BY OpenBookAssumption
    <3> QED BY <3>1 DEF TokenAmounts
  <2>3. CASE Deposit(payer, a, amount)
    <3>1. IInv' /\ Shrinks /\ ~is_expired_market
      BY <2>2, <2>3, DepositKeeps
    <3> QED BY <3>1, RefusedAllowed
  <2>4. CASE Refill(payer, a, amount)
    <3>1. IInv' /\ Shrinks /\ ~is_expired_market
      BY <2>4, RefillKeeps
    <3> QED BY <3>1, RefusedAllowed
  <2> QED BY <2>1, <2>3, <2>4
<1>5. CASE \E with_referrer \in BOOLEAN : SettleFunds(a, with_referrer)
  <2>1. PICK with_referrer \in BOOLEAN : SettleFunds(a, with_referrer)
    BY <1>5
  <2>2. IInv' /\ Shrinks /\ Drains /\ now' = now
    BY <2>1, SettleFundsKeeps
  <2> QED BY <2>2, DrainingAllowed
<1> QED BY <1>1, <1>2, <1>3, <1>4, <1>5

\* Events are consumed.
LEMMA CrankAllowed ==
  ASSUME IInv, Crank
  PROVE  Allowed
<1>1. PICK limit \in Limits, slots \in SlotLists, accs \in SUBSET OpenAccounts :
        ConsumeEvents(limit, slots, accs)
  BY DEF Crank
<1>2. slots \in Seq(Nat)
  BY OpenBookAssumption
<1>3. IInv' /\ Shrinks /\ Drains /\ now' = now
  BY <1>1, <1>2, ConsumeEventsKeeps
<1> QED BY <1>3, DrainingAllowed

\* What the admin does.
LEMMA AdminStepAllowed ==
  ASSUME IInv, AdminStep
  PROVE  Allowed
<1>1. CASE SweepFees
  <2>1. IInv' /\ Shrinks /\ Drains /\ now' = now
    BY <1>1, SweepFeesKeeps
  <2> QED BY <2>1, DrainingAllowed
<1>2. CASE SetMarketExpired
  <2>1. IInv' /\ Shrinks /\ ~is_expired_market
    BY <1>2, SetMarketExpiredKeeps
  <2> QED BY <2>1, RefusedAllowed
<1>3. CASE \E a \in Accounts, limit \in Limits : PruneOrders(a, limit)
  <2>1. PICK a \in Accounts, limit \in Limits : PruneOrders(a, limit)
    BY <1>3
  <2>2. IInv' /\ Shrinks /\ Drains
    BY <2>1, PruneOrdersKeeps
  <2>3. KeepWorld
    BY <2>1 DEF PruneOrders
  <2> QED BY <2>2, <2>3, DrainingAllowed
<1>4. CASE \E a \in Accounts, with_referrer \in BOOLEAN : SettleFundsExpired(a, with_referrer)
  <2>1. PICK a \in Accounts, with_referrer \in BOOLEAN : SettleFundsExpired(a, with_referrer)
    BY <1>4
  <2>2. IInv' /\ Shrinks /\ Drains /\ now' = now
    BY <2>1, SettleFundsExpiredKeeps
  <2> QED BY <2>2, DrainingAllowed
<1>5. CASE CloseMarket
  <2>1. IInv' /\ Shrinks /\ Drains /\ now' = now
    BY <1>5, CloseMarketKeeps
  <2> QED BY <2>1, DrainingAllowed
<1> QED BY <1>1, <1>2, <1>3, <1>4, <1>5 DEF AdminStep

\* Every step of the market keeps its invariant, lets orders only shrink and an
\* expired market only drain.
LEMMA StepAllowed ==
  ASSUME IInv, [Next]_vars
  PROVE  Allowed
<1>1. CASE Placement
  BY <1>1, PlacementAllowed
<1>2. CASE Take
  BY <1>2, TakeAllowed
<1>3. CASE Cancellation
  BY <1>3, CancellationAllowed
<1>4. CASE AccountStep
  BY <1>4, AccountStepAllowed
<1>5. CASE Crank
  BY <1>5, CrankAllowed
<1>6. CASE AdminStep
  BY <1>6, AdminStepAllowed
<1>7. CASE Tick
  <2>1. IInv' /\ Shrinks /\ Drains /\ now <= now'
    BY <1>7, TickKeeps
  <2> QED BY <2>1 DEF Allowed
<1>8. CASE MoveOracle
  <2>1. IInv' /\ Shrinks /\ Drains /\ now' = now
    BY <1>8, MoveOracleKeeps
  <2> QED BY <2>1, DrainingAllowed
<1>9. CASE UNCHANGED vars
  <2>1. IInv' /\ Shrinks /\ Drains /\ now' = now
    BY <1>9, StutterKeeps
  <2> QED BY <2>1, DrainingAllowed
<1> QED BY <1>1, <1>2, <1>3, <1>4, <1>5, <1>6, <1>7, <1>8, <1>9 DEF Next

\* A new market is as the invariant says.
LEMMA InitHolds ==
  ASSUME Init
  PROVE  IInv
<1>1. /\ IsState(Loaded) /\ Loaded.ok = TRUE /\ Loaded.mkt = mkt /\ Loaded.oo = oo
      /\ Loaded.book = book /\ Loaded.heap = heap
  BY LoadedIs
<1>2. PICK expiry \in TimeExpiries :
        mkt = [seq_num |-> 0, time_expiry |-> expiry, closed |-> FALSE,
               base_deposit_total |-> 0, quote_deposit_total |-> 0,
               fees_accrued |-> 0, fees_to_referrers |-> 0,
               referrer_rebates_accrued |-> 0, fees_available |-> 0]
  BY DEF Init
<1>3. /\ now = 0 /\ oracle \in OraclePrices
      /\ oo = [a \in Accounts |-> EmptyAccount]
      /\ book = [side \in Sides |-> EmptySide] /\ heap = << >>
      /\ wallet = [t \in Traders |-> InitialTokens]
      /\ vault = [base |-> 0, quote |-> 0]
  BY DEF Init
<1>4. /\ mkt \in MarketValues /\ mkt.seq_num = 0 /\ mkt.closed = FALSE
      /\ mkt.base_deposit_total = 0 /\ mkt.quote_deposit_total = 0
      /\ mkt.referrer_rebates_accrued = 0 /\ mkt.fees_available = 0
  <2>1. expiry \in Int
    BY OpenBookAssumption
  <2>2. mkt \in MarketValues
    BY <1>2, <2>1 DEF MarketValues
  <2> QED BY <1>2, <2>2
<1>5. PICK s : s = Loaded
  OBVIOUS
<1>6. AllNew(s)
  BY <1>1, <1>3, <1>4, <1>5 DEF AllNew
<1>7. Sane(s, s.heap, 0, 0, NoLock, Totals(s.mkt))
  BY <1>6, AllNewSane
<1>8. Sane(Loaded, heap, 0, 0, NoLock, Totals(mkt))
  BY <1>1, <1>5, <1>7
<1>9. now \in 0 .. MaxTime /\ mkt.seq_num <= MaxSeqNum
  BY <1>3, <1>4, OpenBookAssumption
<1>10. SoundMarket(mkt)
  BY <1>4 DEF SoundMarket
<1>11. wallet \in [Traders -> TokenAmounts]
  BY <1>3, OpenBookAssumption
<1>12. vault = [base |-> mkt.base_deposit_total, quote |-> mkt.quote_deposit_total]
  BY <1>3, <1>4
<1> QED BY <1>3, <1>4, <1>8, <1>9, <1>10, <1>11, <1>12 DEF IInv

\* Every step keeps the invariant.
LEMMA NextKeeps ==
  ASSUME IInv, [Next]_vars
  PROVE  IInv'
BY StepAllowed DEF Allowed

\* The invariant of the market holds in every state it can be in, whatever
\* traders, takers, crank and admin do.
THEOREM MarketInvariance == Spec => []IInv
<1>1. Init => IInv
  BY InitHolds
<1>2. IInv /\ [Next]_vars => IInv'
  BY NextKeeps
<1> QED BY <1>1, <1>2, PTL DEF Spec

\* No instruction makes an order on the book grow, moves it or brings it back.
THEOREM BookOnlyShrinks == Spec => OrdersOnlyShrink
<1>1. IInv /\ [Next]_vars =>
        [\A side \in Sides : \A leaf \in book'[side].leaves :
           \/ leaf.id > mkt.seq_num
           \/ \E old \in book[side].leaves :
                leaf.quantity <= old.quantity
                /\ leaf = [old EXCEPT !.quantity = leaf.quantity]]_vars
  BY StepAllowed DEF Allowed, Shrinks
<1> QED BY <1>1, MarketInvariance, PTL DEF Spec, OrdersOnlyShrink

\* In an expired market nothing is placed and nothing is deposited.
THEOREM ExpiredMarketDrains == Spec => ExpiredOnlyDrains
<1>1. IInv /\ [Next]_vars =>
        [is_expired_market =>
           /\ is_expired_market'
           /\ \A side \in Sides : \A leaf \in book'[side].leaves : leaf \in Leaves(side)
           /\ Len(heap') <= Len(heap)
           /\ mkt'.base_deposit_total <= mkt.base_deposit_total
           /\ mkt'.quote_deposit_total <= mkt.quote_deposit_total]_vars
  <2> SUFFICES ASSUME IInv, [Next]_vars, is_expired_market
               PROVE  /\ is_expired_market'
                      /\ \A side \in Sides : \A leaf \in book'[side].leaves : leaf \in Leaves(side)
                      /\ Len(heap') <= Len(heap)
                      /\ mkt'.base_deposit_total <= mkt.base_deposit_total
                      /\ mkt'.quote_deposit_total <= mkt.quote_deposit_total
    OBVIOUS
  <2>1. IInv' /\ Drains /\ now <= now'
    BY StepAllowed DEF Allowed
  <2>2. /\ mkt'.time_expiry = mkt.time_expiry
        /\ \A side \in Sides : book'[side].leaves \subseteq book[side].leaves
        /\ Len(heap') <= Len(heap)
        /\ mkt'.base_deposit_total <= mkt.base_deposit_total
        /\ mkt'.quote_deposit_total <= mkt.quote_deposit_total
    BY <2>1 DEF Drains
  <2>3. is_expired_market'
    <3>1. mkt.time_expiry # 0 /\ mkt.time_expiry < now /\ mkt.time_expiry \in Int
      BY MarketFacts DEF is_expired_market, MarketValues
    <3>2. now \in Int /\ now' \in Int
      BY <2>1 DEF IInv
    <3>3. mkt'.time_expiry # 0 /\ mkt'.time_expiry < now'
      BY <2>1, <2>2, <3>1, <3>2
    <3> QED BY <3>3 DEF is_expired_market
  <2>4. \A side \in Sides : \A leaf \in book'[side].leaves : leaf \in Leaves(side)
    BY <2>2 DEF Leaves
  <2> QED BY <2>2, <2>3, <2>4
<1> QED BY <1>1, MarketInvariance, PTL DEF Spec, ExpiredOnlyDrains

-----------------------------------------------------------------------------
(* What the market owes. *)

\* What the invariant says of the state, variable by variable.
LEMMA MarketParts ==
  ASSUME IInv
  PROVE  /\ oo \in [Accounts -> AccountValues] /\ AccountsOk(oo, mkt.seq_num)
         /\ OrdersOf(oo) \in [Places -> OrderValues]
         /\ BookOk(book, OrdersOf(oo), mkt.seq_num)
         /\ HeapOk(heap) /\ EventsOk(heap)
         /\ AllLeaves(book) \in SUBSET LeafValues /\ IsFiniteSet(AllLeaves(book))
         /\ LeavesClaim(OrdersOf(oo), AllLeaves(book))
         /\ EventsClaim(OrdersOf(oo), AllLeaves(book), heap)
         /\ OrdersClaimed(OrdersOf(oo), AllLeaves(book), heap)
         /\ OwnersOpen(oo, AllLeaves(book), heap)
         /\ Covered(oo, AllLeaves(book), heap, NoLock)
         /\ Funds(mkt, oo, heap, 0, 0)
<1>1. /\ Loaded.oo \in [Accounts -> AccountValues] /\ AccountsOk(Loaded.oo, Totals(mkt).ids)
      /\ OrdersOf(Loaded.oo) \in [Places -> OrderValues]
      /\ BookOk(Loaded.book, OrdersOf(Loaded.oo), Totals(mkt).ids)
      /\ HeapOk(Loaded.heap) /\ EventsOk(heap)
      /\ AllLeaves(Loaded.book) \in SUBSET LeafValues /\ IsFiniteSet(AllLeaves(Loaded.book))
      /\ LeavesClaim(OrdersOf(Loaded.oo), AllLeaves(Loaded.book))
      /\ EventsClaim(OrdersOf(Loaded.oo), AllLeaves(Loaded.book), heap)
      /\ OrdersClaimed(OrdersOf(Loaded.oo), AllLeaves(Loaded.book), heap)
      /\ OwnersOpen(Loaded.oo, AllLeaves(Loaded.book), heap)
      /\ Covered(Loaded.oo, AllLeaves(Loaded.book), heap, NoLock)
      /\ Funds(Loaded.mkt, Loaded.oo, heap, 0, 0)
  <2>1. Sane(Loaded, heap, 0, 0, NoLock, Totals(mkt))
    BY DEF IInv
  <2> QED BY <2>1, SaneParts
<1>2. Totals(mkt).ids = mkt.seq_num
  BY DEF Totals
<1> QED BY <1>1, <1>2, LoadedIs

\* close_market (close_market.rs) may rely on referrer_rebates_accrued: it is what
\* settle_funds still has to pay to referrers.
LEMMA RebatesHold ==
  ASSUME IInv
  PROVE  RebatesAccrued
<1>1. mkt.referrer_rebates_accrued = OwedToAll("rebates", oo) + DueToAll("rebates", heap)
  BY MarketParts DEF Funds, Owed
<1>2. EventsOk(heap) /\ oo \in [Accounts -> AccountValues]
  BY MarketParts
<1>3. DueToAll("rebates", heap) = 0
  <2> DEFINE g == [i \in DOMAIN heap |-> Due("rebates", heap[i])]
  <2>1. \A i \in DOMAIN heap : g[i] = 0
    BY DEF Due, FillDue
  <2>2. IsFiniteSet(DOMAIN heap)
    BY <1>2 DEF EventsOk
  <2>3. DueToAll("rebates", heap) = SumFunctionOnSet(g, DOMAIN heap)
    BY DEF DueToAll
  <2> HIDE DEF g
  <2> QED BY <2>1, <2>2, <2>3, SumOfZeros
<1> DEFINE f == [a \in Accounts |-> oo[a].referrer_rebates_available]
<1>4. OwedToAll("rebates", oo) = SumFunctionOnSet(f, Accounts)
  BY DEF OwedToAll, OwedTo
<1>5. SumFunctionOnSet(f, Accounts) \in Int
  <2>1. \A a \in Accounts : f[a] \in Int
    BY <1>2 DEF AccountValues
  <2> HIDE DEF f
  <2> QED BY <2>1, OpenBookAssumption, SumIsInt
<1>6. mkt.referrer_rebates_accrued = SumFunctionOnSet(f, Accounts)
  BY <1>1, <1>3, <1>4, <1>5
<1>7. DOMAIN f = Accounts
  OBVIOUS
<1> QED BY <1>6, <1>7 DEF RebatesAccrued, SumOver, SumFunction

\* market.referrer_rebates_accrued is at all times the sum of what settle_funds will
\* subtract from it, which close_market wants to be zero.
THEOREM RebatesAreAccrued == Spec => []RebatesAccrued
<1>1. IInv => RebatesAccrued
  BY RebatesHold
<1> QED BY <1>1, MarketInvariance, PTL

\* What the market owes, as the properties sum it up.
LEMMA OwedIs ==
  ASSUME IInv, NEW unit \in Units
  PROVE  /\ OwedToAll(unit, oo) = SumFunction([a \in Accounts |-> OwedTo(unit, oo[a])])
         /\ DueToAll(unit, heap) = SumFunction([i \in PendingFills |-> FillDue(unit, heap[i])])
<1> DEFINE f == [a \in Accounts |-> OwedTo(unit, oo[a])]
           g == [i \in PendingFills |-> FillDue(unit, heap[i])]
           h == [i \in DOMAIN heap |-> Due(unit, heap[i])]
<1>1. EventsOk(heap)
  BY MarketParts
<1>2. IsFiniteSet(DOMAIN heap) /\ PendingFills \in SUBSET DOMAIN heap
  BY <1>1 DEF EventsOk, PendingFills, Pending
<1>3. \A i \in PendingFills : g[i] \in Int /\ h[i] = g[i]
  <2>1. ASSUME NEW i \in PendingFills PROVE g[i] \in Int /\ h[i] = g[i]
    <3>1. heap[i] \in EventValues /\ heap[i].kind = "Fill" /\ i \in DOMAIN heap
      BY <1>1 DEF EventsOk, PendingFills, Pending
    <3>2. Due(unit, heap[i]) \in Int
      BY <3>1, DueInt
    <3>3. Due(unit, heap[i]) = FillDue(unit, heap[i])
      BY <3>1 DEF Due
    <3> QED BY <3>1, <3>2, <3>3
  <2> QED BY <2>1
<1>4. \A i \in DOMAIN heap \ PendingFills : h[i] = 0
  <2>1. ASSUME NEW i \in DOMAIN heap \ PendingFills PROVE h[i] = 0
    <3>1. heap[i].kind # "Fill" /\ i \in DOMAIN heap
      BY DEF PendingFills, Pending
    <3> QED BY <3>1 DEF Due
  <2> QED BY <2>1
<1>5. DueToAll(unit, heap) = SumFunctionOnSet(h, DOMAIN heap)
  BY DEF DueToAll
<1>6. OwedToAll(unit, oo) = SumFunctionOnSet(f, Accounts)
  BY DEF OwedToAll
<1>7. DOMAIN f = Accounts /\ DOMAIN g = PendingFills
  OBVIOUS
<1>8. SumFunctionOnSet(g, PendingFills) = SumFunctionOnSet(h, DOMAIN heap)
  <2> HIDE DEF g, h
  <2> QED BY <1>2, <1>3, <1>4, SumOfPart
<1> QED BY <1>5, <1>6, <1>7, <1>8 DEF SumFunction

\* The tokens of the quote vault are accounted for.
LEMMA QuoteConserved ==
  ASSUME IInv
  PROVE  QuoteConservation
<1>1. "quote" \in Units
  BY DEF Units
<1> DEFINE Of(a) == oo[a].quote_free_native + oo[a].bids_quote_lots * quote_lot_size
                    + oo[a].locked_maker_fees + oo[a].referrer_rebates_available
           For(i) == LET t == FillTerms(heap[i])
                     IN  t.rebate + IF t.side = "Ask" THEN t.quote ELSE -t.quote
<1>2. /\ OwedToAll("quote", oo) = SumOver(Of, Accounts)
      /\ DueToAll("quote", heap) = SumOver(For, PendingFills)
  <2> DEFINE f == [a \in Accounts |-> OwedTo("quote", oo[a])]
             g == [i \in PendingFills |-> FillDue("quote", heap[i])]
  <2>1. OwedToAll("quote", oo) = SumFunction(f) /\ DueToAll("quote", heap) = SumFunction(g)
    BY <1>1, OwedIs
  <2>2. f = [a \in Accounts |-> Of(a)]
    BY DEF OwedTo
  <2>3. g = [i \in PendingFills |-> For(i)]
    BY DEF FillDue
  <2> HIDE DEF f, g
  <2> QED BY <2>1, <2>2, <2>3 DEF SumOver
<1>3. mkt.quote_deposit_total + 0
        = OwedToAll("quote", oo) + DueToAll("quote", heap) + mkt.fees_available
  BY MarketParts DEF Funds, Owed
<1>4. /\ mkt.quote_deposit_total \in Int /\ mkt.fees_available \in Int
      /\ OwedToAll("quote", oo) \in Int /\ DueToAll("quote", heap) \in Int
  BY <1>1, MarketFacts, MarketParts, OwedInt
<1>5. mkt.quote_deposit_total
        = OwedToAll("quote", oo) + mkt.fees_available + DueToAll("quote", heap)
  BY <1>3, <1>4
<1>6. vault.quote = mkt.quote_deposit_total
  BY DEF IInv
<1> QED BY <1>2, <1>5, <1>6 DEF QuoteConservation

\* The tokens of the base vault are accounted for.
LEMMA BaseConserved ==
  ASSUME IInv
  PROVE  BaseConservation
<1>1. "base" \in Units
  BY DEF Units
<1> DEFINE Of(a) == oo[a].base_free_native + oo[a].asks_base_lots * base_lot_size
           For(i) == LET native == heap[i].quantity * base_lot_size
                     IN  IF FillTerms(heap[i]).side = "Bid" THEN native ELSE -native
<1>2. /\ OwedToAll("base", oo) = SumOver(Of, Accounts)
      /\ DueToAll("base", heap) = SumOver(For, PendingFills)
  <2> DEFINE f == [a \in Accounts |-> OwedTo("base", oo[a])]
             g == [i \in PendingFills |-> FillDue("base", heap[i])]
  <2>1. OwedToAll("base", oo) = SumFunction(f) /\ DueToAll("base", heap) = SumFunction(g)
    BY <1>1, OwedIs
  <2>2. f = [a \in Accounts |-> Of(a)]
    BY DEF OwedTo
  <2>3. g = [i \in PendingFills |-> For(i)]
    BY DEF FillDue
  <2> HIDE DEF f, g
  <2> QED BY <2>1, <2>2, <2>3 DEF SumOver
<1>3. mkt.base_deposit_total + 0 = OwedToAll("base", oo) + DueToAll("base", heap)
  BY MarketParts DEF Funds, Owed
<1>4. /\ mkt.base_deposit_total \in Int
      /\ OwedToAll("base", oo) \in Int /\ DueToAll("base", heap) \in Int
  BY <1>1, MarketFacts, MarketParts, OwedInt
<1>5. mkt.base_deposit_total = OwedToAll("base", oo) + DueToAll("base", heap)
  BY <1>3, <1>4
<1>6. vault.base = mkt.base_deposit_total
  BY DEF IInv
<1> QED BY <1>2, <1>5, <1>6 DEF BaseConservation

\* No instruction creates or loses a quote token: the vault holds what
\* market.quote_deposit_total says, and that is what accounts are owed, once the fills
\* on the heap are settled, and the fees to sweep.
THEOREM QuoteIsConserved == Spec => []QuoteConservation
<1>1. IInv => QuoteConservation
  BY QuoteConserved
<1> QED BY <1>1, MarketInvariance, PTL

\* No instruction creates or loses a base token.
THEOREM BaseIsConserved == Spec => []BaseConservation
<1>1. IInv => BaseConservation
  BY BaseConserved
<1> QED BY <1>1, MarketInvariance, PTL

-----------------------------------------------------------------------------
(* What positions hold. *)

\* The side of the orders that lock a kind of thing.
SideThatLocks(kind) == IF kind = "asks_base" THEN "Ask" ELSE "Bid"

\* An account's waiting events of one side.
EventsOfSide(a, side) == {i \in PendingOf(a) : SideOf(heap[i]) = side}

\* What an event of an account locks, by the price at which its slot was locked.
LockedByEvent(kind, side, a, e) ==
  IF e.kind = "Fill" THEN FillLocks(kind, e)
  ELSE Locks(kind, side, e.quantity, oo[a].open_orders[e.owner_slot].locked_price)

\* Orders of the other side lock nothing of that kind.
LEMMA OtherSideLocksNothing ==
  ASSUME NEW kind \in Kinds, NEW side \in Sides, side # SideThatLocks(kind), NEW q, NEW p
  PROVE  Locks(kind, side, q, p) = 0
BY DEF Kinds, Sides, SideThatLocks, Locks

\* What the leaves of an account lock, summed up over those of one side.
LEMMA LeavesLockIs ==
  ASSUME IInv, NEW a \in Accounts, NEW kind \in Kinds
  PROVE  LET side == SideThatLocks(kind)
         IN  LeavesLock(kind, OrdersOf(oo), a, AllLeaves(book))
               = SumFunction([l \in LeavesOfOwner(side, a) |->
                    Locks(kind, side, l.quantity, oo[a].open_orders[l.owner_slot].locked_price)])
<1> DEFINE side == SideThatLocks(kind)
           o == OrdersOf(oo)
           L == AllLeaves(book)
           P == LeavesOfOwner(side, a)
           g == [l \in P |-> Locks(kind, side, l.quantity, oo[a].open_orders[l.owner_slot].locked_price)]
           h == [l \in L |-> LeafLocks(kind, o, a, l)]
<1>1. side \in Sides
  BY DEF SideThatLocks, Sides
<1>2. /\ L \in SUBSET LeafValues /\ IsFiniteSet(L) /\ o \in [Places -> OrderValues]
      /\ BookOk(book, o, mkt.seq_num)
  BY MarketParts
<1>3. \A sd \in Sides : \A l \in book[sd].leaves : o[PlaceOfLeaf(l)].side = sd
  BY <1>2 DEF BookOk
<1>4. \A sd \in Sides : book[sd].leaves \subseteq L
  BY DEF AllLeaves, Sides
<1>5. \A l \in L : \E sd \in Sides : l \in book[sd].leaves
  BY DEF AllLeaves, Sides
<1>6. P \in SUBSET L
  BY <1>1, <1>4 DEF LeavesOfOwner, Leaves
<1>7. \A l \in P : g[l] \in Int /\ h[l] = g[l]
  <2>1. ASSUME NEW l \in P PROVE g[l] \in Int /\ h[l] = g[l]
    <3>1. l \in book[side].leaves /\ l.owner = a /\ l \in L /\ l \in LeafValues
      BY <1>2, <1>6 DEF LeavesOfOwner, Leaves
    <3>2. o[PlaceOfLeaf(l)].side = side
      BY <1>1, <1>3, <3>1
    <3>3. o[PlaceOfLeaf(l)] = oo[a].open_orders[l.owner_slot]
      BY <3>1 DEF OrdersOf, PlaceOfLeaf, Places, LeafValues
    <3>4. LeafLocks(kind, o, a, l) = g[l]
      BY <3>1, <3>2, <3>3 DEF LeafLocks, OrderLocks
    <3>5. LeafLocks(kind, o, a, l) \in Nat
      BY <1>2, <3>1, LeafLocksNat
    <3> QED BY <3>1, <3>4, <3>5
  <2> QED BY <2>1
<1>8. \A l \in L \ P : h[l] = 0
  <2>1. ASSUME NEW l \in L \ P PROVE h[l] = 0
    <3>1. CASE l.owner # a
      BY <3>1 DEF LeafLocks
    <3>2. CASE l.owner = a
      <4>1. PICK sd \in Sides : l \in book[sd].leaves
        BY <1>5
      <4>2. sd # side
        BY <3>2, <4>1 DEF LeavesOfOwner, Leaves
      <4>3. o[PlaceOfLeaf(l)].side = sd
        BY <1>3, <4>1
      <4>4. LeafLocks(kind, o, a, l) = Locks(kind, sd, l.quantity, o[PlaceOfLeaf(l)].locked_price)
        BY <3>2, <4>3 DEF LeafLocks, OrderLocks
      <4>5. LeafLocks(kind, o, a, l) = 0
        BY <4>2, <4>4, OtherSideLocksNothing
      <4> QED BY <4>5
    <3> QED BY <3>1, <3>2
  <2> QED BY <2>1
<1>9. LeavesLock(kind, o, a, L) = SumFunctionOnSet(h, L)
  BY DEF LeavesLock
<1>10. DOMAIN g = P
  OBVIOUS
<1>11. SumFunctionOnSet(g, P) = SumFunctionOnSet(h, L)
  <2> HIDE DEF g, h, L, P, o
  <2> QED BY <1>2, <1>6, <1>7, <1>8, SumOfPart
<1> QED BY <1>9, <1>10, <1>11 DEF SumFunction

\* What the events of an account lock, summed up over those of one side.
LEMMA EventsLockIs ==
  ASSUME IInv, NEW a \in Accounts, NEW kind \in Kinds
  PROVE  LET side == SideThatLocks(kind)
         IN  EventsLock(kind, OrdersOf(oo), a, heap)
               = SumFunction([i \in EventsOfSide(a, side) |-> LockedByEvent(kind, side, a, heap[i])])
<1> DEFINE side == SideThatLocks(kind)
           o == OrdersOf(oo)
           D == DOMAIN heap
           P == EventsOfSide(a, side)
           g == [i \in P |-> LockedByEvent(kind, side, a, heap[i])]
           h == [i \in D |-> EventLocks(kind, o, a, heap[i])]
<1>1. side \in Sides
  BY DEF SideThatLocks, Sides
<1>2. /\ EventsOk(heap) /\ o \in [Places -> OrderValues]
      /\ EventsClaim(o, AllLeaves(book), heap)
  BY MarketParts
<1>3. IsFiniteSet(D) /\ \A i \in D : heap[i] \in EventValues
  BY <1>2 DEF EventsOk
<1>4. P \in SUBSET D
  BY DEF EventsOfSide, PendingOf, Pending
<1>5. ASSUME NEW i \in D, AccountOf(heap[i]) = a
      PROVE  /\ SideOf(heap[i]) \in Sides
             /\ EventLocks(kind, o, a, heap[i]) = LockedByEvent(kind, SideOf(heap[i]), a, heap[i])
             /\ heap[i].kind = "Fill" => SideOf(heap[i]) = FillTerms(heap[i]).side
  <2> DEFINE e == heap[i]
  <2>1. /\ EventOk(e)
        /\ \/ e \in OutEvents /\ e.kind = "Out"
           \/ e \in FillEvents /\ e.kind = "Fill"
        /\ PlaceOfEvent(e) \in Places
    BY <1>3, EventKinds
  <2>2. CASE e \in OutEvents /\ e.kind = "Out"
    <3>1. IsLast(e)
      BY <2>2 DEF IsLast
    <3>2. o[PlaceOfEvent(e)].side = SideOf(e)
      BY <1>2, <3>1 DEF EventsClaim
    <3>3. PlaceOfEvent(e) = <<a, e.owner_slot>>
      BY <1>5, <2>2 DEF PlaceOfEvent, SlotOf
    <3>4. o[PlaceOfEvent(e)] = oo[a].open_orders[e.owner_slot]
      BY <2>1, <3>3 DEF OrdersOf
    <3>5. SideOf(e) \in Sides
      BY <2>2 DEF SideOf, OutEvents
    <3> HIDE DEF e
    <3> QED BY <1>5, <2>2, <3>2, <3>4, <3>5 DEF EventLocks, OrderLocks, LockedByEvent, e
  <2>3. CASE e \in FillEvents /\ e.kind = "Fill"
    <3>1. FillTerms(e).side \in Sides
      BY <2>1, <2>3, FillTermsFacts
    <3>2. SideOf(e) = FillTerms(e).side
      BY <2>3 DEF SideOf
    <3> QED BY <1>5, <2>3, <3>1, <3>2 DEF EventLocks, LockedByEvent
  <2> QED BY <2>1, <2>2, <2>3
<1>6. \A i \in P : g[i] \in Int /\ h[i] = g[i]
  <2>1. ASSUME NEW i \in P PROVE g[i] \in Int /\ h[i] = g[i]
    <3>1. i \in D /\ AccountOf(heap[i]) = a /\ SideOf(heap[i]) = side /\ heap[i] \in EventValues
      BY <1>3 DEF EventsOfSide, PendingOf, Pending
    <3>2. EventLocks(kind, o, a, heap[i]) = LockedByEvent(kind, side, a, heap[i])
      BY <1>5, <3>1
    <3>3. EventLocks(kind, o, a, heap[i]) \in Nat
      BY <1>2, <3>1, EventLocksNat
    <3> QED BY <3>1, <3>2, <3>3
  <2> QED BY <2>1
<1>7. \A i \in D \ P : h[i] = 0
  <2>1. ASSUME NEW i \in D \ P PROVE h[i] = 0
    <3>1. CASE AccountOf(heap[i]) # a
      BY <3>1 DEF EventLocks
    <3>2. CASE AccountOf(heap[i]) = a
      <4>1. SideOf(heap[i]) # side
        BY <3>2 DEF EventsOfSide, PendingOf, Pending
      <4>2. /\ SideOf(heap[i]) \in Sides
            /\ EventLocks(kind, o, a, heap[i]) = LockedByEvent(kind, SideOf(heap[i]), a, heap[i])
            /\ heap[i].kind = "Fill" => SideOf(heap[i]) = FillTerms(heap[i]).side
        BY <1>5, <3>2
      <4>3. \A q, p : Locks(kind, SideOf(heap[i]), q, p) = 0
        BY <4>1, <4>2, OtherSideLocksNothing
      <4>4. CASE heap[i].kind = "Fill"
        <5>1. LockedByEvent(kind, SideOf(heap[i]), a, heap[i]) = FillLocks(kind, heap[i])
          BY <4>4 DEF LockedByEvent
        <5>2. kind = "fees" => FillTerms(heap[i]).side # "Bid"
          BY <4>1, <4>2, <4>4 DEF SideThatLocks
        <5>3. FillLocks(kind, heap[i]) = 0
          BY <4>2, <4>3, <4>4, <5>2 DEF FillLocks
        <5> QED BY <4>2, <5>1, <5>3
      <4>5. CASE heap[i].kind # "Fill"
        <5>1. LockedByEvent(kind, SideOf(heap[i]), a, heap[i]) = 0
          BY <4>3, <4>5 DEF LockedByEvent
        <5> QED BY <4>2, <5>1
      <4> QED BY <4>4, <4>5
    <3> QED BY <3>1, <3>2
  <2> QED BY <2>1
<1>8. EventsLock(kind, o, a, heap) = SumFunctionOnSet(h, D)
  BY DEF EventsLock
<1>9. DOMAIN g = P
  OBVIOUS
<1>10. SumFunctionOnSet(g, P) = SumFunctionOnSet(h, D)
  <2> HIDE DEF g, h, D, P, o
  <2> QED BY <1>3, <1>4, <1>6, <1>7, SumOfPart
<1> QED BY <1>8, <1>9, <1>10 DEF SumFunction

\* What a position holds is what its orders lock.
LEMMA HeldIs ==
  ASSUME IInv, NEW a \in Accounts, NEW kind \in Kinds
  PROVE  LET side == SideThatLocks(kind)
             leaves == SumFunction([l \in LeavesOfOwner(side, a) |->
                         Locks(kind, side, l.quantity, oo[a].open_orders[l.owner_slot].locked_price)])
             events == SumFunction([i \in EventsOfSide(a, side) |-> LockedByEvent(kind, side, a, heap[i])])
         IN  Held(kind, oo[a]) \in Int /\ Covers(kind, Held(kind, oo[a]), leaves + events)
<1> DEFINE side == SideThatLocks(kind)
           leaves == SumFunction([l \in LeavesOfOwner(side, a) |->
                       Locks(kind, side, l.quantity, oo[a].open_orders[l.owner_slot].locked_price)])
           events == SumFunction([i \in EventsOfSide(a, side) |-> LockedByEvent(kind, side, a, heap[i])])
<1>1. /\ LeavesLock(kind, OrdersOf(oo), a, AllLeaves(book)) = leaves
      /\ EventsLock(kind, OrdersOf(oo), a, heap) = events
  BY LeavesLockIs, EventsLockIs
<1> HIDE DEF leaves, events
<1>2. Covered(oo, AllLeaves(book), heap, NoLock) /\ oo \in [Accounts -> AccountValues]
  BY MarketParts
<1>3. Covers(kind, Held(kind, oo[a]) - (IF kind = "fees" THEN NoLock[a] ELSE 0), leaves + events)
  BY <1>1, <1>2, CoveredAt
<1>4. Held(kind, oo[a]) \in Int
  BY <1>2 DEF Kinds, Held, AccountValues
<1>5. (IF kind = "fees" THEN NoLock[a] ELSE 0) = 0
  BY DEF NoLock
<1>6. Covers(kind, Held(kind, oo[a]), leaves + events)
  BY <1>3, <1>4, <1>5
<1> QED BY <1>4, <1>6 DEF leaves, events

\* Whose events and of which kinds.
LEMMA EventOfSide ==
  ASSUME IInv, NEW a \in Accounts, NEW side \in Sides, NEW i \in EventsOfSide(a, side)
  PROVE  /\ heap[i].quantity \in Nat
         /\ \/ heap[i].kind = "Out" /\ oo[a].open_orders[heap[i].owner_slot].locked_price \in Nat
            \/ /\ heap[i].kind = "Fill" /\ FillTerms(heap[i]).side = side
               /\ FillTerms(heap[i]).locked_price \in Nat
<1> DEFINE e == heap[i]
<1>1. EventsOk(heap) /\ oo \in [Accounts -> AccountValues]
  BY MarketParts
<1>2. e \in EventValues /\ SideOf(e) = side /\ AccountOf(e) = a
  BY <1>1 DEF EventsOk, EventsOfSide, PendingOf, Pending
<1>3. /\ EventOk(e)
      /\ \/ e \in OutEvents /\ e.kind = "Out"
         \/ e \in FillEvents /\ e.kind = "Fill"
      /\ AccountOf(e) \in Accounts /\ SlotOf(e) \in OrderSlots
      /\ e.quantity \in Nat \ {0}
  BY <1>2, EventKinds
<1>4. CASE e \in OutEvents /\ e.kind = "Out"
  <2>1. e.owner_slot \in OrderSlots
    BY <1>4 DEF OutEvents
  <2>2. oo[a].open_orders \in [OrderSlots -> OrderValues]
    BY <1>1 DEF AccountValues
  <2>3. oo[a].open_orders[e.owner_slot] \in OrderValues
    BY <2>1, <2>2
  <2> QED BY <1>3, <1>4, <2>3 DEF OrderValues
<1>5. CASE e \in FillEvents /\ e.kind = "Fill"
  <2>1. FillTerms(e).side = side
    BY <1>2, <1>5 DEF SideOf
  <2>2. FillTerms(e).locked_price \in Nat \ {0}
    BY <1>3, <1>5, FillTermsFacts
  <2> QED BY <1>3, <1>5, <2>1, <2>2
<1> QED BY <1>3, <1>4, <1>5

\* What a leaf of an account is.
LEMMA LeafOfOwner ==
  ASSUME IInv, NEW a \in Accounts, NEW side \in Sides, NEW l \in LeavesOfOwner(side, a)
  PROVE  l.quantity \in Nat /\ oo[a].open_orders[l.owner_slot].locked_price \in Nat
<1>1. BookOk(book, OrdersOf(oo), mkt.seq_num) /\ oo \in [Accounts -> AccountValues]
  BY MarketParts
<1>2. SideOk(book[side], mkt.seq_num) /\ l \in book[side].leaves
  BY <1>1 DEF BookOk, LeavesOfOwner, Leaves
<1>3. l \in LeafValues
  BY <1>2 DEF SideOk
<1>4. l.owner_slot \in OrderSlots /\ l.quantity \in Nat
  BY <1>3 DEF LeafValues
<1>5. oo[a].open_orders \in [OrderSlots -> OrderValues]
  BY <1>1 DEF AccountValues
<1>6. oo[a].open_orders[l.owner_slot] \in OrderValues
  BY <1>4, <1>5
<1> QED BY <1>4, <1>6 DEF OrderValues

\* The lots of a position are those of its orders.
LEMMA LotsMatch ==
  ASSUME IInv
  PROVE  LotsMatchOrders
<1> SUFFICES ASSUME NEW a \in Accounts
    PROVE  LET LockedPrice(slot) == oo[a].open_orders[slot].locked_price
               LeafBase(leaf) == leaf.quantity
               LeafQuote(leaf) == leaf.quantity * LockedPrice(leaf.owner_slot)
               EventBase(i) == heap[i].quantity
               EventQuote(i) ==
                 heap[i].quantity * (IF heap[i].kind = "Fill" THEN FillTerms(heap[i]).locked_price
                                     ELSE LockedPrice(heap[i].owner_slot))
               events(side) == {i \in PendingOf(a) : SideOf(heap[i]) = side}
               BaseLots(side) == SumOver(LeafBase, LeavesOfOwner(side, a))
                                 + SumOver(EventBase, events(side))
           IN  /\ oo[a].bids_base_lots = BaseLots("Bid")
               /\ oo[a].asks_base_lots = BaseLots("Ask")
               /\ oo[a].bids_quote_lots = SumOver(LeafQuote, LeavesOfOwner("Bid", a))
                                          + SumOver(EventQuote, events("Bid"))
  BY DEF LotsMatchOrders
<1> DEFINE LockedPrice(slot) == oo[a].open_orders[slot].locked_price
           LeafBase(leaf) == leaf.quantity
           LeafQuote(leaf) == leaf.quantity * LockedPrice(leaf.owner_slot)
           EventBase(i) == heap[i].quantity
           EventQuote(i) ==
             heap[i].quantity * (IF heap[i].kind = "Fill" THEN FillTerms(heap[i]).locked_price
                                 ELSE LockedPrice(heap[i].owner_slot))
           leafLocks(kind, side) ==
             [l \in LeavesOfOwner(side, a) |-> Locks(kind, side, l.quantity, LockedPrice(l.owner_slot))]
           eventLocks(kind, side) ==
             [i \in EventsOfSide(a, side) |-> LockedByEvent(kind, side, a, heap[i])]
<1>1. ASSUME NEW kind \in {"asks_base", "bids_base"}
      PROVE  LET side == SideThatLocks(kind)
             IN  Held(kind, oo[a])
                   = SumOver(LeafBase, LeavesOfOwner(side, a)) + SumOver(EventBase, EventsOfSide(a, side))
  <2> DEFINE side == SideThatLocks(kind)
  <2>1. kind \in Kinds /\ kind # "fees" /\ side \in Sides
    BY DEF Kinds, SideThatLocks, Sides
  <2>2. leafLocks(kind, side) = [l \in LeavesOfOwner(side, a) |-> LeafBase(l)]
    <3>1. ASSUME NEW l \in LeavesOfOwner(side, a)
          PROVE  Locks(kind, side, l.quantity, LockedPrice(l.owner_slot)) = l.quantity
      BY DEF Locks, SideThatLocks
    <3> QED BY <3>1
  <2>3. eventLocks(kind, side) = [i \in EventsOfSide(a, side) |-> EventBase(i)]
    <3>1. ASSUME NEW i \in EventsOfSide(a, side)
          PROVE  LockedByEvent(kind, side, a, heap[i]) = heap[i].quantity
      <4>1. \/ heap[i].kind = "Out"
            \/ heap[i].kind = "Fill" /\ FillTerms(heap[i]).side = side
        BY <2>1, EventOfSide
      <4>2. \A q, p : Locks(kind, side, q, p) = q
        BY DEF Locks, SideThatLocks
      <4> QED BY <2>1, <4>1, <4>2 DEF LockedByEvent, FillLocks
    <3> QED BY <3>1
  <2>4. Covers(kind, Held(kind, oo[a]),
               SumFunction(leafLocks(kind, side)) + SumFunction(eventLocks(kind, side)))
    BY <2>1, HeldIs
  <2> HIDE DEF leafLocks, eventLocks
  <2> QED BY <2>1, <2>2, <2>3, <2>4 DEF Covers, SumOver
<1>2. Held("bids_quote", oo[a]) = SumOver(LeafQuote, LeavesOfOwner("Bid", a))
                                  + SumOver(EventQuote, EventsOfSide(a, "Bid"))
  <2>1. "bids_quote" \in Kinds /\ SideThatLocks("bids_quote") = "Bid" /\ "Bid" \in Sides
    BY DEF Kinds, SideThatLocks, Sides
  <2>2. leafLocks("bids_quote", "Bid") = [l \in LeavesOfOwner("Bid", a) |-> LeafQuote(l)]
    BY DEF Locks
  <2>3. eventLocks("bids_quote", "Bid") = [i \in EventsOfSide(a, "Bid") |-> EventQuote(i)]
    <3>1. ASSUME NEW i \in EventsOfSide(a, "Bid")
          PROVE  LockedByEvent("bids_quote", "Bid", a, heap[i]) = EventQuote(i)
      <4>1. \/ heap[i].kind = "Out"
            \/ heap[i].kind = "Fill" /\ FillTerms(heap[i]).side = "Bid"
        BY <2>1, EventOfSide
      <4>2. \A q, p : Locks("bids_quote", "Bid", q, p) = q * p
        BY DEF Locks
      <4> QED BY <4>1, <4>2 DEF LockedByEvent, FillLocks
    <3> HIDE DEF EventQuote
    <3> QED BY <3>1
  <2>4. Covers("bids_quote", Held("bids_quote", oo[a]),
               SumFunction(leafLocks("bids_quote", "Bid")) + SumFunction(eventLocks("bids_quote", "Bid")))
    BY <2>1, HeldIs
  <2> HIDE DEF leafLocks, eventLocks
  <2> QED BY <2>2, <2>3, <2>4 DEF Covers, SumOver
<1>3. /\ Held("bids_base", oo[a]) = oo[a].bids_base_lots
      /\ Held("asks_base", oo[a]) = oo[a].asks_base_lots
      /\ Held("bids_quote", oo[a]) = oo[a].bids_quote_lots
  BY DEF Held
<1>4. SideThatLocks("bids_base") = "Bid" /\ SideThatLocks("asks_base") = "Ask"
  BY DEF SideThatLocks
<1>5. oo[a].bids_base_lots = SumOver(LeafBase, LeavesOfOwner("Bid", a))
                             + SumOver(EventBase, EventsOfSide(a, "Bid"))
  BY <1>1, <1>3, <1>4
<1>6. oo[a].asks_base_lots = SumOver(LeafBase, LeavesOfOwner("Ask", a))
                             + SumOver(EventBase, EventsOfSide(a, "Ask"))
  BY <1>1, <1>3, <1>4
<1>7. oo[a].bids_quote_lots = SumOver(LeafQuote, LeavesOfOwner("Bid", a))
                              + SumOver(EventQuote, EventsOfSide(a, "Bid"))
  BY <1>2, <1>3
<1> HIDE DEF LeafBase, EventBase, LeafQuote, EventQuote
<1> QED BY <1>5, <1>6, <1>7 DEF EventsOfSide, LeafBase, EventBase, LeafQuote, EventQuote

\* The fees a position has locked cover its orders.
LEMMA FeesCover ==
  ASSUME IInv
  PROVE  LockedFeesCover
<1> SUFFICES ASSUME NEW a \in Accounts
    PROVE  LET OfLeaf(leaf) ==
                 maker_fees_ceil(leaf.quantity * oo[a].open_orders[leaf.owner_slot].locked_price
                                 * quote_lot_size)
               OfEvent(i) ==
                 IF heap[i].kind = "Fill" THEN FillTerms(heap[i]).locked_fees
                 ELSE maker_fees_ceil(heap[i].quantity * quote_lot_size
                                      * oo[a].open_orders[heap[i].owner_slot].locked_price)
               events == {i \in PendingOf(a) : SideOf(heap[i]) = "Bid"}
           IN  oo[a].locked_maker_fees >= SumOver(OfLeaf, LeavesOfOwner("Bid", a))
                                          + SumOver(OfEvent, events)
  BY DEF LockedFeesCover
<1> DEFINE OfLeaf(leaf) ==
             maker_fees_ceil(leaf.quantity * oo[a].open_orders[leaf.owner_slot].locked_price
                             * quote_lot_size)
           OfEvent(i) ==
             IF heap[i].kind = "Fill" THEN FillTerms(heap[i]).locked_fees
             ELSE maker_fees_ceil(heap[i].quantity * quote_lot_size
                                  * oo[a].open_orders[heap[i].owner_slot].locked_price)
           leafLocks ==
             [l \in LeavesOfOwner("Bid", a) |->
                Locks("fees", "Bid", l.quantity, oo[a].open_orders[l.owner_slot].locked_price)]
           eventLocks == [i \in EventsOfSide(a, "Bid") |-> LockedByEvent("fees", "Bid", a, heap[i])]
<1>1. "fees" \in Kinds /\ SideThatLocks("fees") = "Bid" /\ "Bid" \in Sides
  BY DEF Kinds, SideThatLocks, Sides
<1>2. leafLocks = [l \in LeavesOfOwner("Bid", a) |-> OfLeaf(l)]
  BY DEF Locks
<1>3. eventLocks = [i \in EventsOfSide(a, "Bid") |-> OfEvent(i)]
  <2>1. ASSUME NEW i \in EventsOfSide(a, "Bid")
        PROVE  LockedByEvent("fees", "Bid", a, heap[i]) = OfEvent(i)
    <3>1. /\ heap[i].quantity \in Nat
          /\ \/ heap[i].kind = "Out" /\ oo[a].open_orders[heap[i].owner_slot].locked_price \in Nat
             \/ heap[i].kind = "Fill" /\ FillTerms(heap[i]).side = "Bid"
      BY <1>1, EventOfSide
    <3>2. CASE heap[i].kind = "Fill"
      <4>1. FillLocks("fees", heap[i]) = FillTerms(heap[i]).locked_fees
        BY <3>1, <3>2 DEF FillLocks
      <4> QED BY <3>2, <4>1 DEF LockedByEvent
    <3>3. CASE heap[i].kind = "Out"
      <4> DEFINE q == heap[i].quantity
                 p == oo[a].open_orders[heap[i].owner_slot].locked_price
                 z == quote_lot_size
      <4>1. q \in Nat /\ p \in Nat /\ z \in Nat
        BY <3>1, <3>3, FeeAssumption
      <4>2. LockedByEvent("fees", "Bid", a, heap[i]) = maker_fees_ceil(q * p * z)
        BY <3>3 DEF LockedByEvent, Locks
      <4>3. OfEvent(i) = maker_fees_ceil(q * z * p)
        BY <3>3
      <4> HIDE DEF q, p, z
      <4>4. q * p * z = q * z * p
        BY <4>1
      <4> QED BY <4>2, <4>3, <4>4
    <3> QED BY <3>1, <3>2, <3>3
  <2> HIDE DEF OfEvent
  <2> QED BY <2>1
<1>4. Covers("fees", Held("fees", oo[a]), SumFunction(leafLocks) + SumFunction(eventLocks))
  BY <1>1, HeldIs
<1>5. Held("fees", oo[a]) = oo[a].locked_maker_fees
  BY DEF Held
<1> HIDE DEF leafLocks, eventLocks, OfLeaf, OfEvent
<1>6. oo[a].locked_maker_fees >= SumOver(OfLeaf, LeavesOfOwner("Bid", a))
                                 + SumOver(OfEvent, EventsOfSide(a, "Bid"))
  BY <1>2, <1>3, <1>4, <1>5 DEF Covers, SumOver
<1> QED BY <1>6 DEF EventsOfSide, OfLeaf, OfEvent

\* The lots of a position (position.rs) are at all times those of its orders on the
\* book and of the events that wait for it: each path of consume and cancel releases
\* what place_order locked.
THEOREM LotsAlwaysMatch == Spec => []LotsMatchOrders
<1>1. IInv => LotsMatchOrders
  BY LotsMatch
<1> QED BY <1>1, MarketInvariance, PTL

\* locked_maker_fees, rounded up when an order is placed, always covers what fills and
\* cancels take from it, so it never underflows.
THEOREM LockedFeesAlwaysCover == Spec => []LockedFeesCover
<1>1. IInv => LockedFeesCover
  BY FeesCover
<1> QED BY <1>1, MarketInvariance, PTL

-----------------------------------------------------------------------------
(* Orders and events are never stuck. *)

\* What is locked in a position covers each of its orders.
LEMMA HeldCovers ==
  ASSUME IInv, NEW a \in Accounts, NEW kind \in Kinds
  PROVE  /\ Held(kind, oo[a]) \in Nat
         /\ \A l \in AllLeaves(book) : LeafLocks(kind, OrdersOf(oo), a, l) <= Held(kind, oo[a])
         /\ \A i \in DOMAIN heap : EventLocks(kind, OrdersOf(oo), a, heap[i]) <= Held(kind, oo[a])
<1> DEFINE o == OrdersOf(oo)
           L == AllLeaves(book)
           x == LeavesLock(kind, o, a, L)
           y == EventsLock(kind, o, a, heap)
           z == Held(kind, oo[a])
<1>1. /\ oo \in [Accounts -> AccountValues] /\ o \in [Places -> OrderValues]
      /\ L \in SUBSET LeafValues /\ IsFiniteSet(L) /\ EventsOk(heap)
      /\ Covered(oo, L, heap, NoLock)
  BY MarketParts
<1>2. z \in Int
  BY <1>1 DEF Kinds, Held, AccountValues
<1> HIDE DEF o, L
<1>3. x \in Nat /\ \A l \in L : x = LeafLocks(kind, o, a, l) + LeavesLock(kind, o, a, L \ {l})
  BY <1>1, LeafTaken
<1>4. y \in Nat /\ \A i \in DOMAIN heap : y = EventLocks(kind, o, a, heap[i])
                                              + EventsLock(kind, o, a, Minus(heap, i))
  BY <1>1, EventTaken
<1>5. Covers(kind, z - (IF kind = "fees" THEN NoLock[a] ELSE 0), x + y)
  BY <1>1, CoveredAt DEF o
<1>6. (IF kind = "fees" THEN NoLock[a] ELSE 0) = 0
  BY DEF NoLock
<1> HIDE DEF x, y, z
<1>7. z >= x + y
  BY <1>2, <1>3, <1>4, <1>5, <1>6 DEF Covers
<1>8. ASSUME NEW l \in L PROVE LeafLocks(kind, o, a, l) <= z
  <2> DEFINE u == LeafLocks(kind, o, a, l)
             v == LeavesLock(kind, o, a, L \ {l})
  <2>1. u \in Nat
    BY <1>1, LeafLocksNat
  <2>2. L \ {l} \in SUBSET LeafValues /\ IsFiniteSet(L \ {l})
    BY <1>1, FS_Subset
  <2>3. v \in Nat
    BY <1>1, <2>2, LeafTaken
  <2>4. x = u + v
    BY <1>3
  <2> HIDE DEF u, v
  <2>5. u <= z
    BY <1>2, <1>3, <1>4, <1>7, <2>1, <2>3, <2>4
  <2> QED BY <2>5 DEF u
<1>9. ASSUME NEW i \in DOMAIN heap PROVE EventLocks(kind, o, a, heap[i]) <= z
  <2> DEFINE u == EventLocks(kind, o, a, heap[i])
             v == EventsLock(kind, o, a, Minus(heap, i))
  <2>1. u \in Nat
    BY <1>1, EventLocksNat DEF EventsOk
  <2>2. EventsOk(Minus(heap, i))
    <3>1. DOMAIN Minus(heap, i) \in SUBSET DOMAIN heap
          /\ \A j \in DOMAIN Minus(heap, i) : Minus(heap, i)[j] = heap[j]
      BY DEF Minus
    <3>2. IsFiniteSet(DOMAIN Minus(heap, i))
      BY <1>1, <3>1, FS_Subset DEF EventsOk
    <3> QED BY <1>1, <3>1, <3>2 DEF EventsOk
  <2>3. v \in Nat
    BY <1>1, <2>2, EventTaken
  <2>4. y = u + v
    BY <1>4
  <2> HIDE DEF u, v
  <2>5. u <= z
    BY <1>2, <1>3, <1>4, <1>7, <2>1, <2>3, <2>4
  <2> QED BY <2>5 DEF u
<1>10. z \in Nat
  BY <1>2, <1>3, <1>4, <1>7
<1> QED BY <1>8, <1>9, <1>10 DEF o, L, z

\* The order in the slot of a leaf, or of an event after which its slot is free.
LEMMA LeafHasOrder ==
  ASSUME IInv, NEW l \in AllLeaves(book)
  PROVE  /\ l \in LeafValues /\ oo[l.owner].open
         /\ LeafFits(oo[l.owner].open_orders[l.owner_slot], l)
<1>1. /\ AllLeaves(book) \in SUBSET LeafValues /\ OwnersOpen(oo, AllLeaves(book), heap)
      /\ LeavesClaim(OrdersOf(oo), AllLeaves(book))
  BY MarketParts
<1>2. LeafFits(OrdersOf(oo)[PlaceOfLeaf(l)], l) /\ oo[l.owner].open
  BY <1>1 DEF LeavesClaim, OwnersOpen
<1>3. l \in LeafValues
  BY <1>1
<1>4. OrdersOf(oo)[PlaceOfLeaf(l)] = oo[l.owner].open_orders[l.owner_slot]
  BY <1>3 DEF OrdersOf, PlaceOfLeaf, Places, LeafValues
<1> QED BY <1>2, <1>3, <1>4

\* An account is sound after an order of it is cancelled.
LEMMA CancelledIsSound ==
  ASSUME IInv, NEW a \in Accounts, NEW slot \in OrderSlots, NEW q \in Nat,
         OrderLocks("fees", oo[a].open_orders[slot], q) <= Held("fees", oo[a]),
         oo[a].open_orders[slot].id # 0
  PROVE  CancelSlotOf(Loaded, a, slot, q).ok
<1> DEFINE acc == oo[a]
           new == cancel_slot(acc, slot, q)
           r == CancelSlotOf(Loaded, a, slot, q)
<1>1. oo \in [Accounts -> AccountValues] /\ AccountsOk(oo, mkt.seq_num)
  BY MarketParts
<1>2. acc \in AccountValues /\ Sound(acc)
  BY <1>1 DEF AccountsOk
<1>3. "fees" \in Kinds
  BY DEF Kinds
<1>4. Held("fees", acc) \in Nat
  BY <1>3, HeldCovers
<1> DEFINE f == OrderLocks("fees", acc.open_orders[slot], q)
<1>5. f \in Nat
  <2>1. acc.open_orders[slot] \in OrderValues
    BY <1>2 DEF AccountValues
  <2>2. acc.open_orders[slot].side \in Sides /\ acc.open_orders[slot].locked_price \in Nat
    BY <2>1 DEF OrderValues
  <2>3. Locks("fees", acc.open_orders[slot].side, q, acc.open_orders[slot].locked_price) \in Nat
    BY <1>3, <2>2, LocksFacts
  <2> QED BY <2>3 DEF OrderLocks
<1>6. /\ new \in AccountValues
      /\ Held("fees", new) = Held("fees", acc) - f
      /\ new.base_free_native >= acc.base_free_native
      /\ new.quote_free_native >= acc.quote_free_native
      /\ new.referrer_rebates_available = acc.referrer_rebates_available
  <2> HIDE DEF acc
  <2>1. /\ new \in AccountValues
        /\ new.open = acc.open
        /\ new.open_orders = [acc.open_orders EXCEPT ![slot] = FreeSlot]
        /\ \A kind \in Kinds :
             Held(kind, new) = Held(kind, acc) - OrderLocks(kind, acc.open_orders[slot], q)
        /\ \A unit \in Units : OwedTo(unit, new) = OwedTo(unit, acc)
        /\ new.base_free_native >= acc.base_free_native
        /\ new.quote_free_native >= acc.quote_free_native
        /\ new.referrer_rebates_available = acc.referrer_rebates_available
    BY <1>2, CancelSlotFacts
  <2> HIDE DEF new
  <2> QED BY <1>3, <2>1
<1> HIDE DEF new
<1>7. Sound(new)
  <2> DEFINE u == Held("fees", acc)
             v == Held("fees", new)
  <2>1. v = u - f /\ u \in Nat /\ f \in Nat /\ f <= u
    BY <1>4, <1>5, <1>6
  <2> HIDE DEF f, u, v
  <2>2. v >= 0
    BY <2>1
  <2>3. new.locked_maker_fees >= 0
    BY <2>2, HeldFacts DEF v
  <2>4. new.base_free_native >= 0 /\ new.quote_free_native >= 0 /\ new.referrer_rebates_available >= 0
    BY <1>2, <1>6 DEF Sound, AccountValues
  <2> QED BY <2>3, <2>4 DEF Sound
<1>8. IsState(Loaded) /\ Loaded.ok = TRUE /\ Loaded.oo = oo
  BY LoadedIs
<1>9. r.ok = (Loaded.ok /\ ~is_free_slot(Loaded.oo[a], slot)
              /\ Sound(cancel_slot(Loaded.oo[a], slot, q)))
  <2> DEFINE s == Loaded
             k == cancel_slot(s.oo[a], slot, q)
  <2>1. IsState(s)
    BY <1>8
  <2> HIDE DEF s
  <2>2. /\ IsState(CancelSlotOf(s, a, slot, q)) /\ CancelSlotOf(s, a, slot, q).ok \in BOOLEAN
        /\ CancelSlotOf(s, a, slot, q).ok = (s.ok /\ ~is_free_slot(s.oo[a], slot) /\ Sound(k))
        /\ CancelSlotOf(s, a, slot, q).oo = [s.oo EXCEPT ![a] = k]
        /\ CancelSlotOf(s, a, slot, q).mkt = s.mkt /\ CancelSlotOf(s, a, slot, q).book = s.book
        /\ CancelSlotOf(s, a, slot, q).heap = s.heap
    BY ONLY <2>1, CancelSlotOfFields
  <2> QED BY <2>2 DEF s
<1>10. ~is_free_slot(Loaded.oo[a], slot)
  BY <1>8 DEF is_free_slot
<1> QED BY <1>7, <1>8, <1>9, <1>10 DEF new

\* An order on the book can be cancelled.
LEMMA LeafCanGo ==
  ASSUME IInv, NEW l \in AllLeaves(book)
  PROVE  CancelSlotOf(Loaded, l.owner, l.owner_slot, l.quantity).ok
<1> DEFINE a == l.owner
           slot == l.owner_slot
           q == l.quantity
           order == oo[a].open_orders[slot]
<1>1. l \in LeafValues /\ LeafFits(order, l)
  BY LeafHasOrder
<1>2. a \in Accounts /\ slot \in OrderSlots /\ q \in Nat /\ l.id # 0
  BY <1>1 DEF LeafValues
<1>3. order.id # 0
  BY <1>1, <1>2 DEF LeafFits
<1>4. OrdersOf(oo)[PlaceOfLeaf(l)] = order
  BY <1>2 DEF OrdersOf, PlaceOfLeaf, Places
<1>5. LeafLocks("fees", OrdersOf(oo), a, l) = OrderLocks("fees", order, q)
  BY <1>4 DEF LeafLocks
<1>6. "fees" \in Kinds
  BY DEF Kinds
<1>7. LeafLocks("fees", OrdersOf(oo), a, l) <= Held("fees", oo[a])
  BY <1>2, <1>6, HeldCovers
<1>8. OrderLocks("fees", order, q) <= Held("fees", oo[a])
  BY <1>5, <1>7
<1> HIDE DEF a, slot, q
<1>9. CancelSlotOf(Loaded, a, slot, q).ok
  BY <1>2, <1>3, <1>8, CancelledIsSound
<1> QED BY <1>9 DEF a, slot, q

\* An order that left the book can be given back.
LEMMA OutCanGo ==
  ASSUME IInv, NEW i \in DOMAIN heap, heap[i].kind # "Fill"
  PROVE  Consume(Loaded, heap[i]).ok
<1> DEFINE e == heap[i]
           a == e.owner
           slot == e.owner_slot
           q == e.quantity
           order == oo[a].open_orders[slot]
<1>1. EventsOk(heap) /\ EventsClaim(OrdersOf(oo), AllLeaves(book), heap)
  BY MarketParts
<1>2. e \in EventValues
  BY <1>1 DEF EventsOk
<1>3. e \in OutEvents
  BY <1>2, EventKinds
<1>4. a \in Accounts /\ slot \in OrderSlots /\ q \in Nat /\ e.kind = "Out" /\ a = AccountOf(e) /\ slot = SlotOf(e)
  BY <1>3 DEF OutEvents, AccountOf, SlotOf
<1>5. OrdersOf(oo)[PlaceOfEvent(e)] = order
  BY <1>4 DEF OrdersOf, PlaceOfEvent, Places
<1>6. order.id # 0
  <2>1. IsLast(e)
    BY <1>4 DEF IsLast
  <2> QED BY <1>1, <1>5, <2>1 DEF EventsClaim
<1>7. EventLocks("fees", OrdersOf(oo), a, e) = OrderLocks("fees", order, q)
  BY <1>4, <1>5 DEF EventLocks
<1>8. "fees" \in Kinds
  BY DEF Kinds
<1>9. EventLocks("fees", OrdersOf(oo), a, e) <= Held("fees", oo[a])
  BY <1>4, <1>8, HeldCovers
<1>10. OrderLocks("fees", order, q) <= Held("fees", oo[a])
  BY <1>7, <1>9
<1>11. Consume(Loaded, e) = CancelSlotOf(Loaded, a, slot, q)
  BY <1>4 DEF Consume
<1> HIDE DEF a, slot, q, e
<1>12. CancelSlotOf(Loaded, a, slot, q).ok
  BY <1>4, <1>6, <1>10, CancelledIsSound
<1> QED BY <1>11, <1>12 DEF e

\* A maker is sound after it is paid for a fill.
LEMMA PaidIsSound ==
  ASSUME IInv, NEW i \in DOMAIN heap, heap[i].kind = "Fill"
  PROVE  Sound(execute_maker(oo[heap[i].maker], heap[i]))
<1> DEFINE e == heap[i]
           a == e.maker
           acc == oo[a]
           new == execute_maker(acc, e)
           f == FillLocks("fees", e)
<1>1. /\ EventsOk(heap) /\ EventsClaim(OrdersOf(oo), AllLeaves(book), heap)
      /\ oo \in [Accounts -> AccountValues] /\ AccountsOk(oo, mkt.seq_num)
  BY MarketParts
<1>2. e \in EventValues
  BY <1>1 DEF EventsOk
<1>3. e \in FillEvents /\ EventOk(e) /\ AccountOf(e) \in Accounts
  BY <1>2, EventKinds
<1>4. a = AccountOf(e) /\ a \in Accounts /\ e.maker_slot \in OrderSlots
  BY <1>3 DEF AccountOf, FillEvents
<1>5. e.maker_out => acc.open_orders[e.maker_slot].side = FillTerms(e).side
  <2>1. SUFFICES ASSUME e.maker_out PROVE acc.open_orders[e.maker_slot].side = FillTerms(e).side
    OBVIOUS
  <2>2. IsLast(e) /\ SideOf(e) = FillTerms(e).side /\ PlaceOfEvent(e) = <<a, e.maker_slot>>
    BY <1>4, <2>1 DEF IsLast, SideOf, PlaceOfEvent, SlotOf
  <2>3. OrdersOf(oo)[PlaceOfEvent(e)].side = SideOf(e)
    BY <1>1, <2>2 DEF EventsClaim
  <2>4. OrdersOf(oo)[PlaceOfEvent(e)] = acc.open_orders[e.maker_slot]
    BY <1>4, <2>2 DEF OrdersOf, Places
  <2> QED BY <2>2, <2>3, <2>4
<1>6. acc \in AccountValues /\ Sound(acc)
  BY <1>1, <1>4 DEF AccountsOk
<1>7. "fees" \in Kinds
  BY DEF Kinds
<1>8. Held("fees", acc) \in Nat /\ EventLocks("fees", OrdersOf(oo), a, e) <= Held("fees", acc)
  BY <1>4, <1>7, HeldCovers
<1>9. EventLocks("fees", OrdersOf(oo), a, e) = f
  BY <1>4 DEF EventLocks
<1>10. EventLocks("fees", OrdersOf(oo), a, e) \in Nat
  <2>1. OrdersOf(oo) \in [Places -> OrderValues]
    BY MarketParts
  <2> QED BY <1>2, <1>7, <2>1, EventLocksNat
<1>11. /\ new \in AccountValues
       /\ Held("fees", new) = Held("fees", acc) - f
       /\ new.base_free_native >= acc.base_free_native
       /\ new.quote_free_native >= acc.quote_free_native
       /\ new.referrer_rebates_available >= acc.referrer_rebates_available
  <2> HIDE DEF acc, e
  <2>1. /\ new \in AccountValues
        /\ new.open = acc.open
        /\ new.open_orders = IF e.maker_out
                             THEN [acc.open_orders EXCEPT ![e.maker_slot] = FreeSlot]
                             ELSE acc.open_orders
        /\ \A kind \in Kinds : Held(kind, new) = Held(kind, acc) - FillLocks(kind, e)
        /\ \A unit \in Units :
             OwedTo(unit, new) = OwedTo(unit, acc) + FillDue(unit, e)
                                 + (IF unit = "rebates" THEN FillTerms(e).fees ELSE 0)
        /\ new.base_free_native >= acc.base_free_native
        /\ new.quote_free_native >= acc.quote_free_native
        /\ new.referrer_rebates_available >= acc.referrer_rebates_available
    BY ONLY <1>3, <1>5, <1>6, ExecuteMakerFacts
  <2> HIDE DEF new
  <2> QED BY <1>7, <2>1
<1> DEFINE u == Held("fees", acc)
           v == Held("fees", new)
<1>12. v = u - f /\ u \in Nat /\ f \in Nat /\ f <= u
  BY <1>8, <1>9, <1>10, <1>11
<1> HIDE DEF f, u, v, new
<1>13. v >= 0
  BY <1>12
<1>14. new.locked_maker_fees >= 0
  BY <1>13, HeldFacts DEF v
<1>15. new.base_free_native >= 0 /\ new.quote_free_native >= 0 /\ new.referrer_rebates_available >= 0
  BY <1>6, <1>11 DEF Sound, AccountValues
<1> QED BY <1>14, <1>15 DEF Sound, new

\* A fill can be settled with its maker.
LEMMA FillCanGo ==
  ASSUME IInv, NEW i \in DOMAIN heap, heap[i].kind = "Fill"
  PROVE  Consume(Loaded, heap[i]).ok
<1> DEFINE e == heap[i]
           a == e.maker
<1>1. /\ IsState(Loaded) /\ Loaded.ok = TRUE /\ Loaded.mkt = mkt /\ Loaded.oo = oo
      /\ Loaded.book = book /\ Loaded.heap = heap
  BY LoadedIs
<1>2. EventsOk(heap) /\ EventsClaim(OrdersOf(oo), AllLeaves(book), heap)
  BY MarketParts
<1>3. e \in EventValues
  BY <1>2 DEF EventsOk
<1>4. e \in FillEvents /\ AccountOf(e) \in Accounts
  BY <1>3, EventKinds
<1>5. a = AccountOf(e) /\ a \in Accounts /\ e.maker_slot \in OrderSlots /\ e.maker_out \in BOOLEAN
  BY <1>4 DEF AccountOf, FillEvents
<1>6. mkt \in MarketValues
  BY MarketFacts
<1>7. MakerPaid(Loaded, e, ExecuteMaker(Loaded, e))
  <2> HIDE DEF e
  <2> QED BY <1>1, <1>5, <1>6, ExecuteMakerFields
<1>8. Sound(execute_maker(oo[a], e))
  BY PaidIsSound
<1>9. e.maker_out => oo[a].open_orders[e.maker_slot].id # 0
  <2>1. SUFFICES ASSUME e.maker_out PROVE oo[a].open_orders[e.maker_slot].id # 0
    OBVIOUS
  <2>2. IsLast(e) /\ PlaceOfEvent(e) = <<a, e.maker_slot>>
    BY <1>5, <2>1 DEF IsLast, PlaceOfEvent, SlotOf
  <2>3. OrdersOf(oo)[PlaceOfEvent(e)].id # 0
    BY <1>2, <2>2 DEF EventsClaim
  <2>4. OrdersOf(oo)[PlaceOfEvent(e)] = oo[a].open_orders[e.maker_slot]
    BY <1>5, <2>2 DEF OrdersOf, Places
  <2> QED BY <2>3, <2>4
<1>10. Consume(Loaded, e) = ExecuteMaker(Loaded, e)
  BY DEF Consume
<1> HIDE DEF e
<1>11. ExecuteMaker(Loaded, e).ok
       = (Loaded.ok /\ Sound(execute_maker(Loaded.oo[a], e))
          /\ (e.maker_out => ~is_free_slot(Loaded.oo[a], e.maker_slot)))
  BY <1>7 DEF MakerPaid
<1>12. e.maker_out => ~is_free_slot(Loaded.oo[a], e.maker_slot)
  BY <1>1, <1>9 DEF is_free_slot
<1> QED BY <1>1, <1>8, <1>10, <1>11, <1>12 DEF e

\* Every order can be cancelled and every event consumed.
LEMMA NoneStuck ==
  ASSUME IInv
  PROVE  NothingStuck
<1>1. ASSUME NEW side \in Sides, NEW leaf \in Leaves(side)
      PROVE  CancelSlotOf(Loaded, leaf.owner, leaf.owner_slot, leaf.quantity).ok
  <2>1. leaf \in AllLeaves(book)
    BY DEF Leaves, AllLeaves, Sides
  <2> QED BY <2>1, LeafCanGo
<1>2. ASSUME NEW i \in Pending PROVE oo[AccountOf(heap[i])].open /\ Consume(Loaded, heap[i]).ok
  <2>1. i \in DOMAIN heap
    BY DEF Pending
  <2>2. oo[AccountOf(heap[i])].open
    BY <2>1, MarketParts DEF OwnersOpen
  <2>3. Consume(Loaded, heap[i]).ok
    BY <2>1, OutCanGo, FillCanGo
  <2> QED BY <2>2, <2>3
<1> QED BY <1>1, <1>2 DEF NothingStuck

\* No order is stuck on the book and no event on the heap: cancelling any leaf and
\* consuming any event (cancel_order, prune_orders, consume_events, consume_given_events)
\* runs into no failed assertion and no underflow, whatever order they are asked for in.
THEOREM NothingEverStuck == Spec => []NothingStuck
<1>1. IInv => NothingStuck
  BY NoneStuck
<1> QED BY <1>1, MarketInvariance, PTL

-----------------------------------------------------------------------------
(* Types, slots, and the end of a market. *)

\* Every variable holds a value of its type.
LEMMA MarketTyped ==
  ASSUME IInv
  PROVE  TypeOK
<1>1. now \in 0 .. MaxTime /\ oracle \in OraclePrices /\ SoundMarket(mkt) /\ mkt.seq_num <= MaxSeqNum
  BY DEF IInv
<1>2. /\ oo \in [Accounts -> AccountValues] /\ AccountsOk(oo, mkt.seq_num)
      /\ BookOk(book, OrdersOf(oo), mkt.seq_num) /\ HeapOk(heap)
  BY MarketParts
<1>3. mkt.seq_num \in Nat
  BY MarketFacts
<1>4. mkt.seq_num \in 0 .. MaxSeqNum
  BY <1>1, <1>3, OpenBookAssumption
<1>5. ASSUME NEW a \in Accounts
      PROVE  /\ Sound(oo[a])
             /\ oo[a].bids_base_lots \in Nat /\ oo[a].asks_base_lots \in Nat
             /\ oo[a].bids_quote_lots \in Nat
             /\ \A slot \in OrderSlots : oo[a].open_orders[slot].id \in 0 .. mkt.seq_num
  <2>1. Sound(oo[a])
    BY <1>2 DEF AccountsOk
  <2>2. \A kind \in Kinds : Held(kind, oo[a]) \in Nat
    BY HeldCovers
  <2>3. "bids_base" \in Kinds /\ "asks_base" \in Kinds /\ "bids_quote" \in Kinds
    BY DEF Kinds
  <2>4. /\ oo[a].bids_base_lots \in Nat /\ oo[a].asks_base_lots \in Nat
        /\ oo[a].bids_quote_lots \in Nat
    BY <2>2, <2>3, HeldFacts
  <2>5. ASSUME NEW slot \in OrderSlots PROVE oo[a].open_orders[slot].id \in 0 .. mkt.seq_num
    <3>1. <<a, slot>> \in Places /\ OrdersOf(oo)[<<a, slot>>] = oo[a].open_orders[slot]
      BY DEF Places, OrdersOf
    <3>2. oo[a].open_orders[slot].id <= mkt.seq_num
      BY <1>2, <3>1 DEF AccountsOk
    <3>3. OrdersOf(oo)[<<a, slot>>] \in OrderValues
      BY <3>1, MarketParts
    <3>4. oo[a].open_orders[slot].id \in Nat
      BY <3>1, <3>3 DEF OrderValues
    <3> QED BY <1>3, <3>2, <3>4
  <2> QED BY <2>1, <2>4, <2>5
<1>6. ASSUME NEW side \in Sides
      PROVE  /\ book[side].bump \in 0 .. MAX_ORDERTREE_NODES
             /\ UsedNodes(book[side]) <= book[side].bump
             /\ \A leaf \in Leaves(side) :
                  leaf.quantity > 0 /\ leaf.tree \in Trees /\ leaf.owner \in Accounts
  <2>1. SideOk(book[side], mkt.seq_num)
    BY <1>2 DEF BookOk
  <2>2. /\ book[side].bump \in 0 .. MAX_ORDERTREE_NODES
        /\ UsedNodes(book[side]) <= book[side].bump
        /\ book[side].leaves \subseteq LeafValues
    BY <2>1 DEF SideOk
  <2>3. ASSUME NEW leaf \in Leaves(side)
        PROVE  leaf.quantity > 0 /\ leaf.tree \in Trees /\ leaf.owner \in Accounts
    <3>1. leaf \in LeafValues
      BY <2>2 DEF Leaves
    <3>2. leaf.quantity \in Nat \ {0} /\ leaf.tree \in Trees /\ leaf.owner \in Accounts
      BY <3>1 DEF LeafValues
    <3> QED BY <3>2
  <2> QED BY <2>2, <2>3
<1>7. Len(heap) <= MAX_NUM_EVENTS
  BY <1>2 DEF HeapOk
<1> QED BY <1>1, <1>4, <1>5, <1>6, <1>7 DEF TypeOK

\* Occupied slots are claimed once, free ones not at all.
LEMMA SlotsClaimed ==
  ASSUME IInv
  PROVE  SlotClaims
<1> SUFFICES ASSUME NEW a \in Accounts, NEW slot \in OrderSlots
    PROVE  LET order == oo[a].open_orders[slot]
               claims == {leaf \in UNION {Leaves(side) : side \in Sides} :
                            leaf.owner = a /\ leaf.owner_slot = slot}
               last == {i \in PendingOf(a) : IsLast(heap[i]) /\ SlotOf(heap[i]) = slot}
           IN  IF is_free_slot(oo[a], slot) THEN claims = {} /\ last = {}
               ELSE /\ Cardinality(claims) + Cardinality(last) = 1
                    /\ claims \subseteq LeafOf(Loaded, order)
                    /\ \A i \in last : SideOf(heap[i]) = order.side
  BY DEF SlotClaims
<1> DEFINE order == oo[a].open_orders[slot]
           claims == {leaf \in UNION {Leaves(side) : side \in Sides} :
                        leaf.owner = a /\ leaf.owner_slot = slot}
           last == {i \in PendingOf(a) : IsLast(heap[i]) /\ SlotOf(heap[i]) = slot}
           o == OrdersOf(oo)
           L == AllLeaves(book)
           p == <<a, slot>>
<1>1. /\ LeavesClaim(o, L) /\ EventsClaim(o, L, heap) /\ OrdersClaimed(o, L, heap)
      /\ L \in SUBSET LeafValues /\ BookOk(book, o, mkt.seq_num)
  BY MarketParts
<1>2. p \in Places /\ o[p] = order
  BY DEF Places, OrdersOf
<1>3. UNION {Leaves(side) : side \in Sides} = L
  BY DEF Leaves, Sides, AllLeaves
<1>4. \A l : l \in claims <=> l \in L /\ PlaceOfLeaf(l) = p
  BY <1>3 DEF PlaceOfLeaf
<1>5. \A i : i \in last <=> i \in DOMAIN heap /\ IsLast(heap[i]) /\ PlaceOfEvent(heap[i]) = p
  BY DEF PendingOf, Pending, PlaceOfEvent
<1>6. is_free_slot(oo[a], slot) <=> order.id = 0
  BY DEF is_free_slot
<1> HIDE DEF claims, last, o, L, p, order
<1>7. ASSUME NEW l \in claims
      PROVE  LeafFits(order, l) /\ order.id # 0 /\ l \in LeafOf(Loaded, order)
  <2>1. LeafFits(order, l) /\ l \in LeafValues
    BY <1>1, <1>2, <1>4 DEF LeavesClaim
  <2>2. order.id = l.id /\ order.tree = l.tree /\ l.id # 0
    BY <2>1 DEF LeafFits, LeafValues
  <2>3. PICK side \in Sides : l \in book[side].leaves
    BY <1>4 DEF AllLeaves, Sides, L
  <2>4. order.side = side
    BY <1>1, <1>2, <1>4, <2>3 DEF BookOk
  <2>5. l \in LeafOf(Loaded, order)
    BY <2>2, <2>3, <2>4, LoadedIs DEF LeafOf, LeavesOf
  <2> QED BY <2>1, <2>2, <2>5
<1>8. ASSUME NEW i \in last
      PROVE  order.id # 0 /\ order.side = SideOf(heap[i])
  BY <1>1, <1>2, <1>5 DEF EventsClaim
<1>9. CASE order.id = 0
  <2>1. claims = {} /\ last = {}
    BY <1>7, <1>8, <1>9
  <2> QED BY <1>6, <1>9, <2>1 DEF claims, last
<1>10. CASE order.id # 0
  <2>1. Cardinality(claims) + Cardinality(last) = 1
    <3>1. /\ Cardinality({}) = 0
          /\ \A x : Cardinality({x}) = 1
      BY FS_EmptySet, FS_Singleton
    <3>2. \A l \in claims : last = {} /\ claims = {l}
      BY <1>1, <1>4, <1>5 DEF LeavesClaim, EventsClaim
    <3>3. \A i \in last : claims = {} /\ last = {i}
      BY <1>1, <1>4, <1>5 DEF EventsClaim
    <3>4. \/ \E l \in claims : TRUE
          \/ \E i \in last : TRUE
      BY <1>1, <1>2, <1>4, <1>5, <1>10 DEF OrdersClaimed
    <3>5. CASE \E l \in claims : TRUE
      <4>1. Cardinality(claims) = 1 /\ Cardinality(last) = 0
        BY <3>1, <3>2, <3>5
      <4> QED BY <4>1
    <3>6. CASE \E i \in last : TRUE
      <4>1. Cardinality(claims) = 0 /\ Cardinality(last) = 1
        BY <3>1, <3>3, <3>6
      <4> QED BY <4>1
    <3> QED BY <3>4, <3>5, <3>6
  <2>2. claims \subseteq LeafOf(Loaded, order)
    BY <1>7
  <2>3. \A i \in last : SideOf(heap[i]) = order.side
    BY <1>8
  <2> QED BY <1>6, <1>10, <2>1, <2>2, <2>3 DEF claims, last, order
<1> QED BY <1>9, <1>10

\* The capacities of the accounts (heap.rs 9, ordertree.rs 18), the ids of orders and
\* the amounts of positions are what they should be, whatever the instructions do.
THEOREM MarketTypeCorrect == Spec => []TypeOK
<1>1. IInv => TypeOK
  BY MarketTyped
<1> QED BY <1>1, MarketInvariance, PTL

\* Each occupied slot of an open orders account is claimed by exactly one leaf or one
\* event that frees it, so add_order (open_orders_account.rs) finds free slots free
\* and remove_order finds occupied slots occupied.
THEOREM SlotsAlwaysClaimed == Spec => []SlotClaims
<1>1. IInv => SlotClaims
  BY SlotsClaimed
<1> QED BY <1>1, MarketInvariance, PTL

\* Without orders and events nothing is locked.
LEMMA NothingHeld ==
  ASSUME IInv, heap = << >>, AllLeaves(book) = {}, NEW a \in Accounts
  PROVE  /\ oo[a].bids_base_lots = 0 /\ oo[a].asks_base_lots = 0
         /\ oo[a].bids_quote_lots = 0
<1> DEFINE o == OrdersOf(oo)
           L == AllLeaves(book)
<1>1. Covered(oo, L, heap, NoLock) /\ oo \in [Accounts -> AccountValues]
  BY MarketParts
<1>2. DOMAIN heap = {}
  OBVIOUS
<1>3. \A g : SumFunctionOnSet(g, {}) = 0
  <2>1. IsFiniteSet({})
    BY FS_EmptySet
  <2> QED BY <2>1, SumValues
<1>4. ASSUME NEW kind \in Kinds, kind # "fees" PROVE Held(kind, oo[a]) = 0
  <2>1. LeavesLock(kind, o, a, L) = 0
    BY <1>3 DEF LeavesLock
  <2>2. EventsLock(kind, o, a, heap) = 0
    BY <1>2, <1>3 DEF EventsLock
  <2>3. Covers(kind, Held(kind, oo[a]) - (IF kind = "fees" THEN NoLock[a] ELSE 0),
               LeavesLock(kind, o, a, L) + EventsLock(kind, o, a, heap))
    BY <1>1, CoveredAt
  <2>4. Held(kind, oo[a]) \in Nat
    BY HeldCovers
  <2> DEFINE z == Held(kind, oo[a])
             x == LeavesLock(kind, o, a, L)
             y == EventsLock(kind, o, a, heap)
  <2>5. x = 0 /\ y = 0 /\ z \in Nat /\ z - 0 = x + y
    BY <1>4, <2>1, <2>2, <2>3, <2>4 DEF Covers
  <2> HIDE DEF x, y, z
  <2>6. z = 0
    BY <2>5
  <2> QED BY <2>6 DEF z
<1>5. "bids_base" \in Kinds /\ "asks_base" \in Kinds /\ "bids_quote" \in Kinds
  BY DEF Kinds
<1> QED BY <1>4, <1>5, HeldFacts

\* Without funds in the market nobody is owed any.
LEMMA NobodyOwed ==
  ASSUME IInv, is_empty_market, heap = << >>, AllLeaves(book) = {}, NEW a \in Accounts
  PROVE  AllZero(oo[a])
<1>1. oo \in [Accounts -> AccountValues] /\ AccountsOk(oo, mkt.seq_num) /\ Funds(mkt, oo, heap, 0, 0)
  BY MarketParts
<1>2. \A x \in Accounts :
        /\ oo[x].bids_base_lots = 0 /\ oo[x].asks_base_lots = 0 /\ oo[x].bids_quote_lots = 0
        /\ oo[x].base_free_native \in Nat /\ oo[x].quote_free_native \in Nat
        /\ oo[x].locked_maker_fees \in Nat /\ oo[x].referrer_rebates_available \in Nat
  <2>1. ASSUME NEW x \in Accounts
        PROVE  /\ oo[x].base_free_native \in Nat /\ oo[x].quote_free_native \in Nat
               /\ oo[x].locked_maker_fees \in Nat /\ oo[x].referrer_rebates_available \in Nat
    <3>1. oo[x] \in AccountValues /\ Sound(oo[x])
      BY <1>1 DEF AccountsOk
    <3> QED BY <3>1 DEF AccountValues, Sound
  <2>2. \A x \in Accounts : oo[x].bids_base_lots = 0 /\ oo[x].asks_base_lots = 0 /\ oo[x].bids_quote_lots = 0
    BY NothingHeld
  <2> QED BY <2>1, <2>2
<1>3. 0 * base_lot_size = 0 /\ 0 * quote_lot_size = 0
  <2>1. base_lot_size \in Nat /\ quote_lot_size \in Nat
    BY FeeAssumption
  <2> QED BY <2>1
<1>4. ASSUME NEW x \in Accounts
      PROVE  /\ OwedTo("base", oo[x]) = oo[x].base_free_native
             /\ OwedTo("quote", oo[x]) = oo[x].quote_free_native + oo[x].locked_maker_fees
                                         + oo[x].referrer_rebates_available
  <2>1. /\ OwedTo("base", oo[x]) = oo[x].base_free_native + 0
        /\ OwedTo("quote", oo[x]) = oo[x].quote_free_native + 0 + oo[x].locked_maker_fees
                                    + oo[x].referrer_rebates_available
    BY <1>2, <1>3, OwedFacts
  <2> QED BY <1>2, <2>1
<1>5. ASSUME NEW unit \in {"base", "quote"}
      PROVE  \A x \in Accounts : OwedTo(unit, oo[x]) \in Nat
  BY <1>2, <1>4
<1>6. /\ mkt.base_deposit_total = 0 /\ mkt.quote_deposit_total = 0 /\ mkt.fees_available = 0
  BY DEF is_empty_market
<1>7. ASSUME NEW unit \in {"base", "quote"}
      PROVE  DueToAll(unit, heap) = 0 /\ OwedToAll(unit, oo) \in Int
  <2>1. DOMAIN heap = {} /\ IsFiniteSet({})
    BY FS_EmptySet
  <2>2. \A g : SumFunctionOnSet(g, {}) = 0
    BY <2>1, SumValues
  <2>3. DueToAll(unit, heap) = 0
    BY <2>1, <2>2 DEF DueToAll
  <2>4. unit \in Units /\ EventsOk(heap)
    BY MarketParts DEF Units
  <2>5. OwedToAll(unit, oo) \in Int
    BY <1>1, <2>4, OwedInt
  <2> QED BY <2>3, <2>5
<1>8. OwedToAll("base", oo) = 0 /\ OwedToAll("quote", oo) = 0
  <2>1. 0 + 0 = OwedToAll("base", oo) + DueToAll("base", heap)
        /\ 0 + 0 = OwedToAll("quote", oo) + DueToAll("quote", heap) + 0
    BY <1>1, <1>6 DEF Funds, Owed
  <2> QED BY <1>7, <2>1
<1>9. ASSUME NEW unit \in {"base", "quote"} PROVE OwedTo(unit, oo[a]) = 0
  <2> DEFINE g == [x \in Accounts |-> OwedTo(unit, oo[x])]
  <2>1. \A x \in Accounts : g[x] \in Nat
    BY <1>5
  <2>2. SumFunctionOnSet(g, Accounts) = 0
    BY <1>8 DEF OwedToAll
  <2>3. IsFiniteSet(Accounts)
    BY OpenBookAssumption
  <2> HIDE DEF g
  <2>4. \A x \in Accounts : g[x] = 0
    BY <2>1, <2>2, <2>3, NoSumNoTerms
  <2> QED BY <2>4 DEF g
<1>10. oo[a].base_free_native = 0
  BY <1>4, <1>9
<1>11. oo[a].quote_free_native = 0 /\ oo[a].locked_maker_fees = 0 /\ oo[a].referrer_rebates_available = 0
  <2> DEFINE u == oo[a].quote_free_native
             v == oo[a].locked_maker_fees
             z == oo[a].referrer_rebates_available
  <2>1. u \in Nat /\ v \in Nat /\ z \in Nat /\ u + v + z = 0
    BY <1>2, <1>4, <1>9
  <2> HIDE DEF u, v, z
  <2>2. u = 0 /\ v = 0 /\ z = 0
    BY <2>1
  <2> QED BY <2>2 DEF u, v, z
<1> QED BY <1>2, <1>10, <1>11 DEF AllZero

\* An account with nothing in it is empty once it is open and owes no penalty.
LEMMA ZeroIsEmpty ==
  ASSUME NEW acc \in AccountValues, AllZero(acc)
  PROVE  is_empty_position([acc EXCEPT !.open = TRUE, !.penalty_heap_count = 0])
<1> DEFINE e == [acc EXCEPT !.open = TRUE, !.penalty_heap_count = 0]
           none == [slot \in OrderSlots |-> FreeSlot]
           f == [e EXCEPT !.open_orders = none]
<1>1. none \in [OrderSlots -> OrderValues]
  BY FreeSlotValue
<1> HIDE DEF none
<1>2. /\ e \in AccountValues /\ AllZero(e)
      /\ e.open = TRUE /\ e.penalty_heap_count = 0
  BY DEF AccountValues, AllZero
<1> HIDE DEF e
<1>3. /\ f \in AccountValues /\ AllZero(f)
      /\ f.open = TRUE /\ f.penalty_heap_count = 0 /\ f.open_orders = none
  BY <1>1, <1>2 DEF AccountValues, AllZero
<1> HIDE DEF f
<1>4. f = [open |-> TRUE,
           bids_base_lots |-> 0, asks_base_lots |-> 0, bids_quote_lots |-> 0,
           base_free_native |-> 0, quote_free_native |-> 0,
           locked_maker_fees |-> 0, referrer_rebates_available |-> 0,
           penalty_heap_count |-> 0, open_orders |-> none]
  BY <1>3 DEF AccountValues, AllZero
<1>5. /\ EmptyAccount.open_orders = none
      /\ EmptyAccount
           = [open |-> TRUE,
              bids_base_lots |-> 0, asks_base_lots |-> 0, bids_quote_lots |-> 0,
              base_free_native |-> 0, quote_free_native |-> 0,
              locked_maker_fees |-> 0, referrer_rebates_available |-> 0,
              penalty_heap_count |-> 0, open_orders |-> none]
  BY DEF EmptyAccount, none
<1>6. f = EmptyAccount
  BY <1>4, <1>5
<1>7. [e EXCEPT !.open_orders = EmptyAccount.open_orders] = EmptyAccount
  BY <1>5, <1>6 DEF f
<1> QED BY <1>7 DEF is_empty_position, e

\* A market that is closed has nothing left.
LEMMA ClosedIsEmpty ==
  ASSUME IInv
  PROVE  ClosedOwesNothing
<1> SUFFICES ASSUME mkt.closed
             PROVE  /\ vault = [base |-> 0, quote |-> 0]
                    /\ heap = << >> /\ \A side \in Sides : Leaves(side) = {}
                    /\ \A a \in Accounts :
                         is_empty_position([oo[a] EXCEPT !.open = TRUE, !.penalty_heap_count = 0])
  BY DEF ClosedOwesNothing
<1>1. /\ is_empty_market /\ heap = << >> /\ AllLeaves(book) = {}
      /\ vault = [base |-> mkt.base_deposit_total, quote |-> mkt.quote_deposit_total]
  BY DEF IInv
<1>2. vault = [base |-> 0, quote |-> 0]
  BY <1>1 DEF is_empty_market
<1>3. \A side \in Sides : Leaves(side) = {}
  BY <1>1 DEF AllLeaves, Sides, Leaves
<1>4. ASSUME NEW a \in Accounts
      PROVE  is_empty_position([oo[a] EXCEPT !.open = TRUE, !.penalty_heap_count = 0])
  <2>1. AllZero(oo[a])
    BY <1>1, NobodyOwed
  <2>2. oo[a] \in AccountValues
    BY MarketParts
  <2> QED BY <2>1, <2>2, ZeroIsEmpty
<1> QED BY <1>1, <1>2, <1>3, <1>4

\* close_market checks a few totals (Market::is_empty) and the lengths of the book and
\* of the heap: that is enough for the vaults to be empty and for no account to be owed
\* anything by a market that is gone.
THEOREM ClosedMarketOwesNothing == Spec => []ClosedOwesNothing
<1>1. IInv => ClosedOwesNothing
  BY ClosedIsEmpty
<1> QED BY <1>1, MarketInvariance, PTL

-----------------------------------------------------------------------------
(* What the client libraries foretell. *)

\* The client's walk over the book is in a record of eight fields.
IsWalk(q) ==
  q = [base |-> q.base, quote |-> q.quote, rebates |-> q.rebates, accounts |-> q.accounts,
       dropped |-> q.dropped, filled |-> q.filled, limit |-> q.limit, stop |-> q.stop]

\* An invalid order changes the accounts listed and their count.
LEMMA InvalidListed ==
  ASSUME NEW q, IsWalk(q), NEW leaf, NEW r, r = ListInvalid(q, leaf)
  PROVE  /\ IsWalk(r) /\ r.base = q.base /\ r.quote = q.quote /\ r.rebates = q.rebates
         /\ r.filled = q.filled /\ r.limit = q.limit /\ r.stop = q.stop
         /\ r.dropped = IF q.dropped >= DROP_EXPIRED_ORDER_LIMIT THEN q.dropped ELSE q.dropped + 1
         /\ r.accounts = IF q.dropped >= DROP_EXPIRED_ORDER_LIMIT THEN q.accounts
                         ELSE q.accounts \cup {leaf.owner}
<1> DEFINE a == q.base
           b == q.quote
           c == q.rebates
           d == q.accounts
           e == q.dropped
           f == q.filled
           g == q.limit
           h == q.stop
           full == q.dropped >= DROP_EXPIRED_ORDER_LIMIT
           d2 == d \cup {leaf.owner}
           e2 == e + 1
<1>1. q = [base |-> a, quote |-> b, rebates |-> c, accounts |-> d, dropped |-> e, filled |-> f,
           limit |-> g, stop |-> h]
  BY DEF IsWalk
<1>2. r = IF full THEN q ELSE [q EXCEPT !.accounts = d2, !.dropped = e2]
  BY DEF ListInvalid
<1> HIDE DEF a, b, c, d, e, f, g, h, d2, e2, full
<1>3. r = [base |-> a, quote |-> b, rebates |-> c, accounts |-> IF full THEN d ELSE d2,
           dropped |-> IF full THEN e ELSE e2, filled |-> f, limit |-> g, stop |-> h]
  BY ONLY <1>1, <1>2
<1>4. /\ IsWalk(r) /\ r.base = q.base /\ r.quote = q.quote /\ r.rebates = q.rebates
      /\ r.filled = q.filled /\ r.limit = q.limit /\ r.stop = q.stop
      /\ r.dropped = (IF full THEN e ELSE e2) /\ r.accounts = (IF full THEN d ELSE d2)
  BY ONLY <1>1, <1>3 DEF IsWalk
<1> QED BY <1>4 DEF d, e, d2, e2, full

\* The end of the walk changes nothing else.
LEMMA WalkStopped ==
  ASSUME NEW q, IsWalk(q), NEW r, r = [q EXCEPT !.stop = TRUE]
  PROVE  /\ IsWalk(r) /\ r.base = q.base /\ r.quote = q.quote /\ r.rebates = q.rebates
         /\ r.accounts = q.accounts /\ r.dropped = q.dropped /\ r.filled = q.filled
         /\ r.limit = q.limit /\ r.stop = TRUE
<1> DEFINE a == q.base
           b == q.quote
           c == q.rebates
           d == q.accounts
           e == q.dropped
           f == q.filled
           g == q.limit
           h == q.stop
<1>1. q = [base |-> a, quote |-> b, rebates |-> c, accounts |-> d, dropped |-> e, filled |-> f,
           limit |-> g, stop |-> h]
  BY DEF IsWalk
<1> HIDE DEF a, b, c, d, e, f, g, h
<1>2. r = [base |-> a, quote |-> b, rebates |-> c, accounts |-> d, dropped |-> e, filled |-> f,
           limit |-> g, stop |-> TRUE]
  BY ONLY <1>1, r = [q EXCEPT !.stop = TRUE]
<1> QED BY ONLY <1>1, <1>2 DEF IsWalk

\* A fill of n lots for m quote lots, in the walk.
WalkFill(q, n, m, rebate, accounts, count) ==
  [q EXCEPT !.base = @ - n, !.quote = @ - m, !.limit = @ - 1, !.rebates = @ + rebate,
            !.accounts = accounts, !.filled = count]

\* It changes the lots wanted, the rebates, the matches left, and the accounts listed.
LEMMA WalkFilled ==
  ASSUME NEW q, IsWalk(q), NEW n, NEW m, NEW rebate, NEW accounts, NEW count,
         NEW r, r = WalkFill(q, n, m, rebate, accounts, count)
  PROVE  /\ IsWalk(r) /\ r.base = q.base - n /\ r.quote = q.quote - m
         /\ r.rebates = q.rebates + rebate /\ r.limit = q.limit - 1
         /\ r.dropped = q.dropped /\ r.stop = q.stop
         /\ r.filled = count /\ r.accounts = accounts
<1> DEFINE a == q.base
           b == q.quote
           c == q.rebates
           d == q.accounts
           e == q.dropped
           f == q.filled
           g == q.limit
           h == q.stop
           a2 == a - n
           b2 == b - m
           c2 == c + rebate
           d2 == accounts
           f2 == count
           g2 == g - 1
<1>1. q = [base |-> a, quote |-> b, rebates |-> c, accounts |-> d, dropped |-> e, filled |-> f,
           limit |-> g, stop |-> h]
  BY DEF IsWalk
<1>2. r = [q EXCEPT !.base = a2, !.quote = b2, !.limit = g2, !.rebates = c2, !.accounts = d2,
                    !.filled = f2]
  BY DEF WalkFill
<1> HIDE DEF a, b, c, d, e, f, g, h, a2, b2, c2, d2, f2, g2
<1>3. r = [base |-> a2, quote |-> b2, rebates |-> c2, accounts |-> d2, dropped |-> e,
           filled |-> f2, limit |-> g2, stop |-> h]
  BY ONLY <1>1, <1>2
<1>4. /\ IsWalk(r) /\ r.base = a2 /\ r.quote = b2 /\ r.rebates = c2 /\ r.limit = g2
      /\ r.dropped = e /\ r.stop = h /\ r.filled = f2 /\ r.accounts = d2
  BY ONLY <1>3 DEF IsWalk
<1> QED BY <1>4 DEF a, b, c, d, e, f, g, h, a2, b2, c2, d2, f2, g2

\* The quantity of a match, for what is still wanted.
MatchQuantity(wanted, item) ==
  Min({wanted.base, item.leaf.quantity, wanted.quote \div item.price})

\* When a walk that has not ended ends at a valid item.
WalkEnds(q, item) ==
  q.base = 0 \/ q.quote = 0 \/ q.limit = 0 \/ q.quote \div item.price = 0

\* What a fill of n lots of an item changes.
WalkFills(q, item, n, r) ==
  LET listed == q.filled < FILL_EVENT_REMAINING_LIMIT
  IN  /\ r.base = q.base - n /\ r.quote = q.quote - n * item.price
      /\ r.rebates = q.rebates + maker_rebate_floor(n * item.price * quote_lot_size)
      /\ r.limit = q.limit - 1 /\ r.dropped = q.dropped /\ r.stop = q.stop
      /\ r.filled = IF listed THEN q.filled + 1 ELSE q.filled
      /\ r.accounts = IF listed THEN q.accounts \cup {item.leaf.owner} ELSE q.accounts

\* What a step of the walk does.
LEMMA IterateStepIs ==
  ASSUME NEW q, IsWalk(q), NEW item, NEW r, r = IterateStep(q, item)
  PROVE  /\ IsWalk(r)
         /\ q.stop => r = q
         /\ ~q.stop /\ item.state # "Valid" => r = ListInvalid(q, item.leaf)
         /\ ~q.stop /\ item.state = "Valid" /\ WalkEnds(q, item) => r = [q EXCEPT !.stop = TRUE]
         /\ ~q.stop /\ item.state = "Valid" /\ ~WalkEnds(q, item) =>
              WalkFills(q, item, MatchQuantity(q, item), r)
<1> DEFINE n == MatchQuantity(q, item)
           listed == q.filled < FILL_EVENT_REMAINING_LIMIT
           paid == n * item.price
           rebate == maker_rebate_floor(paid * quote_lot_size)
           accounts == IF listed THEN q.accounts \cup {item.leaf.owner} ELSE q.accounts
           count == IF listed THEN q.filled + 1 ELSE q.filled
           filled == WalkFill(q, n, paid, rebate, accounts, count)
<1>1. r = IF q.stop THEN q
          ELSE IF item.state # "Valid" THEN ListInvalid(q, item.leaf)
          ELSE IF WalkEnds(q, item) THEN [q EXCEPT !.stop = TRUE]
          ELSE filled
  BY DEF IterateStep, WalkEnds, MatchQuantity, WalkFill
<1> HIDE DEF n, listed, paid, rebate, accounts, count
<1>2. /\ IsWalk(filled) /\ filled.base = q.base - n /\ filled.quote = q.quote - paid
      /\ filled.rebates = q.rebates + rebate /\ filled.limit = q.limit - 1
      /\ filled.dropped = q.dropped /\ filled.stop = q.stop
      /\ filled.filled = count /\ filled.accounts = accounts
  <2> DEFINE k == filled
  <2>1. IsWalk(q) /\ k = WalkFill(q, n, paid, rebate, accounts, count)
    OBVIOUS
  <2> HIDE DEF k
  <2>2. /\ IsWalk(k) /\ k.base = q.base - n /\ k.quote = q.quote - paid
        /\ k.rebates = q.rebates + rebate /\ k.limit = q.limit - 1
        /\ k.dropped = q.dropped /\ k.stop = q.stop
        /\ k.filled = count /\ k.accounts = accounts
    BY ONLY <2>1, WalkFilled
  <2> QED BY <2>2 DEF k
<1> HIDE DEF filled
<1>3. IsWalk(r)
  <2>1. IsWalk(ListInvalid(q, item.leaf)) /\ IsWalk([q EXCEPT !.stop = TRUE])
    BY InvalidListed, WalkStopped
  <2> QED BY <1>1, <1>2, <2>1
<1>4. ASSUME ~q.stop, item.state = "Valid", ~WalkEnds(q, item)
      PROVE  r = filled
  BY <1>1, <1>4
<1>5. WalkFills(q, item, n, filled)
  BY <1>2 DEF WalkFills, listed, paid, rebate, accounts, count
<1> QED BY <1>1, <1>3, <1>4, <1>5 DEF n

-----------------------------------------------------------------------------
(* The program's rounds for a taker without an account. *)

\* Ending the loop leaves its counts.
LEMMA StopFields ==
  ASSUME NEW m, IsLoop(m), NEW r, r = Stop(m) \/ r = StopUnposted(m)
  PROVE  /\ SameCounts(r, m) /\ r.dropped = m.dropped /\ r.filled = m.filled
         /\ r.limit = m.limit /\ r.stop = TRUE /\ r.post \in {NoTree, m.post}
<1>1. CASE r = Stop(m)
  <2>1. r = StopSet(m, TRUE)
    BY <1>1 DEF Stop, StopSet
  <2>2. Kept(r, m, "stop") /\ r.stop = TRUE
    BY <2>1, StopSetIs
  <2> QED BY <2>2 DEF SameCounts, Kept
<1>2. CASE r = StopUnposted(m)
  <2> DEFINE k == StopSet(m, TRUE)
  <2>1. r = PostSet(k, NoTree)
    BY <1>2 DEF StopUnposted, StopSet, PostSet
  <2> HIDE DEF k
  <2>2. IsLoop(k) /\ Kept(k, m, "stop") /\ k.stop = TRUE
    BY StopSetIs DEF k
  <2>3. Kept(r, k, "post") /\ r.post = NoTree
    BY <2>1, <2>2, PostSetIs
  <2> QED BY <2>2, <2>3 DEF SameCounts, Kept
<1> QED BY <1>1, <1>2

\* Dropping an invalid order is counted, and changes no other count.
LEMMA DropInvalidFields ==
  ASSUME NEW m, IsLoop(m), NEW side, NEW leaf, NEW me, NEW rem,
         NEW r, r = DropInvalid(m, side, leaf, me, rem)
  PROVE  /\ SameCounts(r, m) /\ r.filled = m.filled /\ r.limit = m.limit /\ r.stop = m.stop
         /\ r.post = m.post
         /\ r.dropped = IF m.dropped >= DROP_EXPIRED_ORDER_LIMIT THEN m.dropped ELSE m.dropped + 1
<1>1. CASE m.dropped >= DROP_EXPIRED_ORDER_LIMIT
  <2>1. r = m
    BY <1>1 DEF DropInvalid
  <2> QED BY <1>1, <2>1 DEF SameCounts
<1>2. CASE ~(m.dropped >= DROP_EXPIRED_ORDER_LIMIT)
  <2> DEFINE rs == RemoveLeaf(process_out_event(m.s, OutEvent(side, leaf), me, rem), side, leaf)
             k == DroppedSet(m, m.dropped + 1)
  <2>1. r = LoopStateSet(k, rs)
    BY <1>2 DEF DropInvalid, LoopStateSet, DroppedSet
  <2> HIDE DEF rs, k
  <2>2. IsLoop(k) /\ Kept(k, m, "dropped") /\ k.dropped = m.dropped + 1
    BY DroppedSetIs DEF k
  <2>3. Kept(r, k, "s")
    BY <2>1, <2>2, LoopStateSetIs
  <2> QED BY <1>2, <2>2, <2>3 DEF SameCounts, Kept
<1> QED BY <1>1, <1>2

\* The accounts passed along do not matter when they have the order's owner.
LEMMA DropInvalidSame ==
  ASSUME NEW m, NEW side, NEW leaf, NEW me, NEW F, NEW G,
         ~(m.dropped >= DROP_EXPIRED_ORDER_LIMIT) => leaf.owner \in F /\ leaf.owner \in G
  PROVE  DropInvalid(m, side, leaf, me, F) = DropInvalid(m, side, leaf, me, G)
<1>1. CASE m.dropped >= DROP_EXPIRED_ORDER_LIMIT
  BY <1>1 DEF DropInvalid
<1>2. CASE ~(m.dropped >= DROP_EXPIRED_ORDER_LIMIT)
  <2> DEFINE e == OutEvent(side, leaf)
  <2>1. e.owner = leaf.owner
    BY DEF OutEvent
  <2> HIDE DEF e
  <2>2. process_out_event(m.s, e, me, F) = process_out_event(m.s, e, me, G)
    BY <1>2, <2>1 DEF process_out_event
  <2> QED BY <2>2 DEF DropInvalid, e
<1> QED BY <1>1, <1>2

\* A fill of somebody else's order.
LEMMA FillFields ==
  ASSUME NEW m, IsLoop(m), NEW order, NEW item, NEW q, NEW me, item.leaf.owner # me, NEW rem,
         NEW r, r = Fill(m, order, item, q, me, rem)
  PROVE  /\ r.base = m.base - q /\ r.quote = m.quote - q * item.price
         /\ r.rebates = m.rebates + maker_rebate_floor(q * item.price * quote_lot_size)
         /\ r.limit = m.limit - 1 /\ r.dropped = m.dropped /\ r.stop = m.stop
         /\ r.filled = FilledThen(m, item.leaf.owner, rem) /\ r.post = m.post
<1> DEFINE quote_lots == q * item.price
           rebate == maker_rebate_floor(quote_lots * quote_lot_size)
           e == FillEvent(order.side, item, q, me)
           rs == Reduce(m.s, invert_side(order.side), item.leaf, q)
           k == [m EXCEPT !.base = @ - q, !.quote = @ - quote_lots, !.limit = @ - 1,
                          !.decremented = @ + 0, !.rebates = @ + rebate, !.s = rs]
<1>1. r = process_fill_event(k, e, rem)
  BY DEF Fill, FillEvent
<1>2. e.maker = item.leaf.owner
  BY DEF FillEvent
<1> HIDE DEF rs, e, rebate, quote_lots
<1>3. Matched(m, k, q, quote_lots, 0, rebate, rs)
  BY MatchedFields
<1> HIDE DEF k
<1>4. /\ IsLoop(k) /\ k.post = m.post
      /\ k.base = m.base - q /\ k.quote = m.quote - quote_lots /\ k.rebates = m.rebates + rebate
      /\ k.limit = m.limit - 1 /\ k.dropped = m.dropped /\ k.filled = m.filled /\ k.stop = m.stop
  BY <1>3 DEF Matched
<1>5. /\ SameCounts(r, k) /\ r.post = k.post /\ r.limit = k.limit /\ r.dropped = k.dropped
      /\ r.stop = k.stop /\ r.filled = FilledThen(k, e.maker, rem)
  BY <1>1, <1>4, FillEventFields
<1>6. FilledThen(k, e.maker, rem) = FilledThen(m, item.leaf.owner, rem)
  BY <1>2, <1>4 DEF FilledThen
<1>7. r.base = k.base /\ r.quote = k.quote /\ r.rebates = k.rebates
  BY <1>5 DEF SameCounts
<1> QED BY <1>4, <1>5, <1>6, <1>7 DEF quote_lots, rebate

\* Nor do they matter for a fill.
LEMMA FillSame ==
  ASSUME NEW m, IsLoop(m), NEW order, NEW item, NEW q, NEW me, item.leaf.owner # me,
         NEW F, NEW G,
         m.filled < FILL_EVENT_REMAINING_LIMIT => item.leaf.owner \in F /\ item.leaf.owner \in G
  PROVE  Fill(m, order, item, q, me, F) = Fill(m, order, item, q, me, G)
<1> DEFINE quote_lots == q * item.price
           rebate == maker_rebate_floor(quote_lots * quote_lot_size)
           e == FillEvent(order.side, item, q, me)
           rs == Reduce(m.s, invert_side(order.side), item.leaf, q)
           k == [m EXCEPT !.base = @ - q, !.quote = @ - quote_lots, !.limit = @ - 1,
                          !.decremented = @ + 0, !.rebates = @ + rebate, !.s = rs]
<1>1. /\ Fill(m, order, item, q, me, F) = process_fill_event(k, e, F)
      /\ Fill(m, order, item, q, me, G) = process_fill_event(k, e, G)
  BY DEF Fill, FillEvent
<1>2. e.maker = item.leaf.owner
  BY DEF FillEvent
<1> HIDE DEF rs, e, rebate, quote_lots
<1>3. Matched(m, k, q, quote_lots, 0, rebate, rs)
  BY MatchedFields
<1> HIDE DEF k
<1>4. k.filled = m.filled
  BY <1>3 DEF Matched
<1>5. process_fill_event(k, e, F) = process_fill_event(k, e, G)
  BY <1>2, <1>4 DEF process_fill_event
<1> QED BY <1>1, <1>5

\* A market order at its price, which is no limit.
MarketAt(order, price_lots) ==
  /\ order.side \in Sides /\ order.type = "Market"
  /\ price_lots = IF order.side = "Bid" THEN MaxPrice ELSE 1

\* What a round of such an order by a taker without an account does.
LEMMA TakerRoundIs ==
  ASSUME NEW order, NEW price_lots, MarketAt(order, price_lots), NEW c, NEW left, NEW m, NEW side,
         Round(order, c, left, m, side), ~m.stop,
         NEW px, NEW time, NEW item, Opposing(order, left, px, time, side, item),
         NEW me \in Takers, NEW rem, NEW r, r = MatchStep(m, order, price_lots, item, me, rem)
  PROVE  /\ item.leaf.owner # me /\ item.leaf.owner \in Accounts
         /\ m.base = 0 \/ m.quote = 0 => r = Stop(m)
         /\ ~(m.base = 0 \/ m.quote = 0) /\ item.state # "Valid" =>
              r = DropInvalid(m, side, item.leaf, me, rem)
         /\ ~(m.base = 0 \/ m.quote = 0) /\ item.state = "Valid" /\ WalkEnds(m, item) =>
              r = StopUnposted(m)
         /\ item.state = "Valid" /\ ~WalkEnds(m, item) =>
              r = Fill(m, order, item, MatchQuantity(m, item), me, rem)
<1> DEFINE leaf == item.leaf
           by_quote == m.quote \div item.price
           n == MatchQuantity(m, item)
           filled == Fill(m, order, item, n, me, rem)
           within == is_price_within_limit(order.side, item.price, price_lots)
<1>1. /\ side \in Sides /\ left \subseteq m.s.book[side].leaves /\ m.s.ok = TRUE
      /\ BookOk(m.s.book, OrdersOf(m.s.oo), c.w.ids)
  BY RoundParts, Zenon
<1>2. leaf \in left /\ px \in Int /\ item = Item(side, leaf, px, time) /\ Priced(side, leaf, px)
      /\ side = invert_side(order.side)
  BY DEF Opposing
<1>3. leaf \in LeafValues /\ LeafOk(leaf)
  BY <1>1, <1>2, AllLeavesFacts
<1>4. leaf.owner \in Accounts /\ leaf.owner # me
  BY <1>3, OpenBookAssumption DEF LeafValues
<1>5. ASSUME item.state = "Valid" PROVE within
  <2>1. ItemFits(side, item) /\ item.price <= MaxPrice
    BY <1>1, <1>2, <1>3, <1>5, ValidItem
  <2>2. item.price \in Nat \ {0}
    BY <2>1 DEF ItemFits
  <2>3. item.price >= 1
    BY <2>2
  <2> QED BY <2>1, <2>3 DEF is_price_within_limit, MarketAt, Sides
<1>6. ~is_post_only(order)
  BY DEF is_post_only, MarketAt
<1>7. r = IF m.base = 0 \/ m.quote = 0 THEN Stop(m)
          ELSE IF item.state # "Valid" THEN DropInvalid(m, side, leaf, me, rem)
          ELSE IF ~within THEN Stop(m)
          ELSE IF is_post_only(order) \/ m.limit = 0 \/ by_quote = 0 THEN StopUnposted(m)
          ELSE filled
  BY <1>1, <1>2, <1>4 DEF MatchStep, MatchQuantity
<1> HIDE DEF filled, within
<1>8. r = IF m.base = 0 \/ m.quote = 0 THEN Stop(m)
          ELSE IF item.state # "Valid" THEN DropInvalid(m, side, leaf, me, rem)
          ELSE IF m.limit = 0 \/ by_quote = 0 THEN StopUnposted(m)
          ELSE filled
  BY <1>5, <1>6, <1>7
<1>9. WalkEnds(m, item) <=> (m.base = 0 \/ m.quote = 0) \/ m.limit = 0 \/ by_quote = 0
  BY DEF WalkEnds
<1> HIDE DEF by_quote, leaf, n
<1>10. item.state = "Valid" /\ ~WalkEnds(m, item) => r = filled
  BY ONLY <1>8, <1>9
<1>11. ~(m.base = 0 \/ m.quote = 0) /\ item.state = "Valid" /\ WalkEnds(m, item) => r = StopUnposted(m)
  BY ONLY <1>8, <1>9
<1> QED BY <1>4, <1>8, <1>10, <1>11 DEF filled, leaf, n

\* The client's walk and the program's loop agree on the lots still wanted and on the
\* rebates; the walk may go on for the sake of the accounts, but fills nothing then.
Agrees(q, m) ==
  /\ q.base = m.base /\ q.quote = m.quote /\ q.rebates = m.rebates
  /\ ~m.stop => ~q.stop /\ q.limit = m.limit
  /\ m.stop => q.stop \/ q.base = 0 \/ q.quote = 0

\* They agree on how many makers were settled.
Counted(q, m) == ~m.stop => q.dropped = m.dropped /\ q.filled = m.filled

\* After the program's loop has ended, the walk fills nothing.
LEMMA AgreesStopped ==
  ASSUME NEW q, IsWalk(q), NEW m, m.stop, Agrees(q, m), NEW item, NEW u, u = IterateStep(q, item)
  PROVE  IsWalk(u) /\ Agrees(u, m) /\ Counted(u, m)
<1>1. /\ IsWalk(u)
      /\ q.stop => u = q
      /\ ~q.stop /\ item.state # "Valid" => u = ListInvalid(q, item.leaf)
      /\ ~q.stop /\ item.state = "Valid" /\ WalkEnds(q, item) => u = [q EXCEPT !.stop = TRUE]
  BY IterateStepIs
<1>2. q.stop \/ WalkEnds(q, item)
  BY DEF Agrees, WalkEnds
<1>3. CASE q.stop
  BY <1>1, <1>3 DEF Agrees, Counted
<1>4. CASE ~q.stop /\ item.state # "Valid"
  <2>1. u.base = q.base /\ u.quote = q.quote /\ u.rebates = q.rebates /\ u.stop = q.stop
    <3> DEFINE leaf == item.leaf
    <3>1. u = ListInvalid(q, leaf)
      BY <1>1, <1>4
    <3> HIDE DEF leaf
    <3>2. /\ IsWalk(u) /\ u.base = q.base /\ u.quote = q.quote /\ u.rebates = q.rebates
          /\ u.filled = q.filled /\ u.limit = q.limit /\ u.stop = q.stop
          /\ u.dropped = IF q.dropped >= DROP_EXPIRED_ORDER_LIMIT THEN q.dropped ELSE q.dropped + 1
          /\ u.accounts = IF q.dropped >= DROP_EXPIRED_ORDER_LIMIT THEN q.accounts
                          ELSE q.accounts \cup {leaf.owner}
      BY <3>1, InvalidListed
    <3> QED BY <3>2
  <2> QED BY <1>1, <2>1 DEF Agrees, Counted
<1>5. CASE ~q.stop /\ item.state = "Valid"
  <2>1. u.base = q.base /\ u.quote = q.quote /\ u.rebates = q.rebates /\ u.stop = TRUE
    BY <1>1, <1>2, <1>5, WalkStopped
  <2> QED BY <1>1, <2>1 DEF Agrees, Counted
<1> QED BY <1>3, <1>4, <1>5

\* A step of the walk and a round of the loop over the same item keep them in agreement.
LEMMA AgreesGoing ==
  ASSUME NEW order, NEW price_lots, MarketAt(order, price_lots), NEW c, NEW left, NEW m, NEW side,
         Round(order, c, left, m, side), ~m.stop,
         NEW px, NEW time, NEW item, Opposing(order, left, px, time, side, item),
         NEW me \in Takers, NEW rem, NEW r, r = MatchStep(m, order, price_lots, item, me, rem),
         NEW q, IsWalk(q), Agrees(q, m), NEW u, u = IterateStep(q, item)
  PROVE  /\ IsWalk(u) /\ Agrees(u, r)
         /\ Accounts \subseteq rem /\ Counted(q, m) => Counted(u, r)
<1> DEFINE n == MatchQuantity(m, item)
           full == q.dropped >= DROP_EXPIRED_ORDER_LIMIT
           paid == n * item.price
           rebate == maker_rebate_floor(paid * quote_lot_size)
<1>1. /\ item.leaf.owner # me /\ item.leaf.owner \in Accounts
      /\ m.base = 0 \/ m.quote = 0 => r = Stop(m)
      /\ ~(m.base = 0 \/ m.quote = 0) /\ item.state # "Valid" =>
           r = DropInvalid(m, side, item.leaf, me, rem)
      /\ ~(m.base = 0 \/ m.quote = 0) /\ item.state = "Valid" /\ WalkEnds(m, item) =>
           r = StopUnposted(m)
      /\ item.state = "Valid" /\ ~WalkEnds(m, item) => r = Fill(m, order, item, n, me, rem)
  BY TakerRoundIs
<1>2. q.base = m.base /\ q.quote = m.quote /\ q.rebates = m.rebates /\ ~q.stop /\ q.limit = m.limit
  BY DEF Agrees
<1>3. IsLoop(m)
  BY RoundParts, Zenon
<1>4. MatchQuantity(q, item) = n /\ (WalkEnds(q, item) <=> WalkEnds(m, item))
  BY <1>2 DEF MatchQuantity, WalkEnds
<1>5. /\ IsWalk(u)
      /\ item.state # "Valid" => u = ListInvalid(q, item.leaf)
      /\ item.state = "Valid" /\ WalkEnds(m, item) => u = [q EXCEPT !.stop = TRUE]
      /\ item.state = "Valid" /\ ~WalkEnds(m, item) => WalkFills(q, item, n, u)
  <2> DEFINE k == MatchQuantity(q, item)
  <2>1. /\ IsWalk(u)
        /\ q.stop => u = q
        /\ ~q.stop /\ item.state # "Valid" => u = ListInvalid(q, item.leaf)
        /\ ~q.stop /\ item.state = "Valid" /\ WalkEnds(q, item) => u = [q EXCEPT !.stop = TRUE]
        /\ ~q.stop /\ item.state = "Valid" /\ ~WalkEnds(q, item) => WalkFills(q, item, k, u)
    BY IterateStepIs
  <2>2. k = n
    BY <1>4
  <2> HIDE DEF k, n
  <2> QED BY <1>2, <1>4, <2>1, <2>2
<1> HIDE DEF n, paid, rebate
<1>11. ASSUME item.state # "Valid"
       PROVE  /\ u.base = q.base /\ u.quote = q.quote /\ u.rebates = q.rebates
              /\ u.filled = q.filled /\ u.limit = q.limit /\ u.stop = q.stop
              /\ u.dropped = IF full THEN q.dropped ELSE q.dropped + 1
  <2> DEFINE leaf == item.leaf
  <2>1. u = ListInvalid(q, leaf)
    BY <1>5, <1>11
  <2> HIDE DEF leaf
  <2>2. /\ IsWalk(u) /\ u.base = q.base /\ u.quote = q.quote /\ u.rebates = q.rebates
        /\ u.filled = q.filled /\ u.limit = q.limit /\ u.stop = q.stop
        /\ u.dropped = IF q.dropped >= DROP_EXPIRED_ORDER_LIMIT THEN q.dropped ELSE q.dropped + 1
        /\ u.accounts = IF q.dropped >= DROP_EXPIRED_ORDER_LIMIT THEN q.accounts
                        ELSE q.accounts \cup {leaf.owner}
    BY <2>1, InvalidListed
  <2> QED BY <2>2
<1>12. ASSUME item.state = "Valid", WalkEnds(m, item)
       PROVE  u.base = q.base /\ u.quote = q.quote /\ u.rebates = q.rebates /\ u.stop = TRUE
  <2>1. u = [q EXCEPT !.stop = TRUE]
    BY <1>5, <1>12
  <2> QED BY <2>1, WalkStopped
<1>6. CASE m.base = 0 \/ m.quote = 0
  <2>1. SameCounts(r, m) /\ r.stop = TRUE
    BY <1>1, <1>3, <1>6, StopFields
  <2>2. u.base = q.base /\ u.quote = q.quote /\ u.rebates = q.rebates
    <3>1. CASE item.state # "Valid"
      BY <1>11, <3>1
    <3>2. CASE item.state = "Valid"
      <4>1. WalkEnds(m, item)
        BY <1>6 DEF WalkEnds
      <4> QED BY <1>12, <3>2, <4>1
    <3> QED BY <3>1, <3>2
  <2> QED BY <1>2, <1>5, <1>6, <2>1, <2>2 DEF Agrees, Counted, SameCounts
<1>7. CASE ~(m.base = 0 \/ m.quote = 0) /\ item.state # "Valid"
  <2>1. /\ SameCounts(r, m) /\ r.filled = m.filled /\ r.limit = m.limit /\ r.stop = m.stop
        /\ r.dropped = IF m.dropped >= DROP_EXPIRED_ORDER_LIMIT THEN m.dropped ELSE m.dropped + 1
    BY <1>1, <1>3, <1>7, DropInvalidFields
  <2>2. /\ u.base = q.base /\ u.quote = q.quote /\ u.rebates = q.rebates
        /\ u.filled = q.filled /\ u.limit = q.limit /\ u.stop = q.stop
        /\ u.dropped = IF q.dropped >= DROP_EXPIRED_ORDER_LIMIT THEN q.dropped ELSE q.dropped + 1
    BY <1>7, <1>11
  <2>3. Agrees(u, r)
    BY <1>2, <2>1, <2>2 DEF Agrees, SameCounts
  <2>4. Counted(q, m) => Counted(u, r)
    BY <2>1, <2>2 DEF Counted
  <2> QED BY <1>5, <2>3, <2>4
<1>8. CASE ~(m.base = 0 \/ m.quote = 0) /\ item.state = "Valid" /\ WalkEnds(m, item)
  <2>1. SameCounts(r, m) /\ r.stop = TRUE
    BY <1>1, <1>3, <1>8, StopFields
  <2>2. u.base = q.base /\ u.quote = q.quote /\ u.rebates = q.rebates /\ u.stop = TRUE
    BY <1>8, <1>12
  <2> QED BY <1>2, <1>5, <2>1, <2>2 DEF Agrees, Counted, SameCounts
<1>9. CASE item.state = "Valid" /\ ~WalkEnds(m, item)
  <2>0. /\ u.base = q.base - n /\ u.quote = q.quote - paid /\ u.rebates = q.rebates + rebate
        /\ u.limit = q.limit - 1 /\ u.dropped = q.dropped /\ u.stop = q.stop
        /\ u.filled = IF q.filled < FILL_EVENT_REMAINING_LIMIT THEN q.filled + 1 ELSE q.filled
    <3>1. WalkFills(q, item, n, u)
      BY <1>5, <1>9
    <3> QED BY ONLY <3>1 DEF WalkFills, paid, rebate
  <2>1. /\ r.base = m.base - n /\ r.quote = m.quote - paid /\ r.rebates = m.rebates + rebate
        /\ r.limit = m.limit - 1 /\ r.dropped = m.dropped /\ r.stop = m.stop
        /\ r.filled = FilledThen(m, item.leaf.owner, rem)
    <3>1. r = Fill(m, order, item, n, me, rem)
      BY <1>1, <1>9
    <3> QED BY <1>1, <1>3, <3>1, FillFields DEF paid, rebate
  <2>2. Agrees(u, r)
    BY <1>2, <2>0, <2>1 DEF Agrees
  <2>3. ASSUME Accounts \subseteq rem, Counted(q, m) PROVE Counted(u, r)
    <3>1. q.dropped = m.dropped /\ q.filled = m.filled
      BY <2>3 DEF Counted
    <3>2. r.filled = IF m.filled < FILL_EVENT_REMAINING_LIMIT THEN m.filled + 1 ELSE m.filled
      BY <1>1, <2>1, <2>3 DEF FilledThen
    <3> QED BY <2>0, <2>1, <3>1, <3>2 DEF Counted
  <2> QED BY <1>5, <2>2, <2>3
<1>10. WalkEnds(m, item) \/ ~(m.base = 0 \/ m.quote = 0)
  BY DEF WalkEnds
<1> QED BY <1>6, <1>7, <1>8, <1>9, <1>10

\* A round does the same with the accounts that the walk has listed by then as with all.
LEMMA RoundSame ==
  ASSUME NEW order, NEW price_lots, MarketAt(order, price_lots), NEW c, NEW left, NEW m, NEW side,
         Round(order, c, left, m, side), ~m.stop,
         NEW px, NEW time, NEW item, Opposing(order, left, px, time, side, item),
         NEW me \in Takers, NEW q, IsWalk(q), Agrees(q, m), Counted(q, m),
         NEW u, u = IterateStep(q, item), NEW F, u.accounts \subseteq F,
         NEW a, a = MatchStep(m, order, price_lots, item, me, Accounts),
         NEW b, b = MatchStep(m, order, price_lots, item, me, F)
  PROVE  a = b
<1> DEFINE n == MatchQuantity(m, item)
           owner == item.leaf.owner
           none == m.base = 0 \/ m.quote = 0
           valid == item.state = "Valid"
           ends == WalkEnds(m, item)
           dropA == DropInvalid(m, side, item.leaf, me, Accounts)
           dropB == DropInvalid(m, side, item.leaf, me, F)
           fillA == Fill(m, order, item, n, me, Accounts)
           fillB == Fill(m, order, item, n, me, F)
<1>1. /\ owner # me /\ owner \in Accounts
      /\ none => a = Stop(m)
      /\ ~none /\ ~valid => a = dropA
      /\ ~none /\ valid /\ ends => a = StopUnposted(m)
      /\ valid /\ ~ends => a = fillA
  BY TakerRoundIs
<1>2. /\ owner # me /\ owner \in Accounts
      /\ none => b = Stop(m)
      /\ ~none /\ ~valid => b = dropB
      /\ ~none /\ valid /\ ends => b = StopUnposted(m)
      /\ valid /\ ~ends => b = fillB
  BY TakerRoundIs
<1>3. IsLoop(m)
  BY RoundParts, Zenon
<1>4. ~q.stop /\ q.dropped = m.dropped /\ q.filled = m.filled /\ (WalkEnds(q, item) <=> ends)
  BY DEF Agrees, Counted, WalkEnds
<1>5. /\ IsWalk(u)
      /\ q.stop => u = q
      /\ ~q.stop /\ item.state # "Valid" => u = ListInvalid(q, item.leaf)
      /\ ~q.stop /\ item.state = "Valid" /\ WalkEnds(q, item) => u = [q EXCEPT !.stop = TRUE]
      /\ ~q.stop /\ item.state = "Valid" /\ ~WalkEnds(q, item) =>
           WalkFills(q, item, MatchQuantity(q, item), u)
  BY IterateStepIs
<1>6. ASSUME ~valid PROVE dropA = dropB
  <2> DEFINE leaf == item.leaf
  <2>1. u = ListInvalid(q, leaf)
    BY <1>4, <1>5, <1>6
  <2>2. leaf.owner \in Accounts
    BY <1>1
  <2> HIDE DEF leaf
  <2>3. /\ IsWalk(u) /\ u.base = q.base /\ u.quote = q.quote /\ u.rebates = q.rebates
        /\ u.filled = q.filled /\ u.limit = q.limit /\ u.stop = q.stop
        /\ u.dropped = IF q.dropped >= DROP_EXPIRED_ORDER_LIMIT THEN q.dropped ELSE q.dropped + 1
        /\ u.accounts = IF q.dropped >= DROP_EXPIRED_ORDER_LIMIT THEN q.accounts
                        ELSE q.accounts \cup {leaf.owner}
    BY <2>1, InvalidListed
  <2>4. ~(m.dropped >= DROP_EXPIRED_ORDER_LIMIT) => leaf.owner \in F
    BY <1>4, <2>3
  <2>5. DropInvalid(m, side, leaf, me, Accounts) = DropInvalid(m, side, leaf, me, F)
    BY ONLY <2>2, <2>4, DropInvalidSame
  <2> QED BY <2>5 DEF leaf
<1>7. ASSUME valid, ~ends PROVE fillA = fillB
  <2>1. WalkFills(q, item, MatchQuantity(q, item), u)
    BY <1>4, <1>5, <1>7
  <2>2. m.filled < FILL_EVENT_REMAINING_LIMIT => owner \in F
    BY <1>4, <2>1 DEF WalkFills
  <2> HIDE DEF n
  <2> QED BY ONLY <1>1, <1>3, <2>2, FillSame
<1> HIDE DEF none, valid, ends, dropA, dropB, fillA, fillB
<1> QED BY ONLY <1>1, <1>2, <1>6, <1>7

\* The client's walk as an instance of the recursion: the state it starts in ...
QuoteFirst(p) == p.start
\* ... and one step over the item the iterator yielded.
QuoteRound(p, q, i) == IterateStep(q, p.items[i])
\* The instance whose fold these operators define.
Quoting == INSTANCE Recursion WITH Start <- QuoteFirst, Step <- QuoteRound, Pick <- Max

\* The walk after the first k of the items.
WalkedUpTo(start, items, k) == Quoting!Fold([start |-> start, items |-> items], 1 .. k)

\* The accounts listed stay listed.
LEMMA StepKeepsAccounts ==
  ASSUME NEW q, IsWalk(q), NEW item, NEW u, u = IterateStep(q, item)
  PROVE  IsWalk(u) /\ q.accounts \subseteq u.accounts
<1>1. /\ IsWalk(u)
      /\ q.stop => u = q
      /\ ~q.stop /\ item.state # "Valid" => u = ListInvalid(q, item.leaf)
      /\ ~q.stop /\ item.state = "Valid" /\ WalkEnds(q, item) => u = [q EXCEPT !.stop = TRUE]
      /\ ~q.stop /\ item.state = "Valid" /\ ~WalkEnds(q, item) =>
           WalkFills(q, item, MatchQuantity(q, item), u)
  BY IterateStepIs
<1>2. CASE q.stop
  BY <1>1, <1>2
<1>3. CASE ~q.stop /\ item.state # "Valid"
  <2> DEFINE leaf == item.leaf
  <2>1. u = ListInvalid(q, leaf)
    BY <1>1, <1>3
  <2> HIDE DEF leaf
  <2>2. /\ IsWalk(u) /\ u.base = q.base /\ u.quote = q.quote /\ u.rebates = q.rebates
        /\ u.filled = q.filled /\ u.limit = q.limit /\ u.stop = q.stop
        /\ u.dropped = IF q.dropped >= DROP_EXPIRED_ORDER_LIMIT THEN q.dropped ELSE q.dropped + 1
        /\ u.accounts = IF q.dropped >= DROP_EXPIRED_ORDER_LIMIT THEN q.accounts
                        ELSE q.accounts \cup {leaf.owner}
    BY <2>1, InvalidListed
  <2> QED BY <1>1, <2>2
<1>4. CASE ~q.stop /\ item.state = "Valid" /\ WalkEnds(q, item)
  <2>1. u = [q EXCEPT !.stop = TRUE]
    BY <1>1, <1>4
  <2>2. u.accounts = q.accounts
    BY <2>1, WalkStopped
  <2> QED BY <1>1, <2>2
<1>5. CASE ~q.stop /\ item.state = "Valid" /\ ~WalkEnds(q, item)
  <2>1. WalkFills(q, item, MatchQuantity(q, item), u)
    BY <1>1, <1>5
  <2> QED BY <1>1, <2>1 DEF WalkFills
<1> QED BY <1>2, <1>3, <1>4, <1>5

\* The walk takes the items one by one.
LEMMA WalkRounds ==
  ASSUME NEW start, IsWalk(start), NEW items, Len(items) \in Nat, DOMAIN items = 1 .. Len(items)
  PROVE  LET At(k) == WalkedUpTo(start, items, k)
         IN  /\ FoldLeft(IterateStep, start, items) = At(Len(items))
             /\ At(0) = start
             /\ \A k \in 1 .. Len(items) : At(k) = IterateStep(At(k - 1), items[k])
             /\ \A k \in 0 .. Len(items) :
                  IsWalk(At(k)) /\ At(k).accounts \subseteq At(Len(items)).accounts
<1> DEFINE p == [start |-> start, items |-> items]
           n == Len(items)
           At(k) == WalkedUpTo(start, items, k)
<1>1. FoldLeft(IterateStep, start, items) = Quoting!Fold(p, DOMAIN items)
  BY DEF FoldLeft, MapThenFoldSet, Quoting!Fold, QuoteFirst, QuoteRound
<1>2. p.start = start /\ p.items = items
  OBVIOUS
<1>3. \A k : At(k) = Quoting!Fold(p, 1 .. k)
  BY DEF WalkedUpTo
<1> HIDE DEF p, At
<1>4. At(0) = start /\ \A k \in 1 .. n : At(k) = IterateStep(At(k - 1), items[k])
  <2>1. \A T \in SUBSET (1 .. n) : T # {} => Max(T) \in T /\ \A y \in T : y <= Max(T)
    BY MaxFacts
  <2>2. /\ Quoting!Fold(p, 1 .. 0) = QuoteFirst(p)
        /\ \A k \in 1 .. n : Quoting!Fold(p, 1 .. k) = QuoteRound(p, Quoting!Fold(p, 1 .. (k - 1)), k)
    BY <2>1, Quoting!FoldInTurn
  <2>3. \A k \in 1 .. n : At(k) = QuoteRound(p, At(k - 1), k)
    BY <1>3, <2>2
  <2> QED BY <1>2, <1>3, <2>2, <2>3 DEF QuoteFirst, QuoteRound
<1>5. FoldLeft(IterateStep, start, items) = At(n)
  BY <1>1, <1>3
<1>6. \A k \in 0 .. n : IsWalk(At(k))
  <2> DEFINE S == {k \in Nat : k <= n => IsWalk(At(k))}
  <2>1. 0 \in S
    BY <1>4
  <2>2. ASSUME NEW k \in Nat, k \in S PROVE k + 1 \in S
    <3>1. CASE k + 1 <= n
      <4>1. k + 1 \in 1 .. n /\ (k + 1) - 1 = k /\ IsWalk(At(k))
        BY <2>2, <3>1
      <4>2. At(k + 1) = IterateStep(At(k), items[k + 1])
        BY <1>4, <4>1
      <4>3. IsWalk(At(k + 1))
        BY <4>1, <4>2, StepKeepsAccounts
      <4> QED BY <4>3
    <3> QED BY <3>1
  <2> HIDE DEF S
  <2>3. Nat \subseteq S
    BY <2>1, <2>2, NatInd
  <2> QED BY <2>3 DEF S
<1>7. ASSUME NEW i \in 0 .. n
      PROVE  At(i).accounts \subseteq At(n).accounts
  <2> DEFINE S == {k \in Nat : i <= k /\ k <= n => At(i).accounts \subseteq At(k).accounts}
  <2>1. 0 \in S
    <3>1. i <= 0 => i = 0
      OBVIOUS
    <3> QED BY <3>1
  <2>2. ASSUME NEW k \in Nat, k \in S PROVE k + 1 \in S
    <3>1. CASE i <= k /\ k + 1 <= n
      <4>1. k + 1 \in 1 .. n /\ (k + 1) - 1 = k /\ k \in 0 .. n /\ At(i).accounts \subseteq At(k).accounts
        BY <2>2, <3>1
      <4>2. At(k + 1) = IterateStep(At(k), items[k + 1]) /\ IsWalk(At(k))
        BY <1>4, <1>6, <4>1
      <4>3. At(k).accounts \subseteq At(k + 1).accounts
        BY <4>2, StepKeepsAccounts
      <4> QED BY <4>1, <4>3
    <3>2. CASE ~(i <= k)
      <4>1. i <= k + 1 => i = k + 1
        BY <3>2
      <4> QED BY <4>1
    <3>3. CASE ~(k + 1 <= n)
      BY <3>3
    <3> QED BY <3>1, <3>2, <3>3
  <2> HIDE DEF S
  <2>3. Nat \subseteq S
    BY <2>1, <2>2, NatInd
  <2>4. n \in S
    BY <2>3
  <2> QED BY <2>4 DEF S
<1> QED BY <1>4, <1>5, <1>6, <1>7 DEF At

\* A taker without an account has its market order matched in a good state.
TakerGiven(s, order, c, px, me, side, price_lots) ==
  /\ MarketAt(order, price_lots) /\ order.max_base_lots \in Nat
  /\ order_max_quote_lots(order) \in Nat
  /\ ContextOk(c) /\ c.base_lots = order.max_base_lots
  /\ c.quote_lots = order_max_quote_lots(order)
  /\ IsState(s) /\ s.ok = TRUE /\ Good(s, s.heap, c.base, c.quote, c.lock, c.w)
  /\ px \in Int /\ me \in Takers /\ side = invert_side(order.side)

\* The loop over such an order takes the items one by one, in good states.
LEMMA TakerRounds ==
  ASSUME NEW s, NEW order, NEW c, NEW px, NEW me, NEW side, NEW price_lots,
         TakerGiven(s, order, c, px, me, side, price_lots), NEW time, NEW limit, NEW rem,
         NEW items, items = iter_all(side, s.book[side], px, time)
  PROVE  LET At(k) == MatchedUpTo(s, order, price_lots, items, limit, me, rem, k)
         IN  /\ Len(items) \in Nat
             /\ Match(s, order, price_lots, px, time, limit, me, rem) = At(Len(items))
             /\ At(0) = MatchStart(s, order, limit)
             /\ \A k \in 1 .. Len(items) :
                  /\ At(k) = MatchStep(At(k - 1), order, price_lots, items[k], me, rem)
                  /\ Opposing(order, LeavesFrom(items, k), px, time, side, items[k])
                  /\ IsLoop(At(k - 1)) /\ At(k - 1).s.ok \in BOOLEAN
                  /\ At(k - 1).s.ok => Round(order, c, LeavesFrom(items, k), At(k - 1), side)
             /\ LoopOk(order, c, {}, At(Len(items)))
<1> DEFINE n == Len(items)
           At(k) == MatchedUpTo(s, order, price_lots, items, limit, me, rem, k)
<1>1. /\ order.side \in Sides /\ order.max_base_lots \in Nat
      /\ order_max_quote_lots(order) \in Nat
      /\ ContextOk(c) /\ c.base_lots = order.max_base_lots
      /\ c.quote_lots = order_max_quote_lots(order)
      /\ IsState(s) /\ s.ok = TRUE /\ Good(s, s.heap, c.base, c.quote, c.lock, c.w)
      /\ px \in Int /\ me \in Traders /\ side = invert_side(order.side)
  BY DEF TakerGiven, MarketAt, Traders
<1>2. /\ Len(items) \in Nat
      /\ Match(s, order, price_lots, px, time, limit, me, rem) = At(n)
      /\ At(0) = MatchStart(s, order, limit)
      /\ \A k \in 1 .. n :
           /\ At(k) = MatchStep(At(k - 1), order, price_lots, items[k], me, rem)
           /\ Opposing(order, LeavesFrom(items, k), px, time, side, items[k])
      /\ \A k \in 0 .. n : LoopOk(order, c, LeavesFrom(items, k + 1), At(k))
  <2>1. GoodRounds(s, order, c, price_lots, px, time, limit, me, rem, side, items)
    BY <1>1, MatchRoundsOk
  <2> QED BY ONLY <2>1 DEF GoodRounds
<1> HIDE DEF At
<1>3. side \in Sides
  BY <1>1 DEF Sides, invert_side
<1>4. ASSUME NEW k \in 1 .. n
      PROVE  /\ IsLoop(At(k - 1)) /\ At(k - 1).s.ok \in BOOLEAN
             /\ At(k - 1).s.ok => Round(order, c, LeavesFrom(items, k), At(k - 1), side)
  <2>1. k - 1 \in 0 .. n /\ (k - 1) + 1 = k
    BY <1>2
  <2>2. LoopOk(order, c, LeavesFrom(items, k), At(k - 1))
    BY <1>2, <2>1
  <2>3. IsLoop(At(k - 1)) /\ At(k - 1).s.ok \in BOOLEAN
    BY <2>2 DEF LoopOk
  <2> QED BY <1>1, <1>3, <2>2, <2>3 DEF Round
<1>5. LoopOk(order, c, {}, At(n))
  <2>1. LoopOk(order, c, LeavesFrom(items, n + 1), At(n))
    BY <1>2
  <2>2. {} \subseteq LeavesFrom(items, n + 1)
    OBVIOUS
  <2> QED BY <2>1, <2>2, LoopFewer
<1> QED BY <1>2, <1>4, <1>5 DEF At

\* A loop that has failed stays as it is.
LEMMA FailedStays ==
  ASSUME NEW m, NEW order, NEW price_lots, NEW item, NEW me, NEW rem, ~m.s.ok
  PROVE  MatchStep(m, order, price_lots, item, me, rem) = m
BY DEF MatchStep

\* So does one that has ended.
LEMMA StoppedStays ==
  ASSUME NEW m, NEW order, NEW price_lots, NEW item, NEW me, NEW rem, m.stop
  PROVE  MatchStep(m, order, price_lots, item, me, rem) = m
BY DEF MatchStep

\* The client's walk and the program's loop agree after every item, unless the loop failed;
\* if all accounts are passed along they agree on the makers settled, too.
LEMMA RunsAgree ==
  ASSUME NEW s, NEW order, NEW c, NEW px, NEW me, NEW side, NEW price_lots,
         TakerGiven(s, order, c, px, me, side, price_lots), NEW time, NEW limit, NEW rem,
         NEW items, items = iter_all(side, s.book[side], px, time),
         DOMAIN items = 1 .. Len(items),
         NEW start, IsWalk(start), Agrees(start, MatchStart(s, order, limit)),
         Counted(start, MatchStart(s, order, limit)),
         NEW k \in 0 .. Len(items)
  PROVE  LET m == MatchedUpTo(s, order, price_lots, items, limit, me, rem, k)
             q == WalkedUpTo(start, items, k)
         IN  m.s.ok => Agrees(q, m) /\ (Accounts \subseteq rem => Counted(q, m))
<1> DEFINE n == Len(items)
           At(i) == MatchedUpTo(s, order, price_lots, items, limit, me, rem, i)
           Q(i) == WalkedUpTo(start, items, i)
           OkAt(i) == At(i).s.ok => Agrees(Q(i), At(i)) /\ (Accounts \subseteq rem => Counted(Q(i), At(i)))
           S == {i \in Nat : i <= n => OkAt(i)}
<1>1. /\ n \in Nat /\ At(0) = MatchStart(s, order, limit)
      /\ \A i \in 1 .. n :
           /\ At(i) = MatchStep(At(i - 1), order, price_lots, items[i], me, rem)
           /\ Opposing(order, LeavesFrom(items, i), px, time, side, items[i])
           /\ IsLoop(At(i - 1)) /\ At(i - 1).s.ok \in BOOLEAN
           /\ At(i - 1).s.ok => Round(order, c, LeavesFrom(items, i), At(i - 1), side)
  <2>1. /\ Len(items) \in Nat
        /\ Match(s, order, price_lots, px, time, limit, me, rem) = At(Len(items))
        /\ At(0) = MatchStart(s, order, limit)
        /\ \A i \in 1 .. Len(items) :
             /\ At(i) = MatchStep(At(i - 1), order, price_lots, items[i], me, rem)
             /\ Opposing(order, LeavesFrom(items, i), px, time, side, items[i])
             /\ IsLoop(At(i - 1)) /\ At(i - 1).s.ok \in BOOLEAN
             /\ At(i - 1).s.ok => Round(order, c, LeavesFrom(items, i), At(i - 1), side)
        /\ LoopOk(order, c, {}, At(Len(items)))
    BY TakerRounds
  <2> HIDE DEF At
  <2> QED BY <2>1
<1>2. /\ Q(0) = start
      /\ \A i \in 1 .. n : Q(i) = IterateStep(Q(i - 1), items[i])
      /\ \A i \in 0 .. n : IsWalk(Q(i))
  <2>1. /\ FoldLeft(IterateStep, start, items) = Q(Len(items))
        /\ Q(0) = start
        /\ \A i \in 1 .. Len(items) : Q(i) = IterateStep(Q(i - 1), items[i])
        /\ \A i \in 0 .. Len(items) : IsWalk(Q(i)) /\ Q(i).accounts \subseteq Q(Len(items)).accounts
    <3>1. IsWalk(start) /\ DOMAIN items = 1 .. Len(items) /\ Len(items) \in Nat
      BY <1>1
    <3> QED BY ONLY <3>1, WalkRounds
  <2> HIDE DEF Q
  <2> QED BY <2>1
<1>3. MarketAt(order, price_lots) /\ me \in Takers
  BY DEF TakerGiven
<1> HIDE DEF At, Q, n
<1>4. 0 \in S
  BY <1>1, <1>2
<1>5. ASSUME NEW i \in Nat, i \in S PROVE i + 1 \in S
  <2>1. SUFFICES ASSUME i + 1 <= n, At(i + 1).s.ok
                 PROVE  Agrees(Q(i + 1), At(i + 1))
                        /\ (Accounts \subseteq rem => Counted(Q(i + 1), At(i + 1)))
    OBVIOUS
  <2> DEFINE m == At(i)
             q == Q(i)
             r == At(i + 1)
             u == Q(i + 1)
             item == items[i + 1]
             left == LeavesFrom(items, i + 1)
  <2>2. i + 1 \in 1 .. n /\ (i + 1) - 1 = i /\ i \in 0 .. n
    BY <1>1, <2>1
  <2>3. /\ r = MatchStep(m, order, price_lots, item, me, rem)
        /\ Opposing(order, left, px, time, side, item)
        /\ m.s.ok => Round(order, c, left, m, side)
    BY <1>1, <2>2
  <2>4. u = IterateStep(q, item) /\ IsWalk(q)
    BY <1>2, <2>2
  <2>5. m.s.ok
    BY <2>1, <2>3, FailedStays
  <2>6. Agrees(q, m) /\ (Accounts \subseteq rem => Counted(q, m))
    BY <1>5, <2>2, <2>5
  <2> HIDE DEF m, q, r, u, item, left, S
  <2>7. CASE m.stop
    <3>1. r = m
      BY <2>3, <2>7, StoppedStays
    <3>2. IsWalk(u) /\ Agrees(u, m) /\ Counted(u, m)
      BY ONLY <2>4, <2>6, <2>7, AgreesStopped
    <3> QED BY <3>1, <3>2 DEF r, u
  <2>8. CASE ~m.stop
    <3>1. Round(order, c, left, m, side)
      BY <2>3, <2>5
    <3>2. /\ IsWalk(u) /\ Agrees(u, r)
          /\ Accounts \subseteq rem /\ Counted(q, m) => Counted(u, r)
      BY ONLY <1>3, <2>3, <2>4, <2>6, <2>8, <3>1, AgreesGoing
    <3> QED BY <2>6, <3>2 DEF r, u
  <2> QED BY <2>7, <2>8
<1> HIDE DEF S
<1>6. Nat \subseteq S
  BY <1>4, <1>5, NatInd
<1>7. k \in S /\ k <= n
  BY <1>6 DEF n
<1>8. OkAt(k)
  BY <1>7 DEF S
<1> QED BY <1>8 DEF At, Q

\* The loop is the same for the accounts that the walk lists as for all accounts.
LEMMA RunsSame ==
  ASSUME NEW s, NEW order, NEW c, NEW px, NEW me, NEW side, NEW price_lots,
         TakerGiven(s, order, c, px, me, side, price_lots), NEW time, NEW limit,
         NEW items, items = iter_all(side, s.book[side], px, time),
         DOMAIN items = 1 .. Len(items),
         NEW start, IsWalk(start), Agrees(start, MatchStart(s, order, limit)),
         Counted(start, MatchStart(s, order, limit)),
         NEW F, F = WalkedUpTo(start, items, Len(items)).accounts
  PROVE  Match(s, order, price_lots, px, time, limit, me, F)
           = Match(s, order, price_lots, px, time, limit, me, Accounts)
<1> DEFINE n == Len(items)
           At(i) == MatchedUpTo(s, order, price_lots, items, limit, me, Accounts, i)
           Bt(i) == MatchedUpTo(s, order, price_lots, items, limit, me, F, i)
           Q(i) == WalkedUpTo(start, items, i)
           S == {i \in Nat : i <= n => Bt(i) = At(i)}
<1>1. /\ n \in Nat /\ At(0) = MatchStart(s, order, limit)
      /\ Match(s, order, price_lots, px, time, limit, me, Accounts) = At(n)
      /\ \A i \in 1 .. n :
           /\ At(i) = MatchStep(At(i - 1), order, price_lots, items[i], me, Accounts)
           /\ Opposing(order, LeavesFrom(items, i), px, time, side, items[i])
           /\ IsLoop(At(i - 1)) /\ At(i - 1).s.ok \in BOOLEAN
           /\ At(i - 1).s.ok => Round(order, c, LeavesFrom(items, i), At(i - 1), side)
  <2>1. /\ Len(items) \in Nat
        /\ Match(s, order, price_lots, px, time, limit, me, Accounts) = At(Len(items))
        /\ At(0) = MatchStart(s, order, limit)
        /\ \A i \in 1 .. Len(items) :
             /\ At(i) = MatchStep(At(i - 1), order, price_lots, items[i], me, Accounts)
             /\ Opposing(order, LeavesFrom(items, i), px, time, side, items[i])
             /\ IsLoop(At(i - 1)) /\ At(i - 1).s.ok \in BOOLEAN
             /\ At(i - 1).s.ok => Round(order, c, LeavesFrom(items, i), At(i - 1), side)
        /\ LoopOk(order, c, {}, At(Len(items)))
    BY TakerRounds
  <2> HIDE DEF At
  <2> QED BY <2>1
<1>2. /\ Bt(0) = MatchStart(s, order, limit)
      /\ Match(s, order, price_lots, px, time, limit, me, F) = Bt(n)
      /\ \A i \in 1 .. n : Bt(i) = MatchStep(Bt(i - 1), order, price_lots, items[i], me, F)
  <2>1. /\ Len(items) \in Nat
        /\ Match(s, order, price_lots, px, time, limit, me, F) = Bt(Len(items))
        /\ Bt(0) = MatchStart(s, order, limit)
        /\ \A i \in 1 .. Len(items) :
             /\ Bt(i) = MatchStep(Bt(i - 1), order, price_lots, items[i], me, F)
             /\ Opposing(order, LeavesFrom(items, i), px, time, side, items[i])
             /\ IsLoop(Bt(i - 1)) /\ Bt(i - 1).s.ok \in BOOLEAN
             /\ Bt(i - 1).s.ok => Round(order, c, LeavesFrom(items, i), Bt(i - 1), side)
        /\ LoopOk(order, c, {}, Bt(Len(items)))
    BY TakerRounds
  <2> HIDE DEF Bt
  <2> QED BY <2>1
<1>3. /\ \A i \in 1 .. n : Q(i) = IterateStep(Q(i - 1), items[i])
      /\ \A i \in 0 .. n : IsWalk(Q(i)) /\ Q(i).accounts \subseteq F
  <2>1. /\ FoldLeft(IterateStep, start, items) = Q(Len(items))
        /\ Q(0) = start
        /\ \A i \in 1 .. Len(items) : Q(i) = IterateStep(Q(i - 1), items[i])
        /\ \A i \in 0 .. Len(items) : IsWalk(Q(i)) /\ Q(i).accounts \subseteq Q(Len(items)).accounts
    <3>1. IsWalk(start) /\ DOMAIN items = 1 .. Len(items) /\ Len(items) \in Nat
      BY <1>1
    <3> QED BY ONLY <3>1, WalkRounds
  <2> HIDE DEF Q
  <2>2. Q(Len(items)).accounts = F
    BY DEF Q
  <2> QED BY <2>1, <2>2
<1>4. \A i \in 0 .. n : At(i).s.ok => Agrees(Q(i), At(i)) /\ Counted(Q(i), At(i))
  <2>1. Accounts \subseteq Accounts
    OBVIOUS
  <2>2. ASSUME NEW i \in 0 .. n
        PROVE  At(i).s.ok => Agrees(Q(i), At(i)) /\ (Accounts \subseteq Accounts => Counted(Q(i), At(i)))
    BY RunsAgree
  <2> HIDE DEF At, Q
  <2> QED BY <2>1, <2>2
<1>5. MarketAt(order, price_lots) /\ me \in Takers
  BY DEF TakerGiven
<1> HIDE DEF At, Bt, Q, n
<1>6. 0 \in S
  BY <1>1, <1>2
<1>7. ASSUME NEW i \in Nat, i \in S PROVE i + 1 \in S
  <2>1. SUFFICES ASSUME i + 1 <= n PROVE Bt(i + 1) = At(i + 1)
    OBVIOUS
  <2> DEFINE m == At(i)
             q == Q(i)
             item == items[i + 1]
             left == LeavesFrom(items, i + 1)
             a == MatchStep(m, order, price_lots, item, me, Accounts)
             b == MatchStep(m, order, price_lots, item, me, F)
             u == IterateStep(q, item)
  <2>2. i + 1 \in 1 .. n /\ (i + 1) - 1 = i /\ i \in 0 .. n /\ i + 1 \in 0 .. n
    BY <1>1, <2>1
  <2>3. Bt(i + 1) = b /\ At(i + 1) = a
    BY <1>1, <1>2, <1>7, <2>2
  <2>4. /\ Opposing(order, left, px, time, side, item)
        /\ m.s.ok => Round(order, c, left, m, side)
        /\ IsLoop(m)
    BY <1>1, <2>2
  <2>5. IsWalk(q) /\ u.accounts \subseteq F
    BY <1>3, <2>2
  <2>6. m.s.ok => Agrees(q, m) /\ Counted(q, m)
    BY <1>4, <2>2
  <2> SUFFICES a = b
    BY <2>3
  <2> HIDE DEF m, q, item, left, S
  <2>7. CASE ~m.s.ok
    BY <2>7, FailedStays
  <2>8. CASE m.stop
    BY <2>8, StoppedStays
  <2>9. CASE m.s.ok /\ ~m.stop
    <3>1. Round(order, c, left, m, side) /\ Agrees(q, m) /\ Counted(q, m)
      BY <2>4, <2>6, <2>9
    <3>2. u.accounts \subseteq F
      BY <2>5
    <3> HIDE DEF u, a, b
    <3> QED BY <1>5, <2>4, <2>5, <2>9, <3>1, RoundSame DEF u, a, b
  <2> QED BY <2>7, <2>8, <2>9
<1> HIDE DEF S
<1>8. Nat \subseteq S
  BY <1>6, <1>7, NatInd
<1>9. n \in S
  BY <1>1, <1>8
<1>10. Bt(n) = At(n)
  BY <1>9 DEF S
<1> QED BY <1>1, <1>2, <1>10
\* The market order a client's budgets stand for.
MarketOrder(side, base_lots, quote_lots) ==
  [side |-> side, type |-> "Market", price |-> 1, client_id |-> 0,
   max_base_lots |-> base_lots, max_quote_lots_including_fees |-> quote_lots,
   time_in_force |-> 0, self_trade_behavior |-> "DecrementTake",
   pegged |-> FALSE, peg_limit |-> NoPegLimit]

\* The price at which a market order stands.
MarketPrice(side) == IF side = "Bid" THEN MaxPrice ELSE 1

\* What matters of such an order.
IsMarketOrder(order, side, x, y) ==
  /\ order.side = side /\ order.type = "Market" /\ order.max_base_lots = x
  /\ order.pegged = FALSE /\ post_target(order) = NoTree /\ ~is_fill_or_kill(order)
  /\ order_max_quote_lots(order) = QuoteBudget(side, y)
  /\ order_max_quote_lots(order) \in Nat
  /\ \A b, px, time :
       order_price(order, b, px, time) = MarketPrice(side)

\* It stands at the most or least there is, and posts nothing.
LEMMA MarketOrderIs ==
  ASSUME NEW side \in Sides, NEW x \in Nat, NEW y \in Nat,
         NEW order, order = MarketOrder(side, x, y)
  PROVE  IsMarketOrder(order, side, x, y)
<1>1. /\ order.side = side /\ order.type = "Market" /\ order.max_base_lots = x
      /\ order.max_quote_lots_including_fees = y /\ order.pegged = FALSE
  BY DEF MarketOrder
<1>2. post_target(order) = NoTree /\ ~is_fill_or_kill(order) /\ ~is_post_only(order)
  BY <1>1 DEF post_target, is_fill_or_kill, is_post_only, PostTypes
<1>3. order_max_quote_lots(order) = QuoteBudget(side, y)
  BY <1>1, <1>2 DEF order_max_quote_lots, QuoteBudget
<1>4. order_max_quote_lots(order) \in Nat
  BY <1>1, BudgetFacts
<1>5. \A b, px, time :
        order_price(order, b, px, time) = MarketPrice(side)
  BY <1>1 DEF order_price, MarketPrice
<1> QED BY <1>1, <1>2, <1>3, <1>4, <1>5 DEF IsMarketOrder

\* What is owed and locked when a taking order starts.
TakerContext(x, order) ==
  [base |-> 0, quote |-> 0, base_lots |-> x, quote_lots |-> order_max_quote_lots(order),
   lock |-> NoLock, w |-> Numbered(Totals(Loaded.mkt))]

\* The order is matched in a good state, at its price, and what it is worth is what
\* the program places.
LEMMA TakingIs ==
  ASSUME IInv, NEW taker \in Takers, NEW side \in Sides, NEW x \in Nat, NEW y \in Nat,
         NEW rem, NEW order, order = MarketOrder(side, x, y),
         NEW s, s = gen_order_id(Loaded),
         NEW price_lots, price_lots = MarketPrice(side)
  PROVE  /\ TakerGiven(s, order, TakerContext(x, order), oracle, taker, invert_side(side), price_lots)
         /\ s.book = book
         /\ Taking(taker, side, x, y, rem)
              = PlacedAt(s, order, price_lots, oracle, now, MAXIMUM_TAKEN_ORDERS, taker, rem)
<1> DEFINE c == TakerContext(x, order)
           w == Numbered(Totals(Loaded.mkt))
<1>1. /\ order.side = side /\ order.type = "Market" /\ order.max_base_lots = x
      /\ order.pegged = FALSE /\ order_max_quote_lots(order) \in Nat
      /\ \A b, px, time : order_price(order, b, px, time) = price_lots
  <2>1. IsMarketOrder(order, side, x, y)
    BY MarketOrderIs
  <2> QED BY <2>1 DEF IsMarketOrder
<1>2. Going(Loaded, 0, 0)
  BY LoadedGoing
<1>3. SeqOk /\ IsState(Loaded) /\ Loaded.ok \in BOOLEAN /\ Good(Loaded, Loaded.heap, 0, 0, NoLock, Totals(Loaded.mkt))
  BY <1>2, LoadedIs DEF Going
<1>4. /\ IsState(s) /\ s.ok = Loaded.ok /\ s.oo = Loaded.oo /\ s.book = Loaded.book
      /\ s.heap = Loaded.heap
      /\ Good(s, s.heap, 0, 0, NoLock, w)
  <2>1. s = gen_order_id(Loaded)
    OBVIOUS
  <2>2. LET v == Numbered(Totals(Loaded.mkt))
        IN  /\ IsState(s) /\ s.ok = Loaded.ok /\ s.oo = Loaded.oo /\ s.book = Loaded.book
            /\ s.heap = Loaded.heap
            /\ s.mkt = NextSeq(Loaded.mkt)
            /\ Good(s, s.heap, 0, 0, NoLock, v) /\ WOk(v, s.mkt.seq_num)
            /\ s.mkt.seq_num = Loaded.mkt.seq_num + 1 /\ s.mkt.seq_num \in Nat
            /\ v.base_total = Loaded.mkt.base_deposit_total
            /\ v.quote_total = Loaded.mkt.quote_deposit_total
    BY ONLY <1>3, <2>1, GenOrderId
  <2> QED BY ONLY <2>2
<1>5. s.ok = TRUE /\ s.book = book
  BY <1>4, LoadedIs
<1>6. /\ c.base = 0 /\ c.quote = 0 /\ c.base_lots = x /\ c.quote_lots = order_max_quote_lots(order)
      /\ c.lock = NoLock /\ c.w = w
  BY DEF TakerContext
<1> HIDE DEF c, w
<1>7. ContextOk(c)
  BY <1>1, <1>6 DEF ContextOk
<1>8. oracle \in Int
  BY OpenBookAssumption DEF IInv
<1>9. MarketAt(order, price_lots)
  BY <1>1 DEF MarketAt, MarketPrice
<1>10. Good(s, s.heap, c.base, c.quote, c.lock, c.w)
  BY <1>4, <1>6
<1>11. TakerGiven(s, order, c, oracle, taker, invert_side(side), price_lots)
  BY <1>1, <1>4, <1>5, <1>6, <1>7, <1>8, <1>9, <1>10 DEF TakerGiven
<1>12. price_lots \in 1 .. MaxPrice
  BY BookSideAssumption DEF Sides, MarketPrice
<1>13. Taking(taker, side, x, y, rem)
         = new_order(Loaded, order, oracle, now, MAXIMUM_TAKEN_ORDERS, taker, rem)
  BY DEF Taking, MarketOrder
<1> DEFINE o == new_order(Loaded, order, oracle, now, MAXIMUM_TAKEN_ORDERS, taker, rem)
           placed == PlacedAt(s, order, price_lots, oracle, now, MAXIMUM_TAKEN_ORDERS, taker, rem)
<1>14. o = IF ~s.ok \/ (order.pegged /\ oracle = NoPrice) \/ price_lots \notin 1 .. MaxPrice
           THEN Refused(s) ELSE placed
  <2>1. price_lots = order_price(order, s.book, oracle, now) /\ s = gen_order_id(Loaded)
    BY <1>1
  <2> QED BY ONLY <2>1, NewOrderOutcome
<1> HIDE DEF placed, o
<1>15. o = placed
  BY <1>1, <1>5, <1>12, <1>14
<1> QED BY <1>5, <1>11, <1>13, <1>15 DEF o, placed, c

\* What an order that posts nothing comes to.
TookOnly(t, taken, order, price_lots) ==
  LET price == locking_price(order, price_lots)
  IN  [s |-> taken, posted_base |-> 0 * base_lot_size,
       posted_quote |-> 0 * price * quote_lot_size,
       base |-> t.base, quote |-> t.quote, taker_fees |-> t.fees,
       maker_fees |-> fees_to_lock(order.side, 0, price),
       referrer_amount |-> t.referrer_amount]

\* An order with nothing to post takes what it matched, whoever settles.
LEMMA PostsNothing ==
  ASSUME NEW m, m.post = NoTree, NEW t, NEW taken, NEW order, ~is_fill_or_kill(order),
         NEW price_lots, NEW px, NEW time, NEW me, NEW rem
  PROVE  TakeAndPost(m, t, taken, order, price_lots, px, time, me, rem)
           = IF ~taken.ok THEN Refused(taken) ELSE TookOnly(t, taken, order, price_lots)
<1> DEFINE price == locking_price(order, price_lots)
           quantity == book_base_quantity_lots(order, m, t, price)
           posts == /\ m.post # NoTree
                    /\ quantity > 0
                    /\ ~(order.pegged /\ is_price_better(order.side, price_lots, order.peg_limit))
           posted == IF posts THEN quantity ELSE 0
           fails == ~taken.ok \/ (is_fill_or_kill(order) /\ m.base > 0)
           after == Post(taken, order, m.post, price_lots, quantity, px, time, me, rem)
<1>1. TakeAndPost(m, t, taken, order, price_lots, px, time, me, rem)
        = IF fails THEN Refused(taken)
          ELSE [s |-> IF posts THEN after ELSE taken,
                posted_base |-> posted * base_lot_size,
                posted_quote |-> posted * price * quote_lot_size,
                base |-> t.base, quote |-> t.quote, taker_fees |-> t.fees,
                maker_fees |-> fees_to_lock(order.side, posted, price),
                referrer_amount |-> t.referrer_amount]
  BY DEF TakeAndPost
<1>2. ~posts
  OBVIOUS
<1>3. fails <=> ~taken.ok
  OBVIOUS
<1> HIDE DEF posts, fails, after, quantity, price
<1>4. posted = 0
  BY <1>2
<1> HIDE DEF posted
<1>5. TakeAndPost(m, t, taken, order, price_lots, px, time, me, rem)
        = IF ~taken.ok THEN Refused(taken)
          ELSE [s |-> taken,
                posted_base |-> 0 * base_lot_size,
                posted_quote |-> 0 * price * quote_lot_size,
                base |-> t.base, quote |-> t.quote, taker_fees |-> t.fees,
                maker_fees |-> fees_to_lock(order.side, 0, price),
                referrer_amount |-> t.referrer_amount]
  BY <1>1, <1>2, <1>3, <1>4
<1> QED BY <1>5 DEF TookOnly, price

\* The loop over a market order leaves nothing to post.
LEMMA TakerLoop ==
  ASSUME NEW s, NEW order, NEW c, NEW px, NEW me, NEW side, NEW price_lots,
         TakerGiven(s, order, c, px, me, side, price_lots), post_target(order) = NoTree,
         NEW time, NEW limit, NEW rem,
         NEW m, m = Match(s, order, price_lots, px, time, limit, me, rem)
  PROVE  LoopOk(order, c, {}, m) /\ m.post = NoTree
<1> DEFINE k == Match(s, order, price_lots, px, time, limit, me, rem)
<1>1. /\ order.side \in Sides /\ order.max_base_lots \in Nat
      /\ order_max_quote_lots(order) \in Nat
      /\ ContextOk(c) /\ c.base_lots = order.max_base_lots
      /\ c.quote_lots = order_max_quote_lots(order)
      /\ IsState(s) /\ s.ok = TRUE /\ Good(s, s.heap, c.base, c.quote, c.lock, c.w)
      /\ px \in Int /\ me \in Traders
  BY DEF TakerGiven, MarketAt, Traders
<1>2. LoopOk(order, c, {}, k)
  BY <1>1, MatchOk
<1>3. LoopOk(order, c, {}, m)
  BY <1>2
<1> QED BY <1>3 DEF LoopOk

\* When such an order succeeds so did its loop, and it pays for what the loop counted.
LEMMA TakerPays ==
  ASSUME NEW s, NEW order, NEW c, NEW px, NEW me, NEW side, NEW price_lots,
         TakerGiven(s, order, c, px, me, side, price_lots), post_target(order) = NoTree,
         ~is_fill_or_kill(order), NEW time, NEW limit, NEW rem,
         NEW m, m = Match(s, order, price_lots, px, time, limit, me, rem),
         NEW r, r = PlacedAt(s, order, price_lots, px, time, limit, me, rem), r.s.ok
  PROVE  /\ m.s.ok
         /\ r.base = (order.max_base_lots - m.base) * base_lot_size
         /\ r.quote = (order_max_quote_lots(order) - m.quote) * quote_lot_size
         /\ r.taker_fees - r.referrer_amount = m.rebates
<1> DEFINE t == Taken(order, m)
           taken == RecordTaken(m.s, order, t, me)
<1>1. LoopOk(order, c, {}, m) /\ m.post = NoTree
  BY TakerLoop
<1>2. IsState(m.s) /\ m.s.ok \in BOOLEAN /\ CountsOk(order, c, m)
  BY <1>1 DEF LoopOk
<1>3. r = TakeAndPost(m, t, taken, order, price_lots, px, time, me, rem)
  BY DEF PlacedAt, Recorded
<1>4. /\ t.base = (order.max_base_lots - m.base) * base_lot_size
      /\ t.quote = (order_max_quote_lots(order) - m.quote) * quote_lot_size
  BY DEF Taken
<1>5. t.fees - t.referrer_amount = m.rebates
  <2>1. order.side \in Sides /\ order.max_base_lots \in Nat /\ ContextOk(c)
        /\ c.base_lots = order.max_base_lots /\ c.quote_lots = order_max_quote_lots(order)
        /\ CountsOk(order, c, m) /\ t = Taken(order, m)
    BY <1>2 DEF TakerGiven, MarketAt
  <2> HIDE DEF t
  <2>2. /\ TakenOk(t) /\ t.fees - t.referrer_amount = m.rebates
        /\ BaseOwed(order, c, m) = c.base + DueBase(order.side, t)
        /\ QuoteOwed(order, c, m) = c.quote + DueQuote(order.side, t)
    BY ONLY <2>1, TakenFacts
  <2> QED BY ONLY <2>2
<1>6. taken = RecordTaken(m.s, order, t, me)
  OBVIOUS
<1> HIDE DEF t, taken
<1>7. r = IF ~taken.ok THEN Refused(taken) ELSE TookOnly(t, taken, order, price_lots)
  <2>1. m.post = NoTree /\ ~is_fill_or_kill(order)
    BY <1>1
  <2>2. TakeAndPost(m, t, taken, order, price_lots, px, time, me, rem)
          = IF ~taken.ok THEN Refused(taken) ELSE TookOnly(t, taken, order, price_lots)
    BY ONLY <2>1, PostsNothing
  <2> QED BY ONLY <1>3, <2>2
<1>8. ASSUME ~m.s.ok PROVE FALSE
  <2>1. m.s.ok = FALSE
    BY <1>2, <1>8
  <2>2. IsState(taken) /\ taken.ok = FALSE
    BY <1>2, <1>6, <2>1, RecordFails, Zenon
  <2>3. r = Refused(taken)
    BY <1>7, <2>2
  <2>4. r.s.ok = FALSE
    BY <2>2, <2>3, RefusedFields
  <2> QED BY <2>4
<1>9. ASSUME ~taken.ok PROVE FALSE
  <2>1. r = Refused(taken)
    BY <1>7, <1>9
  <2>2. r.s = [taken EXCEPT !.ok = FALSE]
    BY <2>1 DEF Refused
  <2> QED BY <1>9, <2>2
<1>10. r = TookOnly(t, taken, order, price_lots)
  BY <1>7, <1>9
<1>11. /\ r.base = t.base /\ r.quote = t.quote /\ r.taker_fees = t.fees
       /\ r.referrer_amount = t.referrer_amount
  BY <1>10 DEF TookOnly
<1> QED BY <1>4, <1>5, <1>8, <1>11
\* What a client's walk starts from.
QuoteStart(side, x, y) ==
  [base |-> x, quote |-> QuoteBudget(side, y), rebates |-> 0, accounts |-> {},
   dropped |-> 0, filled |-> 0, limit |-> MAXIMUM_TAKEN_ORDERS, stop |-> FALSE]
\* The items it goes through.
QuoteItems(side) == iter_all(invert_side(side), book[invert_side(side)], oracle, now)
\* What it ends with.
QuoteEnd(side, x, y) == FoldLeft(IterateStep, QuoteStart(side, x, y), QuoteItems(side))

\* The walk's result is its record after the last item.
LEMMA WalkResult ==
  ASSUME NEW start, IsWalk(start), NEW items, Len(items) \in Nat, DOMAIN items = 1 .. Len(items),
         NEW q, q = FoldLeft(IterateStep, start, items)
  PROVE  q = WalkedUpTo(start, items, Len(items))
<1> DEFINE At(k) == WalkedUpTo(start, items, k)
<1>1. /\ FoldLeft(IterateStep, start, items) = At(Len(items))
      /\ At(0) = start
      /\ \A k \in 1 .. Len(items) : At(k) = IterateStep(At(k - 1), items[k])
      /\ \A k \in 0 .. Len(items) :
           IsWalk(At(k)) /\ At(k).accounts \subseteq At(Len(items)).accounts
  BY WalkRounds
<1> HIDE DEF At
<1>2. q = At(Len(items))
  BY <1>1
<1> QED BY <1>2 DEF At

\* The amounts foretold are what the walk took from the budgets.
LEMMA AmountsAre ==
  ASSUME NEW side, NEW x, NEW y, NEW a, a = amounts_from_book(side, x, y, now),
         NEW q, q = QuoteEnd(side, x, y)
  PROVE  /\ a.base = (x - q.base) * base_lot_size
         /\ a.quote = (QuoteBudget(side, y) - q.quote) * quote_lot_size
         /\ a.fee = q.rebates /\ a.accounts = q.accounts
<1> DEFINE budget == QuoteBudget(side, y)
           Amounts(k) ==
             [base |-> (x - k.base) * base_lot_size,
              quote |-> (budget - k.quote) * quote_lot_size,
              fee |-> k.rebates,
              accounts |-> k.accounts,
              not_enough_liquidity |-> IF side = "Ask" THEN k.base # 0 ELSE k.quote # 0]
<1>1. a = With(QuoteEnd(side, x, y), Amounts)
  BY DEF amounts_from_book, QuoteEnd, QuoteStart, QuoteItems
<1>2. With(QuoteEnd(side, x, y), Amounts) = Amounts(QuoteEnd(side, x, y))
  <2> HIDE DEF Amounts
  <2> QED BY DEF With
<1>3. a = Amounts(q)
  <2> HIDE DEF Amounts
  <2> QED BY <1>1, <1>2
<1> QED BY <1>3

\* The walk and the loop start alike.
LEMMA StartsAlike ==
  ASSUME NEW side, NEW x, NEW y, NEW s, NEW order, order.max_base_lots = x,
         order_max_quote_lots(order) = QuoteBudget(side, y),
         NEW start, start = QuoteStart(side, x, y),
         NEW m, m = MatchStart(s, order, MAXIMUM_TAKEN_ORDERS)
  PROVE  IsWalk(start) /\ Agrees(start, m) /\ Counted(start, m)
<1>1. /\ IsWalk(start) /\ start.base = x /\ start.quote = QuoteBudget(side, y) /\ start.rebates = 0
      /\ start.dropped = 0 /\ start.filled = 0 /\ start.limit = MAXIMUM_TAKEN_ORDERS
      /\ start.stop = FALSE
  BY DEF QuoteStart, IsWalk
<1>2. /\ m.base = x /\ m.quote = QuoteBudget(side, y) /\ m.rebates = 0
      /\ m.dropped = 0 /\ m.filled = 0 /\ m.limit = MAXIMUM_TAKEN_ORDERS /\ m.stop = FALSE
  BY DEF MatchStart
<1> QED BY <1>1, <1>2 DEF Agrees, Counted

\* The items of a side are numbered from 1.
LEMMA IterListed ==
  ASSUME NEW side \in Sides, NEW bs, Keyed(bs.leaves), NEW feed, NEW clock,
         NEW items, items = iter_all(side, bs, feed, clock)
  PROVE  Len(items) \in Nat /\ DOMAIN items = 1 .. Len(items)
<1> DEFINE list == iter_all(side, bs, feed, clock)
<1>1. /\ list \in Seq({Item(side, l, feed, clock) : l \in bs.leaves})
      /\ \A i \in 1 .. Len(list) : Priced(side, list[i].leaf, feed)
      /\ \A i, j \in 1 .. Len(list) : list[i].leaf = list[j].leaf => i = j
  BY IterAllFacts
<1>2. items = list
  OBVIOUS
<1> HIDE DEF list
<1> QED BY <1>1, <1>2

\* The items of a book in a good state are numbered from 1.
LEMMA QuoteItemsSeq ==
  ASSUME IInv, NEW side \in Sides, NEW items, items = QuoteItems(side)
  PROVE  Len(items) \in Nat /\ DOMAIN items = 1 .. Len(items)
<1> DEFINE other == invert_side(side)
           bs == book[other]
           L == bs.leaves
<1>1. other \in Sides
  BY DEF invert_side, Sides
<1>2. Keyed(L)
  <2>1. Good(Loaded, Loaded.heap, 0, 0, NoLock, Totals(Loaded.mkt))
    BY LoadedGoing, LoadedIs DEF Going
  <2>2. Sane(Loaded, Loaded.heap, 0, 0, NoLock, Totals(Loaded.mkt))
    BY <2>1 DEF Good
  <2>3. Keyed(Loaded.book[other].leaves)
    <3> HIDE DEF other
    <3> QED BY <1>1, <2>2, SideKeyed
  <2> QED BY <2>3, LoadedIs
<1>3. items = iter_all(other, bs, oracle, now)
  BY DEF QuoteItems
<1> HIDE DEF other, bs
<1>4. Len(items) \in Nat /\ DOMAIN items = 1 .. Len(items)
  BY ONLY <1>1, <1>2, <1>3, IterListed
<1> QED BY <1>4

\* All that a client's quote and the order that it stands for have in common.
QuoteGiven(taker, side, x, y, order, s, price_lots, items, start) ==
  /\ IInv /\ taker \in Takers /\ side \in Sides /\ x \in Nat /\ y \in Nat
  /\ order = MarketOrder(side, x, y) /\ s = gen_order_id(Loaded)
  /\ price_lots = MarketPrice(side)
  /\ items = QuoteItems(side) /\ start = QuoteStart(side, x, y)

\* The loop and the walk are about the same items, and start alike in a good state.
LEMMA QuoteStarts ==
  ASSUME NEW taker, NEW side, NEW x, NEW y, NEW order, NEW s, NEW price_lots, NEW items, NEW start,
         QuoteGiven(taker, side, x, y, order, s, price_lots, items, start),
         NEW c, c = TakerContext(x, order)
  PROVE  /\ TakerGiven(s, order, c, oracle, taker, invert_side(side), price_lots)
         /\ items = iter_all(invert_side(side), s.book[invert_side(side)], oracle, now)
         /\ Len(items) \in Nat /\ DOMAIN items = 1 .. Len(items)
         /\ IsWalk(start) /\ Agrees(start, MatchStart(s, order, MAXIMUM_TAKEN_ORDERS))
         /\ Counted(start, MatchStart(s, order, MAXIMUM_TAKEN_ORDERS))
         /\ post_target(order) = NoTree /\ ~is_fill_or_kill(order)
         /\ order.max_base_lots = x /\ order_max_quote_lots(order) = QuoteBudget(side, y)
         /\ \A rem : Taking(taker, side, x, y, rem)
              = PlacedAt(s, order, price_lots, oracle, now, MAXIMUM_TAKEN_ORDERS, taker, rem)
<1>1. /\ IInv /\ taker \in Takers /\ side \in Sides /\ x \in Nat /\ y \in Nat
      /\ order = MarketOrder(side, x, y) /\ s = gen_order_id(Loaded)
      /\ price_lots = MarketPrice(side)
      /\ items = QuoteItems(side) /\ start = QuoteStart(side, x, y)
  BY DEF QuoteGiven
<1>2. ASSUME NEW rem
      PROVE  /\ TakerGiven(s, order, TakerContext(x, order), oracle, taker, invert_side(side), price_lots)
             /\ s.book = book
             /\ Taking(taker, side, x, y, rem)
                  = PlacedAt(s, order, price_lots, oracle, now, MAXIMUM_TAKEN_ORDERS, taker, rem)
  BY ONLY <1>1, TakingIs
<1>3. /\ order.side = side /\ order.type = "Market" /\ order.max_base_lots = x
      /\ order.pegged = FALSE /\ post_target(order) = NoTree /\ ~is_fill_or_kill(order)
      /\ order_max_quote_lots(order) = QuoteBudget(side, y)
      /\ order_max_quote_lots(order) \in Nat
      /\ \A b, px, time :
           order_price(order, b, px, time) = MarketPrice(side)
  <2>1. IsMarketOrder(order, side, x, y)
    BY ONLY <1>1, MarketOrderIs
  <2> QED BY ONLY <2>1 DEF IsMarketOrder
<1>4. items = iter_all(invert_side(side), s.book[invert_side(side)], oracle, now)
  BY <1>1, <1>2 DEF QuoteItems
<1>5. Len(items) \in Nat /\ DOMAIN items = 1 .. Len(items)
  BY <1>1, QuoteItemsSeq
<1> DEFINE first == MatchStart(s, order, MAXIMUM_TAKEN_ORDERS)
<1>6. IsWalk(start) /\ Agrees(start, first) /\ Counted(start, first)
  <2>1. first = MatchStart(s, order, MAXIMUM_TAKEN_ORDERS)
    OBVIOUS
  <2> HIDE DEF first
  <2> QED BY ONLY <1>1, <1>3, <2>1, StartsAlike
<1> QED BY <1>2, <1>3, <1>4, <1>5, <1>6

\* A quote is what the order it stands for takes and pays.
LEMMA QuoteMatches ==
  ASSUME IInv, NEW taker \in Takers, NEW side \in Sides, NEW x \in Nat, NEW y \in Nat,
         NEW a, a = amounts_from_book(side, x, y, now),
         NEW r, r = Taking(taker, side, x, y, {}), r.s.ok
  PROVE  a.base = r.base /\ a.quote = r.quote /\ a.fee = r.taker_fees - r.referrer_amount
<1> DEFINE order == MarketOrder(side, x, y)
           s == gen_order_id(Loaded)
           price_lots == MarketPrice(side)
           items == QuoteItems(side)
           start == QuoteStart(side, x, y)
           c == TakerContext(x, order)
           other == invert_side(side)
           m == Match(s, order, price_lots, oracle, now, MAXIMUM_TAKEN_ORDERS, taker, {})
           q == QuoteEnd(side, x, y)
           n == Len(items)
<1>1. QuoteGiven(taker, side, x, y, order, s, price_lots, items, start)
  BY DEF QuoteGiven
<1>2. c = TakerContext(x, order) /\ q = FoldLeft(IterateStep, start, items)
  BY DEF QuoteEnd
<1> HIDE DEF order, s, price_lots, items, start, c, other
<1>3. /\ TakerGiven(s, order, c, oracle, taker, other, price_lots)
      /\ items = iter_all(other, s.book[other], oracle, now)
      /\ Len(items) \in Nat /\ DOMAIN items = 1 .. Len(items)
      /\ IsWalk(start) /\ Agrees(start, MatchStart(s, order, MAXIMUM_TAKEN_ORDERS))
      /\ Counted(start, MatchStart(s, order, MAXIMUM_TAKEN_ORDERS))
      /\ post_target(order) = NoTree /\ ~is_fill_or_kill(order)
      /\ order.max_base_lots = x /\ order_max_quote_lots(order) = QuoteBudget(side, y)
      /\ \A rem : Taking(taker, side, x, y, rem)
           = PlacedAt(s, order, price_lots, oracle, now, MAXIMUM_TAKEN_ORDERS, taker, rem)
  BY ONLY <1>1, <1>2, QuoteStarts DEF other
<1>4. r = PlacedAt(s, order, price_lots, oracle, now, MAXIMUM_TAKEN_ORDERS, taker, {})
  BY <1>3
<1>5. /\ m.s.ok
      /\ r.base = (order.max_base_lots - m.base) * base_lot_size
      /\ r.quote = (order_max_quote_lots(order) - m.quote) * quote_lot_size
      /\ r.taker_fees - r.referrer_amount = m.rebates
  <2>1. m = Match(s, order, price_lots, oracle, now, MAXIMUM_TAKEN_ORDERS, taker, {}) /\ r.s.ok
    OBVIOUS
  <2> HIDE DEF m
  <2> QED BY ONLY <1>3, <1>4, <2>1, TakerPays
<1>6. m = MatchedUpTo(s, order, price_lots, items, MAXIMUM_TAKEN_ORDERS, taker, {}, n)
  BY <1>3, TakerRounds
<1>7. q = WalkedUpTo(start, items, n)
  BY ONLY <1>2, <1>3, WalkResult
<1>8. Agrees(q, m)
  <2> DEFINE mm == MatchedUpTo(s, order, price_lots, items, MAXIMUM_TAKEN_ORDERS, taker, {}, n)
             qq == WalkedUpTo(start, items, n)
  <2>1. n \in 0 .. Len(items)
    BY <1>3
  <2>2. mm.s.ok => Agrees(qq, mm) /\ (Accounts \subseteq {} => Counted(qq, mm))
    BY ONLY <1>3, <2>1, RunsAgree
  <2> HIDE DEF mm, qq
  <2> QED BY <1>5, <1>6, <1>7, <2>2 DEF mm, qq
<1>9. /\ a.base = (x - q.base) * base_lot_size
      /\ a.quote = (QuoteBudget(side, y) - q.quote) * quote_lot_size
      /\ a.fee = q.rebates /\ a.accounts = q.accounts
  BY AmountsAre
<1> HIDE DEF m, q
<1> QED BY <1>3, <1>5, <1>8, <1>9 DEF Agrees

\* A quote's accounts settle as much as all accounts.
LEMMA ListedSuffice ==
  ASSUME IInv, NEW taker \in Takers, NEW side \in Sides, NEW x \in Nat, NEW y \in Nat,
         NEW a, a = amounts_from_book(side, x, y, now)
  PROVE  Taking(taker, side, x, y, a.accounts) = Taking(taker, side, x, y, Accounts)
<1> DEFINE order == MarketOrder(side, x, y)
           s == gen_order_id(Loaded)
           price_lots == MarketPrice(side)
           items == QuoteItems(side)
           start == QuoteStart(side, x, y)
           c == TakerContext(x, order)
           other == invert_side(side)
           q == QuoteEnd(side, x, y)
           F == a.accounts
           M(rem) == Match(s, order, price_lots, oracle, now, MAXIMUM_TAKEN_ORDERS, taker, rem)
           R(rem) == PlacedAt(s, order, price_lots, oracle, now, MAXIMUM_TAKEN_ORDERS, taker, rem)
           T(rem) == Taken(order, M(rem))
           K(rem) == RecordTaken(M(rem).s, order, T(rem), taker)
<1>1. QuoteGiven(taker, side, x, y, order, s, price_lots, items, start)
  BY DEF QuoteGiven
<1>2. c = TakerContext(x, order) /\ q = FoldLeft(IterateStep, start, items)
  BY DEF QuoteEnd
<1> HIDE DEF order, s, price_lots, items, start, c, other
<1>3. /\ TakerGiven(s, order, c, oracle, taker, other, price_lots)
      /\ items = iter_all(other, s.book[other], oracle, now)
      /\ Len(items) \in Nat /\ DOMAIN items = 1 .. Len(items)
      /\ IsWalk(start) /\ Agrees(start, MatchStart(s, order, MAXIMUM_TAKEN_ORDERS))
      /\ Counted(start, MatchStart(s, order, MAXIMUM_TAKEN_ORDERS))
      /\ post_target(order) = NoTree /\ ~is_fill_or_kill(order)
      /\ order.max_base_lots = x /\ order_max_quote_lots(order) = QuoteBudget(side, y)
      /\ \A rem : Taking(taker, side, x, y, rem)
           = PlacedAt(s, order, price_lots, oracle, now, MAXIMUM_TAKEN_ORDERS, taker, rem)
  BY ONLY <1>1, <1>2, QuoteStarts DEF other
<1>4. /\ a.base = (x - q.base) * base_lot_size
      /\ a.quote = (QuoteBudget(side, y) - q.quote) * quote_lot_size
      /\ a.fee = q.rebates /\ a.accounts = q.accounts
  BY AmountsAre
<1>5. q = WalkedUpTo(start, items, Len(items))
  BY ONLY <1>2, <1>3, WalkResult
<1>6. F = WalkedUpTo(start, items, Len(items)).accounts
  BY <1>4, <1>5
<1> HIDE DEF F, q
<1>7. Match(s, order, price_lots, oracle, now, MAXIMUM_TAKEN_ORDERS, taker, F)
        = Match(s, order, price_lots, oracle, now, MAXIMUM_TAKEN_ORDERS, taker, Accounts)
  BY ONLY <1>3, <1>6, RunsSame
<1>8. ASSUME NEW rem
      PROVE  M(rem).post = NoTree
  <2> DEFINE m == M(rem)
  <2>1. m = Match(s, order, price_lots, oracle, now, MAXIMUM_TAKEN_ORDERS, taker, rem)
    OBVIOUS
  <2> HIDE DEF m
  <2>2. LoopOk(order, c, {}, m) /\ m.post = NoTree
    BY ONLY <1>3, <2>1, TakerLoop
  <2> QED BY <2>2 DEF m
<1>9. ASSUME NEW rem
      PROVE  R(rem) = IF ~K(rem).ok THEN Refused(K(rem))
                      ELSE TookOnly(T(rem), K(rem), order, price_lots)
  <2> DEFINE m == M(rem)
             t == T(rem)
             taken == K(rem)
  <2>1. R(rem) = TakeAndPost(m, t, taken, order, price_lots, oracle, now, taker, rem)
    BY DEF PlacedAt, Recorded
  <2>2. m.post = NoTree /\ ~is_fill_or_kill(order)
    BY <1>3, <1>8
  <2> HIDE DEF m, t, taken, M, T, K, R
  <2>3. TakeAndPost(m, t, taken, order, price_lots, oracle, now, taker, rem)
          = IF ~taken.ok THEN Refused(taken) ELSE TookOnly(t, taken, order, price_lots)
    BY ONLY <2>2, PostsNothing
  <2> QED BY <2>1, <2>3 DEF m, t, taken
<1>10. T(F) = T(Accounts) /\ K(F) = K(Accounts)
  BY <1>7
<1>11. Taking(taker, side, x, y, F) = R(F) /\ Taking(taker, side, x, y, Accounts) = R(Accounts)
  BY <1>3
<1> HIDE DEF M, T, K, R
<1>12. R(F) = R(Accounts)
  BY <1>9, <1>10
<1> QED BY <1>11, <1>12 DEF F
\* Whatever a client foretells for a budget, at the moment it looks, is what the program
\* would take and pay for it: amounts_from_book and the matching loop of new_order agree on
\* the base, on the quote and on what the taker's fee leaves for the makers.
THEOREM QuotesAlwaysMatch == Spec => []QuotesMatchTakes
<1>1. IInv => QuotesMatchTakes
  <2>1. SUFFICES ASSUME IInv, NEW taker \in Takers, NEW side \in Sides, NEW b \in Budgets,
                        NEW a, a = amounts_from_book(side, b.base, b.quote, now),
                        NEW r, r = Taking(taker, side, b.base, b.quote, {}), r.s.ok
                 PROVE  a.base = r.base /\ a.quote = r.quote
                        /\ a.fee = r.taker_fees - r.referrer_amount
    BY DEF QuotesMatchTakes
  <2> DEFINE x == b.base
             y == b.quote
  <2>2. x \in Nat /\ y \in Nat
    BY QuotesAssumption
  <2>3. a = amounts_from_book(side, x, y, now) /\ r = Taking(taker, side, x, y, {})
    BY <2>1
  <2> HIDE DEF x, y
  <2> QED BY <2>1, <2>2, <2>3, QuoteMatches
<1> QED BY <1>1, MarketInvariance, PTL

\* The accounts a client lists with the amounts settle all that any accounts would: the
\* program's state after the order is the same as if every account had been passed along.
THEOREM ListedAlwaysSuffice == Spec => []ListedAccountsSuffice
<1>1. IInv => ListedAccountsSuffice
  <2>1. SUFFICES ASSUME IInv, NEW taker \in Takers, NEW side \in Sides, NEW b \in Budgets,
                        NEW a, a = amounts_from_book(side, b.base, b.quote, now)
                 PROVE  Taking(taker, side, b.base, b.quote, a.accounts).s
                          = Taking(taker, side, b.base, b.quote, Accounts).s
    BY DEF ListedAccountsSuffice
  <2> DEFINE x == b.base
             y == b.quote
  <2>2. x \in Nat /\ y \in Nat
    BY QuotesAssumption
  <2>3. a = amounts_from_book(side, x, y, now)
    BY <2>1
  <2>4. Taking(taker, side, x, y, a.accounts) = Taking(taker, side, x, y, Accounts)
    <3> HIDE DEF x, y
    <3> QED BY <2>1, <2>2, <2>3, ListedSuffice
  <2> QED BY <2>4
<1> QED BY <1>1, MarketInvariance, PTL
=========================================================================
