---------------------- MODULE OpenOrdersIndexerProofs ----------------------
(***************************************************************************)
(* Proofs about the open orders accounts and their indexers, for any       *)
(* owners and signers and any number of places and accounts.               *)
(***************************************************************************)
EXTENDS OpenOrdersIndexer, SequencesExt, FiniteSetTheorems, SequenceTheorems, TLAPS

-----------------------------------------------------------------------------
(* Closing an account takes its address out of a list. *)

\* What RemoveAt does to a sequence: the elements after the removed one move
\* up by one place.
LEMMA RemoveAtFacts ==
  ASSUME NEW S, NEW s \in Seq(S), NEW i \in 1 .. Len(s)
  PROVE  /\ RemoveAt(s, i) \in Seq(S)
         /\ Len(RemoveAt(s, i)) = Len(s) - 1
         /\ \A j \in 1 .. Len(s) - 1 :
              RemoveAt(s, i)[j] = IF j < i THEN s[j] ELSE s[j + 1]
<1> DEFINE front == SubSeq(s, 1, i - 1)
           back  == SubSeq(s, i + 1, Len(s))
<1>1. front \in Seq(S) /\ Len(front) = i - 1 /\ \A j \in 1 .. i - 1 : front[j] = s[j]
  OBVIOUS
<1>2. /\ back \in Seq(S) /\ Len(back) = Len(s) - i
      /\ \A j \in 1 .. Len(s) - i : back[j] = s[i + j]
  OBVIOUS
<1>3. RemoveAt(s, i) = front \o back
  BY DEF RemoveAt
<1> HIDE DEF front, back
<1>4. front \o back \in Seq(S) /\ Len(front \o back) = Len(s) - 1
  BY <1>1, <1>2
<1>5. ASSUME NEW j \in 1 .. Len(s) - 1
      PROVE  (front \o back)[j] = IF j < i THEN s[j] ELSE s[j + 1]
  <2>1. CASE j < i
    BY <2>1, <1>1, <1>2
  <2>2. CASE ~(j < i)
    <3>1. j - Len(front) \in 1 .. Len(s) - i /\ i + (j - Len(front)) = j + 1
      BY <2>2, <1>1
    <3>2. (front \o back)[j] = back[j - Len(front)]
      BY <2>2, <1>1, <1>2
    <3> QED BY <2>2, <3>1, <3>2, <1>2
  <2> QED BY <2>1, <2>2
<1> QED BY <1>3, <1>4, <1>5

\* Taking out an element that occurs only once leaves the others, each as often
\* as before (Vec::remove at the position found in close_open_orders_account).
LEMMA RemoveAtInjective ==
  ASSUME NEW S, NEW s \in Seq(S), NEW i \in 1 .. Len(s), IsInjective(s)
  PROVE  /\ Range(RemoveAt(s, i)) = Range(s) \ {s[i]}
         /\ IsInjective(RemoveAt(s, i))
<1> DEFINE t == RemoveAt(s, i)
           from(j) == IF j < i THEN j ELSE j + 1
<1>1. /\ t \in Seq(S) /\ Len(t) = Len(s) - 1
      /\ \A j \in 1 .. Len(s) - 1 : t[j] = s[from(j)]
  BY RemoveAtFacts
<1> HIDE DEF t
<1>2. DOMAIN s = 1 .. Len(s) /\ DOMAIN t = 1 .. Len(s) - 1
  BY <1>1
<1>3. \A j \in DOMAIN t : from(j) \in DOMAIN s /\ from(j) # i
  BY <1>2
<1>4. \A j, k \in DOMAIN t : from(j) = from(k) => j = k
  BY <1>2
<1>5. ASSUME NEW k \in DOMAIN s, k # i
      PROVE  \E j \in DOMAIN t : from(j) = k
  <2>1. CASE k < i
    <3>1. k \in DOMAIN t /\ from(k) = k
      BY <2>1, <1>2
    <3> QED BY <3>1
  <2>2. CASE k > i
    <3>1. k - 1 \in DOMAIN t /\ from(k - 1) = k
      BY <2>2, <1>2
    <3> QED BY <3>1
  <2> QED BY <2>1, <2>2, <1>2, <1>5
<1> HIDE DEF from
<1>6. Range(t) = Range(s) \ {s[i]}
  <2>1. \A x \in Range(t) : x \in Range(s) /\ x # s[i]
    BY <1>1, <1>2, <1>3 DEF Range, IsInjective
  <2>2. \A x \in Range(s) : x # s[i] => x \in Range(t)
    BY <1>1, <1>2, <1>5 DEF Range
  <2> QED BY <2>1, <2>2
<1>7. IsInjective(t)
  BY <1>1, <1>2, <1>3, <1>4 DEF IsInjective
<1> QED BY <1>6, <1>7 DEF t

-----------------------------------------------------------------------------
(* The inductive invariant. *)

\* The types of the state.
TypeOK ==
  /\ indexers \in [Owners -> Indexers \cup {NoIndexer}]
  /\ DOMAIN accounts \subseteq Addresses
  /\ accounts \in [DOMAIN accounts -> OpenOrdersAccounts]

\* An account's address is made of its owner and its number.
AddressesDerived ==
  \A a \in DOMAIN accounts : a = Address(accounts[a].owner, accounts[a].account_num)

\* Every account was numbered by the indexer that lists it.
NumbersGiven ==
  \A a \in DOMAIN accounts :
    accounts[a].account_num <= indexers[accounts[a].owner].created_counter

\* The inductive invariant: the types, and what ties the state together.
IInv == TypeOK /\ AddressesDerived /\ NumbersGiven /\ IndexerListsAccounts

\* The open-orders accounts of one owner.
Own(o) == {a \in DOMAIN accounts : accounts[a].owner = o}

\* IndexerListsAccounts, for one owner.
Lists(o) ==
  IF indexers[o] = NoIndexer THEN Own(o) = {}
  ELSE Range(indexers[o].addresses) = Own(o) /\ IsInjective(indexers[o].addresses)

\* The listing property, owner by owner.
LEMMA ListsIsForEach == IndexerListsAccounts <=> \A o \in Owners : Lists(o)
BY DEF IndexerListsAccounts, Lists, Own

\* At first there are no indexers and no accounts.
LEMMA InitIInv == Init => IInv
<1> SUFFICES ASSUME Init PROVE IInv
  OBVIOUS
<1>1. DOMAIN accounts = {}
  BY DEF Init
<1>2. TypeOK
  BY <1>1 DEF Init, TypeOK
<1>3. IndexerListsAccounts
  BY <1>1 DEF Init, IndexerListsAccounts
<1> QED BY <1>1, <1>2, <1>3 DEF IInv, AddressesDerived, NumbersGiven

\* A new indexer's owner has no accounts, so its empty list is complete.
LEMMA CreateIndexerKeeps ==
  ASSUME IInv, NEW owner \in Owners, create_open_orders_indexer(owner)
  PROVE  IInv'
<1> USE DEF create_open_orders_indexer
<1> DEFINE new == [created_counter |-> 0, addresses |-> << >>]
<1>1. new \in Indexers
  BY OpenOrdersIndexerAssumption DEF Indexers
<1>2. Own(owner) = {}
  BY ListsIsForEach DEF IInv, Lists
<1>3. \A o \in Owners : indexers'[o] = IF o = owner THEN new ELSE indexers[o]
  BY DEF IInv, TypeOK
<1> HIDE DEF new
<1>4. TypeOK'
  BY <1>1 DEF IInv, TypeOK, new
<1>5. AddressesDerived'
  BY DEF IInv, AddressesDerived
<1>6. NumbersGiven'
  <2> SUFFICES ASSUME NEW a \in DOMAIN accounts
               PROVE  accounts[a].account_num <= indexers'[accounts[a].owner].created_counter
    BY DEF NumbersGiven
  <2>1. accounts[a].owner \in Owners
    BY DEF IInv, TypeOK, OpenOrdersAccounts
  <2>2. accounts[a].owner # owner
    BY <1>2 DEF Own
  <2> QED BY <1>3, <2>1, <2>2 DEF IInv, NumbersGiven
<1>7. ASSUME NEW o \in Owners PROVE Lists(o)'
  <2>1. CASE o = owner
    <3>1. Range(new.addresses) = {} /\ IsInjective(new.addresses)
      BY DEF new, Range, IsInjective
    <3>2. indexers'[o] # NoIndexer
      BY <1>1, <1>3, <2>1, OpenOrdersIndexerAssumption
    <3> QED BY <1>2, <1>3, <2>1, <3>1, <3>2 DEF Lists, Own
  <2>2. CASE o # owner
    BY <1>3, <2>2, ListsIsForEach DEF IInv, Lists, Own
  <2> QED BY <2>1, <2>2
<1>8. IndexerListsAccounts'
  BY <1>7 DEF Lists, Own, IndexerListsAccounts
<1> QED BY <1>4, <1>5, <1>6, <1>8 DEF IInv

\* An indexer that lists nothing is closed when its owner has no accounts.
LEMMA CloseIndexerKeeps ==
  ASSUME IInv, NEW owner \in Owners, close_open_orders_indexer(owner)
  PROVE  IInv'
<1> USE DEF close_open_orders_indexer, has_active_open_orders_accounts
<1>1. Own(owner) = {}
  <2>1. Range(indexers[owner].addresses) = {}
    BY DEF Range
  <2> QED BY <2>1, ListsIsForEach DEF IInv, Lists
<1>2. \A o \in Owners : indexers'[o] = IF o = owner THEN NoIndexer ELSE indexers[o]
  BY DEF IInv, TypeOK
<1>3. TypeOK'
  BY DEF IInv, TypeOK
<1>4. AddressesDerived'
  BY DEF IInv, AddressesDerived
<1>5. NumbersGiven'
  <2> SUFFICES ASSUME NEW a \in DOMAIN accounts
               PROVE  accounts[a].account_num <= indexers'[accounts[a].owner].created_counter
    BY DEF NumbersGiven
  <2>1. accounts[a].owner \in Owners
    BY DEF IInv, TypeOK, OpenOrdersAccounts
  <2>2. accounts[a].owner # owner
    BY <1>1 DEF Own
  <2> QED BY <1>2, <2>1, <2>2 DEF IInv, NumbersGiven
<1>6. ASSUME NEW o \in Owners PROVE Lists(o)'
  BY <1>1, <1>2, ListsIsForEach DEF IInv, Lists, Own
<1>7. IndexerListsAccounts'
  BY <1>6 DEF Lists, Own, IndexerListsAccounts
<1> QED BY <1>3, <1>4, <1>5, <1>7 DEF IInv

\* No address above the counter is in use, so the new account's is not listed yet.
LEMMA CreateAccountKeeps ==
  ASSUME IInv, NEW owner \in Owners, NEW num \in 1..MaxCreated,
         NEW delegate \in Signers \cup {NoDelegate},
         create_open_orders_account(owner, num, delegate)
  PROVE  IInv'
<1> USE DEF create_open_orders_account
<1> DEFINE a == Address(owner, num)
           old == indexers[owner]
           account == [owner |-> owner, account_num |-> num, delegate |-> delegate,
                       busy |-> FALSE]
<1>1. a \in Addresses /\ a \notin DOMAIN accounts
  BY DEF Address, Addresses
<1>2. old \in Indexers /\ old # NoIndexer
  BY DEF IInv, TypeOK
<1>3. indexers'[owner] = [old EXCEPT !.addresses = Append(old.addresses, a),
                                     !.created_counter = num]
  BY <1>2 DEF IInv, TypeOK, Indexers
<1>4. \A o \in Owners \ {owner} : indexers'[o] = indexers[o]
  BY DEF IInv, TypeOK
<1>5. /\ DOMAIN accounts' = DOMAIN accounts \cup {a} /\ accounts'[a] = account
      /\ \A b \in DOMAIN accounts : accounts'[b] = accounts[b]
  BY <1>1
<1>6. account \in OpenOrdersAccounts
  BY DEF OpenOrdersAccounts
<1>7. /\ indexers'[owner].addresses = Append(old.addresses, a)
      /\ indexers'[owner].created_counter = num
      /\ indexers'[owner] \in Indexers
  <2>1. Append(old.addresses, a) \in Seq(Addresses) /\ num \in 0..MaxCreated
    BY <1>1, <1>2, OpenOrdersIndexerAssumption DEF Indexers
  <2> HIDE DEF old, a, create_open_orders_account
  <2> QED BY <1>2, <1>3, <2>1 DEF Indexers
<1> HIDE DEF a, old, account
<1>8. TypeOK'
  <2>1. indexers' \in [Owners -> Indexers \cup {NoIndexer}]
    BY <1>7 DEF IInv, TypeOK
  <2>2. accounts' \in [DOMAIN accounts' -> OpenOrdersAccounts]
    BY <1>5, <1>6 DEF IInv, TypeOK, a
  <2> QED BY <1>1, <1>5, <2>1, <2>2 DEF IInv, TypeOK
<1>9. AddressesDerived'
  BY <1>5 DEF IInv, AddressesDerived, a, account
<1>10. NumbersGiven'
  <2> SUFFICES ASSUME NEW b \in DOMAIN accounts'
               PROVE  accounts'[b].account_num <= indexers'[accounts'[b].owner].created_counter
    BY DEF NumbersGiven
  <2>1. CASE b = a
    <3>1. accounts'[b].account_num = num /\ accounts'[b].owner = owner
      BY <1>5, <2>1 DEF account
    <3>2. num <= num
      BY OpenOrdersIndexerAssumption
    <3> HIDE DEF create_open_orders_account
    <3> QED BY <1>7, <3>1, <3>2
  <2>2. CASE b # a
    <3>1. /\ b \in DOMAIN accounts /\ accounts'[b] = accounts[b]
          /\ accounts[b] \in OpenOrdersAccounts
      BY <1>5, <2>2 DEF IInv, TypeOK
    <3>2. accounts[b].account_num <= indexers[accounts[b].owner].created_counter
      BY <3>1 DEF IInv, NumbersGiven
    <3>3. CASE accounts[b].owner = owner
      <4>1. accounts[b].account_num \in Nat /\ old.created_counter \in Nat
        BY <1>2, <3>1, OpenOrdersIndexerAssumption DEF Indexers, OpenOrdersAccounts
      <4>2. num = old.created_counter + 1
        BY DEF old
      <4>3. accounts[b].account_num <= num
        BY <3>2, <3>3, <4>1, <4>2 DEF old
      <4> HIDE DEF create_open_orders_account
      <4> QED BY <1>7, <3>1, <3>3, <4>3
    <3>4. CASE accounts[b].owner # owner
      BY <1>4, <3>1, <3>2, <3>4 DEF OpenOrdersAccounts
    <3> QED BY <3>3, <3>4
  <2> QED BY <2>1, <2>2
<1>11. ASSUME NEW o \in Owners PROVE Lists(o)'
  <2>1. CASE o # owner
    <3>1. Own(o)' = Own(o)
      BY <1>5, <2>1 DEF Own, account
    <3> QED BY <1>4, <2>1, <3>1, ListsIsForEach DEF IInv, Lists
  <2>2. CASE o = owner
    <3> DEFINE s == old.addresses
               n == Len(s)
    <3>1. s \in Seq(Addresses) /\ Range(s) = Own(owner) /\ IsInjective(s)
      BY <1>2, ListsIsForEach DEF IInv, Lists, Indexers, old
    <3>2. Own(owner)' = Own(owner) \cup {a}
      BY <1>1, <1>5 DEF Own, account
    <3>3. a \notin Range(s)
      BY <1>1, <3>1 DEF Own
    <3> HIDE DEF s
    <3>4. /\ DOMAIN Append(s, a) = 1..(n + 1) /\ DOMAIN s = 1..n /\ n \in Nat
          /\ Append(s, a)[n + 1] = a /\ \A i \in 1..n : Append(s, a)[i] = s[i]
      BY <1>1, <3>1
    <3> HIDE DEF n
    <3>5. Range(Append(s, a)) = Range(s) \cup {a}
      <4>1. \A x \in Range(Append(s, a)) : x \in Range(s) \/ x = a
        BY <3>4 DEF Range
      <4>2. \A x \in Range(s) : x \in Range(Append(s, a))
        BY <3>4 DEF Range
      <4>3. a \in Range(Append(s, a))
        BY <3>4 DEF Range
      <4> QED BY <4>1, <4>2, <4>3
    <3>6. IsInjective(Append(s, a))
      <4>1. \A i \in 1..n : s[i] # a
        BY <3>3, <3>4 DEF Range
      <4>2. \A i, j \in 1..n : s[i] = s[j] => i = j
        BY <3>1, <3>4 DEF IsInjective
      <4> SUFFICES ASSUME NEW i \in 1..(n + 1), NEW j \in 1..(n + 1),
                          Append(s, a)[i] = Append(s, a)[j]
                   PROVE  i = j
        BY <3>4 DEF IsInjective
      <4> QED BY <3>4, <4>1, <4>2
    <3>7. indexers'[owner] # NoIndexer
      BY <1>7, OpenOrdersIndexerAssumption
    <3> QED BY <1>7, <2>2, <3>1, <3>2, <3>5, <3>6, <3>7 DEF Lists, s
  <2> QED BY <2>1, <2>2
<1>12. IndexerListsAccounts'
  BY <1>11 DEF Lists, Own, IndexerListsAccounts
<1> QED BY <1>8, <1>9, <1>10, <1>12 DEF IInv

\* The closed account is listed once, so none is left of it.
LEMMA CloseAccountKeeps ==
  ASSUME IInv, NEW owner \in Owners, NEW a \in Addresses,
         close_open_orders_account(owner, a)
  PROVE  IInv'
<1> USE DEF close_open_orders_account
<1> DEFINE old == indexers[owner]
           s == old.addresses
           p == position(s, a)
<1>1. old \in Indexers /\ old # NoIndexer /\ s \in Seq(Addresses)
  BY DEF IInv, TypeOK, Indexers
<1>2. Range(s) = Own(owner) /\ IsInjective(s)
  BY <1>1, ListsIsForEach DEF IInv, Lists
<1>3. p \in 1..Len(s) /\ s[p] = a
  <2>1. PICK i \in 1..Len(s) : s[i] = a
    BY <1>1 DEF Range
  <2>2. \A j \in 1..(i - 1) : s[j] # a
    BY <1>1, <1>2, <2>1 DEF IsInjective
  <2>3. DOMAIN s = 1..Len(s)
    BY <1>1
  <2> QED BY <2>1, <2>2, <2>3 DEF position
<1>4. indexers'[owner] = [old EXCEPT !.addresses = RemoveAt(s, p)]
  BY DEF IInv, TypeOK, Unlisted
<1> HIDE DEF p
<1>5. \A o \in Owners \ {owner} : indexers'[o] = indexers[o]
  BY DEF IInv, TypeOK
<1>6. /\ RemoveAt(s, p) \in Seq(Addresses)
      /\ Range(RemoveAt(s, p)) = Own(owner) \ {a} /\ IsInjective(RemoveAt(s, p))
  BY <1>1, <1>2, <1>3, RemoveAtFacts, RemoveAtInjective
<1>7. /\ indexers'[owner].addresses = RemoveAt(s, p)
      /\ indexers'[owner].created_counter = old.created_counter
      /\ indexers'[owner] \in Indexers
  <2> DEFINE t == RemoveAt(s, p)
  <2>1. t \in Seq(Addresses) /\ indexers'[owner] = [old EXCEPT !.addresses = t]
    BY <1>4, <1>6
  <2> HIDE DEF t, old
  <2>2. /\ indexers'[owner].addresses = t
        /\ indexers'[owner].created_counter = old.created_counter
        /\ indexers'[owner] \in Indexers
    BY <1>1, <2>1 DEF Indexers
  <2> QED BY <2>2 DEF t
<1>8. /\ DOMAIN accounts' = DOMAIN accounts \ {a}
      /\ \A b \in DOMAIN accounts' : accounts'[b] = accounts[b]
  OBVIOUS
<1> HIDE DEF s, old
<1>9. TypeOK'
  <2>1. indexers' \in [Owners -> Indexers \cup {NoIndexer}]
    BY <1>7 DEF IInv, TypeOK
  <2>2. accounts' \in [DOMAIN accounts' -> OpenOrdersAccounts]
    BY <1>8 DEF IInv, TypeOK
  <2> QED BY <1>8, <2>1, <2>2 DEF IInv, TypeOK
<1>10. AddressesDerived'
  BY <1>8 DEF IInv, AddressesDerived
<1>11. NumbersGiven'
  <2> SUFFICES ASSUME NEW b \in DOMAIN accounts'
               PROVE  accounts'[b].account_num <= indexers'[accounts'[b].owner].created_counter
    BY DEF NumbersGiven
  <2>1. b \in DOMAIN accounts /\ accounts'[b] = accounts[b] /\ accounts[b].owner \in Owners
    BY <1>8 DEF IInv, TypeOK, OpenOrdersAccounts
  <2>2. accounts[b].account_num <= indexers[accounts[b].owner].created_counter
    BY <2>1 DEF IInv, NumbersGiven
  <2> QED BY <1>5, <1>7, <2>1, <2>2 DEF old
<1>12. ASSUME NEW o \in Owners PROVE Lists(o)'
  <2>1. CASE o # owner
    <3>1. Own(o)' = Own(o)
      BY <1>8, <2>1 DEF Own
    <3> QED BY <1>5, <2>1, <3>1, ListsIsForEach DEF IInv, Lists
  <2>2. CASE o = owner
    <3>1. Own(owner)' = Own(owner) \ {a}
      BY <1>8 DEF Own
    <3>2. indexers'[owner] # NoIndexer
      BY <1>7, OpenOrdersIndexerAssumption
    <3> QED BY <1>6, <1>7, <2>2, <3>1, <3>2 DEF Lists
  <2> QED BY <2>1, <2>2
<1>13. IndexerListsAccounts'
  BY <1>12 DEF Lists, Own, IndexerListsAccounts
<1> QED BY <1>9, <1>10, <1>11, <1>13 DEF IInv

\* Delegates change, accounts are filled and emptied: owners, numbers and lists stay.
LEMMA SameAccountsKeep ==
  ASSUME IInv, UNCHANGED indexers, DOMAIN accounts' = DOMAIN accounts,
         accounts' \in [DOMAIN accounts' -> OpenOrdersAccounts],
         \A a \in DOMAIN accounts :
           /\ accounts'[a].owner = accounts[a].owner
           /\ accounts'[a].account_num = accounts[a].account_num
  PROVE  IInv'
<1>1. TypeOK'
  BY DEF IInv, TypeOK
<1>2. AddressesDerived' /\ NumbersGiven'
  BY DEF IInv, AddressesDerived, NumbersGiven
<1>3. \A o \in Owners : Own(o)' = Own(o)
  BY DEF Own
<1>4. \A o \in Owners : Lists(o)'
  BY <1>3, ListsIsForEach DEF IInv, Lists
<1>5. IndexerListsAccounts'
  BY <1>4 DEF Lists, Own, IndexerListsAccounts
<1> QED BY <1>1, <1>2, <1>5 DEF IInv

\* Every step preserves the inductive invariant.
LEMMA NextKeeps == IInv /\ [Next]_vars => IInv'
<1> SUFFICES ASSUME IInv, [Next]_vars PROVE IInv'
  OBVIOUS
<1>1. accounts \in [DOMAIN accounts -> OpenOrdersAccounts]
  BY DEF IInv, TypeOK
<1>2. ASSUME NEW owner \in Owners, create_open_orders_indexer(owner) PROVE IInv'
  BY <1>2, CreateIndexerKeeps
<1>3. ASSUME NEW owner \in Owners, close_open_orders_indexer(owner) PROVE IInv'
  BY <1>3, CloseIndexerKeeps
<1>4. ASSUME NEW owner \in Owners, NEW num \in 1..MaxCreated,
             NEW delegate \in Signers \cup {NoDelegate},
             create_open_orders_account(owner, num, delegate)
      PROVE  IInv'
  BY <1>4, CreateAccountKeeps
<1>5. ASSUME NEW owner \in Owners, NEW a \in Addresses, close_open_orders_account(owner, a)
      PROVE  IInv'
  BY <1>5, CloseAccountKeeps
<1>6. ASSUME NEW owner \in Owners, NEW a \in Addresses,
             NEW delegate \in Signers \cup {NoDelegate}, set_delegate(owner, a, delegate)
      PROVE  IInv'
  <2>1. accounts[a] \in OpenOrdersAccounts
    BY <1>1, <1>6 DEF set_delegate
  <2>2. [accounts[a] EXCEPT !.delegate = delegate] \in OpenOrdersAccounts
    BY <2>1 DEF OpenOrdersAccounts
  <2> QED BY <1>1, <1>6, <2>1, <2>2, SameAccountsKeep DEF set_delegate, OpenOrdersAccounts
<1>7. ASSUME NEW signer \in Signers, NEW a \in Addresses, trade(signer, a)
      PROVE  IInv'
  <2>1. accounts[a] \in OpenOrdersAccounts
    BY <1>1, <1>7 DEF trade
  <2>2. [accounts[a] EXCEPT !.busy = TRUE] \in OpenOrdersAccounts
    BY <2>1 DEF OpenOrdersAccounts
  <2> QED BY <1>1, <1>7, <2>1, <2>2, SameAccountsKeep DEF trade, OpenOrdersAccounts
<1>8. ASSUME NEW signer \in Signers, NEW to \in Signers, NEW a \in Addresses,
             settle_funds(signer, a, to)
      PROVE  IInv'
  <2>1. accounts[a] \in OpenOrdersAccounts
    BY <1>1, <1>8 DEF settle_funds
  <2>2. [accounts[a] EXCEPT !.busy = FALSE] \in OpenOrdersAccounts
    BY <2>1 DEF OpenOrdersAccounts
  <2> QED BY <1>1, <1>8, <2>1, <2>2, SameAccountsKeep DEF settle_funds, OpenOrdersAccounts
<1>9. CASE UNCHANGED vars
  BY <1>1, <1>9, SameAccountsKeep DEF vars
<1> QED BY <1>2, <1>3, <1>4, <1>5, <1>6, <1>7, <1>8, <1>9 DEF Next

\* So it holds of every reachable state.
LEMMA SpecIInv == Spec => []IInv
BY InitIInv, NextKeeps, PTL DEF Spec

-----------------------------------------------------------------------------
(* Theorems *)

\* close_open_orders_account always finds the account in the owner's indexer, and no
\* account is left when an indexer is closed.
THEOREM AccountsAreListed == Spec => []IndexerListsAccounts
<1>1. IInv => IndexerListsAccounts
  BY DEF IInv
<1> QED BY <1>1, SpecIInv, PTL

\* create_open_orders_account never meets an account at the address it derives,
\* also when an indexer was closed and made anew, so that numbers come back.
THEOREM NextAccountCanBeMade == Spec => []NextAddressFree
<1>1. ASSUME IInv, NEW o \in Owners, indexers[o] # NoIndexer,
             Address(o, indexers[o].created_counter + 1) \in DOMAIN accounts
      PROVE  FALSE
  <2> DEFINE n == indexers[o].created_counter
             a == Address(o, n + 1)
  <2>1. n \in Nat
    BY <1>1, OpenOrdersIndexerAssumption DEF IInv, TypeOK, Indexers
  <2>2. accounts[a].owner = o /\ accounts[a].account_num = n + 1
    BY <1>1 DEF IInv, AddressesDerived, Address
  <2>3. n + 1 <= n
    BY <1>1, <2>2 DEF IInv, NumbersGiven
  <2> QED BY <2>1, <2>3
<1>2. IInv => NextAddressFree
  BY <1>1 DEF NextAddressFree
<1> QED BY <1>2, SpecIInv, PTL
=============================================================================
