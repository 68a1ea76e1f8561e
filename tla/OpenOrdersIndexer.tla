------------------------- MODULE OpenOrdersIndexer -------------------------
(***************************************************************************)
(* The open orders accounts of the owners, the indexer that lists each     *)
(* owner's accounts and numbers new ones, and the delegates that may sign  *)
(* for an account.  An account's address is derived from its owner and a   *)
(* number, so an address comes back when an indexer is made anew.  What an *)
(* account holds is Orderbook and OpenBook's; here it holds something      *)
(* (busy) or nothing.                                                      *)
(***************************************************************************)
EXTENDS Naturals, Sequences, FiniteSets, SequencesExt

CONSTANTS
  Owners,
  Signers,        \* who may sign: owners and others
  MaxAddresses,   \* accounts an indexer lists (256)
  MaxCreated,     \* bound: accounts created with an indexer
  NoIndexer,
  NoDelegate

Address(owner, num) == <<owner, num>>
Addresses == Owners \X (1..MaxCreated)
Indexers == [created_counter : 0..MaxCreated, addresses : Seq(Addresses)]
OpenOrdersAccounts ==
  [owner : Owners, account_num : 1..MaxCreated, delegate : Signers \cup {NoDelegate},
   busy : BOOLEAN]

ASSUME OpenOrdersIndexerAssumption ==
  /\ Owners \subseteq Signers
  /\ MaxAddresses \in Nat /\ MaxCreated \in Nat
  /\ NoDelegate \notin Signers
  /\ NoIndexer \notin Indexers

VARIABLES
  indexers,  \* [Owners -> an indexer or NoIndexer]
  accounts   \* the accounts, by address

vars == <<indexers, accounts>>

Init ==
  /\ indexers = [o \in Owners |-> NoIndexer]
  /\ accounts = << >>

-----------------------------------------------------------------------------
create_open_orders_indexer(owner) ==
  /\ indexers[owner] = NoIndexer
  /\ indexers' = [indexers EXCEPT ![owner] = [created_counter |-> 0, addresses |-> << >>]]
  /\ UNCHANGED accounts

\* Variant with a bug: an indexer that lists accounts can be closed.
has_active_open_orders_accounts_Never(owner) == FALSE

has_active_open_orders_accounts(owner) == indexers[owner].addresses # << >>

close_open_orders_indexer(owner) ==
  /\ indexers[owner] # NoIndexer
  /\ ~has_active_open_orders_accounts(owner)
  /\ indexers' = [indexers EXCEPT ![owner] = NoIndexer]
  /\ UNCHANGED accounts

\* The account to be created is named by its address, which must be the next one's
\* and unused.
create_open_orders_account(owner, num, delegate) ==
  /\ indexers[owner] # NoIndexer
  /\ Len(indexers[owner].addresses) < MaxAddresses
  /\ num = indexers[owner].created_counter + 1
  /\ num <= MaxCreated
  /\ Address(owner, num) \notin DOMAIN accounts
  /\ indexers' = [indexers EXCEPT
       ![owner].addresses = Append(@, Address(owner, num)),
       ![owner].created_counter = @ + 1]
  /\ accounts' = [a \in DOMAIN accounts \cup {Address(owner, num)} |->
       IF a = Address(owner, num)
       THEN [owner |-> owner, account_num |-> num, delegate |-> delegate, busy |-> FALSE]
       ELSE accounts[a]]

\* The first position at which the indexer lists the account.
position(addresses, a) ==
  CHOOSE i \in DOMAIN addresses :
    addresses[i] = a /\ \A j \in 1..(i - 1) : addresses[j] # a

\* Variant with a bug: the number of a closed account is given out again.
Unlisted_CountsDown(indexer, a) ==
  [created_counter |-> indexer.created_counter - 1,
   addresses |-> RemoveAt(indexer.addresses, position(indexer.addresses, a))]

Unlisted(indexer, a) ==
  [indexer EXCEPT !.addresses = RemoveAt(@, position(@, a))]

close_open_orders_account(owner, a) ==
  /\ a \in DOMAIN accounts /\ accounts[a].owner = owner
  /\ indexers[owner] # NoIndexer
  /\ ~accounts[a].busy
  /\ a \in Range(indexers[owner].addresses)
  /\ indexers' = [indexers EXCEPT ![owner] = Unlisted(@, a)]
  /\ accounts' = [b \in DOMAIN accounts \ {a} |-> accounts[b]]

set_delegate(owner, a, delegate) ==
  /\ a \in DOMAIN accounts /\ accounts[a].owner = owner
  /\ accounts' = [accounts EXCEPT ![a].delegate = delegate]
  /\ UNCHANGED indexers

-----------------------------------------------------------------------------
(* Who may act for an account. *)

is_owner_or_delegate(account, ix_signer) == ix_signer \in {account.owner, account.delegate}

is_settle_destination_allowed(account, ix_signer, account_owner) ==
  IF ix_signer = account.delegate THEN account_owner = account.owner
  ELSE ix_signer = account.owner

\* Orders and deposits: place_order and the other instructions of the account.
trade(signer, a) ==
  /\ a \in DOMAIN accounts /\ is_owner_or_delegate(accounts[a], signer)
  /\ accounts' = [accounts EXCEPT ![a].busy = TRUE]
  /\ UNCHANGED indexers

settle_funds(signer, a, account_owner) ==
  /\ a \in DOMAIN accounts /\ is_owner_or_delegate(accounts[a], signer)
  /\ is_settle_destination_allowed(accounts[a], signer, account_owner)
  /\ accounts' = [accounts EXCEPT ![a].busy = FALSE]
  /\ UNCHANGED indexers

Next ==
  \/ \E owner \in Owners :
       create_open_orders_indexer(owner) \/ close_open_orders_indexer(owner)
  \/ \E owner \in Owners, num \in 1..MaxCreated, delegate \in Signers \cup {NoDelegate} :
       create_open_orders_account(owner, num, delegate)
  \/ \E owner \in Owners, a \in Addresses : close_open_orders_account(owner, a)
  \/ \E owner \in Owners, a \in Addresses, delegate \in Signers \cup {NoDelegate} :
       set_delegate(owner, a, delegate)
  \/ \E signer \in Signers, a \in Addresses : trade(signer, a)
  \/ \E signer, to \in Signers, a \in Addresses : settle_funds(signer, a, to)

Spec == Init /\ [][Next]_vars

-----------------------------------------------------------------------------
(* The client: find_or_create_account, when no account has the name. *)

\* One more than the highest number of the owner's accounts, 0 when there are none.
account_num(owner) ==
  LET nums == {accounts[a].account_num : a \in {b \in DOMAIN accounts : accounts[b].owner = owner}}
  IN  IF nums = {} THEN 0 ELSE 1 + CHOOSE n \in nums : \A m \in nums : m <= n

-----------------------------------------------------------------------------
(* Properties *)

\* close_open_orders_account finds the account in the indexer (position(..).unwrap()),
\* and close_open_orders_indexer leaves none behind: an indexer lists the owner's
\* accounts, each once, also when it was made anew and numbers and addresses came back.
IndexerListsAccounts ==
  \A o \in Owners :
    LET own == {a \in DOMAIN accounts : accounts[a].owner = o}
    IN  IF indexers[o] = NoIndexer THEN own = {}
        ELSE Range(indexers[o].addresses) = own /\ IsInjective(indexers[o].addresses)

\* An owner with a free place can always get another account: the address of the
\* next number is unused.
NextAddressFree ==
  \A o \in Owners :
    indexers[o] # NoIndexer =>
      Address(o, indexers[o].created_counter + 1) \notin DOMAIN accounts

\* open_orders_account.rs 95: "owner can withdraw to anywhere".
OwnerWithdrawsAnywhere ==
  \A a \in DOMAIN accounts, to \in Signers :
    is_settle_destination_allowed(accounts[a], accounts[a].owner, to)

\* test_indexer.rs 40: an owner's accounts are numbered 1, 2, 3, ... and a closed
\* account's number is not used again; the client asks for the number that the
\* program gives.
ClientAsksForNext ==
  \A o \in Owners :
    indexers[o] # NoIndexer => account_num(o) = indexers[o].created_counter + 1
=============================================================================
