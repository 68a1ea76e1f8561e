SPECIFICATION Spec
CONSTANTS
  Owners = {alice, bob}
  Signers = {alice, bob, carol}
  MaxAddresses = 2
  MaxCreated = 3
  NoIndexer = NoIndexer
  NoDelegate = NoDelegate
INVARIANTS
  IndexerListsAccounts
  NextAddressFree
