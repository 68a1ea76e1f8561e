SPECIFICATION Spec
CONSTANTS
  Slots <- FourSlots
  Pubkeys = {market}
  Trees <- AllTrees
  MaxWrites = 4
  Faults = {}
INVARIANTS
  TypeOK
  UnclesBelowTip
  AccountIsCurrentBest
