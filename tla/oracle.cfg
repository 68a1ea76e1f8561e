SPECIFICATION Spec
CONSTANTS
  OracleTypes <- AllTypes
  Prices <- AnyPrices
  Deviations = {0, 1}
  ConfFilters = {40}
  MaxStalenesses <- AnyOrOneSlot
  base_unit = 10
  quote_unit = 1
  base_lot_size = 30
  quote_lot_size = 2
  MaxSlot = 3
INVARIANTS
  PriceIsRecent
  CombinedNoLooser
