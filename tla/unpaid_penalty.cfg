SPECIFICATION Spec
CONSTANTS
  FEES_SCALE_FACTOR = 10
  maker_fee = 1
  taker_fee = 2
  base_lot_size = 2
  quote_lot_size = 3
  MAX_ORDERTREE_NODES = 8
  MaxPrice = 10
  MAX_OPEN_ORDERS = 2
  MAX_NUM_EVENTS = 4
  DROP_EXPIRED_ORDER_LIMIT = 2
  FILL_EVENT_REMAINING_LIMIT = 1
  Accounts = {alice, bob}
  Takers = {}
  InitialTokens <- Purse
  MaxBaseLots = 100
  MAX_EVENTS_CONSUME = 8
  OrderArgs <- OnlyExpired
  TakeArgs <- None
  Batches <- None
  CancelSizes <- None
  DepositAmounts <- None
  Limits <- Many
  SlotLists <- NoSlots
  TimeExpiries <- NeverExpires
  OraclePrices <- NoOracle
  MaxSeqNum = 2
  MaxTime = 1
  MAXIMUM_TAKEN_ORDERS = 2
  Budgets <- None
  InAmounts <- None
  MaxQuoteLots = 60
CHECK_DEADLOCK FALSE
INVARIANTS
  PenaltiesArePaid
