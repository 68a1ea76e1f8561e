SPECIFICATION Spec
CONSTANTS
  MAX_NUM_EVENTS = 5
  NO_NODE = 65535
  Events = {fill, out}
  ZeroEvent = zero
INVARIANTS
  TypeOK
  HeapStructure
  IterationInArrivalOrder
PROPERTIES
  ImplementsQueue
