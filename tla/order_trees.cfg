SPECIFICATION Spec
CONSTANTS
  MAX_ORDERTREE_NODES = 6
  PriceBits = 2
  SeqBits = 1
  NoExpiry = 9
  BidsOrAsks = "Bid"
  Orders <- TwoTrees
  Times = {2}
INVARIANTS
  NodesAccounted
  InnerNodesRight
  IterationBestFirst
  RoomUnlessFull
PROPERTIES
  ImplementsOrderSet
