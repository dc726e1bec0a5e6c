SPECIFICATION Spec
CONSTANTS
  PageBytes = 16
  DenseAlign = 4
  WordBits = 5
  BitXor <- MCXor
  CacheRows = 2
  CacheWeights = 9
  HeadChunk = 2
  Orders <- MCOrders
  Histories <- MCHistories
INVARIANTS
  ReadsAndCaches
  AcceptedIsRight
  FreshIsAccepted
  PlanIsSound
  LoadedModelIsWhole
CHECK_DEADLOCK FALSE
