SPECIFICATION FairSpec
CONSTANTS
  d1 = d1
  d2 = d2
  d3 = d3
  d4 = d4
  None = None
  Items <- MCItems4
  Plan <- MCPlan4
  Size <- MCSize
  Widened <- NoItems
  BlockSize = 2
  MaxAttempts = 3
  Workers = 3
  Limits <- WideAndNarrow
INVARIANTS
  FeedIsRight
  StagingSound
  EndIsClean
PROPERTIES
  EventuallyEnds
CHECK_DEADLOCK FALSE
