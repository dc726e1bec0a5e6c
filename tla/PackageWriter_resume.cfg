SPECIFICATION FairSpec
CONSTANTS
  A = A
  B = B
  None = None
  Empty = Empty
  Torn = Torn
  Plans <- MCPlans
  Items <- MCItems
  Region <- MCRegion
  BatchSize <- MCBatchSize
  Starts <- ResumeTwoPlans
  MaxFails = 2
  MaxCrashes = 3
INVARIANTS
  JournalIsTrue
  OneBatchAtRisk
PROPERTIES
  ImplementsResumableBuild
  EventuallyFinished
