SPECIFICATION FairSpec
CONSTANTS
  p1 = p1
  p2 = p2
  p3 = p3
  a1 = a1
  a2 = a2
  None = None
  Pages <- MCPages3
  Actors <- MCActors2
  Slices <- MCSlices2
  SliceLen = 1
  Stride <- MixedStride
  MaxCache = 2
  Workers = 2
  Shared <- NoPages
  HardCrash = FALSE
  MaxCalls = 3
  MaxFaults = 1
  MaxCrashes = 0
  MaxRots = 1
INVARIANTS
  Accounting
  HeldPageStays
PROPERTIES
  EveryCallReturns
