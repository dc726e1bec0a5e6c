SPECIFICATION Spec
CONSTANTS
  p1 = p1
  p2 = p2
  p3 = p3
  a1 = a1
  a2 = a2
  None = None
  Pages <- MCPages1
  Actors <- MCActors2
  Slices <- MCSlices2
  SliceLen = 2
  Stride <- UnitStride
  MaxCache = 1
  Workers = 2
  Shared <- NoPages
  HardCrash = FALSE
  MaxCalls = 3
  MaxFaults = 2
  MaxCrashes = 2
  MaxRots = 1
INVARIANTS
  PublishedPageIsExact
PROPERTIES
  ProgressIsKept
  ImplementsPageCache
