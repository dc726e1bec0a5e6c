SPECIFICATION Spec
CONSTANTS
  k1 = k1
  k2 = k2
  k3 = k3
  k4 = k4
  k5 = k5
  w1 = w1
  Main = Main
  Keys <- FourKeys
  Workers <- NoWorkers
  Capacity = 3
  ProbationaryCapacity = 1
  Cuda = TRUE
  VramCapacity = 1
  PromotionThreshold = 3
  PinCount = 1
  Warmup = 2
  Waits = FALSE
  MaxCalls = 7
  MaxTasks = 0
  MaxCount = 2
INVARIANTS
  PartitionsSound
  WarmStays
  FetchSucceeds
PROPERTIES
  PinnedAreProtected
