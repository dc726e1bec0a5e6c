SPECIFICATION Spec
CONSTANTS
  k1 = k1
  k2 = k2
  k3 = k3
  k4 = k4
  k5 = k5
  w1 = w1
  Main = Main
  Keys <- FiveKeys
  Workers <- OneWorker
  Capacity = 2
  ProbationaryCapacity = 1
  Cuda = FALSE
  VramCapacity = 1
  PromotionThreshold = 1
  PinCount = 1
  Warmup = 1
  Waits = TRUE
  MaxCalls = 9
  MaxTasks = 1
  MaxCount = 0
INVARIANTS
  PrefetchSound
SYMMETRY Symmetry
