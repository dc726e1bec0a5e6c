SPECIFICATION FairSpec
CONSTANTS
  k1 = k1
  k2 = k2
  k3 = k3
  k4 = k4
  k5 = k5
  w1 = w1
  Main = Main
  Keys <- ThreeKeys
  Workers <- OneWorker
  Capacity = 2
  ProbationaryCapacity = 1
  Cuda = TRUE
  VramCapacity = 1
  PromotionThreshold = 2
  PinCount = 1
  Warmup = 2
  Waits = TRUE
  MaxCalls = 4
  MaxTasks = 2
  MaxCount = 0
PROPERTIES
  MainNeverWaits
