SPECIFICATION Spec
CONSTANTS
  Layers = 2
  Experts <- MCExperts
  VramCaps <- MCVramCaps
  RamCap = 2
  MaxQueue = 2
  TopK = 2
  MaxFailures = 1
INVARIANTS
  TiersSound
  ReadsAreRight
PROPERTIES
  PassesAreWhole
