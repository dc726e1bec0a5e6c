SPECIFICATION ToolsSpec
CONSTANTS
  Order <- MCOrder
  Bytes <- MCBytes
  MaxShardBytes = 3
  MaxFaults = 2
  Absent = Absent
  Torn = Torn
  ScanJobs <- MCScanJobs
  MaxWorkers = 2
  ProbeBytes = 16
  SampleLimit = 2
  DefaultShard = 0
  DetailLimit = 1
  TileJobs <- MCTileJobs
  RowUnit = 8
  TwiceWorkspace = 13
  MB = 1000
  SmallCap = 100
  FloorMB = 25
  ReserveMB = 20
  MarginMB = 15
  Keys <- MCKeys
  Traces <- MCTraces
  Sweeps <- MCSweeps
  SampleWindow = 4
INVARIANTS
  ScansAreTrue
  TiledIsWhole
  QuantizedFits
  MetricsAccount
  OracleBounds
  IndexSound
  FreshRunIsWhole
PROPERTIES
  ScanEnds
  JobsEndForGood
CHECK_DEADLOCK FALSE
