SPECIFICATION MCSpec
CONSTANTS
  Setups <- EachPart
  MaxQueuedPerLink = 3
  MaxTotalQueued = 4
  MaxExtraDuplicates = 1
  MaxPendingOperations = 3
  MaxPendingBytes = 4
  DropInFlight = TRUE
CHECK_DEADLOCK FALSE
INVARIANTS BytesAccounted TimersKept AckedRecovered OperationBridged TimerBound
PROPERTIES FlushIsBarrier CrashLeavesPrefix
