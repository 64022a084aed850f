SPECIFICATION Spec
CONSTANTS
  Setups <- Modes
  MaxOwnerEvents = 2
  MaxClientQueue = 1
  MaxClientSlots = 2
  MaxStorageTasks = 2
  MaxStorageCompletions = 1
  MaxQuarantined = 6
  MaxGroupOperations = 2
  MaxOps = 3
  MaxFaults = 1
CHECK_DEADLOCK FALSE
INVARIANTS DurableBeforeVisible AnsweredOnce OperationInFlight TimerKept
PROPERTIES ApplyAfterFlush
