SPECIFICATION FairSpec
CONSTANTS
  Setups <- FailingAndFlooded
  MaxOwnerEvents = 2
  MaxClientQueue = 2
  MaxClientSlots = 2
  MaxStorageTasks = 2
  MaxStorageCompletions = 1
  MaxQuarantined = 6
  MaxGroupOperations = 2
  MaxOps = 3
  MaxFaults = 1
CHECK_DEADLOCK FALSE
PROPERTIES OperationCompletes GateOpens StopReturns InputsAdmitted
