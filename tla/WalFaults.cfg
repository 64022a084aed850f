CONSTANTS
  Nil = Nil
  A = A
  B = B
  Batch <- MCBatch
  Setups <- OneKindOfFault
  MaxLog = 3
  MaxGroup = 2
  MaxFrames = 4
  MaxFaults = 3
SPECIFICATION Spec
CHECK_DEADLOCK FALSE
INVARIANTS AckedSurvives ReportedNeverTakenBack MemoryIsReplay
