CONSTANTS
  Nil = Nil
  A = A
  B = B
  Batch <- MCBatch
  Setups <- StopsAndPower
  MaxLog = 3
  MaxGroup = 2
  MaxFrames = 3
  MaxFaults = 2
SPECIFICATION Spec
CHECK_DEADLOCK FALSE
INVARIANT AckedSurvives
