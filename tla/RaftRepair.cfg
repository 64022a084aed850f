SPECIFICATION Spec
CONSTANTS
  n1 = n1
  n2 = n2
  n3 = n3
  Nil = Nil
  c1 = c1
  Node = {n1, n2, n3}
  Command = {c1}
  MaxEntriesPerRpc = 1
  MaxUncommitted = 2
  RetryHeartbeats = 1
  MaxElections = 3
  MaxLog = 2
  MaxRpc = 0
  MaxFaults = 1
  MaxLate = 0
CONSTRAINT ThirdLeader
SYMMETRY NodeSymmetry
CHECK_DEADLOCK FALSE
INVARIANTS LogMatching UncommittedBounded LeaderCompleteness ReadyLeaderIsCurrent PendingClientsMatchLog
PROPERTIES OnlyStorageStopsNode ImplementsReplicatedLog
