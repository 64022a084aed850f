SPECIFICATION Spec
CONSTANTS
  Node = {n1, n2, n3}
  Nil = Nil
  Session = {s1}
  Key = {k1}
  Value = {v1, v2}
  s1 = s1
  k1 = k1
  v1 = v1
  v2 = v2
  Empty = Empty
  Absent = Absent
  MaxSequence = 3
  Request <- MCRequest
  MaxTerm = 2
  MaxLog = 4
CONSTRAINT ClientsOfTwoLeaders
SYMMETRY Symmetry
CHECK_DEADLOCK FALSE
INVARIANTS AtMostOnce InterpreterAgrees
