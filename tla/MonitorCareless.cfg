SPECIFICATION Spec
CONSTANTS
  p1 = p1
  p2 = p2
  q1 = q1
  q2 = q2
  v1 = v1
  v2 = v2
  None = None
  Proc = {p1, p2}
  Prediction = {q1, q2}
  Version = {v1}
  Stability = 0
  MaxStall = 0
  Now = 0
  MaxSnapshots = 1
  MaxFaults = 0
  CarefulOperator = FALSE
SYMMETRY Symmetry
INVARIANTS
  ReceiptBacked
  StatusTruthful
PROPERTIES
  LedgerRefined
CHECK_DEADLOCK FALSE
