SPECIFICATION Spec
CONSTANTS
  p1 = p1
  p2 = p2
  q1 = q1
  q2 = q2
  v1 = v1
  v2 = v2
  None = None
  Proc = {p1, p2}
  Prediction = {q1, q2}
  Version = {v1, v2}
  Stability = 1
  MaxStall = 0
  Now = 1
  MaxSnapshots = 2
  MaxFaults = 1
  CarefulOperator = TRUE
SYMMETRY Symmetry
INVARIANTS
  TypeOK
  LockExclusive
  OneRefreshPerReset
  EvaluatedOnce
  OutcomeTruthful
PROPERTIES
  RefreshOnlyWhenStable
  ReviewLeftOnlyByReset
  QuietAfterReceipts
CHECK_DEADLOCK FALSE
