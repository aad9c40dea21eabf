SPECIFICATION FairSpec
CONSTANTS
  p1 = p1
  p2 = p2
  q1 = q1
  q2 = q2
  v1 = v1
  v2 = v2
  None = None
  Proc = {p1}
  Prediction = {q1}
  Version = {v1, v2}
  Stability = 2
  MaxStall = 1
  Now = 3
  MaxSnapshots = 1
  MaxFaults = 1
  CarefulOperator = TRUE
PROPERTIES
  RefreshOnlyWhenStable
  AnswerEventually
CHECK_DEADLOCK FALSE
