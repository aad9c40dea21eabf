SPECIFICATION Spec
CONSTANTS
  a1 = a1
  a2 = a2
  b1 = b1
  Actor = {a1, a2}
  Bytes = {b1}
  Mixed = Mixed
  None = None
  ContextId = {c1}
  Deadline = 1
  MaxTime = 1
  MaxEdits = 1
  MaxFaults = 1
  Backup = {k1}
  Copy = {d1}
SYMMETRY Symmetry
INVARIANTS
  CapturedStands
  BlockedOnlyByCut
  RestoredIsOneInstant
CHECK_DEADLOCK FALSE
