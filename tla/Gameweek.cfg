SPECIFICATION Spec
CONSTANTS
  p1 = p1
  p2 = p2
  r1 = r1
  r2 = r2
  e1 = e1
  e2 = e2
  x1 = x1
  None = None
  Preparer = {p1, p2}
  Run = {r1, r2}
  Evidence = {e1, e2, x1}
  Supported = {e1, e2}
  Computable = {e1}
  MaxRecords = 2
  Deadline = 1
  MaxTime = 2
  MaxFaults = 2
SYMMETRY Symmetry
INVARIANTS
  TypeOK
  ReadyIsPinned
  FinalBound
  CompletionStands
  BlockedOnlyWithCause
  SessionHonest
  JournalAnchored
PROPERTIES
  WriteOnce
CHECK_DEADLOCK FALSE
