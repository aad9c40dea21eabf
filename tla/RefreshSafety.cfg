SPECIFICATION Spec
CONSTANTS
  p1 = p1
  p2 = p2
  x1 = x1
  x2 = x2
  x3 = x3
  None = None
  Proc = {p1, p2}
  Player = {x1, x2, x3}
  MaxFaults = 3
SYMMETRY Symmetry
INVARIANTS
  TypeOK
  LockExclusive
  CompleteIsCoherent
  FetchedOnce
  RecordedIsStored
PROPERTIES
  CompletedImmutable
CHECK_DEADLOCK FALSE
