SPECIFICATION FairSpec
CONSTANTS
  p1 = p1
  p2 = p2
  x1 = x1
  x2 = x2
  None = None
  Proc = {p1}
  Player = {x1}
  MaxFaults = 0
PROPERTIES
  IncompleteIsResumable
CHECK_DEADLOCK FALSE
