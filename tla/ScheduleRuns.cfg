SPECIFICATION FairSpec
CONSTANTS
  launchd = launchd
  byhand = byhand
  None = None
  Run = {launchd, byhand}
  Scheduled = launchd
  HasPrediction = TRUE
  NotBefore = 1
  Expires = 2
  MaxTime = 2
  MaxEvents = 3
  MaxFaults = 1
INVARIANTS
  TypeOK
  MarkerHonest
  DeactivatedIsQuiet
  NotActivatedIsInert
PROPERTIES
  FirstMarkerStays
  Concludes
CHECK_DEADLOCK FALSE
