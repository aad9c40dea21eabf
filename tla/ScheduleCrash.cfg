SPECIFICATION FairSpec
CONSTANTS
  launchd = launchd
  byhand = byhand
  None = None
  Run = {launchd}
  Scheduled = launchd
  HasPrediction = TRUE
  NotBefore = 0
  Expires = 1
  MaxTime = 1
  MaxEvents = 2
  MaxFaults = 1
PROPERTIES
  CrashIsReentered
CHECK_DEADLOCK FALSE
