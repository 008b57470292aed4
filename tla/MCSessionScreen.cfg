CONSTANTS
  Window = 3
  Tolerance = 1
  Skews = {0}
  StartTime = 2
  MaxTime = 6
  MaxSets = 0
  MaxOpens = 1
  MaxCrashes = 0
SPECIFICATION FairInterfaceSpec
PROPERTIES ScreenFollowsSession
CHECK_DEADLOCK FALSE
