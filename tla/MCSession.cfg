CONSTANTS
  Window = 3
  Tolerance = 1
  Skews <- MCSkews
  StartTime = 2
  MaxTime = 4
  MaxSets = 2
  MaxOpens = 3
  MaxCrashes = 1
SPECIFICATION FairSpec
PROPERTIES RollbackIsBounded OverdueSessionEnds
CHECK_DEADLOCK FALSE
