CONSTANTS
  Window = 3
  Tolerance = 1
  Skews <- MCSkews
  StartTime = 2
  MaxTime = 5
  MaxSets = 2
  MaxOpens = 3
  MaxCrashes = 1
SPECIFICATION Spec
PROPERTIES MarkOnlyGrows
CHECK_DEADLOCK FALSE
