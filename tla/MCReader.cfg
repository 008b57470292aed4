CONSTANTS
  Directories <- MCDirectories
  Chunk = 2
  Tag = 1
  MaxRead = 4
  KeyId = KeyId
  Garbage = Garbage
  Refused = Refused
  None = None
  MaxBuilds = 2
  Harms = {"header", "data", "signature"}
  MaxFaults = 2
  OtherDirectory = "edited"
SPECIFICATION FairSpec
INVARIANTS NothingLeftBehind AnswersAreTheSource
PROPERTIES SignsOnlyWhatReadsBack EveryBuildEnds
CHECK_DEADLOCK FALSE
