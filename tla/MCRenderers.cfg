CONSTANTS
  A = A  B = B  f1 = f1  f2 = f2  f3 = f3
  Archives = {A, B}
  Files = {f1, f2, f3}
  KindOf <- MCKindOf
  SheetRows = 3
  WindowRows = 2
  MaxViewers = 2
  MaxSerial = 2
  MaxTurns = 2
  NoArchive = NoArchive
  Nothing = Nothing
SPECIFICATION FairSpec
INVARIANT ViewerShowsWhatItAsked
PROPERTY ReplacedViewerIsReleased
CHECK_DEADLOCK FALSE
