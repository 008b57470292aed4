SPECIFICATION PageLiveSpec
CONSTANTS
    NoData = NoData
    Selection <- ThreeSelections
    MaxVisits = 2
    MaxMoves = 1
    MaxSetbacks = 1
INVARIANTS
    RowsAreTrue
    NothingLeftHanging
    VanishedIsShown
    NoFileIsOverwritten
PROPERTY PageSettles
CHECK_DEADLOCK FALSE
