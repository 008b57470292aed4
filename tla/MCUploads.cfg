SPECIFICATION RetriedSpec
CONSTANTS
    Uploads = {u1, u2, u3}
    NoBuild = NoBuild
    MaxSessions = 2
    MaxFaults = 2
INVARIANT
    FinalizedIsClosed
PROPERTIES
    FinalizedIsWhole
    RetrySucceeds
