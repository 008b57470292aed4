SPECIFICATION UploadSpec
CONSTANTS
    Uploads = {u1, u2}
    NoBuild = NoBuild
    MaxSessions = 2
    MaxFaults = 2
INVARIANTS
    Whole
