SPECIFICATION Spec
CONSTANTS
    Wallets = {w1, w2}
    Owner = w1
    Sessions = {s1}
    NoSession = NoSession
    Slots = {r1, r2}
    ChallengeTtl = 2
    ViewWindow = 3
    MaxTime = 4
    MaxRequests = 5
    MaxFaults = 1
SYMMETRY Symmetry
INVARIANTS LoginsAreAccounted CoverIsWhole ViewsAreDeduplicated
CHECK_DEADLOCK FALSE
