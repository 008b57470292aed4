SPECIFICATION Spec
CONSTANTS
    Wallets = {w1}
    Owner = w1
    Sessions = {s1}
    NoSession = NoSession
    Slots = {r1, r2}
    ChallengeTtl = 2
    ViewWindow = 3
    MaxTime = 1
    MaxRequests = 3
    MaxFaults = 0
PROPERTY BlockStopsSale
CHECK_DEADLOCK FALSE
