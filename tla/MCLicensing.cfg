SPECIFICATION FairSpec
CONSTANTS
    Requests = {r1, r2}
    Nonces = {n1, n2}
    Tokens = {t1, t2}
    Recovery = 1
    MaxTime = 2
    NoToken = NoToken
    NoRequest = NoRequest
    NoNonce = NoNonce
INVARIANTS
    OneDevice
    NonceSingleUse
    RecoveryIsBounded
PROPERTIES
    RotatedTokenIsDead
    RequestsEnd
