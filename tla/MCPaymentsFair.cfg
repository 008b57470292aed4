SPECIFICATION FairSpec
CONSTANTS
    Issuances = {i1, i2}
    Accounts = {a1}
    Builders = {b1, b2}
    Verifiers = {v1}
    Window = 0
    MaxHeight = 3
    NoIssuance = NoIssuance
    NoAccount = NoAccount
    NoBuilder = NoBuilder
PROPERTIES KeepsPromise IntentCloses
