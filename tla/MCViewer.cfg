SPECIFICATION Spec
CONSTANTS
    Archives = {a1, a2}
    Intents = {i1, i2}
    NoArchive = NoArchive
    NoIntent = NoIntent
    MaxFaults = 1
SYMMETRY Symmetry
INVARIANTS
    RuntimeIsOneArchive
    PaidIsResumable
    UnlockedWasPaid
    LicenceIsRenewable
