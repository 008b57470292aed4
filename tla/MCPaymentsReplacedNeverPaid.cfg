SPECIFICATION Spec
CONSTANTS
    Issuances = {i1, i2}
    Accounts = {a1}
    Builders = {b1}
    Verifiers = {v1}
    Window = 1
    MaxHeight = 4
    NoIssuance = NoIssuance
    NoAccount = NoAccount
    NoBuilder = NoBuilder
INVARIANT ReplacedNeverPaid
