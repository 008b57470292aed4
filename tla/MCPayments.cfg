SPECIFICATION Spec
CONSTANTS
    Issuances = {i1, i2}
    Accounts = {a1}
    Builders = {b1}
    Verifiers = {v1, v2}
    Window = 1
    MaxHeight = 4
    NoIssuance = NoIssuance
    NoAccount = NoAccount
    NoBuilder = NoBuilder
SYMMETRY Symmetry
INVARIANTS
    NoConcurrentlyPayable
    PaymentIsFinal
    ConfirmedIffPaid
