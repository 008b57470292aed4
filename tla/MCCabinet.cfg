SPECIFICATION Spec
CONSTANTS
    NoData = NoData
    Guest = Guest
    None = None
    Wallets = {w1}
    Typed <- Prices
    Precision = 256
    Finest = 2048
    Spacings <- PowersOfTwo
    FixedLimit = 4
    MaxTokens = 2
    MaxPresses = 1
    MaxTroubles = 1
INVARIANTS
    SignOutForgets
    AsPressed
CHECK_DEADLOCK FALSE
