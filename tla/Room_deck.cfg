SPECIFICATION ViewSpec
CONSTANTS
    ann = ann
    bob = bob
    cyd = cyd
    Clients = {ann, bob, cyd}
    NoClient = NoClient
    IpOf <- OwnAddress
    T0Count = 1
    T1Count = 1
    Relay = FALSE
    BestOf = 2
    TimeLimited = FALSE
INVARIANTS
    OriginalDeckValid
CHECK_DEADLOCK FALSE
