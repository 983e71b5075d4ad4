SPECIFICATION LiveSpec
CONSTANTS
    ann = ann
    bob = bob
    cyd = cyd
    Clients = {ann, bob, cyd}
    NoClient = NoClient
    IpOf <- OwnAddress
    T0Count = 1
    T1Count = 1
    Relay = FALSE
    BestOf = 1
    TimeLimited = TRUE
PROPERTIES
    ClosingDrains
    CloseIsHonoured
CHECK_DEADLOCK FALSE
