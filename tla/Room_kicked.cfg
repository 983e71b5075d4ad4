SPECIFICATION ViewSpec
CONSTANTS
    ann = ann
    bob = bob
    cyd = cyd
    Clients = {ann, bob, cyd}
    NoClient = NoClient
    IpOf <- SharedAddress
    T0Count = 1
    T1Count = 1
    Relay = FALSE
    BestOf = 1
    TimeLimited = FALSE
PROPERTIES
    KickedIpNeverJoins
CHECK_DEADLOCK FALSE
