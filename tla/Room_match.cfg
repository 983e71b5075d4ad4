SPECIFICATION ViewSpec
CONSTANTS
    ann = ann
    bob = bob
    cyd = cyd
    Clients = {ann, bob, cyd}
    NoClient = NoClient
    IpOf <- OwnAddress
    T0Count = 2
    T1Count = 1
    Relay = TRUE
    BestOf = 3
    TimeLimited = TRUE
SYMMETRY Symmetry
INVARIANTS
    RosterSound
    HostPresent
    LineupComplete
    AwaitedAreAsked
PROPERTIES
    KeepsPromise
    UnanimousConsent
    PictureTrue
CHECK_DEADLOCK FALSE
