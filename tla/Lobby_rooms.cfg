SPECIFICATION FairSpec
CONSTANTS
    k1 = k1
    k2 = k2
    k3 = k3
    Conns = {k1, k2}
    AddrOf <- TwoAddresses
    Rooms = {r1, r2}
    NoRoom = NoRoom
    MaxId = 2
    Limit = 1
INVARIANTS
    UniqueIds
    ListingHonest
    CountsExact
PROPERTIES
    SlotsComeBack
    WaitingRoomsClose
CHECK_DEADLOCK FALSE
