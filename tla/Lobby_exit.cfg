SPECIFICATION FairSpec
CONSTANTS
    k1 = k1
    k2 = k2
    k3 = k3
    Conns = {k1}
    AddrOf <- TwoAddresses
    Rooms = {r1}
    NoRoom = NoRoom
    MaxId = 1
    Limit = 1
PROPERTIES
    ServerExits
CHECK_DEADLOCK FALSE
