SPECIFICATION Spec
CONSTANTS
    k1 = k1
    k2 = k2
    k3 = k3
    Conns = {k1, k2, k3}
    AddrOf <- TwoAddresses
    Rooms = {r1, r2}
    NoRoom = NoRoom
    MaxId = 2
    Limit = 1
INVARIANTS
    LimitHolds
SYMMETRY Symmetry
CHECK_DEADLOCK FALSE
