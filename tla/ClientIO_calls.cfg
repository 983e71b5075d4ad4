SPECIFICATION FairSpec
CONSTANTS
    MaxOut = 3
    MaxIn = 4
INVARIANTS
    WritesInOrder
    NoDanglingClient
PROPERTIES
    FlushedFirst
    ClientsEnd
CHECK_DEADLOCK FALSE
