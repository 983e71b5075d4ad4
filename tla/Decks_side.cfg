SPECIFICATION DecksSpec
CONSTANTS
    Codes = {0, 5, 10, 11, 30, 40, 50, 60, 70}
    Card <- SmallCard
    Requests <- FourRooms
    MainLists <- SomeMains
    SideLists <- SomeSides
INVARIANTS
    SameCards
CHECK_DEADLOCK FALSE
