SPECIFICATION FairSpec
CONSTANTS
    MaxCalls = 3
    MaxLoop = 3
INVARIANTS
    OwnAnswer
PROPERTIES
    CoreGivenOnce
    CallsReturn
    DestructorEnds
CHECK_DEADLOCK FALSE
