SPECIFICATION FairSpec
CONSTANTS
    MaxCalls = 1
    MaxLoop = 2
PROPERTIES
    ConstructorEnds
CHECK_DEADLOCK FALSE
