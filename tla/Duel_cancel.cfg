SPECIFICATION Spec
CONSTANTS
    Count <- TwoOnOne
    Present <- TwoOnOne
    Relay = FALSE
    Limit = 1
    Grace = 0
    TicksPerSec = 1
    Late = 1
    Spectators = {}
    MaxDuels = 1
    MaxMsgs = 1
    MaxAnswers = 1
PROPERTIES
    CancelCancels
CHECK_DEADLOCK FALSE
