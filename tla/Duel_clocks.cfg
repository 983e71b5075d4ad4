SPECIFICATION FairSpec
CONSTANTS
    Count <- TwoOnOne
    Present <- TwoOnOne
    Relay = FALSE
    Limit = 1
    Grace = 1
    TicksPerSec = 2
    Late = 2
    Spectators = {s1}
    MaxDuels = 2
    MaxMsgs = 3
    MaxAnswers = 2
INVARIANTS
    ClockOfAsked
    DeckInPlay
    ReplayFaithful
PROPERTIES
    QuestionsEnd
CHECK_DEADLOCK FALSE
