SPECIFICATION Spec
CONSTANTS
    Processes = {p1, p2}
    Rooms = {r1, r2}
    MaxId = 3
SYMMETRY Alike
CONSTRAINT Promised
INVARIANTS
    ReplaysKept
    ReplayReadsBack
CHECK_DEADLOCK FALSE
