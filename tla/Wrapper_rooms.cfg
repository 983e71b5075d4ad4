SPECIFICATION DLSpec
CONSTANTS
    c1 = c1
    c2 = c2
    bad = bad
    f = f
    g = g
    Rooms = {r1, r2, r3}
    Cores = {c1, c2, bad}
    Functions = {f, g}
    Exports <- SomeExports
    Wrappers = {w1, w2, w3, w4}
    Addresses = {a1, a2}
    MaxSsd = 3
    None = None
SYMMETRY Symmetry
INVARIANTS
    CallbacksReach
    RecordsKept
