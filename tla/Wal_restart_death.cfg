SPECIFICATION Spec
CONSTANTS
    c1 = c1  c2 = c2  c3 = c3
    Conns = {c1, c2}
    Writers = {c1, c2}
    Checkpointers = {c1, c2}
    None = None
    MaxPage = 2
    MaxFrame = 3
    MaxWrites = 2
    MaxFaults = 1
    ReadMarks = 2
    DiesInRestart = TRUE
SYMMETRY Symmetry
INVARIANTS
    SnapshotIsolation
CHECK_DEADLOCK FALSE
