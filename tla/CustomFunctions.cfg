SPECIFICATION Spec
CONSTANTS
    f1 = f1  g1 = g1  gAny = gAny  s1 = s1  s2 = s2  c1 = c1  c2 = c2
    Definitions = {f1, g1, gAny}
    KindOf <- MCKindOf
    ArityOf <- MCArityOf
    Stmts = {s1, s2}
    Calls = {c1, c2}
    Absent = Absent
    Deleted = Deleted
SYMMETRY MCSymmetry
INVARIANTS
    TypeOK
    RunsWhatItCompiled
    HeldWhileInstalled
    ContextsAreReleased
CHECK_DEADLOCK FALSE
