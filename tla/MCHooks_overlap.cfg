SPECIFICATION Spec
CONSTANTS
    p1 = p1  p2 = p2  a1 = a1  a2 = a2
    u1 = u1  u2 = u2  c1 = c1  v1 = v1  v2 = v2  z1 = z1  z2 = z2  z3 = z3
    PoolThreads = {p1, p2}
    AppThreads = {a1}
    Tokens = {u1, z1, z2}
    Validators <- MCValidators
    KindOf <- MCKindOf
    NoThread = NoThread
    NoToken = NoToken
    CloseAwaits = FALSE
INVARIANTS
    RegisteredIsHeard
    StatementKeepsOpen
    StallsOnlyByInversion
PROPERTIES
    ImplementsHookDelivery
CHECK_DEADLOCK FALSE
