SPECIFICATION Spec
CONSTANTS
    Pagers = {p1, p2}
    MaxPage = 2
    MaxTx = 2
    PowerFrom = 1
SYMMETRY Symmetry
INVARIANTS
    TypeOK
    ReadersSeeCommitted
    DeathIsHarmless
    PowerLossIsAtomic
    JournalOutlivesItsWriter
CHECK_DEADLOCK FALSE
