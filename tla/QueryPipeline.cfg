SPECIFICATION FairSpec
CONSTANTS
    PoolThreads = {p1, p2}
    Queries = {f1, f2, s1}
    ByFuture = {f1, f2}
    MaxRows = 2
    NoQuery = NoQuery
INVARIANTS
    TypeOK
    RowsInOrder
    SuccessIsComplete
    AnswerComesLast
PROPERTIES
    AnswerIsFinal
    EveryQueryIsAnswered
CHECK_DEADLOCK FALSE
