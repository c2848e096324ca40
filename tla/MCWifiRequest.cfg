SPECIFICATION FairSpec
CONSTANTS
    Callers = {c1, c2}
    Queries <- MCQueries
    MaxItems = 2
    MaxRequests = 3
INVARIANTS
    TypeOK
    NothingLeftOver
    AloneGetsOwn
    WithinBuffer
    CountMatchesItems
PROPERTY EveryCallerReturns
CHECK_DEADLOCK FALSE
