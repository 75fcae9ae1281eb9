CONSTANTS
    Threads = {t1, t2}
    NumBlocks = 4
    Data <- MCData
    MaxUpdates = 6
SPECIFICATION Spec
INVARIANTS
    TypeOK
    BlocksAreAccountedFor
PROPERTY ImplementsFreeList
CHECK_DEADLOCK FALSE
