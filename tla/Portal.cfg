CONSTANTS
    pa = pa
    pb = pb
    pc = pc
    pd = pd
    pe = pe
    pf = pf
    t1 = t1
    t2 = t2
    Null = Null
    MaxSequenceGap = 9
    Portals <- MCPortals
    Threads <- MCThreads
    Scenarios <- MCScenarios
SPECIFICATION FairSpec
INVARIANTS
    AssertionsHold
    TrapsFire
    StatusIsTrue
    ParcelsArriveInOrder
    RoutesReduce
PROPERTY CallsEnd
