CONSTANTS
    n1 = n1
    n2 = n2
    n3 = n3
    X = X
    Y = Y
    Null = Null
    MaxSequenceGap = 10
    Nodes <- MCNodes
    Scenarios <- ConcurrentScenarios
SPECIFICATION Spec
INVARIANTS
    NothingBroken
    LeavesNothingBehind
PROPERTY ImplementsPortalPair
CHECK_DEADLOCK FALSE
