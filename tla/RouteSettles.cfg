CONSTANTS
    n1 = n1
    n2 = n2
    n3 = n3
    X = X
    Y = Y
    Null = Null
    MaxSequenceGap = 10
    Nodes <- MCNodes
    Scenarios <- SettleScenarios
SPECIFICATION FairSpec
PROPERTY Settles
CHECK_DEADLOCK FALSE
