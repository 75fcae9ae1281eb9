SPECIFICATION FairSpec
CONSTANTS
  Scenarios <- MCScenarios
  MaxCalls = 5
  PrimaryBlocks <- MCPrimaryBlocks
  NewBlocks = 1
  MinFallback = 2
  MaxSize = 4
  MaxCapacity = 8
INVARIANTS
    AssertionsHold
    BlocksAreOwned
    SharedBeforeUsed
    SidesAgree
    ParcelsArrive
PROPERTY WorkEnds
