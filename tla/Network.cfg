SPECIFICATION FairSpec
CONSTANTS
  Nodes <- MCNodes
  Brokers <- MCBrokers
  MaxTransports = 8
  MaxCalls = 8
  Scenarios <- MCScenarios
INVARIANTS
    AssertionsHold
    MessagesAreAccepted
    NodesAgree
    ObjectsArrive
PROPERTY CallsAreAnswered
