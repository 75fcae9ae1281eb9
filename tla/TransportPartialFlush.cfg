CONSTANTS
    Scenarios <- LongQueued
    MaxThreads = 2
    HeaderSize = 1
    BufferSize = 3
    Capacity = 2
    ReadSize = 4
SPECIFICATION Spec
INVARIANT MessagesArriveInOrder
