CONSTANTS
    a1 = a1
    a2 = a2
    b1 = b1
    Threads <- MCThreads
    SideOf <- MCSideOf
SPECIFICATION Spec
INVARIANTS
    LockOwnership
    NoLostWakeup
PROPERTIES
    WaitersAreNotForgotten
    ImplementsAtomicLinkState
