CONSTANTS
    Null = Null
    Sizes <- MCSizes
    MaxSequenceGap = 4
    MaxLength = 6
SPECIFICATION Spec
INVARIANTS
    AnswersAgree
PROPERTY ImplementsParcelQueue
