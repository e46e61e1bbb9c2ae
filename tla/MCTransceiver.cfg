CONSTANTS
    Size = 5
    FileLength = 12
SPECIFICATION Spec
INVARIANTS
    TypeOK
    RingHoldsUnsent
    FinishedMeansAllSent
PROPERTY StreamSpec
