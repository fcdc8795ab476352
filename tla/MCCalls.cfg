\* Every wrapper, called up to five times, with an f that may fail.
SPECIFICATION FairSpec
CONSTANTS
    Kinds <- AllKinds
    MaxCalls = 5
    MayFail = TRUE
INVARIANTS
    TypeOK
    NoOverlap
    InOrder
    IsFresh
PROPERTIES
    Answers
CHECK_DEADLOCK FALSE
