CONSTANTS
    MaxInt8 = 7
    ChainLengths <- Lengths
    MaxNext = 2
    MaxGoto = 2
    MaxRequests = 2
SPECIFICATION FairSpec
INVARIANTS
    InOrder
    Complete
    IndexFits
PROPERTIES
    AbortStops
    StepOrder
    Finishes
CHECK_DEADLOCK FALSE
