SPECIFICATION FairSpec
CONSTANTS
    Values <- MCValues
    MaxTake = 4
INVARIANTS
    TypeOK
    NeverPanics
    InOrder
    ClosedMeansComplete
    TeeInStep
PROPERTIES
    CancelTerminates
    Delivers
    OrCloses
