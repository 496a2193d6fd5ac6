SPECIFICATION FairSpec
CONSTANTS
    K = 5
    DenyAt = 3
    MaxIVFProbe = 3
    ScanOrder <- Order
    Infinity = 1000000
    NoID = 1000000
    Indexes <- Built
    Queries <- Asked
    Scans <- Both
INVARIANTS
    BestOfOffered
    DistancesOfOffered
    RepairIsExact
    ProbedAreNearest
    DecidedDeep
PROPERTIES
    Terminates
CHECK_DEADLOCK FALSE
