SPECIFICATION Spec
CONSTANTS
    Dimensions = 1
    Lanes = 2
    WordBits = 2
    MaskWords = 2
    Instance = {a1, a2}
    Files <- AllFiles
    Options <- SomeOptions
    Settings <- SomeSettings
    PageSize = 64
    MaxRuns = 2
INVARIANTS
    LoadedIsWholeAndInBounds
    LoadersAgree
    WrittenFilesLoad
    ProbesFitClusters
    BalancerFindsServers
PROPERTIES
    ServiceComesUp
    StaleSocketsDoNotStop
CHECK_DEADLOCK FALSE
