SPECIFICATION Spec
CONSTANTS
    Requests <- Sent
    FirstDays <- Beginnings
    Days = 1200
INVARIANTS
    DaysAreCounted
    JSONMatchesStruct
    KnownMerchantIsInList
    MinusOneMeansNoHistory
    MissingFieldIsNoticed
CHECK_DEADLOCK FALSE
