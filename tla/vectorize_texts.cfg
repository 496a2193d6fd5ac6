SPECIFICATION Spec
CONSTANTS
    Requests <- Sent
    FirstDays <- Beginnings
    Days = 2
INVARIANT
    EveryRequestMatchesStruct
CHECK_DEADLOCK FALSE
