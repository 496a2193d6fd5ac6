SPECIFICATION Spec
CONSTANTS
    Request = {r1, r2, r3}
    Buffer = {b1, b2, b3}
    Limits <- AllLimits
    PoolLimit = 2
    MaxLength = 3
    None = None
SYMMETRY BodySymmetry
INVARIANTS
    TypeOK
    BufferInOnePlace
    ScoresOwnBody
    StatusTellsBody
CHECK_DEADLOCK FALSE
