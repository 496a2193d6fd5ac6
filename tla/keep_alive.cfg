SPECIFICATION Spec
CONSTANTS
    MaxUsize = 15
    UpstreamCount = 2
    RequestShapes <- Requests
    ResponseShapes <- Responses
    MaxRequests = 2
    MaxClients = 2
INVARIANTS
    TypeOK
    OwnWholeAnswers
    PooledStreamsAreEmpty
    BytesConserved
    NeverActsOnAPart
    HeldByBytesOnly
PROPERTIES
    ImplementsService
CHECK_DEADLOCK FALSE
