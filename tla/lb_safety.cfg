SPECIFICATION Spec
CONSTANTS
    Client = {h1, h2}
    Request = {r1, r2, r3}
    None = None
    UpstreamCount = 2
    CounterMod = 2
    MaxIdle = 1
    Conn <- MCConn5
SYMMETRY TaskSymmetry
INVARIANTS
    TypeOK
    PooledWhereTheyLead
    PooledConnsAreClean
    AnswersAreOwn
    CalmFailureIsStalePools
    RoundRobinBalanced
PROPERTY
    ImplementsRequestReply
