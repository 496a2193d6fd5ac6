SPECIFICATION FairSpec
CONSTANTS
    Client = {h1, h2}
    Request = {r1, r2}
    None = None
    UpstreamCount = 3
    CounterMod = 8
    MaxIdle = 1
    Conn <- MCConn6
INVARIANT
    TriesEachUpstreamOnce
PROPERTY
    EveryRequestSettles
