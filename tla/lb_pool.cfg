SPECIFICATION Spec
CONSTANTS
    Client = {h1, h2, h3}
    Request = {r1, r2, r3}
    None = None
    UpstreamCount = 1
    CounterMod = 4
    MaxIdle = 2
    Conn <- MCConn4
SYMMETRY TaskSymmetry
INVARIANTS
    ConnsAccountedFor
    SocketsBounded
