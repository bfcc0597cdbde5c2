SPECIFICATION BackendSpec
CONSTANTS
    b1 = b1
    b2 = b2
    k1 = k1
    k2 = k2
    u1 = u1
    u2 = u2
    w = w
    Buckets = {b1}
    Keys = {k1, k2}
    Uuids = {u1, u2, w}
    MadeUp = {w}
    Paths <- Files
    PathOf <- NullReached
    Tree <- FilesOf
    Payloads <- Body
    None = None
    Procs = {p1}
    MaxClock = 5
    Ops <- SuspendOps
    Faults = {}
SYMMETRY UuidSymmetry
CHECK_DEADLOCK FALSE
INVARIANTS
    HeadOpens
    ReadsMatch
    HeadIsNewest
PROPERTIES
    HeldStays
    HeadMovesForCause
