SPECIFICATION BackendSpec
CONSTANTS
    b1 = b1
    b2 = b2
    k1 = k1
    k2 = k2
    u1 = u1
    u2 = u2
    w = w
    Buckets = {b1, b2}
    Keys = {k1, k2}
    Uuids = {u1, u2}
    MadeUp = {}
    Paths <- Files
    PathOf <- KeyReached
    Tree <- FilesOf
    Payloads <- Body
    None = None
    Procs = {p1}
    MaxClock = 4
    Ops <- CopyOps
    Faults = {}
SYMMETRY UuidSymmetry
CHECK_DEADLOCK FALSE
INVARIANT ReadsMatch
