SPECIFICATION BackendSpec
CONSTANTS
    b1 = b1
    b2 = b2
    k1 = k1
    k2 = k2
    u1 = u1
    u2 = u2
    w = w
    Buckets = {b1}
    Keys = {k1}
    Uuids = {u1, u2, w}
    MadeUp = {w}
    Paths <- Files
    PathOf <- VersionReached
    Tree <- FilesOf
    Payloads <- Body
    None = None
    Procs = {p1, p2}
    MaxClock = 3
    Ops <- VersionedOps
    Faults = {"crash", "io"}
SYMMETRY ProcSymmetry
CHECK_DEADLOCK FALSE
INVARIANTS
    BackendTypeOK
    VersionIntact
    VersionReadsMatch
PROPERTY ImplementsIndex
