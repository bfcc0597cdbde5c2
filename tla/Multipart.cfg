SPECIFICATION Spec
CONSTANTS
    Uploads = {u1}
    Parts = {n1, n2}
    Procs = {p1, p2}
    None = None
    MaxAttempts = 3
    Retries = FALSE
    Faults = {"crash", "io"}
SYMMETRY MultipartSymmetry
CHECK_DEADLOCK FALSE
INVARIANTS
    TypeOK
    PartsReadable
    CompletedWhole
    NothingLost
    NoOrphanParts
