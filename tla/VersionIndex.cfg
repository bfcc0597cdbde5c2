\* Concurrent callers: any order of stamps.
SPECIFICATION Spec
CONSTANTS
    Buckets = {b1}
    Keys = {k1, k2}
    Uuids = {u1, u2}
    Payloads = {p}
    None = None
    MaxClock = 3
SYMMETRY KeyUuidSymmetry
INVARIANTS
    TypeOK
    HeadIsStored
    NoHiddenVersions
    GoneBucketsHoldNothing
PROPERTY ImplementsVersionedStore
