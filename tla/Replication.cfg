SPECIFICATION Spec
CONSTANTS
    Keys = {k1}
    Procs = {p1, p2}
    Workers = {w1, w2}
    NumTargets = 2
    QueueSize = 1
    Sizes = {1, 2}
    None = None
    MaxChanges = 2
    MaxLate = 1
INVARIANTS
    TypeOK
    QuietConverged
    NothingLostInPeace
PROPERTY
    Settles
