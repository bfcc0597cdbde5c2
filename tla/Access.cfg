SPECIFICATION Spec
CONSTANTS
    Procs = {p1, p2}
    Names = {"root", "u"}
    Root = "root"
    Keys = {"rk", "k"}
    RootKey = "rk"
    RecordKeys <- MCRecordKeys
    SessionIds = {"s"}
    PolicyNames = {"p"}
    none = none
    Absent = none
    MaxWrites = 2
    Targets = {"u"}
    Docs <- MCDocs
    Bodies <- MCBodies
    PolicyLists <- MCPolicyLists
    Databases <- MCDatabases
    Asked <- MCAsked
SYMMETRY ProcSymmetry
CHECK_DEADLOCK FALSE
INVARIANTS AccessTypeOK CredentialsStood DecisionsJustified
PROPERTY AuthorityHeld
