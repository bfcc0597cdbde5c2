SPECIFICATION LimiterSpec
CONSTANTS
    ip = ip
    user = user
    bucket = bucket
    none = none
    Procs = {"p"}
    Addresses = {ip}
    Users = {user}
    BucketNames = {bucket}
    NoClient = none
    Enabled = {"address", "user", "bucket"}
    Cost = 2
    Rate <- MCRate
    Burst <- MCBurst
    Pace <- MCPace
    Idle = 1
    MaxTime = 3
INVARIANTS LimiterTypeOK WindowBounded
