\* Page sizes of one: every page ends within a key, and any upload fills a page.
SPECIFICATION LifecycleSpec
CONSTANTS
    Buckets = {b1}
    Keys = {1}
    Uuids = {u1, u2}
    Payloads = {"object", "held", "marker"}
    None = None
    MaxClock = 3
    Folder <- NoFolders
    Configs <- OneRule
    UploadIds = {1}
    PageVersions = 1
    PageUploads = 1
    Locks = {TRUE}
    Switches <- Suspending
INVARIANT LifecycleTypeOK
PROPERTIES
    FreshStays
    WorkerReturns
    ExpiredGo
