SPECIFICATION Spec
CONSTANTS
    \* PortMapping
    Ports = {1, 2}
    Lease = 4
    \* ToolManagement
    ToolOps = {"o1", "o2"}
    MaxRelease = 2
    ToolEnv = {"crash", "uninstall"}
    \* Telemetry
    Rows = {"r1", "r2", "r3"}
    MaxTime = 3
    MaxLives = 2
    TelemetryEnv = {"crash", "late"}
    \* Supervision
    MaxPids = 3
    MaxGuis = 2
    SupervisionEnv = {"crash", "die", "recycle", "service", "race"}
    \* PullRequests
    Requests = {"r1", "r2"}
    Reviewers = {"r1"}
    Comments = {"c1"}
    MaxRows = 1
    MaxDrafts = 1
    MaxPosts = 1
    PrEnv = {"lost", "archive", "crash"}
    \* TaskBoard
    Calls = {"c1"}
    MaxTasks = 2
    CallOps = {"patch", "delete", "attach", "detach", "link", "unlink", "issue", "sync"}
    \* PlanArtifacts
    PlanCalls = {"c1"}
    Scans = {"s1", "s2"}
    MaxArtifacts = 3
    \* AgentLogin
    Submits = {"s1"}
    MaxLogins = 2
    MaxBackoff = 2
    \* Terminals
    TermIds = {"t1", "t2"}
    TermConns = {"a", "b"}
    MaxTerminals = 2
    MaxSessions = 2
    \* ToolSettings
    LongKeys = {"k1"}
    ShortKeys = {}
    MaxFields = 1
    \* ModelCatalog
    Accounts = {"a1", "a2"}
    Lookups = {"g1", "g2"}
    MaxEntries = 1
    CatalogEnv = {"restart"}
    \* Updates
    Updaters = {"gui"}
    MaxReleases = 2
    MaxDownloads = 2
    \* SettingsFile
    Writers = {"worker", "gui", "cli"}
    MaxValues = 3
    SettingsEnv = {"crash"}
INVARIANTS TypesOK MappedIsLive EntryOnDisk CountedOnce NoLostWorker CommentKept NoDangling
    LoginProcessEnds NoOrphan AgentHasKey OfferedIsVerified
PROPERTIES PlanLinked Deduplicated OthersKept
CHECK_DEADLOCK FALSE
