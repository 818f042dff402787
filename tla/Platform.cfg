\* The components around the message path, each on its own small instance.
SPECIFICATION PlatformSpec
\* Bounded parts come to rest.
CHECK_DEADLOCK FALSE
CONSTANTS
    MaxChats = 2
    MaxSockets = 2
    MaxQuestions = 2
    tab = tab
    ann = ann
    Workers = {w1, w2}
    Tabs = {tab}
    TabUser <- MCTabUser
    MaxPendingPerUser = 1
    MaxApprovals = 1
    MaxResponses = 2
    CallTasks = {c1, c2}
    Callers <- MCCallers
    AutoSwitch = TRUE
    FailureThreshold = 1
    Limit <- MCLimit
    Estimate = 1
    MaxCost = 1
    MaxSchedules = 2
    MaxRuns = 1
    Targets = {u}
    MaxMemories = 2
    MaxPerUser = 1
    MaxSessions = 1
    QdrantFails = TRUE
    Files = {entry, facts}
    Entry = entry
    MaxWrites = 2
    hr = hr
    crm = crm
    RouteRequests = {r1, r2}
    AgentIds = {hr, crm}
    DefaultAgent = hr
    Priority <- MCPriority
    Texts <- MCTexts
    NoAgent = NoAgent
    ConfigIds = {a1}
    MaxEdits = 2
    SkillIds = {s1}
    SkillTasks = {k1, k2}
    SkillWorkers = {w1, w2}
    Servers = {n1, n2}
    Requests = {q1, q2}
    MaxConnections = 3
    Turns = {t1, t2}
    MaxManagers = 3
    Fetches = {f1, f2}
INVARIANTS
    OneSocketPerHook
    ShowsOwnSession
    ShownIsResolved
    QuotaOverrunBounded
    FallbackBeforeFailing
    JobsMatchTable
    SessionIsolation
    StoredIsFound
    CacheFollowsFiles
    MissedAtMostOnce
    RoutedToCandidates
    ContinuityKept
    RouterFollowsFiles
    StoresAgree
    OpenIsReachable
    ToolsStayOpen
    RetriesAreBounded
PROPERTIES
    FinalStays
