SPECIFICATION MCSpec
CONSTANTS
    NoValue = NoValue
    Runs = {r1, r2, r3}
    Accounts = {a1, a2}
    MaxMoment = 3
    MaxRestores = 1
    MaxSessions = 3
    Tabs = {t1, t2}
    Files = {f1, f2}
    Contents = {c1, c2}
    Urls = {u1, u2}
    Tasks = {1, 2}
    Pages = 2
    MaxFiles = 2
    MaxBatches = 2
    MaxSwitches = 1
    MaxIds = 3
    MaxDialogs = 2
    MaxJobs = 2
    MaxChanges = 2
    MaxRuns = 3
    MaxFailures = 1
SYMMETRY Symmetry
INVARIANTS
    JoinedIsRunning
    FetchedStays
    BatchSafe
    KnownBeforeNext
    DialogSafe
    ViewerSafe
PROPERTIES
    SessionsApart
CHECK_DEADLOCK FALSE
