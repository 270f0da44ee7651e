SPECIFICATION ServerSpec
CONSTANTS
    Requests = {r1, r2, r3}
    Admin = admin
    None = None
    MaxVersions = 2
    Place <- MCPlace
    Arrivals <- MCArrivals
    Threshold = 2
    Slots = 2
    MaxAttempts = 2
    Refreshers = {r1, r2, r3}
    Nobody = None
    MaxFailures = 2
    Reviews = {r1, r2, r3}
    Feedback = {f1, f2}
    InvestigationOf <- OneInvestigation
    Titles = {t1, t2}
    NoFeedback = NoFeedback
    MaxRollbacks = 1
    Sessions = {r1, r2, r3}
    Situations <- MCSituations
    w1 = w1
    w2 = w2
    c1 = c1
    ws = ws
    NoWorkspace = NoWorkspace
    Workers = {r1, r2, r3}
    Clients <- MCOneClient
    Workspaces <- MCWorkspaces
    WorkspaceLimit = 1
    GlobalLimit = 2
    Selection = 1
    MaxJobs = 2
    MaxCrashes = 1
    SlowScenarios = FALSE
    PromptRestart = FALSE
    OverlappingRecovery = FALSE
CHECK_DEADLOCK FALSE
INVARIANTS
    TypeOK
    UsesItsConfiguration
    SlotsAccountedFor
    CircuitIsHonest
    EvictionsHaveACause
    CatalogIsSound
    ApprovalIsWhole
    ChecksAreAccountedFor
    JobsTypeOK
    OneWorkerPerJob
    ClaimsAreServed
    RunsAreAccountedFor
SYMMETRY Interchangeable
