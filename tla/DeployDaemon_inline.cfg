SPECIFICATION FairSpec
CONSTANTS
    a1 = a1
    a2 = a2
    Apps <- OneApp
    SelfApps <- NoApps
    MaxRev = 2
    Keep = 2
    InlineStatus = TRUE
    ReuseIds = FALSE
    AllowBad = TRUE
    AllowDelete = TRUE
    MaxJobs = 3
    MaxFaults = 0
    FaultKinds <- NoFaults
CHECK_DEADLOCK FALSE
INVARIANTS OneDeployPerUpdate InlineAgrees
PROPERTIES Converges DeploysFinish
