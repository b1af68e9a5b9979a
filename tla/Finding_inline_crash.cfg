SPECIFICATION FairSpec
CONSTANTS
    a1 = a1
    a2 = a2
    Apps <- OneApp
    SelfApps <- NoApps
    MaxRev = 1
    Keep = 1
    InlineStatus = TRUE
    ReuseIds = FALSE
    AllowBad = FALSE
    AllowDelete = FALSE
    MaxJobs = 2
    MaxFaults = 1
    FaultKinds <- OnlyCrash
CHECK_DEADLOCK FALSE
PROPERTY Converges
