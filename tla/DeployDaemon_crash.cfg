SPECIFICATION FairSpec
CONSTANTS
    a1 = a1
    a2 = a2
    Apps <- OneApp
    SelfApps <- NoApps
    MaxRev = 2
    Keep = 2
    InlineStatus = FALSE
    ReuseIds = FALSE
    AllowBad = TRUE
    AllowDelete = TRUE
    MaxJobs = 4
    MaxFaults = 2
    FaultKinds <- OnlyCrash
CHECK_DEADLOCK FALSE
PROPERTIES Converges ResultSettles
