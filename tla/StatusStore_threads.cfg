SPECIFICATION FairSpec
CONSTANTS
    deployer = deployer
    scheduler = scheduler
    i1 = i1
    i2 = i2
    None = None
    Threads <- BothThreads
    Ids <- TwoIds
    Says <- OneEach
    Tagged <- OneThread
    Keep = 1
    Tries = 2
    InlineStatus = FALSE
INVARIANTS TypeOK Bounded
PROPERTIES RegisterSpec ReportsEnd
