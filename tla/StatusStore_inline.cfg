SPECIFICATION Spec
CONSTANTS
    deployer = deployer
    scheduler = scheduler
    i1 = i1
    i2 = i2
    None = None
    Threads <- OneThread
    Ids <- TwoIds
    Says <- OneEach
    Tagged <- OneThread
    Keep = 1
    Tries = 2
    InlineStatus = TRUE
PROPERTIES InlineOfCurrent
