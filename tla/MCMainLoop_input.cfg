SPECIFICATION FairSpec
CONSTANTS
    Sizes = {1, 2}
    MaxKeys = 2
    MaxOutput = 1
    Flood = FALSE
    MayQuery = TRUE
    BufSize = 2
    Window = 2
    SockSize = 2
CHECK_DEADLOCK FALSE
INVARIANTS TypeOK InputInOrder ServerSizeCurrent PartialIsResumed
