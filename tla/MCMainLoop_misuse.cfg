SPECIFICATION FairSpec
CONSTANTS
    Sizes = {1}
    MaxKeys = 1
    MaxOutput = 1
    Flood = FALSE
    MayQuery = FALSE
    BufSize = 1
    Window = 1
    SockSize = 2
CHECK_DEADLOCK FALSE
INVARIANT NeverMisused
