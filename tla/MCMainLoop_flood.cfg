SPECIFICATION FairSpec
CONSTANTS
    Sizes = {1}
    MaxKeys = 0
    MaxOutput = 0
    Flood = TRUE
    MayQuery = FALSE
    BufSize = 1
    Window = 1
    SockSize = 2
CHECK_DEADLOCK FALSE
PROPERTY CloseEndsSession
