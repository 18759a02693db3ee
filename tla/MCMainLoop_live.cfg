SPECIFICATION FairSpec
CONSTANTS
    Sizes = {1, 2}
    MaxKeys = 1
    MaxOutput = 2
    Flood = FALSE
    MayQuery = FALSE
    BufSize = 1
    Window = 1
    SockSize = 2
CHECK_DEADLOCK FALSE
PROPERTIES InputIsSent SizeIsSent CloseEndsSession OutputIsShown EofEndsSession
