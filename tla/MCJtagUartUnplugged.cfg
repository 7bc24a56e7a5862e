CONSTANTS
    MaxTyped = 0
    MaxSent = 3
    MaxCount = 2
    BufLen = 2
    FifoDepth = 1
    Threshold = 0
    Clock = TRUE
    MayUnplug = TRUE
    IntMax = 4
    DefaultTimeout = 2
    Timeouts = {0, 2}
SPECIFICATION FairSpec
PROPERTY CallsEndWithoutHost
