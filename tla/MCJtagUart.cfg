CONSTANTS
    MaxTyped = 3
    MaxSent = 2
    MaxCount = 2
    BufLen = 3
    FifoDepth = 2
    Threshold = 1
    Clock = FALSE
    MayUnplug = FALSE
    IntMax = 3
    DefaultTimeout = 1
    Timeouts = {0, 2}
SPECIFICATION FairSpec
INVARIANTS
    ReceivedInOrder
    SentInOrder
    MaskIsWritten
    InterruptsComeBack
    CallersAreTold
PROPERTIES
    InputIsAPipe
    OutputIsADrainedPipe
    CallsReturn
