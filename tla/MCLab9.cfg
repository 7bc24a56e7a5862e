CONSTANTS
    N = 3
    Byte <- MCByte
    Zero <- MCZero
    Jobs <- MCJobs
    InvAes <- MCInvAes
    Latency = 3
SPECIFICATION Spec
INVARIANTS
    TypeOK
    IInv
    Lockstep
    SentBytesArrived
    RetrievedBytesAreTheResult
    ResultsAreOfSteadyInputs
    FirstRoundDecodesItsPair
PROPERTIES
    RoundEnds
    ResetIsSeen
    ImplementsDecryptor
