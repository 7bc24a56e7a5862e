CONSTANTS
    N = 3
    Byte <- MCByte
    Zero <- MCZero
    Jobs <- MCJobs
    InvAes <- MCInvAes
    Latency = 3
SPECIFICATION Spec
INVARIANT EveryRoundDecodesItsPair
