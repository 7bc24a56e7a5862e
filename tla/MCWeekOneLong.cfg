CONSTANTS
    N = 16
    W = 4
    Rounds = 10
    Long = 8
    Byte <- RealByte
    Zero <- MCZero
    ByteXor <- RealXor
    fbox <- fboxTable
    sbox <- sboxTable
    RconTop <- RconTopByte
    gmul <- GmulProduct
    Messages <- MCMessages
    Keys <- MCKeys
SPECIFICATION HostSpec
\* The program ends.
CHECK_DEADLOCK FALSE
INVARIANT LooksUpBytes
