CONSTANTS
    N = 16
    W = 4
    Rounds = 10
    Byte <- RealByte
    Zero <- MCZero
    ByteXor <- RealXor
    Sub <- SubBytesRom
    Rcon <- RealRcon
    InvSub <- InvSubBytesRom
    Mul <- RealMul
    fbox <- fboxTable
    sbox <- sboxTable
    RconTop <- RconTopByte
    xtime <- Product
    Messages <- MCMessages
    Keys <- MCKeys
    Inputs <- MCInputs
    PowerUp <- MCPowerUp
SPECIFICATION TripSpec
INVARIANTS
    SchedulesAgree
    KnownAnswer
    TablesAreTheSBox
    ProductsAreOfTheField
PROPERTY RoundsCanBeUndone
