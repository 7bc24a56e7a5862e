CONSTANTS
    N = 4
    W = 2
    Rounds = 3
    Byte <- MCByte
    Zero <- MCZero
    ByteXor <- MCXor
    Sub <- MCSub
    Rcon <- MCRcon
    InvSub <- MCSub
    Mul <- MCMul
    Inputs <- MCInputs
    PowerUp <- MCPowerUp
SPECIFICATION Spec
INVARIANTS
    RoundKeysHaveSettled
    OutputsOfTheEngine
PROPERTY StepsOfTheEngine
