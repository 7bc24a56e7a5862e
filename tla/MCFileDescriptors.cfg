CONSTANTS
    MaxFd = 5
    Null <- MCNull
    Console <- MCConsole
    Devices <- MCDevices
    FileSystems <- MCFileSystems
    Names <- MCNames
    OpenModes = {"RDWR"}
    FlagArgs <- MCFlagArgs
    Methods <- MCMethods
SPECIFICATION Spec
INVARIANTS
    BelowHighWater
    StdioStaysOnConsole
    DeviceFlagTells
    OneHolder
PROPERTIES
    LockKeepsOthersOut
    FailedOpenLeavesNoTrace
