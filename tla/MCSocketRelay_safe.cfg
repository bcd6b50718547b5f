SPECIFICATION SafeSpec
CONSTANTS
    Byte <- MCByte
    SIZE_4K = 3
    HDR = 1
    SockCap = 4
    MaxUp = 4
    MaxDown = 3
    Faults <- AllFaults
CONSTRAINT OneStream
CHECK_DEADLOCK FALSE
INVARIANTS
    IInv
    TypeOK
    UpNoLoss
    DrainedBeforeClose
    ExitClosesRelay
    DownNoLoss
    DrainedBeforeShutdown
    ArgAlive
PROPERTIES
    UpInOrder
    DownInOrder
