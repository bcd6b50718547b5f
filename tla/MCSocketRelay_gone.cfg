SPECIFICATION Spec
CONSTANTS
    Byte <- MCByte
    SIZE_4K = 2
    HDR = 1
    SockCap = 2
    MaxUp = 0
    MaxDown = 2
    Faults <- NoFaults
CONSTRAINT OneStream
CHECK_DEADLOCK FALSE
PROPERTY RelayClosesWithSocket
