SPECIFICATION LiveSpec
CONSTANTS
    Byte <- MCByte
    SIZE_4K = 3
    HDR = 1
    SockCap = 1
    MaxUp = 3
    MaxDown = 3
    Faults <- LiveFaults
CONSTRAINT OneStream
CHECK_DEADLOCK FALSE
PROPERTIES
    UpPipe
    DownPipe
    Hangup
    ServiceEnd
