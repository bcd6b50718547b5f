SPECIFICATION Spec
CONSTANTS
    Thread = {t1}
    Drive = {d1, d2}
    Other = {}
    Page = {g1}
    Fd = {0, 1, 2}
    DEV_HANDLE = 42
    CSE_HANDLE = 1
    NumCSEs <- CSECounts
    Lengths <- Buffers
    ArgCounts <- Counts
    Faults <- NoFaults
INVARIANT CSEOfDevice
