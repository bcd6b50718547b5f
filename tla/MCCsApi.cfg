SPECIFICATION Spec
CONSTANTS
    Thread = {t1, t2}
    Drive = {d1}
    Page = {g1, g2}
    Other = {"file"}
    Fd = {0, 1, 2}
    DEV_HANDLE = 42
    CSE_HANDLE = 1
    NumCSEs <- CSECounts
    Lengths <- Buffers
    ArgCounts <- Counts
    Faults <- AllFaults
INVARIANTS
    TypeOK DescriptorsBalanced MemoryTraceable
    OutputFits PrintsWhatWasWritten RequestFits
SYMMETRY Symmetry
