SPECIFICATION SafeSpec
CONSTANTS
    Proc = {p1}
    Programs <- Checksums
    Iterations <- Once
    PAGE = 2
    Pages = 3
    ALLOC_MAX = 4
    INT_MOD = 16
    Files <- SmallFiles
    WORD_MOD = 4
    JUNK = 3
    Checksum <- SumOfWords
    Faults <- HostFaults
INVARIANT PrintsFileChecksum
