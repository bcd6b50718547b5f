SPECIFICATION Spec
CONSTANTS
    Proc = {p1}
    Programs <- Demos
    Iterations <- Counts
    PAGE = 2
    Pages = 4
    ALLOC_MAX = 4
    INT_MOD = 16
    Files <- LargeFiles
    WORD_MOD = 4
    JUNK = 3
    Checksum <- SumOfWords
    Faults <- AllFaults
INVARIANT ReadFitsMapping
PROPERTY EveryRunEnds
