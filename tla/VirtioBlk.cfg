\* Two threads, calls that overlap and calls that do not.
SPECIFICATION FairSpec
CONSTANTS
    t1 = t1
    t2 = t2
    Threads = {t1, t2}
    QSIZE = 4
    IDX_MOD = 8
    BLOCK = 2
    CAPACITY = 4
    LBA_MOD = 5
    Lbas <- MCLbas
    Lens <- MCLens
    MaxShared = 2
INVARIANTS
    TypeOK
    DescriptorsConserved
    RingsBalanced
    SerialSynchronous
    ResultsTrue
PROPERTIES
    CallReturns
\* A call that waits for a device that has been reset waits forever.
CHECK_DEADLOCK FALSE
