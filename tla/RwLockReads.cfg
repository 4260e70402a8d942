CONSTANTS
    t1 = t1
    t2 = t2
    t3 = t3
    Threads <- MCThreads
    WRITE_FLAG = 4
    NoThread = NoThread
SPECIFICATION Spec
INVARIANT ReadsBeforeWriter
