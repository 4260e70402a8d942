SPECIFICATION Spec
CONSTANTS
    t1 = t1
    t2 = t2
    c1 = c1
    c2 = c2
    c3 = c3
    Threads = {t1, t2}
    NoThread = NoThread
    Chunks = {c1, c2, c3}
    NoChunk = NoChunk
    MaxCalls = 5
INVARIANT NoSelfDeadlock
\* Threads may wait for each other forever, and stop after MaxCalls calls.
CHECK_DEADLOCK FALSE
