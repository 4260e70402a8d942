SPECIFICATION FairSpec
CONSTANTS
    SectorSizes = {2, 4}
    ClusterSizes = {1, 2, 4}
    MinClusters = 5
    BlockSize = 2
    EntrySize = 1
    ALLOCATE_SIZE = 2
    BaseLen = 2
    ExtLen = 1
    NameParts <- Parts
    Disks <- AllDisks
    Requests <- AllRequests
    MaxCalls = 4
    MaxDevices = 2
INVARIANTS
    ReadsExact
    FoundIsNamed
    NotFoundIsAbsent
    HandlesStayOpen
    PanicsOnlyOutside
PROPERTIES
    CallEnds
\* A panic stops the program, and callers stop after MaxCalls calls.
CHECK_DEADLOCK FALSE
