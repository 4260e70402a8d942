SPECIFICATION FairSpec
CONSTANTS
    FifoSize = 2
    ImageAlign = 2
    KeepSize = 2
    MaxRequest = 2
    TableSize = 5
    MaxRegions = 4
    Machines <- MCMachines
INVARIANTS
    MemoryApart
    HandoffReserved
    OutputExact
PROPERTIES
    GoodBoots
\* main ends in a loop, as does the panic handler.
CHECK_DEADLOCK FALSE
