SPECIFICATION FairSpec
CONSTANTS
    FifoSize = 2
    ImageAlign = 2
    KeepSize = 2
    MaxRequest = 2
    TableSize = 5
    MaxRegions = 4
    Machines <- MCMachines
PROPERTIES
    PanicReports
\* main ends in a loop, as does the panic handler.
CHECK_DEADLOCK FALSE
