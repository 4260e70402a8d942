CONSTANTS
    Top = 23
    CAPACITY = 6
    MAX_REGIONS = 4
    HEADROOM = 3
    ENTRIES_PER_UNIT = 6
    TABLE_ALIGN = 4
    Available <- MCAvailable
    Reservations <- MCReservations
    Requests <- MCRequests
    Layouts <- MCLayouts
    BootBytes = {5}
    MaxLive = 3
    MaxDynamic = 1
SPECIFICATION TidySpec
INVARIANTS TypeOK ListsCanonical NoDoubleOwner MemoryConserved HandoffCovers TablesSuffice
PROPERTY DynamicIsFresh
CHECK_DEADLOCK FALSE
