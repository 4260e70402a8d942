CONSTANTS
    LEVELS = 4
    Chunks = {8, 16}
    Layouts <- MCLayouts
    MaxLive = 7
SPECIFICATION Spec
INVARIANTS FreeListsSound BlocksDisjoint NothingLeaks Coalesced
CHECK_DEADLOCK TRUE
