SPECIFICATION Spec
CONSTANTS
    CELL = 64
    MaxMade = 1
    Trees <- MCTrees
    Queries <- MCQueries
    Entries <- MCEntries
INVARIANTS
    WalkExact
    GeneratedSound
\* A panic stops the program.
CHECK_DEADLOCK FALSE
