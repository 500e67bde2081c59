SPECIFICATION Spec
CONSTANTS
    MaxQueries = 3
    MaxRows = 3
    Chunk = 2
    ExecSelect = FALSE
INVARIANT TypeOK
INVARIANT CursorKnown
INVARIANT NeverRejected
INVARIANT ResultExact
CHECK_DEADLOCK FALSE
