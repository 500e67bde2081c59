SPECIFICATION Spec
CONSTANTS
    MaxCalls = 5
    BatchRows = 3
    ErrCheck = 4
INVARIANT TypeOK
INVARIANT Accounted
INVARIANT WireInOrder
INVARIANT CleanClose
CHECK_DEADLOCK FALSE
