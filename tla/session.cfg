SPECIFICATION Spec
CONSTANTS
    Databases = {d1, d2, d3}
    Default = d1
    Configured = d2
    NoDatabase = NoDatabase
INVARIANT TypeOK
INVARIANT TxTracked
PROPERTY HandoutClean
CHECK_DEADLOCK FALSE
