SPECIFICATION Spec
CONSTANTS
    Keys = {"q1", "q2", "q3"}
    Reused = {"q1", "q2"}
    PoolCap = 2
    PerKeyCap = 1
    MaxStmts = 4
    MaxGen = 2
    NoKey = NoKey
INVARIANT TypeOK
INVARIANT OneOwner
INVARIANT CapsHold
INVARIANT NothingStaleServed
CHECK_DEADLOCK FALSE
