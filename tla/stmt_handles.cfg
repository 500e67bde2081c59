SPECIFICATION Spec
CONSTANTS
    Handles = {h1, h2, h3, h4}
    Limit = 3
    NoHandle = NoHandle
INVARIANT TypeOK
INVARIANT IdsExclusive
INVARIANT UsedExact
INVARIANT OwnSlot
INVARIANT IInv
PROPERTY ImplementsService
CHECK_DEADLOCK FALSE
