SPECIFICATION Spec
CONSTANTS
    Callers = {c1, c2}
    Ops = {"request","free","append","check","appendClose","close"}
    MaxCalls = 3
    Split = {"Exec","Free","AppendData","AppendClose"}
    NoCaller = NoCaller
INVARIANT TypeOK
INVARIANT RequestGetsOwnReply
INVARIANT LeftInOrder
CHECK_DEADLOCK FALSE
