SPECIFICATION FairSpec
CONSTANTS
    Callers = {c1, c2}
    Ops = {"request","free","append","check","appendClose","close"}
    MaxCalls = 2
    Split = {"Exec","Free","AppendData","AppendClose"}
    NoCaller = NoCaller
PROPERTY CancelInterrupts
PROPERTY CallsReturn
CHECK_DEADLOCK FALSE
