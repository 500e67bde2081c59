SPECIFICATION Spec
CONSTANTS
    Callers = {c1, c2}
    Ops = {"request","append","check"}
    MaxCalls = 2
    Split = {"Exec","AppendData"}
    NoCaller = NoCaller
INVARIANT TimedOutReadsRetire
CHECK_DEADLOCK FALSE
