SPECIFICATION FairSpec
CONSTANTS
    Callers = {c1, c2}
    Ops = {"request"}
    MaxCalls = 2
    Split = {}
    NoCaller = NoCaller
PROPERTY ReadBoundOnlyByOwnDeadline
CHECK_DEADLOCK FALSE
