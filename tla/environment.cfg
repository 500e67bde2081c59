SPECIFICATION FairSpec
CONSTANTS
    Callers = {c1, c2}
    Closers = {f1, f2}
    Endpoints = 2
    AuthModes = {"", "CHALLENGE"}
    AuthKeys = {"none", "RSA"}
    AuthSchemes = {"", "ECDSA"}
INVARIANT TypeOK
INVARIANT NoSocketLost
INVARIANT AuthenticatedAsConfigured
PROPERTY FinalizeSettles
CHECK_DEADLOCK FALSE
