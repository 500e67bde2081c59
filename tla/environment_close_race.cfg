SPECIFICATION Spec
CONSTANTS
    Callers = {c1}
    Closers = {f1}
    Endpoints = 2
    AuthModes = {"", "PASSWORD", "CHALLENGE", "unknown"}
    AuthKeys = {"none", "EC", "RSA", "unsupported"}
    AuthSchemes = {"", "ECDSA", "RSA_PKCS1_V15", "RSA_PSS", "unknown"}
INVARIANT ConnectReturns
CHECK_DEADLOCK FALSE
