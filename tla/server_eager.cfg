\* The user closes the server while register_accept has not returned.
SPECIFICATION Spec
CONSTANTS
    Accepts = {a1}
    None = None
    Configs <- Eager
INVARIANT NoFaultUnlessRefused
CHECK_DEADLOCK FALSE
