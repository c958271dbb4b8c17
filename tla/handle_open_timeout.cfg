\* An open with a timeout, and a user that closes before it finished.
SPECIFICATION Spec
CONSTANTS
    Data = {d1}
    OpenOp = open
    CloseOp = close
    Configs <- EagerTimedOpen
INVARIANT
    NoFault
CHECK_DEADLOCK FALSE
