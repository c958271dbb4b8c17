\* An open whose pass fails.
SPECIFICATION Spec
CONSTANTS
    Data = {d1}
    OpenOp = open
    CloseOp = close
    Configs <- FailingOpen
INVARIANT
    NoFault
CHECK_DEADLOCK FALSE
