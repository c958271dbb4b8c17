\* A read or write with a timeout whose pass fails.
SPECIFICATION Spec
CONSTANTS
    Data = {d1}
    OpenOp = open
    CloseOp = close
    Configs <- FailingTimedData
INVARIANT
    NoFault
CHECK_DEADLOCK FALSE
