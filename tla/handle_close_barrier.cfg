\* A read or write with a timeout, and a close.
SPECIFICATION Spec
CONSTANTS
    Data = {d1}
    OpenOp = open
    CloseOp = close
    Configs <- TimedData
INVARIANT
    CloseAfterData
CHECK_DEADLOCK FALSE
