\* A poller reads the clock before it takes the mutex, and progress comes in between.
SPECIFICATION Spec
CONSTANTS
    Op = {o1}
    Poller = {p1}
    CbResults = {TRUE}
    MayBlock = FALSE
    Period = 2
    NoOp = NoOp
PROPERTY TimeoutOnlyWhenQuiet
CHECK_DEADLOCK FALSE
