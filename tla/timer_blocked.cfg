\* Callbacks accept every timeout, and may block.
SPECIFICATION FairSpec
CONSTANTS
    Op = {o1, o2}
    Poller = {p1, p2}
    CbResults = {TRUE}
    MayBlock = TRUE
    Period = 2
    NoOp = NoOp
PROPERTY ExpiredEntryIsExamined
CHECK_DEADLOCK FALSE
