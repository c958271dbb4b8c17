\* Callbacks may refuse a timeout (ignore it and keep the operation).
SPECIFICATION FairSpec
CONSTANTS
    Op = {o1, o2}
    Poller = {p1, p2}
    CbResults <- AnyAnswer
    MayBlock = FALSE
    Period = 2
    NoOp = NoOp
PROPERTY ExpiredEntryIsExamined
CHECK_DEADLOCK FALSE
