\* Two pollers at once (a callback may block), two operations whose callbacks
\* accept or refuse their timeouts.
SPECIFICATION FairSpec
CONSTANTS
    Op = {o1, o2}
    Poller = {p1, p2}
    CbResults <- AnyAnswer
    MayBlock = TRUE
    Period = 2
    NoOp = NoOp
INVARIANTS TypeOK EntryOwnership DestroyedIsQuiescent OneUnblockedPoller
PROPERTIES TimeoutEarlyByLag ImplementsService ExaminedIfAccepted DestroyTerminates
CHECK_DEADLOCK FALSE
