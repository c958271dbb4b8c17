\* Three reads and a write; the close cancels what is outstanding.
SPECIFICATION FairSpec
CONSTANTS
    Read = {r1, r2, r3}
    Write = {w1}
    CancelModes = {TRUE}
    RacyUser = FALSE
    MaxLate = 2
INVARIANTS TypeOK CountersExact NoAssertFails CloseBarrier EofAfterData
PROPERTIES EveryOpReturns CloseCompletes
CHECK_DEADLOCK FALSE
