\* A thread closes between another thread's check and its pass.
SPECIFICATION Spec
CONSTANTS
    Read = {r1}
    Write = {w1}
    CancelModes = {TRUE}
    RacyUser = TRUE
    MaxLate = 1
INVARIANT NoAssertFails
CHECK_DEADLOCK FALSE
