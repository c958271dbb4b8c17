\* A close that does not cancel the reads waiting behind an end of file.
SPECIFICATION Spec
CONSTANTS
    Read = {r1, r2}
    Write = {w1}
    CancelModes = {FALSE}
    RacyUser = FALSE
    MaxLate = 1
SYMMETRY Symmetry
INVARIANT NoAssertFails
CHECK_DEADLOCK FALSE
