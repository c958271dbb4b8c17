\* A client that asked for callbacks and cannot be reached.
SPECIFICATION Spec
CONSTANTS
    Jobs <- TwoPhaseJob
    Fails = {"post"}
    Max <- Bounds
INVARIANT
    SomethingWillWake
CHECK_DEADLOCK FALSE
