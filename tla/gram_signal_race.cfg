\* A signal that was sent before the commit.
SPECIFICATION Spec
CONSTANTS
    Jobs <- TwoPhaseJob
    Fails = {}
    Max <- OneSignal
INVARIANT
    FailedMeansEnded
CHECK_DEADLOCK FALSE
