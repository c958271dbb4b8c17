\* A two-phase job that the client cancels and whose end it does not commit.
SPECIFICATION FairSpec
CONSTANTS
    Jobs <- TwoPhaseJob
    Fails = {}
    Max <- OneCancel
PROPERTY
    AbandonedCleanedUp
CHECK_DEADLOCK FALSE
