\* A crash of the job manager while it waits for the commit.
SPECIFICATION Spec
CONSTANTS
    Jobs <- TwoPhaseJob
    Fails = {}
    Max <- OneCrash
INVARIANT
    CommitBeforeSubmit
CHECK_DEADLOCK FALSE
