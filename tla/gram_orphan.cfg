\* A submit script that dies after the LRM took the job.
SPECIFICATION Spec
CONSTANTS
    Jobs <- PlainJob
    Fails = {"die"}
    Max <- OneOrphan
INVARIANT
    FailedMeansEnded
CHECK_DEADLOCK FALSE
