\* A stdio update of a job with files to stage out.
SPECIFICATION Spec
CONSTANTS
    Jobs <- StagedJob
    Fails = {}
    Max <- OneUpdate
INVARIANT
    DoneMeansDone
CHECK_DEADLOCK FALSE
