\* Two crashes, or a crash and a stop, restart or update by the client.
SPECIFICATION Spec
CONSTANTS
    Jobs <- RecoveredJobs
    Fails = {"err", "die", "job", "post"}
    Max <- CrashMax
INVARIANTS
    SingleSubmit
    RunningJobHasFile
    RecoveredMeansDone
PROPERTIES
    SubmitIntention
CHECK_DEADLOCK FALSE
