\* Every kind of job whose client listens; scripts and jobs fail, the client
\* cancels, signals, extends and unregisters; the job manager does not crash.
SPECIFICATION FairSpec
CONSTANTS
    Jobs <- ListeningJobs
    Fails = {"err", "job"}
    Max <- QuietMax
INVARIANTS
    TypeOK
    CommitBeforeSubmit
    SomethingWillWake
    DoneMeansDone
    ClientTold
    FailedMostlyMeansEnded
PROPERTIES
    CleanUpAfterCommit
    Settles
    AbandonedExpires
CHECK_DEADLOCK FALSE
