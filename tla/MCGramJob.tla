----------------------------- MODULE MCGramJob ------------------------------
(* Instances of GramJob for TLC. *)
EXTENDS GramJob

Job(mode, twoPhase, stageIn, stageOut, contact) ==
    [mode |-> mode, twoPhase |-> twoPhase, stageIn |-> stageIn,
     stageOut |-> stageOut, contact |-> contact]

Bounds == [crash |-> 0, cancel |-> 0, signal |-> 0, stop |-> 0, restart |-> 0,
           update |-> 0, extend |-> 0, unregister |-> 0, orphan |-> 0,
           total |-> 2]

ListeningJobs == { j \in JobType : j.contact }
\* One phase with condor, two phases with events, and a job that is polled.
RecoveredJobs ==
    { Job("condor", FALSE, FALSE, TRUE, TRUE), Job("seg", TRUE, TRUE, TRUE, TRUE),
      Job("poll", FALSE, FALSE, FALSE, TRUE) }
CrashMax == [Bounds EXCEPT !.crash = 2, !.stop = 1, !.restart = 1,
                            !.update = 1, !.orphan = 1]
QuietMax == [Bounds EXCEPT !.cancel = 1, !.signal = 1, !.extend = 1, !.unregister = 1,
                            !.orphan = 1]
TwoPhaseJob == { Job("seg", TRUE, FALSE, FALSE, TRUE) }
StagedJob == { Job("seg", FALSE, FALSE, TRUE, TRUE) }
StageInJob == { Job("seg", FALSE, TRUE, FALSE, TRUE) }
PlainJob == { Job("seg", FALSE, FALSE, FALSE, TRUE) }
OneCrash == [Bounds EXCEPT !.crash = 1]
OneCancel == [Bounds EXCEPT !.cancel = 1]
OneSignal == [Bounds EXCEPT !.signal = 1]
OneOrphan == [Bounds EXCEPT !.orphan = 1]
OneUpdate == [Bounds EXCEPT !.update = 1]
=============================================================================
