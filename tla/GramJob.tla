------------------------------ MODULE GramJob -------------------------------
(***************************************************************************)
(* One job of a GRAM job manager (gram/jobmanager/source): the state       *)
(* machine of globus_gram_job_manager_state.c, the state file it survives  *)
(* a crash with, the queries of the client, the scripts and the events of  *)
(* the local resource manager (LRM), and what a restarted job manager      *)
(* makes of the state file.                                                *)
(*                                                                         *)
(* The job manager has one thread: every callback is atomic, and while the *)
(* state machine loops only a crash can come between two of its            *)
(* iterations.  An iteration is one action; variable run says whether the  *)
(* loop is running.  Delays are left out: a registered timer may fire at   *)
(* any time.  A request that was freed, or that a restarted process only   *)
(* knows the name of, is a "stub": the next reference reads it back from   *)
(* its state file.  Left out: dry runs, failing allocations and writes,    *)
(* jobs with several subjobs, PENDING events (the submit script reports    *)
(* that state), the expiry of the user's proxy, LRM ids that are already   *)
(* registered, contacts that ask for some states only, and scripts that    *)
(* die in the middle of their report.                                      *)
(***************************************************************************)
EXTENDS Integers, Sequences, FiniteSets

CONSTANTS
    Jobs,    \* the jobs a client may ask for, see JobType
    Fails,   \* how scripts and LRM jobs may fail, see FailType
    Max      \* how often clients, crashes and scripts may do what, see BoundType

\* mode: how the job manager learns of changes: the scheduler event generator,
\* the condor log, or a poll script.  contact: the client asks for callbacks.
JobType == [mode : {"seg", "condor", "poll"}, twoPhase : BOOLEAN,
            stageIn : BOOLEAN, stageOut : BOOLEAN, contact : BOOLEAN]
\* err: the script reports an error; die: it ends without a report;
\* job: the LRM job itself fails; post: the client cannot be reached.
FailType == {"err", "die", "job", "post"}
\* orphan: a submit script fails or dies although the LRM took the job.
BoundType == [{"crash", "cancel", "signal", "stop", "restart", "update",
               "extend", "unregister", "orphan", "total"} -> Nat]

ASSUME JobsAssumption == Jobs \subseteq JobType
ASSUME FailsAssumption == Fails \subseteq FailType
ASSUME MaxAssumption == Max \in BoundType

VARIABLES
    job,       \* the job description and the kind of job manager, fixed
    mem,       \* the request: "live" in memory, "stub", or "gone"
    loaded,    \* ref->loaded_only of a stub
    pending,   \* the job is in manager->pending_restarts
    expires,   \* ref->expiration_time # 0
    r,         \* the request in memory (NewRequest while it is not live)
    run,       \* the state machine: "idle", "loop", or "first" in the
               \* fall-through from SUBMIT to POLL1
    file,      \* the job state file, or NoFile
    scripts,   \* the scripts queued or running for this request
    posts,     \* final callbacks whose reply registers the state machine
    pause,     \* manager->seg_pause_count
    held,      \* manager->seg_event_queue
    resumed,   \* the events of a registered resume callback
    idHash,    \* manager->job_id_hash: the LRM ids of this request
    lrm,       \* external: the LRM jobs, in the order of their submission
    pos,       \* external: how much of each one's log was delivered
    told,      \* the last status sent to the client
    committed, \* the client committed the request
    ended,     \* the end of the job was committed, by the client or on its expiry
    stagedOut, \* a stage_out script transferred the job's files
    used       \* what clients, crashes and scripts did so far

mgr == <<pause, held, resumed, idHash>>
ghosts == <<told, committed, ended, stagedOut>>
env == <<lrm, pos>>
place == <<mem, loaded, pending, expires>>
vars == <<job, mem, loaded, pending, expires, r, run, file, scripts, posts, pause,
          held, resumed, idHash, lrm, pos, told, committed, ended, stagedOut, used>>

Poll == {"POLL1", "POLL2", "POLL_QUERY1", "POLL_QUERY2"}
States == Poll \cup
    {"START", "TWO_PHASE", "TWO_PHASE_QUERY1", "TWO_PHASE_QUERY2",
     "TWO_PHASE_COMMITTED", "STAGE_IN", "SUBMIT", "PRE_CLOSE_OUTPUT",
     "CLOSE_OUTPUT", "STAGE_OUT", "TWO_PHASE_END", "TWO_PHASE_END_COMMITTED",
     "FILE_CLEAN_UP", "SCRATCH_CLEAN_UP", "CACHE_CLEAN_UP", "DONE",
     "FAILED", "FAILED_CLOSE_OUTPUT", "FAILED_TWO_PHASE",
     "FAILED_TWO_PHASE_COMMITTED", "FAILED_FILE_CLEAN_UP",
     "FAILED_SCRATCH_CLEAN_UP", "FAILED_CACHE_CLEAN_UP", "FAILED_DONE", "STOP"}
Final == {"DONE", "FAILED_DONE"}
Statuses == {"UNSUBMITTED", "STAGE_IN", "PENDING", "ACTIVE", "SUSPENDED",
             "STAGE_OUT", "DONE", "FAILED"}
Failures == {"none", "COMMIT_TIMED_OUT", "STAGE_IN_FAILED", "STAGE_OUT_FAILED",
             "SUBMIT", "SCRIPT_STATUS", "USER_CANCELLED"}

NoFile == [state |-> "none"]
\* request->job_id_string: an LRM job, NULL, or emptied by the terminal event.
NoId == 0
EmptyId == -1

\* The request as globus_gram_job_manager_request_init leaves a new one; overdue: its
\* stop_reason is COMMIT_TIMED_OUT.
NewRequest ==
    [jm |-> "START", restart |-> "START", status |-> "UNSUBMITTED",
     failure |-> "none", unsent |-> FALSE, jmRestart |-> FALSE,
     extend |-> FALSE, id |-> NoId, todoIn |-> job.stageIn,
     todoOut |-> job.stageOut, contact |-> job.contact, queries |-> <<>>,
     events |-> <<>>, seen |-> 0, timer |-> TRUE, overdue |-> FALSE]

\* Fault: the state file does not keep the staging lists.
WrittenNoStaging(q) ==
    [state |-> IF q.jm = "STOP" THEN q.restart ELSE q.jm, status |-> q.status,
     failure |-> q.failure, id |-> q.id, todoIn |-> FALSE,
     todoOut |-> FALSE, contact |-> q.contact, seen |-> q.seen]

\* globus_gram_job_manager_state_file_write: the state to restart from.
Written(q) ==
    [state |-> IF q.jm = "STOP" THEN q.restart ELSE q.jm, status |-> q.status,
     failure |-> q.failure, id |-> q.id, todoIn |-> q.todoIn,
     todoOut |-> q.todoOut, contact |-> q.contact, seen |-> q.seen]

Init ==
    /\ job \in Jobs
    /\ r = NewRequest /\ file = Written(NewRequest)
    /\ mem = "live" /\ loaded = FALSE /\ pending = FALSE /\ expires = FALSE
    /\ run = "idle" /\ scripts = <<>> /\ posts = 0
    /\ pause = 0 /\ held = <<>> /\ resumed = <<>> /\ idHash = {}
    /\ lrm = <<>> /\ pos = <<>>
    /\ told = "none" /\ committed = ~job.twoPhase /\ ended = FALSE
    /\ stagedOut = FALSE
    /\ used = [k \in DOMAIN Max |-> 0]

-----------------------------------------------------------------------------
(* References to the request, and what others do to it *)

Spend(what) ==
    /\ used[what] < Max[what] /\ used["total"] < Max["total"]
    /\ used' = [used EXCEPT ![what] = @ + 1, !["total"] = @ + 1]

\* globus_l_gram_restart_job and add_reference_locked: the request read back.
\* A job that was only waiting waits again; any other one that a restarted
\* process found goes through the restart logic, one that was merely swapped
\* out continues where it was.
Reloaded ==
    [NewRequest EXCEPT
        !.jm = IF file.state \in Poll THEN "POLL2"
               ELSE IF loaded THEN "TWO_PHASE_COMMITTED" ELSE file.state,
        !.restart = file.state, !.status = file.status,
        !.failure = file.failure, !.jmRestart = TRUE, !.id = file.id,
        !.todoIn = file.todoIn, !.todoOut = file.todoOut,
        !.contact = file.contact, !.seen = file.seen, !.timer = pending]

\* The request a new reference finds; one in pending_restarts is restarted.
Referenced == IF mem = "stub" THEN Reloaded ELSE r

TakeReference ==
    /\ mem # "gone" /\ run = "idle"
    /\ mem' = "live" /\ loaded' = FALSE /\ pending' = FALSE
    /\ pause' = IF pending /\ file.state \in Poll THEN pause + 1 ELSE pause

\* What keeps the reference count of a live request above 0.
Referrers == r.timer \/ scripts # <<>> \/ posts > 0 \/ r.events # <<>>

\* globus_i_gram_job_manager_script_valid_state_change
ValidChange(old, new) ==
    CASE old \in {"PENDING", "UNSUBMITTED", "STAGE_IN"} -> new # old
      [] old \in {"ACTIVE", "SUSPENDED"} -> new \notin {"PENDING", old}
      [] old = "STAGE_OUT" -> new \in {"DONE", "FAILED"}
      [] OTHER -> FALSE

\* A job state the LRM reported; a job that is done may have to be staged out.
Reported(q, new) ==
    IF ValidChange(q.status, new)
    THEN [q EXCEPT !.unsent = TRUE,
                   !.status = IF new = "DONE" /\ job.stageOut
                              THEN "STAGE_OUT" ELSE new]
    ELSE q

Ended(state) == state \in {"DONE", "FAILED"}

\* The log of an LRM job: it became active, then it ended.
LogOf(i) == CASE lrm[i] = "PENDING" -> <<>>
              [] lrm[i] = "ACTIVE" -> <<"ACTIVE">>
              [] OTHER -> <<"ACTIVE", lrm[i]>>

\* globus_gram_job_manager_seg_handle_event: the oldest event of the request.
Handled(q) ==
    LET e == Head(q.events)
        q1 == [q EXCEPT !.events = Tail(@), !.seen = @ + 1,
                        !.id = IF Ended(e.state) /\ e.id = @ THEN EmptyId ELSE @]
    IN IF Ended(e.state) /\ q1.id # EmptyId THEN q1 ELSE Reported(q1, e.state)

\* A script is queued; its callback compares the state it was started in.
Script(cmd, q) == [cmd |-> cmd, start |-> q.jm, id |-> q.id, res |-> "none"]
RunScript(cmd, q) == scripts' = Append(scripts, Script(cmd, q))

\* globus_gram_job_manager_contact_state_callback: a state callback without,
\* and with, the restart of the state machine.  When no contact accepts the
\* connection the context is freed and nothing restarts it.
Notify(q) ==
    told' = IF ~q.contact THEN told ELSE IF q.jm = "STOP" THEN "FAILED" ELSE q.status

FinalNotify(q) ==
    \/ /\ q.contact /\ told' = q.status
       /\ posts' = posts + 1 /\ r' = q
    \/ /\ ~q.contact
       /\ r' = [q EXCEPT !.timer = TRUE] /\ UNCHANGED <<told, posts>>
    \/ /\ q.contact /\ "post" \in Fails
       /\ r' = q /\ UNCHANGED <<told, posts>>

\* The loop ends when an event was registered that will run it again.
Return(registered) == run' = IF registered THEN "idle" ELSE "loop"

\* globus_gram_job_manager_seg_resume
Resume ==
    /\ pause' = pause - 1
    /\ IF pause = 1 /\ held # <<>>
       THEN resumed' = resumed \o held /\ held' = <<>>
       ELSE UNCHANGED <<resumed, held>>

At(states) == run = "loop" /\ r.jm \in states

TimerFires ==
    /\ mem = "live" /\ run = "idle" /\ r.timer
    /\ r' = [r EXCEPT !.timer = FALSE]
    /\ run' = "loop"
    /\ UNCHANGED <<job, place, file, scripts, posts, mgr, env, ghosts, used>>

-----------------------------------------------------------------------------
(* globus_l_gram_job_manager_state_machine, one action per group of cases *)

StepStart ==
    /\ At({"START"})
    /\ r' = [r EXCEPT !.jm = "TWO_PHASE", !.timer = job.twoPhase]
    /\ Return(job.twoPhase)
    /\ UNCHANGED <<job, place, file, scripts, posts, mgr, env, ghosts, used>>

\* Fault: a commit that does not come in time is taken for granted.
TimedOutSubmits == [r EXCEPT !.jm = "TWO_PHASE_COMMITTED"]

\* The time to commit is over, unless the client extended it.
TimedOut ==
    IF r.jmRestart THEN [r EXCEPT !.jm = "STOP", !.overdue = TRUE]
    ELSE [r EXCEPT !.jm = "FAILED", !.failure = "COMMIT_TIMED_OUT", !.unsent = TRUE]

StepTwoPhase ==
    /\ At({"TWO_PHASE"})
    /\ r' = IF job.twoPhase /\ r.extend
            THEN [r EXCEPT !.extend = FALSE, !.timer = TRUE]
            ELSE IF ~job.twoPhase THEN [r EXCEPT !.jm = "TWO_PHASE_COMMITTED"]
            ELSE TimedOut
    /\ Return(job.twoPhase /\ r.extend)
    /\ UNCHANGED <<job, place, file, scripts, posts, mgr, env, ghosts, used>>

\* Fault: a restarted job manager does not look into the condor log.
CondorForgets == FALSE

\* globus_l_gram_job_manager_set_restart_state: the request it leaves, and
\* whether it found a state to continue from.
Closing == {"CLOSE_OUTPUT", "PRE_CLOSE_OUTPUT", "STAGE_OUT", "TWO_PHASE_END",
            "TWO_PHASE_END_COMMITTED"}
CondorRecovers == r.restart = "SUBMIT" /\ job.mode = "condor" /\ lrm # <<>>
RestartFound ==
    CASE r.restart = "SUBMIT" -> CondorRecovers
      [] r.restart \in Poll -> TRUE
      [] r.restart \in {"FAILED", "FAILED_TWO_PHASE"} ->
            r.failure \in {"STAGE_IN_FAILED", "STAGE_OUT_FAILED"}
      [] r.restart \in Closing -> TRUE
      [] OTHER -> FALSE
\* Fault: the id found in the condor log is not stored.
CondorRequestNoId == [r EXCEPT !.status = "PENDING", !.jm = "SUBMIT"]
CondorRequest == [r EXCEPT !.id = Len(lrm), !.status = "PENDING", !.jm = "SUBMIT"]
RestartState ==
    CASE CondorRecovers -> CondorRequest
      [] r.restart \in Poll -> [r EXCEPT !.jm = "SUBMIT"]
      [] r.restart \in {"FAILED", "FAILED_TWO_PHASE"} ->
            IF r.failure = "STAGE_OUT_FAILED"
            THEN [r EXCEPT !.failure = "none", !.status = "STAGE_OUT",
                           !.unsent = TRUE, !.jm = "POLL1"]
            ELSE IF r.failure = "STAGE_IN_FAILED"
            THEN [r EXCEPT !.failure = "none", !.status = "UNSUBMITTED",
                           !.unsent = TRUE, !.jm = "TWO_PHASE_COMMITTED"]
            ELSE [r EXCEPT !.status = "FAILED", !.unsent = TRUE, !.jm = "POLL1"]
      [] r.restart \in Closing ->
            [r EXCEPT !.status = "DONE", !.unsent = TRUE, !.jm = "POLL1"]
      [] OTHER -> r

StepRestart ==
    /\ At({"TWO_PHASE_COMMITTED"}) /\ r.jmRestart /\ RestartFound
    /\ r' = RestartState
    /\ pause' = IF CondorRecovers THEN pause + 1 ELSE pause
    /\ UNCHANGED <<job, place, run, file, scripts, posts, held, resumed, idHash,
                   env, ghosts, used>>

StepTwoPhaseCommitted ==
    LET q == IF r.jmRestart THEN RestartState ELSE r IN
    /\ At({"TWO_PHASE_COMMITTED"}) /\ ~(r.jmRestart /\ RestartFound)
    /\ IF job.stageIn
       THEN /\ r' = [q EXCEPT !.jm = "STAGE_IN", !.status = "STAGE_IN"]
            /\ Notify(r') /\ RunScript("stage_in", r')
       ELSE /\ r' = [q EXCEPT !.jm = "STAGE_IN"]
            /\ UNCHANGED <<told, scripts>>
    /\ Return(job.stageIn)
    /\ UNCHANGED <<job, place, file, posts, mgr, env, committed, ended,
                   stagedOut, used>>

StepStageInFailed ==
    /\ At({"STAGE_IN"}) /\ (r.todoIn \/ r.status = "FAILED")
    /\ r' = [r EXCEPT !.jm = "FAILED",
                !.failure = IF r.todoIn /\ @ = "none" THEN "STAGE_IN_FAILED" ELSE @]
    /\ UNCHANGED <<job, place, run, file, scripts, posts, mgr, env, ghosts, used>>

\* Fault: the intention to submit is not written.
SubmittingUnwritten ==
    /\ At({"STAGE_IN"}) /\ ~r.todoIn /\ r.status # "FAILED"
    /\ r' = [r EXCEPT !.jm = "SUBMIT", !.restart = "SUBMIT", !.seen = 0]
    /\ RunScript("submit", r')
    /\ pause' = pause + 1 /\ run' = "idle"
    /\ UNCHANGED <<job, place, file, posts, held, resumed, idHash, env, ghosts, used>>

\* Fault: events are not held while the submit script runs.
SubmittingUnpaused ==
    /\ At({"STAGE_IN"}) /\ ~r.todoIn /\ r.status # "FAILED"
    /\ r' = [r EXCEPT !.jm = "SUBMIT", !.restart = "SUBMIT", !.seen = 0]
    /\ RunScript("submit", r') /\ file' = Written(r')
    /\ run' = "idle"
    /\ UNCHANGED <<job, place, posts, mgr, env, ghosts, used>>

\* The intention to submit reaches the disk before the script is queued, and
\* events of ids that are not registered yet are kept.
StepSubmitting ==
    /\ At({"STAGE_IN"}) /\ ~r.todoIn /\ r.status # "FAILED"
    /\ LET q == [r EXCEPT !.jm = "SUBMIT", !.restart = "SUBMIT"] IN
       /\ r' = [q EXCEPT !.seen = 0]
       /\ file' = Written(q)
       /\ RunScript("submit", q)
    /\ pause' = pause + 1
    /\ run' = "idle"
    /\ UNCHANGED <<job, place, posts, held, resumed, idHash, env, ghosts, used>>

StepSubmit ==
    LET q == IF r.id = NoId
             THEN [r EXCEPT !.status = "FAILED", !.unsent = TRUE,
                            !.failure = IF @ = "none" THEN "SUBMIT" ELSE @]
             ELSE r
    IN
    /\ At({"SUBMIT"})
    /\ r' = [q EXCEPT !.jm = "POLL1", !.restart = "POLL1"]
    /\ idHash' = IF r.id > 0 THEN idHash \cup {r.id} ELSE idHash
    /\ Resume
    /\ file' = Written(r')
    /\ run' = "first"
    /\ UNCHANGED <<job, place, scripts, posts, env, ghosts, used>>

\* Where POLL1 goes once events and status are looked at.
StepPoll1 ==
    LET q == IF r.events # <<>> THEN Handled(r) ELSE r
        w == IF q.unsent THEN [q EXCEPT !.restart = "POLL1"] ELSE q
        quiet == [w EXCEPT !.unsent = FALSE]
    IN
    /\ run \in {"loop", "first"} /\ r.jm = "POLL1"
    /\ file' = IF q.unsent THEN Written(w) ELSE file
    /\ CASE w.status = "FAILED" ->
               r' = [w EXCEPT !.jm = "FAILED"] /\ run' = "loop" /\ UNCHANGED told
         [] w.status \in {"DONE", "STAGE_OUT"} ->
               /\ r' = [w EXCEPT !.jm = "PRE_CLOSE_OUTPUT"]
               /\ run' = "loop" /\ UNCHANGED told
         [] OTHER ->
               /\ IF w.unsent THEN Notify(w) ELSE UNCHANGED told
               /\ IF w.queries # <<>>
                  THEN r' = [quiet EXCEPT !.jm = "POLL_QUERY1"] /\ run' = "loop"
                  ELSE IF job.mode = "poll"
                  THEN /\ r' = [quiet EXCEPT !.jm = "POLL2", !.timer = run # "first"]
                       /\ Return(run # "first")
                  ELSE /\ r' = [quiet EXCEPT
                                   !.jm = IF w.events # <<>> THEN "POLL1" ELSE "POLL2"]
                       /\ Return(w.events = <<>>)
    /\ UNCHANGED <<job, place, scripts, posts, mgr, env, committed, ended,
                   stagedOut, used>>

StepPoll2 ==
    /\ At({"POLL2"})
    /\ IF job.mode = "poll"
       THEN /\ r' = [r EXCEPT !.jm = "POLL1"]
            /\ RunScript("poll", r')
            /\ run' = "idle"
       ELSE /\ r' = [r EXCEPT !.jm = IF r.events # <<>> THEN "POLL1" ELSE "POLL2"]
            /\ Return(r.events = <<>>)
            /\ UNCHANGED scripts
    /\ UNCHANGED <<job, place, file, posts, mgr, env, ghosts, used>>

StepQuery1 ==
    /\ At({"POLL_QUERY1", "TWO_PHASE_QUERY1"})
    /\ RunScript(Head(r.queries), r)
    /\ r' = [r EXCEPT !.jm = IF @ = "POLL_QUERY1" THEN "POLL_QUERY2"
                                                  ELSE "TWO_PHASE_QUERY2"]
    /\ run' = "idle"
    /\ UNCHANGED <<job, place, file, posts, mgr, env, ghosts, used>>

\* Fault: the query that was answered stays in the queue.
QueryKept ==
    /\ At({"POLL_QUERY2", "TWO_PHASE_QUERY2"})
    /\ r' = [r EXCEPT !.jm = IF @ = "POLL_QUERY2" THEN "POLL_QUERY1" ELSE "TWO_PHASE_QUERY1"]
    /\ UNCHANGED <<job, place, run, file, scripts, posts, mgr, env, ghosts, used>>

StepQuery2 ==
    LET q == [r EXCEPT !.queries = Tail(@)]
        more == q.queries # <<>>
    IN
    /\ At({"POLL_QUERY2", "TWO_PHASE_QUERY2"})
    /\ IF r.jm = "TWO_PHASE_QUERY2"
       THEN /\ r' = [q EXCEPT !.jm = IF more THEN "TWO_PHASE_QUERY1" ELSE "TWO_PHASE",
                              !.timer = ~more]
            /\ Return(~more)
       ELSE /\ r' = [q EXCEPT !.jm = IF more THEN "POLL_QUERY1"
                                     ELSE IF q.unsent \/ q.events # <<>> THEN "POLL1"
                                     ELSE "POLL2"]
            /\ run' = "loop"
    /\ UNCHANGED <<job, place, file, scripts, posts, mgr, env, ghosts, used>>

StepClosing ==
    LET w == IF r.unsent THEN [r EXCEPT !.restart = r.jm] ELSE r
        toldNow == r.unsent /\ r.status = "STAGE_OUT"
    IN
    /\ At({"PRE_CLOSE_OUTPUT", "FAILED"})
    /\ file' = IF r.unsent THEN Written(w) ELSE file
    /\ IF toldNow THEN Notify(w) ELSE UNCHANGED told
    /\ r' = [w EXCEPT !.unsent = @ /\ ~toldNow, !.queries = <<>>,
                      !.jm = IF @ = "FAILED" THEN "FAILED_CLOSE_OUTPUT"
                                             ELSE "CLOSE_OUTPUT"]
    /\ UNCHANGED <<job, place, run, scripts, posts, mgr, env, committed, ended,
                   stagedOut, used>>

\* Fault: no status is left to be sent after the job ended.
CloseOutputSilently ==
    /\ At({"CLOSE_OUTPUT"})
    /\ r' = [r EXCEPT !.jm = "STAGE_OUT"]
    /\ IF r.todoOut THEN RunScript("stage_out", r') ELSE UNCHANGED scripts
    /\ Return(r.todoOut)
    /\ UNCHANGED <<job, place, file, posts, mgr, env, ghosts, used>>

StepCloseOutput ==
    /\ At({"CLOSE_OUTPUT"})
    /\ IF r.status = "FAILED" /\ r.failure = "STAGE_OUT_FAILED"
       THEN /\ r' = [r EXCEPT !.jm = "FAILED_CLOSE_OUTPUT"]
            /\ run' = "loop" /\ UNCHANGED scripts
       ELSE /\ r' = [r EXCEPT !.jm = "STAGE_OUT", !.unsent = TRUE]
            /\ IF r.todoOut THEN RunScript("stage_out", r') ELSE UNCHANGED scripts
            /\ Return(r.todoOut)
    /\ UNCHANGED <<job, place, file, posts, mgr, env, ghosts, used>>

\* Fault: the stage-out list is not checked.
FinalStatusUnchecked ==
    LET q == [r EXCEPT !.unsent = FALSE, !.status = "DONE", !.jm = "TWO_PHASE_END"] IN
    /\ At({"STAGE_OUT", "FAILED_CLOSE_OUTPUT"})
    /\ IF r.unsent /\ job.twoPhase THEN FinalNotify(q)
       ELSE /\ r' = q /\ UNCHANGED posts
            /\ IF r.unsent THEN Notify(q) ELSE UNCHANGED told
    /\ Return(r.unsent /\ job.twoPhase)
    /\ UNCHANGED <<job, place, file, scripts, mgr, env, committed, ended,
                   stagedOut, used>>

\* The job is over: its last status is sent, with two-phase commit in such a
\* way that the reply starts the wait for the client.
StepFinalStatus ==
    LET failed == r.jm = "FAILED_CLOSE_OUTPUT" \/ r.todoOut
        q == [r EXCEPT !.unsent = FALSE,
                 !.jm = IF failed THEN "FAILED_TWO_PHASE" ELSE "TWO_PHASE_END",
                 !.status = IF failed THEN "FAILED" ELSE "DONE",
                 !.failure = IF r.jm = "STAGE_OUT" /\ r.todoOut /\ @ = "none"
                             THEN "STAGE_OUT_FAILED" ELSE @]
    IN
    /\ At({"STAGE_OUT", "FAILED_CLOSE_OUTPUT"})
    /\ IF r.unsent /\ job.twoPhase THEN FinalNotify(q)
       ELSE /\ r' = q /\ UNCHANGED posts
            /\ IF r.unsent THEN Notify(q) ELSE UNCHANGED told
    /\ Return(r.unsent /\ job.twoPhase)
    /\ UNCHANGED <<job, place, file, scripts, mgr, env, committed, ended,
                   stagedOut, used>>

\* Fault: the end of the wait counts as the commit.
TwoPhaseEndImpatient ==
    /\ At({"TWO_PHASE_END", "FAILED_TWO_PHASE"})
    /\ r' = [r EXCEPT !.jm = IF @ = "TWO_PHASE_END" THEN "TWO_PHASE_END_COMMITTED"
                             ELSE "FAILED_TWO_PHASE_COMMITTED"]
    /\ UNCHANGED <<job, place, run, file, scripts, posts, mgr, env, ghosts, used>>

\* The wait for the client's commit is over, or there is none.
StepTwoPhaseEnd ==
    LET timedOut == r.failure = "COMMIT_TIMED_OUT" IN
    /\ At({"TWO_PHASE_END", "FAILED_TWO_PHASE"})
    /\ CASE job.twoPhase /\ r.extend /\ ~timedOut ->
               r' = [r EXCEPT !.extend = FALSE, !.timer = TRUE] /\ run' = "idle"
         [] ~(job.twoPhase /\ r.extend /\ ~timedOut)
            /\ (~job.twoPhase \/ ~r.contact \/ timedOut) ->
               /\ r' = [r EXCEPT !.jm = IF @ = "TWO_PHASE_END"
                                        THEN "TWO_PHASE_END_COMMITTED"
                                        ELSE "FAILED_TWO_PHASE_COMMITTED"]
               /\ run' = "loop"
         [] OTHER ->
               /\ r' = [r EXCEPT !.restart = r.jm, !.jm = "STOP", !.overdue = TRUE]
               /\ run' = "idle"
    /\ UNCHANGED <<job, place, file, scripts, posts, mgr, env, ghosts, used>>

\* File, scratch and cache clean-up; their effects on files are left out.
CleanUp ==
    [TWO_PHASE_END_COMMITTED |-> "FILE_CLEAN_UP",
     FAILED_TWO_PHASE_COMMITTED |-> "FAILED_FILE_CLEAN_UP",
     FILE_CLEAN_UP |-> "SCRATCH_CLEAN_UP",
     FAILED_FILE_CLEAN_UP |-> "FAILED_SCRATCH_CLEAN_UP",
     SCRATCH_CLEAN_UP |-> "CACHE_CLEAN_UP",
     FAILED_SCRATCH_CLEAN_UP |-> "FAILED_CACHE_CLEAN_UP"]

StepCleanUp ==
    /\ At(DOMAIN CleanUp)
    /\ r' = [r EXCEPT !.jm = IF @ = "FILE_CLEAN_UP" /\ r.status = "FAILED"
                             THEN "FAILED_SCRATCH_CLEAN_UP" ELSE CleanUp[@]]
    /\ UNCHANGED <<job, place, run, file, scripts, posts, mgr, env, ghosts, used>>

StepCacheCleanUp ==
    /\ At({"CACHE_CLEAN_UP", "FAILED_CACHE_CLEAN_UP"})
    /\ r' = [r EXCEPT !.queries = <<>>,
                      !.jm = IF @ = "CACHE_CLEAN_UP" THEN "DONE" ELSE "FAILED_DONE"]
    /\ file' = NoFile
    /\ UNCHANGED <<job, place, run, scripts, posts, mgr, env, ghosts, used>>

StepStop ==
    /\ At({"STOP"})
    /\ Notify(r) /\ file' = Written(r)
    /\ run' = "idle"
    /\ UNCHANGED <<job, place, r, scripts, posts, mgr, env, committed, ended,
                   stagedOut, used>>

\* Fault: the loop goes on with a request that was destroyed.
DoneLoops ==
    /\ At(Final) /\ r' = NewRequest /\ mem' = "gone" /\ file' = NoFile
    /\ UNCHANGED <<job, loaded, pending, expires, run, scripts, posts, mgr, env, ghosts, used>>

\* The request is destroyed when nothing refers to it any more.
StepDone ==
    /\ At(Final)
    /\ file' = IF r.jm = "FAILED_DONE" THEN NoFile ELSE file
    /\ idHash' = IF r.id > 0 THEN idHash \ {r.id} ELSE idHash
    /\ IF r.timer \/ scripts # <<>> \/ posts > 0
       THEN /\ r' = [r EXCEPT !.queries = <<>>, !.events = <<>>, !.restart = r.jm]
            /\ UNCHANGED mem
       ELSE r' = NewRequest /\ mem' = "gone"
    /\ run' = "idle"
    /\ UNCHANGED <<job, loaded, pending, expires, scripts, posts, pause, held, resumed,
                   env, ghosts, used>>

Step ==
    \/ StepStart \/ StepTwoPhase \/ StepRestart \/ StepTwoPhaseCommitted
    \/ StepStageInFailed \/ StepSubmitting \/ StepSubmit \/ StepPoll1 \/ StepPoll2
    \/ StepQuery1 \/ StepQuery2 \/ StepClosing \/ StepCloseOutput
    \/ StepFinalStatus \/ StepTwoPhaseEnd \/ StepCleanUp \/ StepCacheCleanUp
    \/ StepStop \/ StepDone

-----------------------------------------------------------------------------
(* Scripts, the LRM and its events *)

Without(s, i) == SubSeq(s, 1, i - 1) \o SubSeq(s, i + 1, Len(s))

\* What a script of JobManager.pm and of the LRM's module does; its report is read by
\* ScriptDone.
ScriptRuns(i) ==
    LET s == scripts[i]
        running == s.id > 0 /\ ~Ended(lrm[s.id])
        hopeless == (s.cmd = "signal" /\ ~running) \/ (s.cmd = "poll" /\ s.id <= 0)
    IN
    /\ s.res = "none"
    /\ \E res \in {IF hopeless THEN "err" ELSE "ok"} \cup (Fails \cap {"err", "die"}) :
         LET id == IF s.cmd = "submit" THEN Len(lrm) + 1 ELSE s.id IN
         /\ scripts' = [scripts EXCEPT
                ![i].id = id,
                ![i].res = IF s.cmd = "poll" /\ res = "ok" THEN lrm[s.id] ELSE res]
         /\ lrm' = IF res = "ok" /\ s.cmd = "submit" THEN Append(lrm, "PENDING")
                   ELSE IF res = "ok" /\ s.cmd = "cancel" /\ running
                   THEN [lrm EXCEPT ![s.id] = "FAILED"] ELSE lrm
         /\ pos' = IF res = "ok" /\ s.cmd = "submit" THEN Append(pos, 0) ELSE pos
         /\ stagedOut' = (stagedOut \/ (s.cmd = "stage_out" /\ res = "ok"))
    /\ UNCHANGED <<job, place, r, run, file, posts, mgr, told, committed, ended,
                   used>>

\* A submit script fails (the streamer of its output does not start) or is killed after
\* the LRM took the job.
OrphanSubmit(i) ==
    /\ scripts[i].res = "none" /\ scripts[i].cmd = "submit"
    /\ Spend("orphan")
    /\ \E res \in Fails \cap {"err", "die"} :
         scripts' = [scripts EXCEPT ![i].id = Len(lrm) + 1, ![i].res = res]
    /\ lrm' = Append(lrm, "PENDING") /\ pos' = Append(pos, 0)
    /\ UNCHANGED <<job, place, r, run, file, posts, mgr, told, committed, ended,
                   stagedOut>>

\* globus_l_gram_job_manager_default_done and query_done: the lines of a
\* script's report, up to its end, which registers the state machine.
ScriptFailed(q, s, why) ==
    IF q.jm = s.start
    THEN [q EXCEPT !.status = "FAILED", !.failure = why, !.unsent = TRUE] ELSE q

\* Fault: a cancel script that reports an error is taken for a success.
CancelTrusted(q, s) ==
    [q EXCEPT !.status = "FAILED", !.failure = "USER_CANCELLED", !.unsent = TRUE]

CancelApplied(q, s) ==
    IF s.res = "ok" /\ ValidChange(q.status, "FAILED")
    THEN [q EXCEPT !.status = "FAILED", !.failure = "USER_CANCELLED", !.unsent = TRUE]
    ELSE q

Applied(q, s) ==
    CASE s.res = "die" -> [q EXCEPT !.failure = "SCRIPT_STATUS"]
      [] s.res # "die" /\ s.cmd = "submit" ->
            IF s.res = "ok" THEN Reported([q EXCEPT !.id = s.id], "PENDING")
                            ELSE ScriptFailed(q, s, "SUBMIT")
      [] s.res # "die" /\ s.cmd = "poll" ->
            IF s.res = "err" THEN ScriptFailed(q, s, "SUBMIT") ELSE Reported(q, s.res)
      [] s.res # "die" /\ s.cmd = "stage_in" ->
            IF s.res = "ok" THEN [q EXCEPT !.todoIn = FALSE]
                            ELSE ScriptFailed(q, s, "STAGE_IN_FAILED")
      [] s.res # "die" /\ s.cmd = "stage_out" ->
            IF s.res = "ok"
            THEN [q EXCEPT !.todoOut = @ /\ q.jm # s.start]
            ELSE ScriptFailed(q, s, "STAGE_OUT_FAILED")
      [] s.res # "die" /\ s.cmd = "cancel" -> CancelApplied(q, s)
      [] s.res # "die" /\ s.cmd = "signal" ->
            IF s.res = "ok" /\ ValidChange(q.status, "SUSPENDED")
            THEN [q EXCEPT !.status = "SUSPENDED", !.unsent = TRUE] ELSE q

ScriptDone(i) ==
    LET s == scripts[i]
        q == Applied(r, s)
        saves == s.res = "ok" /\ s.cmd \in {"stage_in", "stage_out"}
                 /\ r.jm # "STOP" /\ (s.cmd = "stage_out" => r.jm = s.start)
    IN
    /\ run = "idle" /\ s.res # "none"
    /\ r' = [q EXCEPT !.timer = TRUE]
    /\ file' = IF saves THEN Written(q) ELSE file
    /\ scripts' = Without(scripts, i)
    /\ UNCHANGED <<job, place, run, posts, mgr, env, ghosts, used>>

\* external: an LRM job becomes active and ends.
LrmProgress(i) ==
    /\ lrm' \in { [lrm EXCEPT ![i] = n] :
                     n \in CASE lrm[i] = "PENDING" -> {"ACTIVE"}
                             [] lrm[i] = "ACTIVE" ->
                                  {"DONE"} \cup (IF "job" \in Fails THEN {"FAILED"} ELSE {})
                             [] OTHER -> {} }
    /\ UNCHANGED <<job, place, r, run, file, scripts, posts, mgr, pos, ghosts, used>>

\* globus_l_gram_deliver_event
Delivered(q, es) ==
    LET woken == es # <<>> /\ q.jm = "POLL2" IN
    [q EXCEPT !.events = @ \o es, !.timer = @ \/ woken,
              !.jm = IF woken THEN "POLL1" ELSE @]

\* The ids that stay registered after the events are delivered.
StillHashed(es) ==
    { i \in idHash : \A k \in DOMAIN es : ~(es[k].id = i /\ Ended(es[k].state)) }

\* globus_l_gram_seg_event_callback: the event of a registered id goes to its
\* request, any other one is kept while a submit script may be running.
SegEvent(i) ==
    LET e == [id |-> i, state |-> LogOf(i)[pos[i] + 1]] IN
    /\ job.mode # "poll" /\ run = "idle" /\ mem # "gone"
    /\ pos[i] < Len(LogOf(i))
    /\ pos' = [pos EXCEPT ![i] = @ + 1]
    /\ \/ /\ i \in idHash
          /\ TakeReference
          /\ r' = Delivered(Referenced, <<e>>)
          /\ idHash' = StillHashed(<<e>>)
          /\ UNCHANGED held
       \/ /\ i \notin idHash
          /\ held' = IF pause > 0 THEN Append(held, e) ELSE held
          /\ UNCHANGED <<mem, loaded, pending, r, pause, idHash>>
    /\ UNCHANGED <<job, expires, run, file, scripts, posts, resumed, lrm, ghosts, used>>

\* globus_l_seg_resume_callback: the kept events whose id is registered by now, in
\* their order, go to the request.
SegResume ==
    LET due == { k \in DOMAIN resumed : resumed[k].id \in idHash } IN
    \E f \in [1..Cardinality(due) -> due] :
       LET es == [k \in 1..Cardinality(due) |-> resumed[f[k]]] IN
       /\ run = "idle" /\ resumed # <<>>
       /\ \A j, k \in 1..Cardinality(due) : j < k => f[j] < f[k]
       /\ resumed' = <<>>
       /\ \/ /\ es # <<>>
             /\ TakeReference
             /\ r' = Delivered(Referenced, es)
             /\ idHash' = StillHashed(es)
          \/ /\ es = <<>>
             /\ UNCHANGED <<mem, loaded, pending, r, pause, idHash>>
       /\ UNCHANGED <<job, expires, run, file, scripts, posts, held, env, ghosts, used>>

\* globus_l_gram_callback_reply
CallbackReply ==
    /\ run = "idle" /\ posts > 0
    /\ posts' = posts - 1
    /\ r' = [r EXCEPT !.timer = TRUE]
    /\ UNCHANGED <<job, place, run, file, scripts, mgr, env, ghosts, used>>

-----------------------------------------------------------------------------
(* Queries of the client: globus_gram_job_manager_query.c *)

\* A query that is applied at once, leaving q, and wakes the state machine.
Apply(q) ==
    /\ TakeReference
    /\ r' = q
    /\ UNCHANGED <<job, expires, run, scripts, posts, held, resumed, idHash, env, told,
                   stagedOut>>

\* signal COMMIT_REQUEST; in any state but these it is ignored or denied.
CommitRequest ==
    /\ job.twoPhase
    /\ Referenced.jm \in {"START", "TWO_PHASE", "TWO_PHASE_QUERY1", "TWO_PHASE_QUERY2"}
    /\ Apply([Referenced EXCEPT !.jm = "TWO_PHASE_COMMITTED", !.timer = TRUE])
    /\ committed' = TRUE
    /\ UNCHANGED <<file, ended, used>>

\* signal COMMIT_END
EndCommitted(q) ==
    IF q.jm \in {"TWO_PHASE_END", "STOP"}
    THEN [q EXCEPT !.jm = "TWO_PHASE_END_COMMITTED", !.timer = TRUE]
    ELSE [q EXCEPT !.jm = "FAILED_TWO_PHASE_COMMITTED", !.timer = TRUE]

CommitEnd ==
    /\ job.twoPhase
    /\ Referenced.jm \in {"TWO_PHASE_END", "FAILED_TWO_PHASE", "STOP"}
    /\ Apply(EndCommitted(Referenced))
    /\ ended' = TRUE
    /\ UNCHANGED <<file, committed, used>>

\* signal COMMIT_EXTEND
CommitExtend ==
    /\ job.twoPhase
    /\ Referenced.jm \in {"TWO_PHASE", "TWO_PHASE_END", "FAILED_TWO_PHASE",
                         "TWO_PHASE_QUERY1", "TWO_PHASE_QUERY2"}
    /\ Spend("extend")
    /\ Apply([Referenced EXCEPT !.extend = TRUE])
    /\ UNCHANGED <<file, committed, ended>>

Queued(q, query, wakes) ==
    [q EXCEPT !.queries = Append(@, query), !.jm = IF @ \in DOMAIN wakes THEN wakes[@] ELSE @,
              !.timer = @ \/ q.jm \in DOMAIN wakes]

\* globus_l_gram_job_manager_cancel: before submission the job fails at once,
\* later the LRM must be asked.  A cancel in START leaves no status to send.
Cancel ==
    LET q == Referenced IN
    /\ q.jm \in Poll \cup {"START", "TWO_PHASE", "TWO_PHASE_COMMITTED", "STAGE_IN", "SUBMIT"}
    /\ Spend("cancel")
    /\ Apply(IF q.jm \in Poll \cup {"SUBMIT"}
             THEN Queued(q, "cancel", [POLL2 |-> "POLL_QUERY1"])
             ELSE [q EXCEPT !.jm = "FAILED", !.status = "FAILED",
                            !.failure = "USER_CANCELLED",
                            !.unsent = @ \/ q.jm # "START"])
    /\ UNCHANGED <<file, committed, ended>>

\* signals CANCEL, SUSPEND, RESUME, PRIORITY, for the script `signal'.  No LRM module of
\* the repository implements it (JobManager.pm reports UNIMPLEMENTED), so that CANCEL sent
\* this way changes nothing; one that suspends the job is allowed for.
QueryValid == Poll \cup {"START", "TWO_PHASE", "TWO_PHASE_COMMITTED", "TWO_PHASE_QUERY1",
                        "TWO_PHASE_QUERY2", "STAGE_IN", "SUBMIT"}
Signal ==
    /\ Referenced.jm \in QueryValid
    /\ Spend("signal")
    /\ Apply(Queued(Referenced, "signal",
                    [POLL2 |-> "POLL_QUERY1", TWO_PHASE |-> "TWO_PHASE_QUERY1"]))
    /\ UNCHANGED <<file, committed, ended>>

\* globus_l_gram_job_manager_unregister of the last contact.
Unregister ==
    LET q == [Referenced EXCEPT !.contact = FALSE] IN
    /\ Referenced.jm \notin Final /\ Referenced.contact
    /\ Spend("unregister")
    /\ Apply(IF q.jm = "TWO_PHASE_END" /\ job.twoPhase THEN EndCommitted(q) ELSE q)
    /\ UNCHANGED <<file, committed, ended>>

\* globus_l_gram_job_manager_query_stop_manager
Stoppable == States \ {"FILE_CLEAN_UP", "SCRATCH_CLEAN_UP", "CACHE_CLEAN_UP", "DONE",
    "FAILED_DONE", "FAILED", "FAILED_FILE_CLEAN_UP", "FAILED_SCRATCH_CLEAN_UP",
    "FAILED_CACHE_CLEAN_UP", "FAILED_CLOSE_OUTPUT"}
StopManager ==
    LET q == Referenced IN
    /\ q.jm \in Stoppable
    /\ Spend("stop")
    /\ Apply([q EXCEPT !.jm = "STOP", !.unsent = TRUE, !.overdue = FALSE,
                       !.restart = IF q.jm = "STOP" THEN @ ELSE q.jm,
                       !.timer = @ \/ q.jm = "POLL2"])
    /\ UNCHANGED <<file, committed, ended>>

\* globus_i_gram_request_stdio_update: the staging lists are made anew, but
\* globus_gram_job_manager_staging_create_list makes none for a request that
\* was read from its state file.
Restaged(q) ==
    [q EXCEPT !.todoIn = job.stageIn /\ ~q.jmRestart,
              !.todoOut = job.stageOut /\ ~q.jmRestart]

\* signal STDIO_UPDATE
StdioUpdate ==
    /\ Referenced.jm \in QueryValid
    /\ Spend("update")
    /\ Apply(Restaged(Referenced))
    /\ file' = Written(r')
    /\ UNCHANGED <<committed, ended>>

\* A client restarts a job this job manager already has: startup_socket.c.
ClientRestart ==
    LET q == Restaged(Referenced) IN
    /\ Spend("restart")
    /\ Apply(IF q.jm = "STOP"
             THEN [q EXCEPT !.contact = job.contact, !.jm = "START", !.jmRestart = TRUE,
                            !.unsent = TRUE, !.timer = TRUE]
             ELSE IF q.jm \in {"TWO_PHASE_END", "FAILED_TWO_PHASE"}
             THEN [q EXCEPT !.contact = job.contact, !.jm = "START", !.jmRestart = TRUE]
             ELSE [q EXCEPT !.contact = job.contact])
    /\ file' = Written(q)
    /\ UNCHANGED <<committed, ended>>

-----------------------------------------------------------------------------
(* The job manager process *)

\* globus_l_gram_process_pending_restarts
ProcessPendingRestart ==
    /\ pending
    /\ TakeReference
    /\ r' = Referenced
    /\ UNCHANGED <<job, expires, run, file, scripts, posts, held, resumed, idHash, env, ghosts,
                   used>>

\* Fault: a job whose client did not commit in time gets no expiration time.
SwapOutForever ==
    /\ mem = "live" /\ run = "idle" /\ ~Referrers
    /\ \/ r.jm = "POLL2" /\ job.mode = "seg"
       \/ /\ r.jm = "STOP"
          /\ job.mode = "poll" \/ r.restart \in {"TWO_PHASE_END", "FAILED_TWO_PHASE"}
    /\ file' = Written(r)
    /\ mem' = "stub" /\ loaded' = FALSE /\ r' = NewRequest
    /\ UNCHANGED <<job, pending, expires, run, scripts, posts, mgr, env, ghosts, used>>

\* globus_l_gram_ref_swap_out: an idle request is written and freed; one whose client did
\* not commit in time gets an expiration time.
SwapOut ==
    /\ mem = "live" /\ run = "idle" /\ ~Referrers
    /\ \/ r.jm = "POLL2" /\ job.mode = "seg"
       \/ /\ r.jm = "STOP"
          /\ job.mode = "poll" \/ r.restart \in {"TWO_PHASE_END", "FAILED_TWO_PHASE"}
    /\ file' = Written(r)
    /\ mem' = "stub" /\ loaded' = FALSE /\ r' = NewRequest
    /\ expires' = (expires \/ (r.jm = "STOP" /\ r.overdue))
    /\ UNCHANGED <<job, pending, run, scripts, posts, mgr, env, ghosts, used>>

\* globus_gram_job_manager_expire_old_jobs: the periodic callback finds the expiration
\* time of a job without references over, and commits its end for the client.
ExpireOldJob ==
    LET q == Referenced
        fake == q.jm \in {"TWO_PHASE_END", "FAILED_TWO_PHASE"}
    IN
    /\ expires /\ (mem = "live" => ~Referrers)
    /\ TakeReference
    /\ expires' = FALSE
    /\ r' = IF fake THEN [q EXCEPT !.jm = "FAILED_TWO_PHASE_COMMITTED", !.timer = TRUE]
            ELSE q
    /\ ended' = (ended \/ fake)
    /\ UNCHANGED <<job, run, file, scripts, posts, held, resumed, idHash, env, told,
                   committed, stagedOut, used>>

\* The process dies between two callbacks or two iterations of the loop, and
\* with it its scripts; a new one reads the state files
\* (globus_gram_job_manager_request_load_all) and the events from a time that
\* is not after the last one a file records.
Crash ==
    /\ mem # "gone"
    /\ Spend("crash")
    /\ run' = "idle" /\ scripts' = <<>> /\ posts' = 0 /\ r' = NewRequest
    /\ pause' = 0 /\ held' = <<>> /\ resumed' = <<>>
    /\ mem' = IF file = NoFile THEN "gone" ELSE "stub"
    /\ loaded' = (file # NoFile) /\ expires' = FALSE
    /\ LET waits == file # NoFile /\ job.mode # "poll" /\ file.state \in Poll IN
       /\ pending' = (file # NoFile /\ ~waits)
       /\ idHash' = IF waits /\ file.id > 0 THEN {file.id} ELSE {}
    /\ \E k \in 0..(IF file = NoFile THEN 0 ELSE file.seen) :
         pos' = [i \in DOMAIN pos |-> IF i = Len(lrm) THEN k ELSE 0]
    /\ UNCHANGED <<job, file, lrm, ghosts>>

Manager == Step \/ TimerFires \/ ProcessPendingRestart \/ SegResume \/ CallbackReply
Events ==
    \/ \E i \in DOMAIN scripts : ScriptDone(i)
    \/ \E i \in DOMAIN lrm : SegEvent(i)
Scripts == \E i \in DOMAIN scripts : ScriptRuns(i)
Orphan == \E i \in DOMAIN scripts : OrphanSubmit(i)
Lrm == \E i \in DOMAIN lrm : LrmProgress(i)
Client == CommitRequest \/ CommitEnd \/ CommitExtend \/ Cancel \/ Signal
          \/ Unregister \/ StopManager \/ StdioUpdate \/ ClientRestart

Next == Manager \/ Events \/ Scripts \/ Orphan \/ Lrm \/ Client
        \/ SwapOut \/ ExpireOldJob \/ Crash

Spec == Init /\ [][Next]_vars

\* What the job manager, the scripts and the LRM have begun they carry on, an idle job is
\* swapped out and expires in the end; nothing is assumed of the client, and a process
\* need not crash.
FairSpec ==
    /\ Spec
    /\ WF_vars(Manager)
    /\ WF_vars(Events) /\ WF_vars(Scripts) /\ WF_vars(Lrm)
    /\ WF_vars(SwapOut) /\ WF_vars(ExpireOldJob)

-----------------------------------------------------------------------------
(* Properties *)

EventType == [id : Nat, state : {"ACTIVE", "DONE", "FAILED"}]
EventQueue == Seq(EventType)
QueryQueue == Seq({"cancel", "signal"})
RequestType ==
    [jm : States, restart : States, status : Statuses, failure : Failures,
     unsent : BOOLEAN, jmRestart : BOOLEAN, extend : BOOLEAN, id : Int,
     todoIn : BOOLEAN, todoOut : BOOLEAN, contact : BOOLEAN,
     queries : QueryQueue, events : EventQueue, seen : Nat,
     timer : BOOLEAN, overdue : BOOLEAN]

\* Three things a client may do that make the job manager lose sight of the job.
\* The reply of a signal sent before the commit runs the state machine while the
\* stage-in or submit script of the committed job is still at work.  In STOP, where
\* the submit script may be at work too, a commit ends any job.  A restart or an
\* update of the standard streams empties the staging lists of a request read from
\* its state file, and writes the file in the state the request was read back in,
\* not in the state it has to restart from.
Undisturbed ==
    /\ ~(job.twoPhase /\ used["signal"] > 0)
    /\ used["stop"] = 0 /\ used["restart"] = 0 /\ used["update"] = 0

\* The jobs whose end the job manager cannot miss.  A poll script that fails makes
\* it give up a job that may run; after a crash during the submission only condor's
\* log shows whether there is one, and a cancel that comes before the restarted job
\* manager looked there gives the job up unseen.  A submit script without a report of its
\* job's id is taken for a failed submission, whatever it did.
Trusted ==
    /\ Undisturbed /\ job.mode # "poll" /\ used["orphan"] = 0
    /\ used["crash"] > 0 => job.mode = "condor" /\ ~job.stageIn /\ used["cancel"] = 0

\* Types; the loop of the state machine runs only for a request in memory, and
\* a stub has a state file to be read back from.
TypeOK ==
    /\ job \in Jobs /\ r \in RequestType
    /\ mem \in {"live", "stub", "gone"} /\ expires \in BOOLEAN
    /\ run \in {"idle", "loop", "first"}
    /\ run # "idle" => mem = "live"
    /\ mem = "stub" => file # NoFile
    /\ posts \in Nat /\ idHash \subseteq DOMAIN lrm
    /\ told \in Statuses \cup {"none"}

\* rsl.txt, two_phase: the job is submitted only after the client's commit.
CommitBeforeSubmit == lrm # <<>> => committed

\* Every submission can be found again: when a submit script runs, the state
\* file says SUBMIT (set_restart_state looks for the job only then).
SubmitIntention ==
    [][Len(lrm') > Len(lrm) /\ Undisturbed => file # NoFile /\ file.state = "SUBMIT"]_vars

\* A job manager that crashes never submits a condor job again: the log shows
\* the restarted one what its predecessor submitted.
SingleSubmit == job.mode = "condor" /\ ~job.stageIn /\ Undisturbed => Len(lrm) <= 1

\* The terminal event of LRM job i will still reach the request.
EndDue(i) ==
    /\ i \in idHash
    /\ \/ pos[i] < 2
       \/ \E k \in DOMAIN resumed : resumed[k].id = i /\ Ended(resumed[k].state)

\* The job is over, stopped, or waits for a client that did not commit in time;
\* a job swapped out in STOP comes back in the state it will restart from.
Settled ==
    \/ mem = "gone"
    \/ mem = "live" /\ r.jm \in Final \cup {"STOP"}
    \/ mem = "live" /\ r.jmRestart /\ r.jm \in {"START", "TWO_PHASE_END", "FAILED_TWO_PHASE"}
    \/ mem = "stub" /\ ~pending /\ file.state \in {"TWO_PHASE_END", "FAILED_TWO_PHASE"}

\* A request whose state machine is at rest will run again: it has a timer, a
\* script or a reply to come, is to be restarted, or waits, in memory or swapped
\* out, for an event that cannot get lost.
SomethingWillWake ==
    /\ mem = "live" /\ run = "idle" /\ ~Settled =>
          \/ r.timer \/ scripts # <<>> \/ posts > 0
          \/ r.jm = "POLL2" /\ job.mode # "poll" /\ EndDue(r.id)
    /\ mem = "stub" /\ ~pending /\ ~Settled => EndDue(file.id)

\* The state file, the only memory a crash leaves, exists while an LRM job runs.
RunningJobHasFile ==
    Trusted /\ (\E i \in DOMAIN lrm : ~Ended(lrm[i])) => file # NoFile

\* With two-phase commit and a client that listens, the job's files are not cleaned up
\* before the client committed the end of the job, or the job expired because it did not.
CleanUpAfterCommit ==
    [][file # NoFile /\ file' = NoFile /\ job.twoPhase =>
           ended \/ ~r.contact \/ r.failure = "COMMIT_TIMED_OUT"]_vars

\* The client is told DONE only of a job the LRM finished and whose files were
\* staged out.
DoneMeansDone ==
    told = "DONE" =>
        /\ \E i \in DOMAIN lrm : lrm[i] = "DONE"
        /\ job.stageOut => stagedOut

\* The same of a job that crashes may interrupt and the client leaves alone.
RecoveredMeansDone == Undisturbed => DoneMeansDone

\* globus-gram-protocol-constants.sh: FAILED means that the job terminated before
\* completion, so nothing of it runs any more, or is still to be submitted.
FailedMeansEnded ==
    told = "FAILED" =>
        /\ \A i \in DOMAIN lrm : Ended(lrm[i])
        /\ \A i \in DOMAIN scripts : scripts[i].cmd # "submit"

\* The same of the jobs whose state the job manager can trust.
FailedMostlyMeansEnded == Trusted => FailedMeansEnded

\* Before the job is cleaned up its client was told how it ended, except when it
\* cancelled the job before it was submitted (a cancel in START is not reported).
ClientTold ==
    /\ mem = "live" /\ r.contact
    /\ r.jm \in {"TWO_PHASE_END", "TWO_PHASE_END_COMMITTED", "FAILED_TWO_PHASE",
                 "FAILED_TWO_PHASE_COMMITTED"} \cup Final
    => told = r.status \/ (r.failure = "USER_CANCELLED" /\ lrm = <<>>) \/ ~Undisturbed

\* A job whose client did not commit its end in time, stopped and still in memory.
Abandoned == mem = "live" /\ r.jm = "STOP" /\ r.overdue

\* rsl.txt, expiration: such a job is cleaned up some time later, by its expiry, unless
\* the client stops the job manager or restarts the job.
AbandonedCleanedUp == Abandoned ~> (mem = "gone" \/ used["stop"] + used["restart"] > 0)

\* It is cleaned up unless an event of its LRM job arrives after it stopped: nobody handles
\* the event, whose reference keeps the job from being swapped out and from expiring.
AbandonedExpires ==
    Abandoned ~> (mem = "gone" \/ used["stop"] + used["restart"] > 0 \/ r.events # <<>>)

\* A job comes to rest, with its state file gone or kept for a restart.
Settles == <>[]Settled
=============================================================================
