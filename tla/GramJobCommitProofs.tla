--------------------------- MODULE GramJobCommitProofs ----------------------
(***************************************************************************)
(* Proofs about the first commit of a two-phase job: without a crash, no   *)
(* LRM job exists before the client committed the request.                 *)
(***************************************************************************)
EXTENDS GramJobProofs

\* The client has not committed, and no crash made the job manager forget that it
\* has to wait for the commit.
Waiting == used["crash"] = 0 /\ ~committed

\* The states of a request whose client has not committed.  The job may be cancelled,
\* may be given up when the time to commit is over, or may be stopped; the end of a
\* stopped job can even be committed.
Uncommitted ==
    {"START", "TWO_PHASE", "TWO_PHASE_QUERY1", "TWO_PHASE_QUERY2", "STOP",
     "TWO_PHASE_END_COMMITTED", "FILE_CLEAN_UP", "SCRATCH_CLEAN_UP", "CACHE_CLEAN_UP",
     "DONE", "FAILED", "FAILED_CLOSE_OUTPUT", "FAILED_TWO_PHASE",
     "FAILED_TWO_PHASE_COMMITTED", "FAILED_FILE_CLEAN_UP", "FAILED_SCRATCH_CLEAN_UP",
     "FAILED_CACHE_CLEAN_UP", "FAILED_DONE"}
Held(q) == q.jm \in Uncommitted /\ q.restart \in Uncommitted

\* The request, the state file and the scripts all know of no commit.
CommitInv ==
    /\ ~committed => job.twoPhase
    /\ Waiting =>
          /\ lrm = <<>> /\ ~loaded /\ Held(r)
          /\ file # NoFile => file.state \in Uncommitted
          /\ \A i \in 1..Len(scripts) : scripts[i].cmd # "submit"

LEMMA WrittenHeld ==
    ASSUME NEW q \in RequestType, Held(q)
    PROVE  Written(q).state \in Uncommitted
  BY WrittenType DEF Held

\* Whoever still waits after a step waited before it.
LEMMA WaitingBefore ==
    ASSUME BasicInv, [Next]_vars, Waiting'
    PROVE  Waiting /\ job' = job
  BY UsedGrows DEF Waiting

LEMMA CommitInit == Init => CommitInv
  <1> SUFFICES ASSUME Init PROVE CommitInv
    OBVIOUS
  <1>1. /\ job \in Jobs /\ r = NewRequest /\ file = Written(NewRequest) /\ lrm = <<>>
        /\ scripts = <<>> /\ loaded = FALSE /\ committed = ~job.twoPhase
    BY DEF Init
  <1>2. NewRequest \in RequestType /\ Held(NewRequest)
    BY <1>1, NewRequestType DEF Held, Uncommitted
  <1>3. file.state \in Uncommitted
    BY <1>1, <1>2, WrittenHeld
  <1>4. \A i \in 1..Len(scripts) : scripts[i].cmd # "submit"
    BY <1>1
  <1> QED
    BY <1>1, <1>2, <1>3, <1>4 DEF CommitInv

\* The steps of the state machine while it waits.
LEMMA CommitSteps ==
    ASSUME BasicInv, CommitInv, Waiting, Step
    PROVE  /\ lrm' = lrm /\ loaded' = loaded /\ Held(r')
           /\ file' # NoFile => file'.state \in Uncommitted
           /\ \A i \in 1..Len(scripts') : scripts'[i].cmd # "submit"
  <1> USE DEF place, mgr, env, ghosts, At
  <1>0. /\ r \in RequestType /\ Held(r) /\ ~loaded /\ job.twoPhase /\ job \in Jobs
        /\ file # NoFile => file.state \in Uncommitted
        /\ \A i \in 1..Len(scripts) : scripts[i].cmd # "submit"
        /\ scripts \in Seq(ScriptType) /\ FitRequest(r)
    BY DEF BasicInv, Types, Known, FitRequest, CommitInv, Waiting
  <1>1. lrm' = lrm /\ loaded' = loaded
    BY <1>0 DEF Step, StepStart, StepTwoPhase, StepRestart, StepTwoPhaseCommitted,
       StepStageInFailed, StepSubmitting, StepSubmit, StepPoll1, StepPoll2, StepQuery1,
       StepQuery2, StepClosing, StepCloseOutput, StepFinalStatus, StepTwoPhaseEnd,
       StepCleanUp, StepCacheCleanUp, StepStop, StepDone
  <1>2. ~(StepRestart \/ StepTwoPhaseCommitted \/ StepStageInFailed \/ StepSubmitting
          \/ StepSubmit \/ StepPoll1 \/ StepPoll2 \/ StepCloseOutput)
    BY <1>0 DEF Held, Uncommitted, StepRestart, StepTwoPhaseCommitted, StepStageInFailed,
       StepSubmitting, StepSubmit, StepPoll1, StepPoll2, StepCloseOutput
  <1> DEFINE Goal == /\ Held(r') /\ (file' # NoFile => file'.state \in Uncommitted)
                     /\ \A i \in 1..Len(scripts') : scripts'[i].cmd # "submit"
  <1>3. CASE StepStart
    BY <1>0, <1>3 DEF StepStart, Held, Uncommitted, RequestType
  <1>4. CASE StepTwoPhase
    BY <1>0, <1>4 DEF StepTwoPhase, TimedOut, Held, Uncommitted, RequestType
  <1>5. CASE StepQuery1
    <2>1. r.queries # <<>> /\ r.jm = "TWO_PHASE_QUERY1"
      BY <1>0, <1>5 DEF StepQuery1, BasicInv, Queries, Held, Uncommitted
    <2>2. Head(r.queries) \in {"cancel", "signal"}
      BY <1>0, <2>1, HeadTailProperties DEF RequestType, QueryQueue
    <2> DEFINE c == Head(r.queries)
               s == Script(c, r)
    <2>3. scripts' = Append(scripts, s) /\ r' = [r EXCEPT !.jm = "TWO_PHASE_QUERY2"]
          /\ UNCHANGED file
      BY <1>5, <2>1 DEF StepQuery1, RunScript
    <2> HIDE DEF c
    <2>4. s \in ScriptType /\ ScriptKnown(s) /\ s.cmd # "submit"
      BY <1>0, <2>2, ScriptIs DEF c, Cmds
    <2> HIDE DEF s
    <2>5. \A i \in 1..Len(scripts') : scripts'[i].cmd # "submit"
      BY <1>0, <2>3, <2>4, AppendScript DEF BasicInv, Known
    <2>6. Held(r')
      BY <1>0, <2>3 DEF Held, Uncommitted, RequestType
    <2> QED
      BY <1>0, <1>1, <2>3, <2>5, <2>6
  <1>6. CASE StepQuery2
    <2>1. r.jm = "TWO_PHASE_QUERY2"
      BY <1>0, <1>6 DEF StepQuery2, Held, Uncommitted
    <2>2. \E j \in {"TWO_PHASE_QUERY1", "TWO_PHASE"}, b \in BOOLEAN :
             r' = [[r EXCEPT !.queries = Tail(@)] EXCEPT !.jm = j, !.timer = b]
      BY <1>6, <2>1 DEF StepQuery2
    <2>3. Held(r')
      <3> DEFINE q == [r EXCEPT !.queries = Tail(@)]
      <3>1. q.restart = r.restart /\ DOMAIN q = DOMAIN r /\ "jm" \in DOMAIN r /\ "restart" \in DOMAIN r
            /\ "timer" \in DOMAIN r
        BY <1>0 DEF RequestType
      <3> HIDE DEF q
      <3> QED
        BY <1>0, <2>2, <3>1 DEF Held, Uncommitted, q
    <2> QED
      BY <1>0, <1>1, <1>6, <2>3 DEF StepQuery2
  <1>7. CASE StepClosing
    <2>1. r.jm = "FAILED"
      BY <1>0, <1>7 DEF StepClosing, Held, Uncommitted
    <2> DEFINE w == IF r.unsent THEN [r EXCEPT !.restart = r.jm] ELSE r
               u == w.unsent /\ ~(r.unsent /\ r.status = "STAGE_OUT")
    <2>2. w \in RequestType /\ Held(w) /\ w.jm = "FAILED"
      BY <1>0, <2>1 DEF RequestType, Held
    <2>3. r' = [w EXCEPT !.unsent = u, !.queries = <<>>,
                         !.jm = IF w.jm = "FAILED" THEN "FAILED_CLOSE_OUTPUT" ELSE "CLOSE_OUTPUT"]
          /\ file' \in {file, Written(w)} /\ scripts' = scripts
      BY <1>7 DEF StepClosing
    <2> HIDE DEF w, u
    <2>4. Held(r')
      BY <2>2, <2>3 DEF Held, Uncommitted, RequestType
    <2> QED
      BY <1>0, <1>1, <2>2, <2>3, <2>4, WrittenHeld
  <1>8. CASE StepFinalStatus
    <2>1. posts \in Nat /\ told \in Statuses \cup {"none"} /\ r.jm = "FAILED_CLOSE_OUTPUT"
      BY <1>0, <1>8 DEF BasicInv, Types, StepFinalStatus, Held, Uncommitted
    <2>2. \E f, t : r' = [r EXCEPT !.unsent = FALSE, !.jm = "FAILED_TWO_PHASE",
                                   !.status = "FAILED", !.failure = f, !.timer = t]
      <3>1. PICK s \in {"FAILED", "DONE"}, f \in Failures, t \in BOOLEAN :
             LET j == IF s = "FAILED" THEN "FAILED_TWO_PHASE" ELSE "TWO_PHASE_END" IN
             /\ r' = [r EXCEPT !.unsent = FALSE, !.jm = j, !.status = s, !.failure = f,
                               !.timer = t]
             /\ s = "DONE" => r.jm = "STAGE_OUT" /\ ~r.todoOut
        BY <1>0, <1>8, <2>1, FinalStatusIs
      <3>2. s = "FAILED"
        BY <2>1, <3>1
      <3> QED
        BY <3>1, <3>2
    <2>3. Held(r')
      BY <1>0, <2>2 DEF Held, Uncommitted, RequestType
    <2> QED
      BY <1>0, <1>1, <1>8, <2>3 DEF StepFinalStatus
  <1>9. CASE StepTwoPhaseEnd
    <2>1. r.jm = "FAILED_TWO_PHASE"
      BY <1>0, <1>9 DEF StepTwoPhaseEnd, Held, Uncommitted
    <2>2. \/ r' = [r EXCEPT !.extend = FALSE, !.timer = TRUE]
          \/ r' = [r EXCEPT !.jm = IF @ = "TWO_PHASE_END" THEN "TWO_PHASE_END_COMMITTED"
                                        ELSE "FAILED_TWO_PHASE_COMMITTED"]
          \/ r' = [r EXCEPT !.restart = r.jm, !.jm = "STOP", !.overdue = TRUE]
      BY <1>9, Zenon DEF StepTwoPhaseEnd
    <2>3. Held(r')
      BY <1>0, <2>1, <2>2 DEF Held, Uncommitted, RequestType
    <2> QED
      BY <1>0, <1>1, <1>9, <2>3 DEF StepTwoPhaseEnd
  <1>10. CASE StepCleanUp
    <2> DEFINE j == IF r.jm = "FILE_CLEAN_UP" /\ r.status = "FAILED"
                    THEN "FAILED_SCRATCH_CLEAN_UP" ELSE CleanUp[r.jm]
    <2>1. r' = [r EXCEPT !.jm = j] /\ r.jm \in DOMAIN CleanUp
      BY <1>10 DEF StepCleanUp
    <2>2. j \in Uncommitted
      BY <2>1, CleanUpIs DEF CleanStates, Uncommitted
    <2> HIDE DEF j
    <2>3. Held(r')
      BY <1>0, <2>1, <2>2 DEF Held, RequestType
    <2> QED
      BY <1>0, <1>1, <1>10, <2>3 DEF StepCleanUp
  <1>11. CASE StepCacheCleanUp
    BY <1>0, <1>1, <1>11 DEF StepCacheCleanUp, Held, Uncommitted, RequestType
  <1>12. CASE StepStop
    BY <1>0, <1>1, <1>12, WrittenHeld DEF StepStop
  <1>13. CASE StepDone
    <2>1. /\ file' \in {file, NoFile} /\ scripts' = scripts
          /\ \/ r' = [r EXCEPT !.queries = <<>>, !.events = <<>>, !.restart = r.jm]
             \/ r' = NewRequest
      BY <1>13 DEF StepDone
    <2>2. Held(r')
      BY <1>0, <2>1, NewRequestType DEF Held, Uncommitted, RequestType
    <2> QED
      BY <1>0, <1>1, <2>1, <2>2
  <1> QED
    BY <1>1, <1>2, <1>3, <1>4, <1>5, <1>6, <1>7, <1>8, <1>9, <1>10, <1>11, <1>12, <1>13
       DEF Step

\* The events and scripts while it waits: there are no LRM jobs, so nothing but a
\* script for an early query can report.
LEMMA CommitEvents ==
    ASSUME BasicInv, CommitInv, Waiting,
           TimerFires \/ CallbackReply \/ SegResume \/ ProcessPendingRestart
           \/ Events \/ Scripts \/ Orphan \/ Lrm \/ SwapOut \/ ExpireOldJob
    PROVE  /\ lrm' = <<>> /\ ~loaded' /\ Held(r')
           /\ file' # NoFile => file'.state \in Uncommitted
           /\ \A i \in 1..Len(scripts') : scripts'[i].cmd # "submit"
  <1> USE DEF place, mgr, env, ghosts
  <1>0. /\ r \in RequestType /\ Held(r) /\ loaded = FALSE /\ job \in Jobs /\ lrm = <<>>
        /\ file # NoFile => file.state \in Uncommitted
        /\ \A i \in 1..Len(scripts) : scripts[i].cmd # "submit"
        /\ scripts \in Seq(ScriptType) /\ DOMAIN scripts = 1..Len(scripts)
        /\ \A i \in 1..Len(scripts) : ScriptKnown(scripts[i]) /\ scripts[i] \in ScriptType
    <2>1. scripts \in Seq(ScriptType)
      BY DEF BasicInv, Types
    <2>2. DOMAIN scripts = 1..Len(scripts) /\ \A i \in 1..Len(scripts) : scripts[i] \in ScriptType
      BY <2>1, LenProperties, ElementOfSeq
    <2>3. loaded \in BOOLEAN /\ ~loaded
      BY DEF BasicInv, Types, CommitInv
    <2> QED
      BY <2>1, <2>2, <2>3 DEF BasicInv, Types, Known, CommitInv
  <1>1. ~(\E i \in DOMAIN lrm : SegEvent(i) \/ LrmProgress(i))
    BY <1>0
  <1>2. CASE TimerFires \/ CallbackReply
    BY <1>0, <1>2 DEF TimerFires, CallbackReply, Held, RequestType
  <1>3. ASSUME TakeReference
        PROVE  Referenced \in RequestType /\ Held(Referenced) /\ ~loaded'
    <2>1. Referenced \in RequestType
      BY <1>3, ReferencedIs DEF FitRequest
    <2>2. CASE mem = "live"
      BY <1>0, <1>3, <2>1, <2>2, ReferencedIs DEF TakeReference
    <2>3. CASE mem = "stub"
      <3>1. file \in FileType /\ file # NoFile /\ Referenced = Reloaded
        BY <1>3, <2>3, ReferencedIs, NoFileIsNoFile
      <3>2. file.state \in Uncommitted /\ file.state \notin Poll
        BY <1>0, <3>1 DEF Uncommitted, Poll
      <3>3. Reloaded.jm = file.state /\ Reloaded.restart = file.state
        BY <1>0, <3>1, <3>2, ReloadedType DEF BasicInv, Types
      <3> QED
        BY <1>3, <2>1, <3>1, <3>2, <3>3 DEF Held, TakeReference
    <2> QED
      BY <1>3, <2>2, <2>3, ReferencedIs
  <1>4. CASE ProcessPendingRestart
    BY <1>0, <1>3, <1>4 DEF ProcessPendingRestart
  <1>5. CASE SegResume
    <2>0. resumed \in Seq(EventType)
      BY DEF BasicInv, Types
    <2>1. PICK es \in Seq(EventType) :
             /\ \/ TakeReference /\ r' = Delivered(Referenced, es)
                \/ UNCHANGED <<mem, loaded, pending, r, pause, idHash>>
             /\ UNCHANGED <<job, run, file, scripts, posts, held, env, ghosts, used>>
      BY <1>5, <2>0, SegResumeIs
    <2>2. CASE TakeReference /\ r' = Delivered(Referenced, es)
      <3>1. Held(r')
        BY <1>3, <2>2, DeliveredKeeps DEF Held, Uncommitted
      <3> QED
        BY <1>0, <1>3, <2>1, <2>2, <3>1
    <2>3. CASE UNCHANGED <<mem, loaded, pending, r, pause, idHash>>
      BY <1>0, <2>1, <2>3
    <2> QED
      BY <2>1, <2>2, <2>3
  <1>6. ASSUME NEW i \in DOMAIN scripts, ScriptDone(i)
        PROVE  /\ lrm' = <<>> /\ ~loaded' /\ Held(r')
               /\ file' # NoFile => file'.state \in Uncommitted
               /\ \A k \in 1..Len(scripts') : scripts'[k].cmd # "submit"
    <2> DEFINE q == Applied(r, scripts[i])
    <2>1. /\ r' = [q EXCEPT !.timer = TRUE] /\ file' \in {file, Written(q)}
          /\ scripts' = Without(scripts, i) /\ scripts[i].res # "none"
          /\ UNCHANGED <<loaded, lrm>>
      BY <1>6 DEF ScriptDone
    <2>2. q \in RequestType /\ Held(q)
      <3>1. q \in RequestType /\ Keeps(q, r)
        BY <1>0, <2>1, AppliedKeeps
      <3> HIDE DEF q
      <3> QED
        BY <1>0, <3>1 DEF Keeps, Held
    <2> HIDE DEF q
    <2>3. Held(r')
      BY <2>1, <2>2 DEF Held, RequestType
    <2>4. \A k \in 1..Len(scripts') : scripts'[k].cmd # "submit"
      <3>1. i \in 1..Len(scripts)
        BY <1>0
      <3> DEFINE w == Without(scripts, i)
      <3>2. \A k \in 1..Len(w) : \E j \in 1..Len(scripts) : j # i /\ w[k] = scripts[j]
        BY <1>0, <3>1, WithoutKeeps
      <3>3. scripts' = w
        BY <2>1
      <3> HIDE DEF w
      <3> QED
        BY <1>0, <3>2, <3>3
    <2> QED
      BY <1>0, <2>1, <2>2, <2>3, <2>4, WrittenHeld
  <1>7. ASSUME NEW i \in DOMAIN scripts, ScriptRuns(i)
        PROVE  /\ lrm' = <<>> /\ ~loaded' /\ Held(r')
               /\ file' # NoFile => file'.state \in Uncommitted
               /\ \A k \in 1..Len(scripts') : scripts'[k].cmd # "submit"
    <2> DEFINE s == scripts[i]
    <2>1. s.cmd # "submit" /\ s.res = "none" /\ s.id <= 0 /\ s.id \in Int
      BY <1>0, <1>7 DEF ScriptRuns, ScriptKnown, ScriptType
    <2>2. lrm' = lrm
      <3>1. ~(s.id > 0) /\ s.cmd # "submit"
        BY <2>1
      <3>2. \E res : lrm' = IF res = "ok" /\ s.cmd = "submit" THEN Append(lrm, "PENDING")
                   ELSE IF res = "ok" /\ s.cmd = "cancel" /\ (s.id > 0 /\ ~Ended(lrm[s.id]))
                   THEN [lrm EXCEPT ![s.id] = "FAILED"] ELSE lrm
        BY <1>7, Zenon DEF ScriptRuns
      <3> HIDE DEF s
      <3> QED
        BY <3>1, <3>2, Zenon
    <2>3. \E a, b : scripts' = [scripts EXCEPT ![i].id = a, ![i].res = b]
      BY <1>7 DEF ScriptRuns
    <2>4. /\ DOMAIN scripts' = DOMAIN scripts
          /\ \A k \in DOMAIN scripts : scripts'[k].cmd = scripts[k].cmd
      BY <1>0, <2>3 DEF ScriptType
    <2>5. Len(scripts') = Len(scripts)
      <3>1. scripts' \in Seq(ScriptType)
        <4>1. BasicInv'
          BY <1>7, BasicScriptRuns
        <4> QED
          BY <4>1 DEF BasicInv, Types
      <3> QED
        BY <1>0, <2>4, <3>1, LenProperties
    <2>6. UNCHANGED <<loaded, r, file>>
      BY <1>7 DEF ScriptRuns
    <2> QED
      BY <1>0, <2>2, <2>4, <2>5, <2>6
  <1>8. CASE SwapOut
    <2>1. /\ file' = Written(r) /\ loaded' = FALSE /\ r' = NewRequest
          /\ UNCHANGED <<lrm, scripts>>
      BY <1>8 DEF SwapOut
    <2>2. Held(r')
      BY <1>0, <2>1, NewRequestType DEF Held, Uncommitted
    <2> QED
      BY <1>0, <2>1, <2>2, WrittenHeld
  <1>9. ~Orphan
    BY <1>0 DEF Orphan, OrphanSubmit
  <1>10. CASE ExpireOldJob
    <2> DEFINE z == Referenced
    <2>1. /\ TakeReference
          /\ \/ r' = z
             \/ r' = [z EXCEPT !.jm = "FAILED_TWO_PHASE_COMMITTED", !.timer = TRUE]
          /\ UNCHANGED <<lrm, file, scripts>>
      BY <1>10, ExpireIs
    <2>2. z \in RequestType /\ Held(z) /\ ~loaded'
      BY <1>3, <2>1
    <2> HIDE DEF z
    <2>3. Held(r')
      BY <2>1, <2>2 DEF RequestType, Held, Uncommitted
    <2> QED
      BY <1>0, <2>1, <2>2, <2>3
  <1> QED
    BY <1>1, <1>2, <1>4, <1>5, <1>6, <1>7, <1>8, <1>9, <1>10 DEF Events, Scripts, Lrm

LEMMA CommitClient ==
    ASSUME BasicInv, CommitInv, Waiting, Client, Waiting'
    PROVE  /\ lrm' = <<>> /\ ~loaded' /\ Held(r')
           /\ file' # NoFile => file'.state \in Uncommitted
           /\ \A i \in 1..Len(scripts') : scripts'[i].cmd # "submit"
  <1> USE DEF env
  <1> DEFINE z == Referenced
  <1>0. /\ r \in RequestType /\ Held(r) /\ loaded = FALSE /\ job \in Jobs /\ lrm = <<>>
        /\ file # NoFile => file.state \in Uncommitted
        /\ \A i \in 1..Len(scripts) : scripts[i].cmd # "submit"
        /\ job.contact \in BOOLEAN
    <2>1. loaded \in BOOLEAN /\ ~loaded
      BY DEF BasicInv, Types, CommitInv
    <2> QED
      BY <2>1, JobBooleans DEF BasicInv, Types, Known, CommitInv
  <1>1. ASSUME TakeReference
        PROVE  z \in RequestType /\ Held(z)
    <2>1. Referenced \in RequestType
      BY <1>1, ReferencedIs DEF FitRequest
    <2>2. CASE mem = "live"
      BY <1>0, <1>1, <2>1, <2>2, ReferencedIs DEF TakeReference
    <2>3. CASE mem = "stub"
      <3>1. file \in FileType /\ file # NoFile /\ Referenced = Reloaded
        BY <1>1, <2>3, ReferencedIs, NoFileIsNoFile
      <3>2. file.state \in Uncommitted /\ file.state \notin Poll
        BY <1>0, <3>1 DEF Uncommitted, Poll
      <3>3. Reloaded.jm = file.state /\ Reloaded.restart = file.state
        BY <1>0, <3>1, <3>2, ReloadedType DEF BasicInv, Types
      <3> QED
        BY <2>1, <3>1, <3>2, <3>3 DEF Held
    <2> QED
      BY <1>1, <2>2, <2>3, ReferencedIs
  <1>2. ASSUME NEW q, Apply(q), Held(q), file' # NoFile => file'.state \in Uncommitted
        PROVE  /\ lrm' = <<>> /\ ~loaded' /\ Held(r')
               /\ file' # NoFile => file'.state \in Uncommitted
               /\ \A i \in 1..Len(scripts') : scripts'[i].cmd # "submit"
    BY <1>0, <1>2 DEF Apply, TakeReference
  <1>3. ~CommitRequest
    BY DEF CommitRequest, Waiting
  <1>4. CASE CommitEnd
    <2>1. Apply(EndCommitted(z)) /\ file' = file
      BY <1>4 DEF CommitEnd
    <2>2. z \in RequestType /\ Held(z)
      BY <1>1, <2>1 DEF Apply
    <2> HIDE DEF z
    <2>3. Held(EndCommitted(z))
      BY <2>2 DEF EndCommitted, RequestType, Held, Uncommitted
    <2> QED
      BY <1>0, <1>2, <2>1, <2>3
  <1>5. CASE CommitExtend
    <2>1. Apply([z EXCEPT !.extend = TRUE]) /\ file' = file
      BY <1>5 DEF CommitExtend
    <2>2. z \in RequestType /\ Held(z)
      BY <1>1, <2>1 DEF Apply
    <2> HIDE DEF z
    <2>3. Held([z EXCEPT !.extend = TRUE])
      BY <2>2 DEF RequestType, Held
    <2> QED
      BY <1>0, <1>2, <2>1, <2>3
  <1>6. CASE Cancel
    <2> DEFINE b == [z EXCEPT !.jm = "FAILED", !.status = "FAILED",
                            !.failure = "USER_CANCELLED", !.unsent = @ \/ z.jm # "START"]
    <2>1. file' = file /\ TakeReference /\
             (Apply(b) \/ z.jm \in Poll \cup {"SUBMIT"})
      BY <1>6 DEF Cancel, Apply
    <2>2. z \in RequestType /\ Held(z)
      BY <1>1, <2>1
    <2> HIDE DEF z
    <2>3. Held(b)
      BY <2>2 DEF RequestType, Held, Uncommitted
    <2>4. z.jm \notin Poll \cup {"SUBMIT"}
      BY <2>2 DEF Held, Uncommitted, Poll
    <2> HIDE DEF b
    <2> QED
      BY <1>0, <1>2, <2>1, <2>3, <2>4
  <1>7. CASE Signal
    <2> DEFINE w == [POLL2 |-> "POLL_QUERY1", TWO_PHASE |-> "TWO_PHASE_QUERY1"]
               a == Queued(z, "signal", w)
    <2>1. Apply(a) /\ file' = file
      BY <1>7 DEF Signal
    <2>2. z \in RequestType /\ Held(z)
      BY <1>1, <2>1 DEF Apply
    <2> HIDE DEF z
    <2>3. Held(a)
      <3> DEFINE j == IF z.jm \in DOMAIN w THEN w[z.jm] ELSE z.jm
      <3>1. j \in Uncommitted
        <4>1. DOMAIN w = {"POLL2", "TWO_PHASE"} /\ w["TWO_PHASE"] = "TWO_PHASE_QUERY1"
          OBVIOUS
        <4> HIDE DEF w
        <4> QED
          BY <2>2, <4>1 DEF Held, Uncommitted
      <3>2. a.jm = j /\ a.restart = z.restart
        BY <2>2 DEF Queued, RequestType
      <3> QED
        BY <2>2, <3>1, <3>2 DEF Held
    <2> HIDE DEF a
    <2> QED
      BY <1>0, <1>2, <2>1, <2>3
  <1>8. CASE Unregister
    <2> DEFINE q == [z EXCEPT !.contact = FALSE]
    <2>1. (Apply(q) \/ Apply(EndCommitted(q))) /\ file' = file
      BY <1>8 DEF Unregister
    <2>2. z \in RequestType /\ Held(z)
      BY <1>1, <2>1 DEF Apply
    <2> HIDE DEF z
    <2>3. q \in RequestType /\ Held(q)
      BY <2>2 DEF RequestType, Held
    <2> HIDE DEF q
    <2>4. Held(EndCommitted(q))
      BY <2>3 DEF EndCommitted, RequestType, Held, Uncommitted
    <2> QED
      BY <1>0, <1>2, <2>1, <2>3, <2>4
  <1>9. CASE StopManager
    <2> DEFINE b == [z EXCEPT !.jm = "STOP", !.unsent = TRUE, !.overdue = FALSE,
                       !.restart = IF z.jm = "STOP" THEN @ ELSE z.jm,
                       !.timer = @ \/ z.jm = "POLL2"]
    <2>1. Apply(b) /\ file' = file
      BY <1>9 DEF StopManager
    <2>2. z \in RequestType /\ Held(z)
      BY <1>1, <2>1 DEF Apply
    <2> HIDE DEF z
    <2>3. Held(b)
      BY <2>2 DEF RequestType, Held, Uncommitted
    <2> HIDE DEF b
    <2> QED
      BY <1>0, <1>2, <2>1, <2>3
  <1>10. CASE StdioUpdate
    <2>1. Apply(Restaged(z)) /\ file' = Written(r')
      BY <1>10 DEF StdioUpdate
    <2>2. z \in RequestType /\ Held(z)
      BY <1>1, <2>1 DEF Apply
    <2> HIDE DEF z
    <2>3. PICK a \in BOOLEAN, b \in BOOLEAN :
              Restaged(z) = [z EXCEPT !.todoIn = a, !.todoOut = b]
      BY <1>0, <2>2, RestagedIs
    <2>4. Restaged(z) \in RequestType /\ Held(Restaged(z))
      BY <2>2, <2>3 DEF RequestType, Held
    <2>5. file'.state \in Uncommitted
      BY <2>1, <2>4, WrittenHeld DEF Apply
    <2> QED
      BY <1>2, <2>1, <2>4, <2>5
  <1>11. CASE ClientRestart
    <2> DEFINE q == Restaged(z)
               a == [q EXCEPT !.contact = job.contact, !.jm = "START", !.jmRestart = TRUE,
                            !.unsent = TRUE, !.timer = TRUE]
               b == [q EXCEPT !.contact = job.contact, !.jm = "START", !.jmRestart = TRUE]
               c == [q EXCEPT !.contact = job.contact]
    <2>1. (Apply(a) \/ Apply(b) \/ Apply(c)) /\ file' = Written(q)
      BY <1>11 DEF ClientRestart
    <2>2. z \in RequestType /\ Held(z)
      BY <1>1, <2>1 DEF Apply
    <2> HIDE DEF z
    <2>3. PICK d \in BOOLEAN, e \in BOOLEAN :
              q = [z EXCEPT !.todoIn = d, !.todoOut = e]
      BY <1>0, <2>2, RestagedIs
    <2>4. q \in RequestType /\ Held(q)
      BY <2>2, <2>3 DEF RequestType, Held
    <2>5. file'.state \in Uncommitted
      BY <2>1, <2>4, WrittenHeld
    <2> HIDE DEF q
    <2>6. Held(a) /\ Held(b) /\ Held(c)
      BY <2>4 DEF RequestType, Held, Uncommitted
    <2> HIDE DEF a, b, c
    <2> QED
      BY <1>2, <2>1, <2>5, <2>6
  <1> QED
    BY <1>3, <1>4, <1>5, <1>6, <1>7, <1>8, <1>9, <1>10, <1>11 DEF Client

LEMMA CommitNext ==
    ASSUME BasicInv, CommitInv, [Next]_vars
    PROVE  CommitInv'
  <1>1. job' = job /\ (committed => committed')
    BY UsedGrows
  <1>2. ~committed' => job'.twoPhase
    BY <1>1 DEF CommitInv
  <1>3. ASSUME Waiting'
        PROVE  /\ lrm' = <<>> /\ ~loaded' /\ Held(r')
               /\ file' # NoFile => file'.state \in Uncommitted
               /\ \A i \in 1..Len(scripts') : scripts'[i].cmd # "submit"
    <2>1. Waiting
      BY <1>3, WaitingBefore
    <2>2. lrm = <<>> /\ ~loaded
      BY <2>1 DEF CommitInv
    <2>3. CASE Step
      BY <2>1, <2>2, <2>3, CommitSteps
    <2>4. CASE Client
      BY <1>3, <2>1, <2>4, CommitClient
    <2>5. CASE TimerFires \/ CallbackReply \/ SegResume \/ ProcessPendingRestart
           \/ Events \/ Scripts \/ Orphan \/ Lrm \/ SwapOut \/ ExpireOldJob
      BY <2>1, <2>5, CommitEvents
    <2>6. CASE Crash
      <3>1. used \in [DOMAIN Max -> Nat] /\ "crash" \in DOMAIN Max
        BY MaxAssumption DEF BasicInv, Types, BoundType
      <3>2. used'["crash"] = used["crash"] + 1 /\ used["crash"] \in Nat
        BY <2>6, <3>1, SpendIs DEF Crash
      <3> QED
        BY <1>3, <3>2 DEF Waiting
    <2>7. CASE UNCHANGED vars
      BY <2>1, <2>7 DEF vars, CommitInv
    <2> QED
      BY <2>3, <2>4, <2>5, <2>6, <2>7 DEF Next, Manager
  <1> QED
    BY <1>2, <1>3 DEF CommitInv

\* rsl.txt, two_phase: the job manager "will then wait for a signal from the client
\* before doing the actual job submission", that is, before the
\* client's commit.  Whatever the client does, with any failures of scripts and any
\* events: unless the process crashed, an LRM job exists only when the client committed.
THEOREM CommitFirst == Spec => [](used["crash"] = 0 => CommitBeforeSubmit)
  <1>1. BasicInv /\ CommitInv => (used["crash"] = 0 => CommitBeforeSubmit)
    BY DEF CommitInv, Waiting, CommitBeforeSubmit
  <1> QED
    BY <1>1, BasicInit, BasicNext, CommitInit, CommitNext, PTL DEF Spec

=============================================================================
