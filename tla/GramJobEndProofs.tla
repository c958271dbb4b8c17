-------------------------- MODULE GramJobEndProofs --------------------------
(***************************************************************************)
(* Proofs about the end of a job: the client is told DONE only of a job    *)
(* that the LRM finished and whose files were staged out, and FAILED only  *)
(* of a job of which nothing runs any more; while a job runs, its state    *)
(* file exists; a two-phase job is not cleaned up before the client        *)
(* committed its end; the client is told how its job ended before the job  *)
(* is cleaned up; and a state machine at rest will be woken, because the   *)
(* event that its job ended does not get lost.                             *)
(***************************************************************************)
EXTENDS GramJobSubmitProofs

\* No stop, restart or update, and no crash of a job that was signalled before its
\* commit: a script that then ends late writes the state of the clean-up to the state
\* file, and a job manager restarted from it takes the job for done.
Faithful ==
    /\ used["stop"] = 0 /\ used["restart"] = 0 /\ used["update"] = 0
    /\ used["crash"] = 0 \/ ~(job.twoPhase /\ used["signal"] > 0)

\* The LRM finished a job.
Finished == \E i \in 1..Len(lrm) : lrm[i] = "DONE"

\* The states between the news that the job is done and the wait for the client.
Ending == {"PRE_CLOSE_OUTPUT", "CLOSE_OUTPUT", "STAGE_OUT", "TWO_PHASE_END"}
\* The states a request is in before its commit is acted upon.
Early == {"START", "TWO_PHASE", "TWO_PHASE_QUERY1", "TWO_PHASE_QUERY2", "TWO_PHASE_COMMITTED"}

\* A state to restart from that is not taken for the state of a finished job.
Modest(state) == state \notin Ending /\ (state = "TWO_PHASE_END_COMMITTED" => ~Undisturbed)
NoNews(es) == \A k \in 1..Len(es) : es[k].state # "DONE"
Humble(q) ==
    /\ q.status \notin Over /\ q.failure # "STAGE_OUT_FAILED"
    /\ q.jm \notin Ending /\ Modest(q.restart)
    /\ NoNews(q.events)

\* What a request, a state file and a script may claim.
Honest(q) ==
    /\ job.stageOut /\ ~stagedOut => q.todoOut
    /\ ~Finished => Humble(q)
    /\ used["crash"] = 0 => /\ q.jm \in Early => ~q.jmRestart
                            /\ q.jm = "STOP" => q.restart \in EndWaits
HonestFile(f) ==
    f # NoFile =>
        /\ job.stageOut /\ ~stagedOut => f.todoOut
        /\ ~Finished => /\ f.status \notin Over /\ f.failure # "STAGE_OUT_FAILED"
                        /\ Modest(f.state)
HonestScript(s) ==
    /\ s.cmd = "stage_out" /\ s.res = "ok" => stagedOut
    /\ ~Finished => s.cmd # "stage_out" /\ s.res # "DONE"

Truth ==
    /\ DoneMeansDone
    /\ Honest(r) /\ HonestFile(file)
    /\ \A i \in 1..Len(scripts) : HonestScript(scripts[i])
    /\ ~Finished => NoNews(held) /\ NoNews(resumed)
    /\ used["crash"] = 0 => ~loaded /\ (mem = "stub" => file.state \in Poll \cup EndWaits)

TruthInv == Faithful => Truth

-----------------------------------------------------------------------------
(* The facts every step needs *)

LEMMA FaithfulBefore ==
    ASSUME BasicInv, [Next]_vars, Faithful'
    PROVE  Faithful /\ job' = job
  <1>1. /\ job' = job
        /\ \A k \in {"crash", "signal", "stop", "restart", "update"} :
              used[k] \in Nat /\ used'[k] \in Nat /\ used[k] <= used'[k]
    BY UsedGrows
  <1> QED
    BY <1>1 DEF Faithful

\* After a crash only an undisturbed job is still faithful.
LEMMA FaithfulCrashed ==
    ASSUME BasicInv, Faithful, used["crash"] # 0
    PROVE  Undisturbed
  BY DEF Faithful, Undisturbed

LEMMA TruthInit == Init => TruthInv
  <1> SUFFICES ASSUME Init PROVE Truth
    BY DEF TruthInv
  <1>1. BasicInv
    BY BasicInit
  <1>2. /\ r \in RequestType /\ r.jm = "START" /\ r.restart = "START" /\ r.status = "UNSUBMITTED"
        /\ r.failure = "none" /\ r.events = <<>> /\ r.todoOut = job.stageOut /\ ~r.jmRestart
    BY NewRequestType DEF Init
  <1>3. file = Written(r) /\ mem = "live" /\ loaded = FALSE
    BY DEF Init
  <1>4. Modest("START")
    BY DEF Modest, Ending
  <1>5. Honest(r)
    BY <1>2, <1>4 DEF Honest, Humble, NoNews, Over, Ending
  <1>6. HonestFile(file)
    <2>1. /\ file.state = r.jm /\ file.status = r.status /\ file.failure = r.failure
          /\ file.todoOut = r.todoOut
      BY <1>2, <1>3, WrittenType
    <2> QED
      BY <1>2, <1>4, <2>1 DEF HonestFile, Over
  <1>7. scripts = <<>> /\ held = <<>> /\ resumed = <<>> /\ told = "none"
    BY DEF Init
  <1> QED
    BY <1>3, <1>5, <1>6, <1>7 DEF Truth, DoneMeansDone, NoNews

\* The file that an honest request writes is honest.
LEMMA HonestWritten ==
    ASSUME NEW q \in RequestType, Honest(q),
           q.jm = "TWO_PHASE_END_COMMITTED" => ~Undisturbed
    PROVE  HonestFile(Written(q))
  <1>1. /\ Written(q).state = IF q.jm = "STOP" THEN q.restart ELSE q.jm
        /\ Written(q).status = q.status /\ Written(q).failure = q.failure
        /\ Written(q).todoOut = q.todoOut
    BY WrittenType
  <1>2. Humble(q) => Modest(Written(q).state)
    BY <1>1 DEF Humble, Modest
  <1> QED
    BY <1>1, <1>2 DEF Honest, HonestFile, Humble

\* A request with the same claims as an honest one is honest.
Alike(p, q) ==
    /\ p.todoOut = q.todoOut /\ p.status = q.status /\ p.failure = q.failure
    /\ p.jm = q.jm /\ p.restart = q.restart /\ p.events = q.events /\ p.jmRestart = q.jmRestart
LEMMA HonestAlike ==
    ASSUME NEW p, NEW q, Alike(p, q), Honest(q)
    PROVE  Honest(p)
  BY DEF Alike, Honest, Humble

LEMMA NoNewsConcat ==
    ASSUME NEW a \in Seq(EventType), NEW b \in Seq(EventType), NoNews(a), NoNews(b)
    PROVE  NoNews(a \o b)
  <1>1. /\ Len(a \o b) = Len(a) + Len(b) /\ Len(a) \in Nat /\ Len(b) \in Nat
        /\ \A k \in 1..(Len(a) + Len(b)) :
              (a \o b)[k] = IF k <= Len(a) THEN a[k] ELSE b[k - Len(a)]
    BY ConcatProperties, LenProperties
  <1> QED
    BY <1>1 DEF NoNews

LEMMA NoNewsTail ==
    ASSUME NEW a \in Seq(EventType), a # <<>>, NoNews(a)
    PROVE  NoNews(Tail(a)) /\ Head(a).state # "DONE"
  <1>1. /\ Len(Tail(a)) = Len(a) - 1 /\ Len(a) \in Nat \ {0} /\ Head(a) = a[1]
        /\ \A k \in 1..Len(Tail(a)) : Tail(a)[k] = a[k + 1]
    BY HeadTailProperties, EmptySeq, LenProperties
  <1> QED
    BY <1>1 DEF NoNews

LEMMA FinishedIs ==
    ASSUME BasicInv
    PROVE  Finished <=> \E i \in DOMAIN lrm : lrm[i] = "DONE"
  <1>1. DOMAIN lrm = 1..Len(lrm)
    BY LenProperties DEF BasicInv, Types
  <1> QED
    BY <1>1 DEF Finished

\* What a step that leaves the LRM and the transferred files alone has to show.
TruthGoal ==
    /\ Honest(r') /\ HonestFile(file')
    /\ \/ scripts' = scripts
       \/ \E s \in ScriptType : scripts' = Append(scripts, s) /\ HonestScript(s)
       \/ \E i \in 1..Len(scripts) : scripts' = Without(scripts, i)
    /\ told' = "DONE" => told = "DONE" \/ (Finished /\ (job.stageOut => stagedOut))
    /\ ~Finished => NoNews(held') /\ NoNews(resumed')
    /\ used["crash"] = 0 => ~loaded' /\ (mem' = "stub" => file'.state \in Poll \cup EndWaits)

LEMMA TruthStep ==
    ASSUME BasicInv, Truth, UNCHANGED <<job, lrm, stagedOut>>, used'["crash"] = used["crash"],
           Undisturbed' => Undisturbed, TruthGoal
    PROVE  Truth'
  <1>1. Finished' <=> Finished
    BY DEF Finished
  <1>2. Honest(r)' /\ HonestFile(file)'
    BY <1>1 DEF TruthGoal, Honest, HonestFile, Humble, Modest, NoNews
  <1>3. scripts \in Seq(ScriptType) /\ Len(scripts) \in Nat
    BY LenProperties DEF BasicInv, Types
  <1>4. \A i \in 1..Len(scripts') : HonestScript(scripts'[i])
    <2>1. \A i \in 1..Len(scripts) : HonestScript(scripts[i])
      BY DEF Truth
    <2>2. ASSUME NEW s \in ScriptType, scripts' = Append(scripts, s), HonestScript(s)
          PROVE  \A i \in 1..Len(scripts') : HonestScript(scripts'[i])
      <3>1. /\ Len(scripts') = Len(scripts) + 1 /\ scripts'[Len(scripts) + 1] = s
            /\ \A i \in 1..Len(scripts) : scripts'[i] = scripts[i]
        BY <1>3, <2>2, AppendProperties
      <3>2. ASSUME NEW i \in 1..Len(scripts') PROVE HonestScript(scripts'[i])
        <4>1. i \in 1..Len(scripts) \/ i = Len(scripts) + 1
          BY <1>3, <3>1
        <4> QED
          BY <2>1, <2>2, <3>1, <4>1
      <3> QED
        BY <3>2
    <2>3. ASSUME NEW j \in 1..Len(scripts), scripts' = Without(scripts, j)
          PROVE  \A i \in 1..Len(scripts') : HonestScript(scripts'[i])
      <3>1. \A k \in 1..Len(scripts') : \E n \in 1..Len(scripts) : scripts'[k] = scripts[n]
        BY <1>3, <2>3, WithoutKeeps
      <3> QED
        BY <2>1, <3>1
    <2>4. CASE scripts' = scripts
      BY <2>1, <2>4
    <2> QED
      BY <2>2, <2>3, <2>4 DEF TruthGoal
  <1>5. (\A i \in 1..Len(scripts) : HonestScript(scripts[i]))'
    BY <1>1, <1>4 DEF HonestScript
  <1>6. DoneMeansDone'
    <2>1. CASE told = "DONE"
      BY <2>1 DEF Truth, DoneMeansDone
    <2>2. CASE told # "DONE"
      BY <2>2, FinishedIs DEF TruthGoal, DoneMeansDone
    <2> QED
      BY <2>1, <2>2
  <1>7. ~Finished => NoNews(held') /\ NoNews(resumed')
    BY DEF TruthGoal
  <1>8. used["crash"] = 0 => ~loaded' /\ (mem' = "stub" => file'.state \in Poll \cup EndWaits)
    BY DEF TruthGoal
  <1> QED
    BY <1>1, <1>2, <1>5, <1>6, <1>7, <1>8 DEF Truth, NoNews

-----------------------------------------------------------------------------
(* The steps of the state machine *)

\* A restarted job manager takes a job for done only when it may.
LEMMA HonestRestart ==
    ASSUME BasicInv, Faithful, Truth, r.jm = "TWO_PHASE_COMMITTED", r.jmRestart
    PROVE  Honest(RestartState)
  <1>1. /\ r \in RequestType /\ lrm \in Seq(LrmStates) /\ Honest(r)
    BY DEF BasicInv, Types, Truth
  <1>2. used["crash"] # 0
    BY <1>1 DEF Honest, Early
  <1>3. Undisturbed
    BY <1>2, FaithfulCrashed
  <1>4. /\ RestartState.jm \in {r.jm, "SUBMIT", "POLL1", "TWO_PHASE_COMMITTED"}
        /\ RestartState.restart = r.restart /\ RestartState.events = r.events
        /\ RestartState.todoOut = r.todoOut
        /\ RestartState.failure = "STAGE_OUT_FAILED" => r.failure = "STAGE_OUT_FAILED"
        /\ RestartState.status \in Over =>
              r.status \in Over \/ r.failure = "STAGE_OUT_FAILED" \/ r.restart \in Closing
    BY <1>1, RestartKeeps
  <1>5. Humble(r) => r.restart \notin Closing
    BY <1>3 DEF Humble, Modest, Closing, Ending
  <1>6. Humble(r) => Humble(RestartState)
    BY <1>1, <1>4, <1>5 DEF Humble, Ending
  <1> QED
    BY <1>1, <1>2, <1>4, <1>6 DEF Honest

LEMMA TruthEarlySteps ==
    ASSUME BasicInv, Faithful, Truth,
           \/ StepStart \/ StepTwoPhase \/ StepRestart \/ StepTwoPhaseCommitted
           \/ StepStageInFailed \/ StepSubmitting \/ StepSubmit
    PROVE  TruthGoal
  <1> USE DEF place, mgr, env, ghosts, At
  <1>0. /\ r \in RequestType /\ job \in Jobs /\ FitRequest(r) /\ lrm \in Seq(LrmStates)
        /\ Honest(r) /\ HonestFile(file) /\ held \in Seq(EventType) /\ resumed \in Seq(EventType)
        /\ told \in Statuses \cup {"none"}
        /\ ~Finished => NoNews(held) /\ NoNews(resumed)
        /\ job.twoPhase \in BOOLEAN /\ job.stageIn \in BOOLEAN
    BY JobBooleans DEF BasicInv, Types, Known, FitRequest, Truth
  <1>1. UNCHANGED <<mem, loaded>> /\ mem = "live"
    <2>1. run # "idle"
      BY DEF StepStart, StepTwoPhase, StepRestart, StepTwoPhaseCommitted,
         StepStageInFailed, StepSubmitting, StepSubmit
    <2> QED
      BY <2>1 DEF BasicInv, Placed, StepStart, StepTwoPhase, StepRestart, StepTwoPhaseCommitted,
         StepStageInFailed, StepSubmitting, StepSubmit
  <1>2. used["crash"] = 0 => ~loaded' /\ (mem' = "stub" => file'.state \in Poll \cup EndWaits)
    BY <1>1 DEF Truth
  <1>3. ASSUME UNCHANGED <<held, resumed, told, scripts, file>>, Honest(r')
        PROVE  TruthGoal
    BY <1>0, <1>2, <1>3 DEF TruthGoal
  <1>4. CASE StepStart
    <2>1. /\ r'.jm = "TWO_PHASE" /\ r'.todoOut = r.todoOut /\ r'.status = r.status
          /\ r'.failure = r.failure /\ r'.restart = r.restart /\ r'.events = r.events
          /\ r'.jmRestart = r.jmRestart /\ r.jm = "START"
      BY <1>0, <1>4 DEF StepStart, RequestType
    <2>2. Honest(r')
      BY <1>0, <2>1 DEF Honest, Humble, Ending, Early
    <2> QED
      BY <1>3, <1>4, <2>2 DEF StepStart
  <1>5. CASE StepTwoPhase
    <2>1. /\ r'.todoOut = r.todoOut /\ r'.status = r.status /\ r'.restart = r.restart
          /\ r'.events = r.events /\ r'.jmRestart = r.jmRestart /\ r.jm = "TWO_PHASE"
          /\ r'.failure \in {r.failure, "COMMIT_TIMED_OUT"}
          /\ r'.jm \in {"TWO_PHASE", "TWO_PHASE_COMMITTED", "STOP", "FAILED"}
          /\ r'.jm = "STOP" => r.jmRestart
      BY <1>0, <1>5 DEF StepTwoPhase, TimedOut, RequestType
    <2>2. Honest(r')
      BY <1>0, <2>1 DEF Honest, Humble, Ending, Early
    <2> QED
      BY <1>3, <1>5, <2>2 DEF StepTwoPhase
  <1>6. CASE StepRestart
    <2>1. r' = RestartState /\ r.jm = "TWO_PHASE_COMMITTED" /\ r.jmRestart
          /\ UNCHANGED <<held, resumed, told, scripts, file>>
      BY <1>6 DEF StepRestart
    <2> QED
      BY <1>3, <2>1, HonestRestart
  <1>7. CASE StepTwoPhaseCommitted
    <2> DEFINE q == IF r.jmRestart THEN RestartState ELSE r
    <2>1. /\ r' = IF job.stageIn THEN [q EXCEPT !.jm = "STAGE_IN", !.status = "STAGE_IN"]
                                  ELSE [q EXCEPT !.jm = "STAGE_IN"]
          /\ r.jm = "TWO_PHASE_COMMITTED"
          /\ IF job.stageIn THEN Notify(r') /\ RunScript("stage_in", r')
                            ELSE UNCHANGED <<scripts, told>>
          /\ UNCHANGED <<held, resumed, file>>
      BY <1>7 DEF StepTwoPhaseCommitted
    <2>2. q \in RequestType /\ FitRequest(q) /\ Honest(q)
      BY <1>0, <2>1, HonestRestart, RestartKeeps, LenProperties DEF FitRequest, CondorRecovers
    <2> HIDE DEF q
    <2>3. /\ r'.jm = "STAGE_IN" /\ r'.todoOut = q.todoOut /\ r'.restart = q.restart
          /\ r'.events = q.events /\ r'.failure = q.failure /\ r'.status \in {q.status, "STAGE_IN"}
          /\ FitRequest(r') /\ (job.stageIn => r'.status = "STAGE_IN")
      BY <1>0, <2>1, <2>2, Names DEF FitRequest, RequestType
    <2>4. Honest(r')
      BY <2>2, <2>3 DEF Honest, Humble, Over, Ending, Early
    <2>5. CASE job.stageIn
      <3> DEFINE s == Script("stage_in", r')
      <3>1. s \in ScriptType /\ s.cmd = "stage_in" /\ s.res = "none" /\ scripts' = Append(scripts, s)
        BY <2>1, <2>3, <2>5, ScriptIs DEF Cmds, RunScript
      <3> HIDE DEF s
      <3>2. HonestScript(s)
        BY <3>1 DEF HonestScript
      <3>3. told' \in {told, "FAILED", "STAGE_IN"}
        BY <2>1, <2>3, <2>5 DEF Notify
      <3> QED
        BY <1>0, <1>2, <2>1, <2>4, <3>1, <3>2, <3>3 DEF TruthGoal
    <2>6. CASE ~job.stageIn
      BY <1>3, <2>1, <2>4, <2>6
    <2> QED
      BY <1>0, <2>5, <2>6
  <1>8. CASE StepStageInFailed
    <2>1. /\ r'.todoOut = r.todoOut /\ r'.status = r.status /\ r'.restart = r.restart
          /\ r'.events = r.events /\ r'.jm = "FAILED" /\ r'.failure \in {r.failure, "STAGE_IN_FAILED"}
      BY <1>0, <1>8 DEF StepStageInFailed, RequestType
    <2>2. Honest(r')
      BY <1>0, <2>1 DEF Honest, Humble, Ending, Early
    <2> QED
      BY <1>3, <1>8, <2>2 DEF StepStageInFailed
  <1>9. CASE StepSubmitting
    <2> DEFINE q == [r EXCEPT !.jm = "SUBMIT", !.restart = "SUBMIT"]
    <2>1. /\ r' = [q EXCEPT !.seen = 0] /\ file' = Written(q) /\ RunScript("submit", q)
          /\ UNCHANGED <<held, resumed, told>>
      BY <1>9 DEF StepSubmitting
    <2>2. /\ FitRequest(q) /\ q.jm = "SUBMIT" /\ q.restart = "SUBMIT" /\ q.todoOut = r.todoOut
          /\ q.status = r.status /\ q.failure = r.failure /\ q.events = r.events
      BY <1>0, Names DEF FitRequest, RequestType
    <2>3. Honest(q)
      <3> HIDE DEF q
      <3> QED
        BY <1>0, <2>2 DEF Honest, Humble, Modest, Ending, Early
    <2> DEFINE s == Script("submit", q)
    <2>4. s \in ScriptType /\ s.cmd = "submit" /\ s.res = "none" /\ scripts' = Append(scripts, s)
      BY <2>1, <2>2, ScriptIs DEF Cmds, RunScript
    <2> HIDE DEF q, s
    <2>5. Honest(r')
      <3>1. Alike(r', q)
        BY <2>1, <2>2 DEF Alike, FitRequest, RequestType
      <3> QED
        BY <2>3, <3>1, HonestAlike
    <2>6. HonestFile(file')
      BY <2>1, <2>2, <2>3, HonestWritten DEF FitRequest
    <2>7. HonestScript(s)
      BY <2>4 DEF HonestScript
    <2> QED
      BY <1>0, <1>2, <2>1, <2>4, <2>5, <2>6, <2>7 DEF TruthGoal
  <1>10. CASE StepSubmit
    <2> DEFINE q == IF r.id = NoId
             THEN [r EXCEPT !.status = "FAILED", !.unsent = TRUE,
                            !.failure = IF @ = "none" THEN "SUBMIT" ELSE @]
             ELSE r
    <2>1. r' = [q EXCEPT !.jm = "POLL1", !.restart = "POLL1"] /\ file' = Written(r') /\ Resume
          /\ UNCHANGED <<told, scripts>>
      BY <1>10 DEF StepSubmit
    <2>2. /\ q \in RequestType /\ q.todoOut = r.todoOut /\ q.status \in {r.status, "FAILED"}
          /\ q.failure \in {r.failure, "SUBMIT"} /\ q.events = r.events
      BY <1>0, Names DEF RequestType
    <2> HIDE DEF q
    <2>3. /\ r' \in RequestType /\ r'.todoOut = q.todoOut /\ r'.status = q.status
          /\ r'.failure = q.failure /\ r'.events = q.events /\ r'.jm = "POLL1"
          /\ r'.restart = "POLL1"
      BY <2>1, <2>2, Names DEF RequestType
    <2>4. Honest(r')
      BY <1>0, <2>2, <2>3 DEF Honest, Humble, Modest, Over, Ending, Early
    <2>5. HonestFile(file')
      BY <2>1, <2>3, <2>4, HonestWritten
    <2>6. ~Finished => NoNews(held') /\ NoNews(resumed')
      <3>1. \/ held' = <<>> /\ resumed' = resumed \o held
            \/ UNCHANGED <<held, resumed>>
        BY <2>1 DEF Resume
      <3>2. NoNews(<<>>)
        BY DEF NoNews
      <3> QED
        BY <1>0, <3>1, <3>2, NoNewsConcat
    <2> QED
      BY <1>2, <2>1, <2>4, <2>5, <2>6 DEF TruthGoal
  <1> QED
    BY <1>4, <1>5, <1>6, <1>7, <1>8, <1>9, <1>10

LEMMA TruthLateSteps ==
    ASSUME BasicInv, Faithful, Truth,
           \/ StepPoll1 \/ StepPoll2 \/ StepQuery1 \/ StepQuery2 \/ StepClosing
           \/ StepCloseOutput \/ StepFinalStatus \/ StepTwoPhaseEnd \/ StepCleanUp
           \/ StepCacheCleanUp \/ StepStop
    PROVE  TruthGoal
  <1> USE DEF place, mgr, env, ghosts, At
  <1>0. /\ r \in RequestType /\ job \in Jobs /\ FitRequest(r) /\ posts \in Nat /\ Types
        /\ Honest(r) /\ HonestFile(file) /\ told \in Statuses \cup {"none"}
        /\ ~Finished => NoNews(held) /\ NoNews(resumed)
    BY DEF BasicInv, Types, Known, FitRequest, Truth
  <1>1. UNCHANGED <<mem, loaded, held, resumed>> /\ mem = "live"
    <2>1. run # "idle"
      BY DEF StepPoll1, StepPoll2, StepQuery1, StepQuery2, StepClosing, StepCloseOutput,
         StepFinalStatus, StepTwoPhaseEnd, StepCleanUp, StepCacheCleanUp, StepStop
    <2> QED
      BY <2>1 DEF BasicInv, Placed, StepPoll1, StepPoll2, StepQuery1, StepQuery2, StepClosing,
         StepCloseOutput, StepFinalStatus, StepTwoPhaseEnd, StepCleanUp, StepCacheCleanUp, StepStop
  <1>2. /\ used["crash"] = 0 => ~loaded' /\ (mem' = "stub" => file'.state \in Poll \cup EndWaits)
        /\ ~Finished => NoNews(held') /\ NoNews(resumed')
    BY <1>0, <1>1 DEF Truth
  <1>3. ASSUME UNCHANGED scripts, told' # "DONE" \/ told' = told, Honest(r'), HonestFile(file')
        PROVE  TruthGoal
    BY <1>2, <1>3 DEF TruthGoal
  <1>4. CASE StepPoll1
    <2>1. Types
      BY DEF BasicInv
    <2>2. PICK q \in RequestType, w \in RequestType,
               j \in {"FAILED", "PRE_CLOSE_OUTPUT", "POLL_QUERY1", "POLL1", "POLL2"},
               u \in BOOLEAN, t \in BOOLEAN :
             /\ r.events = <<>> => q = r
             /\ r.events # <<>> => q = Handled(r)
             /\ w = q \/ w = [q EXCEPT !.restart = "POLL1"]
             /\ file' = file \/ (file' = Written(w) /\ w = [q EXCEPT !.restart = "POLL1"])
             /\ r' = [w EXCEPT !.jm = j, !.unsent = u, !.timer = t]
             /\ told' = told \/ (Notify(w) /\ w.status \notin {"FAILED", "DONE", "STAGE_OUT"})
             /\ run' \in {"idle", "loop"}
             /\ j = "FAILED" => w.status = "FAILED"
             /\ j = "PRE_CLOSE_OUTPUT" => w.status \in {"DONE", "STAGE_OUT"}
             /\ j = "POLL_QUERY1" => w.queries # <<>> /\ run' = "loop"
             /\ t => w.timer \/ (run' = "idle" /\ j = "POLL2")
      BY <1>4, <2>1, Poll1Is
    <2>3. r.jm = "POLL1" /\ UNCHANGED scripts
      BY <1>4 DEF StepPoll1
    <2>4. /\ q.todoOut = r.todoOut /\ q.failure = r.failure /\ q.restart = r.restart
          /\ q.jm = r.jm /\ q.jmRestart = r.jmRestart /\ (Humble(r) => Humble(q))
      <3>1. CASE r.events = <<>>
        BY <2>2, <3>1
      <3>2. CASE r.events # <<>>
        <4>1. /\ q.todoOut = r.todoOut /\ q.failure = r.failure /\ q.restart = r.restart
              /\ q.jm = r.jm /\ q.jmRestart = r.jmRestart /\ q.events = Tail(r.events)
              /\ q.status \in Over => r.status \in Over \/ Head(r.events).state = "DONE"
          BY <1>0, <2>2, <3>2, HandledKeeps DEF Keeps
        <4>2. NoNews(r.events) => NoNews(Tail(r.events)) /\ Head(r.events).state # "DONE"
          BY <1>0, <3>2, NoNewsTail DEF RequestType, EventQueue
        <4> QED
          BY <4>1, <4>2 DEF Humble
      <3> QED
        BY <3>1, <3>2
    <2>5. Modest("POLL1")
      BY DEF Modest, Ending
    <2>6. /\ w.todoOut = r.todoOut /\ w.failure = r.failure /\ w.restart \in {q.restart, "POLL1"}
          /\ w.jm = r.jm /\ w.jmRestart = r.jmRestart /\ (Humble(r) => Humble(w))
      <3>1. /\ w.todoOut = q.todoOut /\ w.failure = q.failure /\ w.restart \in {q.restart, "POLL1"}
            /\ w.jm = q.jm /\ w.jmRestart = q.jmRestart /\ w.events = q.events
            /\ w.status = q.status
        BY <2>2 DEF RequestType
      <3> QED
        BY <2>4, <2>5, <3>1 DEF Humble
    <2>7. Honest(w)
      BY <1>0, <2>3, <2>6 DEF Honest, Early
    <2>8. Honest(r')
      <3>1. /\ r'.todoOut = w.todoOut /\ r'.failure = w.failure /\ r'.restart = w.restart
            /\ r'.jm = j /\ r'.events = w.events /\ r'.status = w.status
        BY <2>2 DEF RequestType
      <3>2. Humble(w) => Humble(r')
        BY <2>2, <3>1 DEF Humble, Ending, Over
      <3> QED
        BY <2>7, <3>1, <3>2 DEF Honest, Early
    <2>9. HonestFile(file')
      BY <1>0, <2>2, <2>3, <2>6, <2>7, HonestWritten
    <2>10. told' = told \/ told' # "DONE"
      BY <2>2, <2>3, <2>6 DEF Notify
    <2> QED
      BY <1>3, <2>3, <2>8, <2>9, <2>10
  <1>5. CASE StepPoll2
    <2>1. /\ r' = [r EXCEPT !.jm = r'.jm] /\ r'.jm \in {"POLL1", "POLL2"}
          /\ UNCHANGED <<file, told>>
          /\ scripts' = scripts \/ RunScript("poll", r')
      BY <1>0, <1>5 DEF StepPoll2, RequestType
    <2>2. FitRequest(r')
      BY <1>0, <2>1, Names DEF FitRequest, RequestType
    <2>3. Honest(r')
      <3>1. /\ r'.todoOut = r.todoOut /\ r'.failure = r.failure /\ r'.restart = r.restart
            /\ r'.events = r.events /\ r'.status = r.status
        BY <1>0, <2>1 DEF RequestType
      <3> QED
        BY <1>0, <2>1, <3>1 DEF Honest, Humble, Early, Ending
    <2> DEFINE s == Script("poll", r')
    <2>4. s \in ScriptType /\ s.cmd = "poll" /\ s.res = "none"
          /\ (RunScript("poll", r') => scripts' = Append(scripts, s))
      BY <2>2, ScriptIs DEF Cmds
    <2> HIDE DEF s
    <2>5. HonestScript(s)
      BY <2>4 DEF HonestScript
    <2> QED
      BY <1>0, <1>2, <2>1, <2>3, <2>4, <2>5 DEF TruthGoal
  <1>6. CASE StepQuery1
    <2>1. /\ r.jm \in {"POLL_QUERY1", "TWO_PHASE_QUERY1"}
          /\ RunScript(Head(r.queries), r)
          /\ r' = [r EXCEPT !.jm = IF r.jm = "POLL_QUERY1" THEN "POLL_QUERY2" ELSE "TWO_PHASE_QUERY2"]
          /\ UNCHANGED <<file, told>>
      BY <1>6 DEF StepQuery1
    <2>2. Head(r.queries) \in {"cancel", "signal"}
      <3>1. r.queries # <<>>
        BY <1>6, <2>1 DEF BasicInv, Queries, StepQuery1
      <3> QED
        BY <1>0, <3>1, HeadTailProperties DEF RequestType, QueryQueue
    <2>3. Honest(r')
      <3>1. /\ r'.todoOut = r.todoOut /\ r'.failure = r.failure /\ r'.restart = r.restart
            /\ r'.events = r.events /\ r'.status = r.status /\ r'.jmRestart = r.jmRestart
            /\ r.jm = "POLL_QUERY1" => r'.jm = "POLL_QUERY2"
            /\ r.jm = "TWO_PHASE_QUERY1" => r'.jm = "TWO_PHASE_QUERY2"
        BY <1>0, <2>1 DEF RequestType
      <3> QED
        BY <1>0, <2>1, <3>1 DEF Honest, Humble, Early, Ending
    <2> DEFINE s == Script(Head(r.queries), r)
    <2>4. s \in ScriptType /\ s.cmd # "stage_out" /\ s.res = "none" /\ scripts' = Append(scripts, s)
      BY <1>0, <2>1, <2>2, ScriptIs DEF Cmds
    <2> HIDE DEF s
    <2>5. HonestScript(s)
      BY <2>4 DEF HonestScript
    <2> QED
      BY <1>0, <1>2, <2>1, <2>3, <2>4, <2>5 DEF TruthGoal
  <1>7. CASE StepQuery2
    <2> DEFINE q == [r EXCEPT !.queries = Tail(@)]
    <2>1. \/ /\ r.jm = "TWO_PHASE_QUERY2"
             /\ \E j, b : r' = [q EXCEPT !.jm = j, !.timer = b]
                          /\ j \in {"TWO_PHASE_QUERY1", "TWO_PHASE"}
          \/ \E j \in {"POLL_QUERY1", "POLL1", "POLL2"} : r' = [q EXCEPT !.jm = j]
      <3>1. CASE r.jm = "TWO_PHASE_QUERY2"
        BY <1>7, <3>1 DEF StepQuery2
      <3>2. CASE r.jm # "TWO_PHASE_QUERY2"
        BY <1>7, <3>2 DEF StepQuery2
      <3> QED
        BY <3>1, <3>2
    <2>2. /\ q.todoOut = r.todoOut /\ q.failure = r.failure /\ q.restart = r.restart
          /\ q.events = r.events /\ q.status = r.status /\ q.jmRestart = r.jmRestart
          /\ DOMAIN q = DOMAIN r /\ "jm" \in DOMAIN r
      BY <1>0 DEF RequestType
    <2> HIDE DEF q
    <2>3. /\ r'.todoOut = r.todoOut /\ r'.failure = r.failure /\ r'.restart = r.restart
          /\ r'.events = r.events /\ r'.status = r.status /\ r'.jmRestart = r.jmRestart
          /\ \/ r.jm = "TWO_PHASE_QUERY2" /\ r'.jm \in {"TWO_PHASE_QUERY1", "TWO_PHASE"}
             \/ r'.jm \in {"POLL_QUERY1", "POLL1", "POLL2"}
      <3>1. CASE \E j \in {"POLL_QUERY1", "POLL1", "POLL2"} : r' = [q EXCEPT !.jm = j]
        BY <2>2, <3>1
      <3>2. CASE /\ r.jm = "TWO_PHASE_QUERY2"
                 /\ \E j, b : r' = [q EXCEPT !.jm = j, !.timer = b]
                              /\ j \in {"TWO_PHASE_QUERY1", "TWO_PHASE"}
        <4>1. PICK j, b : r' = [q EXCEPT !.jm = j, !.timer = b]
                          /\ j \in {"TWO_PHASE_QUERY1", "TWO_PHASE"}
          BY <3>2
        <4> QED
          BY <2>2, <3>2, <4>1
      <3> QED
        BY <2>1, <3>1, <3>2
    <2>4. Honest(r')
      BY <1>0, <2>3 DEF Honest, Humble, Early, Ending
    <2> QED
      BY <1>0, <1>3, <1>7, <2>4 DEF StepQuery2
  <1>8. CASE StepClosing
    <2> DEFINE w == IF r.unsent THEN [r EXCEPT !.restart = r.jm] ELSE r
               u == w.unsent /\ ~(r.unsent /\ r.status = "STAGE_OUT")
    <2>1. /\ r.jm \in {"PRE_CLOSE_OUTPUT", "FAILED"}
          /\ file' = IF r.unsent THEN Written(w) ELSE file
          /\ told' = told \/ (Notify(w) /\ r.status = "STAGE_OUT")
          /\ r' = [w EXCEPT !.unsent = u, !.queries = <<>>,
                            !.jm = IF w.jm = "FAILED" THEN "FAILED_CLOSE_OUTPUT" ELSE "CLOSE_OUTPUT"]
          /\ UNCHANGED scripts
      BY <1>8 DEF StepClosing
    <2>2. /\ w \in RequestType /\ w.todoOut = r.todoOut /\ w.failure = r.failure
          /\ w.restart \in {r.restart, r.jm} /\ w.jm = r.jm /\ w.events = r.events
          /\ w.status = r.status /\ w.jmRestart = r.jmRestart
      BY <1>0, Names DEF RequestType
    <2> HIDE DEF w, u
    <2>3. Honest(w)
      BY <1>0, <2>1, <2>2 DEF Honest, Humble, Modest, Early, Ending
    <2>4. Honest(r')
      <3>1. /\ r'.todoOut = w.todoOut /\ r'.failure = w.failure /\ r'.restart = w.restart
            /\ r'.events = w.events /\ r'.status = w.status
            /\ r'.jm = IF w.jm = "FAILED" THEN "FAILED_CLOSE_OUTPUT" ELSE "CLOSE_OUTPUT"
        BY <2>1, <2>2 DEF RequestType
      <3> QED
        BY <2>1, <2>2, <2>3, <3>1 DEF Honest, Humble, Early, Ending
    <2>5. HonestFile(file')
      BY <1>0, <2>1, <2>2, <2>3, HonestWritten
    <2>6. told' = told \/ told' # "DONE"
      BY <2>1, <2>2 DEF Notify
    <2> QED
      BY <1>3, <2>1, <2>4, <2>5, <2>6
  <1>9. CASE StepCloseOutput
    <2>1. /\ r.jm = "CLOSE_OUTPUT" /\ UNCHANGED <<file, told>>
          /\ scripts' = scripts \/ RunScript("stage_out", r')
          /\ r' = [r EXCEPT !.jm = "FAILED_CLOSE_OUTPUT"]
             \/ r' = [r EXCEPT !.jm = "STAGE_OUT", !.unsent = TRUE]
      BY <1>9 DEF StepCloseOutput
    <2>2. Finished
      BY <1>0, <2>1 DEF Honest, Humble, Ending
    <2>3. /\ r'.todoOut = r.todoOut /\ r'.jm \in {"FAILED_CLOSE_OUTPUT", "STAGE_OUT"}
          /\ FitRequest(r')
      BY <1>0, <2>1, Names DEF FitRequest, RequestType
    <2>4. Honest(r')
      BY <1>0, <2>2, <2>3 DEF Honest, Early
    <2> DEFINE s == Script("stage_out", r')
    <2>5. s \in ScriptType /\ s.res = "none"
          /\ (RunScript("stage_out", r') => scripts' = Append(scripts, s))
      BY <2>3, ScriptIs DEF Cmds
    <2> HIDE DEF s
    <2>6. HonestScript(s)
      BY <2>2, <2>5 DEF HonestScript
    <2> QED
      BY <1>0, <1>2, <2>1, <2>4, <2>5, <2>6 DEF TruthGoal
  <1>10. CASE StepFinalStatus
    <2>1. PICK s \in {"FAILED", "DONE"}, f \in Failures, t \in BOOLEAN :
             LET j == IF s = "FAILED" THEN "FAILED_TWO_PHASE" ELSE "TWO_PHASE_END" IN
             /\ r' = [r EXCEPT !.unsent = FALSE, !.jm = j, !.status = s, !.failure = f,
                               !.timer = t]
             /\ s = "DONE" => r.jm = "STAGE_OUT" /\ ~r.todoOut
             /\ f = r.failure \/ (f = "STAGE_OUT_FAILED" /\ r.jm = "STAGE_OUT")
             /\ told' \in {told, s}
      BY <1>0, <1>10, FinalStatusIs
    <2>2. UNCHANGED <<file, scripts>> /\ r.jm \in {"STAGE_OUT", "FAILED_CLOSE_OUTPUT"}
      BY <1>10 DEF StepFinalStatus
    <2>3. /\ r'.todoOut = r.todoOut /\ r'.failure = f /\ r'.restart = r.restart
          /\ r'.events = r.events /\ r'.status = s
          /\ r'.jm = IF s = "FAILED" THEN "FAILED_TWO_PHASE" ELSE "TWO_PHASE_END"
      BY <1>0, <2>1 DEF RequestType
    <2>4. r.jm = "STAGE_OUT" => Finished
      BY <1>0 DEF Honest, Humble, Ending
    <2>5. Honest(r')
      BY <1>0, <2>1, <2>2, <2>3, <2>4 DEF Honest, Humble, Ending, Early, Over
    <2>6. s = "DONE" => Finished /\ (job.stageOut => stagedOut)
      BY <1>0, <2>1, <2>4 DEF Honest
    <2> QED
      BY <1>0, <1>2, <2>1, <2>2, <2>5, <2>6 DEF TruthGoal
  <1>11. CASE StepTwoPhaseEnd
    <2>1. /\ r.jm \in EndWaits /\ UNCHANGED <<file, scripts, told>>
          /\ \/ r' = [r EXCEPT !.extend = FALSE, !.timer = TRUE]
             \/ r' = [r EXCEPT !.jm = IF @ = "TWO_PHASE_END" THEN "TWO_PHASE_END_COMMITTED"
                                           ELSE "FAILED_TWO_PHASE_COMMITTED"]
             \/ r' = [r EXCEPT !.restart = r.jm, !.jm = "STOP", !.overdue = TRUE]
      BY <1>11, Zenon DEF StepTwoPhaseEnd, EndWaits
    <2>2. /\ r'.todoOut = r.todoOut /\ r'.failure = r.failure /\ r'.events = r.events
          /\ r'.status = r.status
          /\ \/ r'.restart = r.restart /\ r'.jm = r.jm
             \/ /\ r'.restart = r.restart
                /\ r'.jm \in {"TWO_PHASE_END_COMMITTED", "FAILED_TWO_PHASE_COMMITTED"}
             \/ r'.restart = r.jm /\ r'.jm = "STOP"
      BY <1>0, <2>1 DEF RequestType
    <2>3. Honest(r')
      BY <1>0, <2>1, <2>2 DEF Honest, Humble, Modest, Ending, Early, EndWaits
    <2> QED
      BY <1>0, <1>3, <2>1, <2>3
  <1>12. CASE StepCleanUp \/ StepCacheCleanUp
    <2>1. \E j, a : /\ r' = [r EXCEPT !.jm = j] \/ r' = [r EXCEPT !.queries = a, !.jm = j]
                    /\ j \in CleanStates
      <3>1. CASE StepCleanUp
        <4> DEFINE j == IF r.jm = "FILE_CLEAN_UP" /\ r.status = "FAILED"
                        THEN "FAILED_SCRATCH_CLEAN_UP" ELSE CleanUp[r.jm]
        <4>1. r' = [r EXCEPT !.jm = j] /\ r.jm \in DOMAIN CleanUp
          BY <3>1 DEF StepCleanUp
        <4>2. j \in CleanStates
          BY <4>1, CleanUpIs DEF CleanStates
        <4> QED
          BY <4>1, <4>2
      <3>2. CASE StepCacheCleanUp
        BY <3>2 DEF StepCacheCleanUp, CleanStates
      <3> QED
        BY <1>12, <3>1, <3>2
    <2>2. file' \in {file, NoFile} /\ UNCHANGED <<scripts, told>>
      BY <1>12 DEF StepCleanUp, StepCacheCleanUp
    <2>3. /\ r'.todoOut = r.todoOut /\ r'.failure = r.failure /\ r'.events = r.events
          /\ r'.status = r.status /\ r'.restart = r.restart /\ r'.jm \in CleanStates
      BY <1>0, <2>1 DEF RequestType
    <2>4. Honest(r')
      BY <1>0, <2>3 DEF Honest, Humble, Ending, Early, CleanStates
    <2>5. HonestFile(NoFile)
      BY DEF HonestFile
    <2> QED
      BY <1>0, <1>3, <2>2, <2>4, <2>5
  <1>13. CASE StepStop
    <2>1. r' = r /\ file' = Written(r) /\ Notify(r) /\ r.jm = "STOP" /\ UNCHANGED scripts
      BY <1>13 DEF StepStop
    <2>2. HonestFile(file')
      BY <1>0, <2>1, HonestWritten
    <2>3. told' = told \/ told' # "DONE"
      BY <2>1 DEF Notify
    <2> QED
      BY <1>0, <1>3, <2>1, <2>2, <2>3
  <1> QED
    BY <1>4, <1>5, <1>6, <1>7, <1>8, <1>9, <1>10, <1>11, <1>12, <1>13

LEMMA TruthDone ==
    ASSUME BasicInv, Faithful, Truth, StepDone
    PROVE  TruthGoal
  <1> USE DEF place, mgr, env, ghosts, At
  <1>1. /\ r \in RequestType /\ job \in Jobs /\ Honest(r) /\ HonestFile(file)
        /\ ~Finished => NoNews(held) /\ NoNews(resumed)
        /\ used["crash"] = 0 => ~loaded
    BY DEF BasicInv, Types, Truth
  <1>2. /\ r.jm \in Final /\ file' \in {file, NoFile}
        /\ r' = NewRequest \/ r' = [r EXCEPT !.queries = <<>>, !.events = <<>>, !.restart = r.jm]
        /\ mem' \in {mem, "gone"} /\ mem = "live"
        /\ UNCHANGED <<scripts, told, held, resumed, loaded>>
    BY DEF StepDone, BasicInv, Placed
  <1>3. r' = NewRequest => Honest(r')
    <2> HAVE r' = NewRequest
    <2>1. /\ r'.jm = "START" /\ r'.restart = "START" /\ r'.status = "UNSUBMITTED"
          /\ r'.failure = "none" /\ r'.events = <<>> /\ r'.todoOut = job.stageOut /\ ~r'.jmRestart
      BY <1>1, NewRequestType
    <2> QED
      BY <2>1 DEF Honest, Humble, Modest, NoNews, Over, Ending
  <1>4. r' = [r EXCEPT !.queries = <<>>, !.events = <<>>, !.restart = r.jm] => Honest(r')
    <2> HAVE r' = [r EXCEPT !.queries = <<>>, !.events = <<>>, !.restart = r.jm]
    <2>1. /\ r'.jm = r.jm /\ r'.restart = r.jm /\ r'.status = r.status
          /\ r'.failure = r.failure /\ r'.events = <<>> /\ r'.todoOut = r.todoOut
      BY <1>1 DEF RequestType
    <2> QED
      BY <1>1, <1>2, <2>1 DEF Honest, Humble, Modest, NoNews, Ending, Early, Final
  <1>5. Honest(r')
    BY <1>2, <1>3, <1>4
  <1>6. HonestFile(file')
    BY <1>1, <1>2 DEF HonestFile
  <1> QED
    BY <1>1, <1>2, <1>5, <1>6 DEF TruthGoal

-----------------------------------------------------------------------------
(* References, events, scripts and the client *)

LEMMA HonestReferenced ==
    ASSUME BasicInv, Truth, TakeReference
    PROVE  Honest(Referenced)
  <1>1. /\ mem \in {"live", "stub"} /\ (mem = "live" => Referenced = r)
        /\ mem = "stub" => Referenced = Reloaded /\ file \in FileType
    BY ReferencedIs
  <1>2. CASE mem = "stub"
    <2>1. /\ job \in Jobs /\ pending \in BOOLEAN /\ loaded \in BOOLEAN /\ file \in FileType
          /\ file # NoFile
      BY <1>1, <1>2, NoFileIsNoFile DEF BasicInv, Types
    <2> DEFINE q == Reloaded
    <2>2. /\ q.jm = IF file.state \in Poll THEN "POLL2"
                    ELSE IF loaded THEN "TWO_PHASE_COMMITTED" ELSE file.state
          /\ q.restart = file.state /\ q.status = file.status
          /\ q.failure = file.failure /\ q.todoOut = file.todoOut /\ q.events = <<>>
      BY <2>1, ReloadedType
    <2> HIDE DEF q
    <2>3. HonestFile(file) /\ (used["crash"] = 0 => ~loaded /\ file.state \in Poll \cup EndWaits)
      BY <1>2 DEF Truth
    <2>4. ~Finished => Humble(q)
      BY <2>1, <2>2, <2>3 DEF HonestFile, Humble, Modest, NoNews, Ending
    <2>5. used["crash"] = 0 => q.jm \in {"POLL2"} \cup EndWaits
      BY <2>2, <2>3
    <2>6. Honest(q)
      BY <2>1, <2>2, <2>3, <2>4, <2>5 DEF Honest, HonestFile, Early, EndWaits
    <2> QED
      BY <1>1, <1>2, <2>6 DEF q
  <1> QED
    BY <1>1, <1>2 DEF Truth

\* A reference is taken, and the request that is left is honest.
LEMMA TruthReference ==
    ASSUME BasicInv, Truth, TakeReference, Honest(r'),
           UNCHANGED <<job, lrm, stagedOut, told, scripts, file>>,
           ~Finished => NoNews(held') /\ NoNews(resumed'),
           used'["crash"] = used["crash"], Undisturbed' => Undisturbed
    PROVE  Truth'
  <1>1. mem' = "live" /\ loaded' = FALSE
    BY DEF TakeReference
  <1>2. TruthGoal
    BY <1>1 DEF TruthGoal, Truth
  <1> QED
    BY <1>2, TruthStep

LEMMA TruthDelivered ==
    ASSUME BasicInv, Truth, TakeReference, NEW es \in Seq(EventType),
           r' = Delivered(Referenced, es), ~Finished => NoNews(es),
           UNCHANGED <<job, lrm, stagedOut, told, scripts, file, used>>,
           ~Finished => NoNews(held') /\ NoNews(resumed')
    PROVE  Truth'
  <1> DEFINE q == Referenced
             d == Delivered(q, es)
  <1>1. q \in RequestType /\ Honest(q)
    BY ReferencedIs, HonestReferenced DEF FitRequest
  <1>2. /\ d.jm = q.jm \/ (q.jm = "POLL2" /\ d.jm = "POLL1" /\ d.timer)
        /\ d.restart = q.restart /\ d.jmRestart = q.jmRestart /\ d.status = q.status
        /\ d.failure = q.failure /\ d.todoOut = q.todoOut /\ d.events = q.events \o es
    BY <1>1, DeliveredKeeps
  <1> HIDE DEF q, d
  <1>3. NoNews(q.events) /\ NoNews(es) => NoNews(d.events)
    BY <1>1, <1>2, NoNewsConcat DEF RequestType, EventQueue
  <1>4. Honest(d)
    BY <1>1, <1>2, <1>3 DEF Honest, Humble, Ending, Early
  <1>5. Undisturbed' => Undisturbed
    BY DEF Undisturbed
  <1> QED
    BY <1>4, <1>5, TruthReference DEF d, q

\* An expired job comes back as it was, or with its end committed.
LEMMA TruthExpire ==
    ASSUME BasicInv, Truth, ExpireOldJob
    PROVE  Truth'
  <1> DEFINE q == Referenced
  <1>1. /\ TakeReference
        /\ \/ r' = q
           \/ r' = [q EXCEPT !.jm = "FAILED_TWO_PHASE_COMMITTED", !.timer = TRUE]
        /\ UNCHANGED <<job, file, scripts, held, resumed, lrm, stagedOut, told, used>>
    BY ExpireIs
  <1>2. q \in RequestType /\ Honest(q)
    BY <1>1, ReferencedIs, HonestReferenced DEF FitRequest
  <1> HIDE DEF q
  <1>3. /\ r'.jm \in {q.jm, "FAILED_TWO_PHASE_COMMITTED"} /\ r'.restart = q.restart
        /\ r'.status = q.status /\ r'.failure = q.failure /\ r'.todoOut = q.todoOut
        /\ r'.events = q.events /\ r'.jmRestart = q.jmRestart
    BY <1>1, <1>2 DEF RequestType
  <1>4. Honest(r')
    BY <1>2, <1>3 DEF Honest, Humble, Early, Ending
  <1>5. (Undisturbed' => Undisturbed) /\ (~Finished => NoNews(held') /\ NoNews(resumed'))
    BY <1>1 DEF Undisturbed, Truth
  <1> QED
    BY <1>1, <1>4, <1>5, TruthReference

LEMMA TruthEvents ==
    ASSUME BasicInv, SoloInv, Faithful, Truth,
           TimerFires \/ CallbackReply \/ SegResume \/ ProcessPendingRestart
           \/ Events \/ SwapOut
    PROVE  Truth'
  <1> USE DEF place, mgr, env, ghosts
  <1>0. /\ r \in RequestType /\ job \in Jobs /\ scripts \in Seq(ScriptType)
        /\ DOMAIN scripts = 1..Len(scripts) /\ resumed \in Seq(EventType)
        /\ held \in Seq(EventType)
        /\ \A i \in 1..Len(scripts) : scripts[i] \in ScriptType /\ ScriptKnown(scripts[i])
        /\ Honest(r) /\ HonestFile(file) /\ (~Finished => NoNews(held) /\ NoNews(resumed))
    <2>1. scripts \in Seq(ScriptType)
      BY DEF BasicInv, Types
    <2>2. /\ DOMAIN scripts = 1..Len(scripts)
          /\ \A i \in 1..Len(scripts) : scripts[i] \in ScriptType
      BY <2>1, LenProperties, ElementOfSeq
    <2> QED
      BY <2>1, <2>2 DEF BasicInv, Types, Known, Truth
  <1>1. UNCHANGED used => (UNCHANGED job => (Undisturbed' => Undisturbed))
    BY DEF Undisturbed
  <1>2. NoNews(<<>>)
    BY DEF NoNews
  <1>3. CASE TimerFires \/ CallbackReply
    <2>1. \E t \in BOOLEAN : r' = [r EXCEPT !.timer = t]
      BY <1>3 DEF TimerFires, CallbackReply
    <2>2. UNCHANGED <<job, mem, loaded, file, scripts, held, resumed, lrm, stagedOut, told, used>>
      BY <1>3 DEF TimerFires, CallbackReply
    <2>3. Honest(r')
      <3>1. Alike(r', r)
        BY <1>0, <2>1 DEF Alike, RequestType
      <3> QED
        BY <1>0, <3>1, HonestAlike
    <2>4. TruthGoal
      BY <1>0, <2>2, <2>3 DEF TruthGoal, Truth
    <2> QED
      BY <1>1, <2>2, <2>4, TruthStep
  <1>4. CASE ProcessPendingRestart
    <2>1. /\ TakeReference /\ r' = Referenced
          /\ UNCHANGED <<job, file, scripts, held, resumed, lrm, stagedOut, told, used>>
      BY <1>4 DEF ProcessPendingRestart
    <2> QED
      BY <1>0, <1>1, <2>1, HonestReferenced, TruthReference
  <1>5. ASSUME UNCHANGED <<job, mem, loaded, r, file, scripts, lrm, stagedOut, told, used>>,
               ~Finished => NoNews(held') /\ NoNews(resumed')
        PROVE  Truth'
    <2>1. TruthGoal
      BY <1>0, <1>5 DEF TruthGoal, Truth
    <2> QED
      BY <1>1, <1>5, <2>1, TruthStep
  <1>6. CASE SegResume
    <2>1. PICK es \in Seq(EventType) :
             /\ \A k \in DOMAIN es : \E j \in DOMAIN resumed : es[k] = resumed[j]
             /\ run = "idle" /\ resumed' = <<>>
             /\ \/ /\ TakeReference /\ r' = Delivered(Referenced, es)
                   /\ idHash' = StillHashed(es)
                \/ UNCHANGED <<mem, loaded, pending, r, pause, idHash>>
             /\ UNCHANGED <<job, run, file, scripts, posts, held, env, ghosts, used>>
      BY <1>0, <1>6, SegResumeIs
    <2>2. NoNews(resumed) => NoNews(es)
      <3>1. DOMAIN es = 1..Len(es) /\ DOMAIN resumed = 1..Len(resumed)
        BY <1>0, LenProperties
      <3> QED
        BY <2>1, <3>1 DEF NoNews
    <2>3. CASE TakeReference /\ r' = Delivered(Referenced, es)
      BY <1>0, <1>2, <2>1, <2>2, <2>3, TruthDelivered
    <2>4. CASE UNCHANGED <<mem, loaded, pending, r, pause, idHash>>
      BY <1>0, <1>2, <1>5, <2>1, <2>4
    <2> QED
      BY <2>1, <2>3, <2>4
  <1>7. ASSUME NEW i \in DOMAIN lrm, SegEvent(i)
        PROVE  Truth'
    <2> DEFINE e == [id |-> i, state |-> LogOf(i)[pos[i] + 1]]
    <2>1. /\ UNCHANGED <<job, run, file, scripts, posts, resumed, lrm, ghosts, used>>
          /\ \/ TakeReference /\ r' = Delivered(Referenced, <<e>>) /\ UNCHANGED held
             \/ /\ UNCHANGED <<mem, loaded, pending, r, pause, idHash>>
                /\ held' = held \/ held' = Append(held, e)
      BY <1>7 DEF SegEvent
    <2>2. lrm \in Seq(LrmStates) /\ pos \in Seq(Nat) /\ Len(pos) = Len(lrm)
      BY DEF BasicInv, Types
    <2>3. i \in 1..Len(lrm) /\ i \in Nat /\ pos[i] \in Nat /\ pos[i] < Len(LogOf(i))
      BY <1>7, <2>2, LenProperties, ElementOfSeq DEF SegEvent
    <2>4. e \in EventType /\ (e.state = "DONE" => lrm[i] = "DONE")
      BY <2>2, <2>3, LogEntry DEF EventType
    <2>5. e.state = "DONE" => Finished
      BY <2>3, <2>4 DEF Finished
    <2> HIDE DEF e
    <2>6. <<e>> \in Seq(EventType) /\ (~Finished => NoNews(<<e>>))
      BY <2>4, <2>5 DEF NoNews
    <2>7. CASE TakeReference /\ r' = Delivered(Referenced, <<e>>) /\ UNCHANGED held
      BY <1>0, <2>1, <2>6, <2>7, TruthDelivered
    <2>8. CASE UNCHANGED <<mem, loaded, pending, r, pause, idHash>> /\ (held' = held \/ held' = Append(held, e))
      <3>1. Append(held, e) = held \o <<e>>
        BY <1>0, <2>4
      <3>2. ~Finished => NoNews(held')
        BY <1>0, <2>6, <2>8, <3>1, NoNewsConcat
      <3> QED
        BY <1>0, <1>5, <2>1, <2>8, <3>2
    <2> QED
      BY <2>1, <2>7, <2>8
  <1>8. ASSUME NEW i \in DOMAIN scripts, ScriptDone(i)
        PROVE  Truth'
    <2> DEFINE s == scripts[i]
               q == Applied(r, s)
    <2>1. /\ r' = [q EXCEPT !.timer = TRUE] /\ scripts' = Without(scripts, i)
          /\ s.res # "none" /\ file' \in {file, Written(q)} /\ i \in 1..Len(scripts)
          /\ UNCHANGED <<job, place, lrm, stagedOut, told, held, resumed, used>>
      BY <1>0, <1>8 DEF ScriptDone
    <2>2. /\ s \in ScriptType /\ ScriptKnown(s) /\ HonestScript(s)
      BY <1>0, <2>1 DEF Truth
    <2>3. /\ q \in RequestType /\ Keeps(q, r) /\ q.events = r.events
          /\ q.status \in Over => r.status \in Over \/ s.res = "DONE"
          /\ q.failure = "STAGE_OUT_FAILED" => r.failure = "STAGE_OUT_FAILED" \/ s.cmd = "stage_out"
          /\ r.todoOut /\ ~q.todoOut => s.cmd = "stage_out" /\ s.res = "ok"
      BY <1>0, <2>1, <2>2, AppliedKeeps
    <2>4. Undisturbed => r.jm \in Working
      <3>1. scripts # <<>>
        BY <1>0, <1>8, EmptySeq
      <3> QED
        BY <3>1 DEF SoloInv, OneScript
    <2> HIDE DEF q, s
    <2>5. Honest(q)
      BY <1>0, <2>2, <2>3 DEF Honest, HonestScript, Humble, Keeps
    <2>6. Honest(r')
      <3>1. Alike(r', q)
        BY <2>1, <2>3 DEF Alike, RequestType
      <3> QED
        BY <2>5, <3>1, HonestAlike
    <2>7. HonestFile(file')
      <3>1. q.jm = "TWO_PHASE_END_COMMITTED" => ~Undisturbed
        BY <2>3, <2>4 DEF Keeps, Working
      <3> QED
        BY <1>0, <2>1, <2>3, <2>5, <3>1, HonestWritten
    <2>8. mem = "live"
      BY <1>0, <1>8, EmptySeq DEF BasicInv, Placed
    <2>9. TruthGoal
      BY <1>0, <2>1, <2>6, <2>7, <2>8 DEF TruthGoal, Truth
    <2> QED
      BY <1>1, <2>1, <2>9, TruthStep
  <1>9. CASE SwapOut
    <2>1. /\ file' = Written(r) /\ loaded' = FALSE /\ r' = NewRequest /\ mem' = "stub"
          /\ r.jm \in {"POLL2", "STOP"}
          /\ UNCHANGED <<job, scripts, held, resumed, lrm, stagedOut, told, used>>
      BY <1>9 DEF SwapOut
    <2>2. /\ r'.jm = "START" /\ r'.restart = "START" /\ r'.status = "UNSUBMITTED"
          /\ r'.failure = "none" /\ r'.events = <<>> /\ r'.todoOut = job.stageOut /\ ~r'.jmRestart
      BY <1>0, <2>1, NewRequestType
    <2>3. Honest(r')
      BY <2>2 DEF Honest, Humble, Modest, NoNews, Over, Ending
    <2>4. HonestFile(file')
      BY <1>0, <2>1, HonestWritten
    <2>5. used["crash"] = 0 => file'.state \in Poll \cup EndWaits
      <3>1. file'.state = IF r.jm = "STOP" THEN r.restart ELSE r.jm
        BY <1>0, <2>1, WrittenType
      <3> QED
        BY <1>0, <2>1, <3>1 DEF Honest, Poll
    <2>6. TruthGoal
      BY <1>0, <2>1, <2>3, <2>4, <2>5 DEF TruthGoal
    <2> QED
      BY <1>1, <2>1, <2>6, TruthStep
  <1> QED
    BY <1>3, <1>4, <1>6, <1>7, <1>8, <1>9 DEF Events

\* The LRM does not take back that a job is done, and no script undoes a transfer.
LEMMA TruthGrows ==
    ASSUME BasicInv, Truth, UNCHANGED <<job, mem, loaded, r, file, held, resumed, told>>,
           used'["crash"] = used["crash"], Undisturbed' <=> Undisturbed,
           Finished => Finished', stagedOut => stagedOut',
           DOMAIN lrm' = 1..Len(lrm'),
           \A i \in 1..Len(scripts') : HonestScript(scripts[i])'
    PROVE  Truth'
  <1>2. Honest(r)' /\ HonestFile(file)'
    BY DEF Truth, Honest, HonestFile, Humble, Modest, NoNews
  <1>3. DoneMeansDone'
    <2>1. Finished' => \E i \in DOMAIN lrm' : lrm'[i] = "DONE"
      BY DEF Finished
    <2> QED
      BY <2>1, FinishedIs DEF Truth, DoneMeansDone
  <1> QED
    BY <1>2, <1>3 DEF Truth, NoNews

LEMMA TruthLrm ==
    ASSUME BasicInv, Truth, Lrm
    PROVE  Truth'
  <1> USE DEF place, mgr, env, ghosts
  <1>1. PICK i \in DOMAIN lrm : LrmProgress(i)
    BY DEF Lrm
  <1>2. /\ UNCHANGED <<job, mem, loaded, r, file, scripts, held, resumed, told, stagedOut, used>>
        /\ \E n : lrm' = [lrm EXCEPT ![i] = n] /\ lrm[i] # "DONE"
    BY <1>1 DEF LrmProgress
  <1>3. lrm \in Seq(LrmStates) /\ DOMAIN lrm = 1..Len(lrm)
    BY LenProperties DEF BasicInv, Types
  <1>4. DOMAIN lrm' = 1..Len(lrm') /\ Len(lrm') = Len(lrm)
    <2>1. BasicInv'
      BY BasicLrm DEF Lrm
    <2>2. lrm' \in Seq(LrmStates) /\ DOMAIN lrm' = DOMAIN lrm
      BY <1>2, <2>1 DEF BasicInv, Types
    <2> QED
      BY <1>3, <2>2, LenProperties
  <1>5. Finished => Finished'
    BY <1>2, <1>3, <1>4 DEF Finished
  <1>6. \A k \in 1..Len(scripts') : HonestScript(scripts[k])'
    BY <1>2, <1>5 DEF Truth, HonestScript
  <1>7. Undisturbed' <=> Undisturbed
    BY <1>2 DEF Undisturbed
  <1> QED
    BY <1>2, <1>4, <1>5, <1>6, <1>7, TruthGrows

LEMMA TruthScripts ==
    ASSUME BasicInv, Truth, Scripts
    PROVE  Truth'
  <1> USE DEF place, mgr, env, ghosts
  <1>0. /\ scripts \in Seq(ScriptType) /\ DOMAIN scripts = 1..Len(scripts) /\ lrm \in Seq(LrmStates)
        /\ \A i \in 1..Len(scripts) : scripts[i] \in ScriptType /\ ScriptKnown(scripts[i])
        /\ DOMAIN lrm = 1..Len(lrm) /\ Len(lrm) \in Nat /\ stagedOut \in BOOLEAN
    <2>1. scripts \in Seq(ScriptType) /\ lrm \in Seq(LrmStates)
      BY DEF BasicInv, Types
    <2> QED
      BY <2>1, LenProperties, ElementOfSeq DEF BasicInv, Types, Known
  <1>1. PICK i \in DOMAIN scripts : ScriptRuns(i)
    BY DEF Scripts
  <1> DEFINE s == scripts[i]
             running == s.id > 0 /\ ~Ended(lrm[s.id])
             hopeless == (s.cmd = "signal" /\ ~running) \/ (s.cmd = "poll" /\ s.id <= 0)
             id == IF s.cmd = "submit" THEN Len(lrm) + 1 ELSE s.id
  <1>2. UNCHANGED <<job, mem, loaded, r, file, held, resumed, told, used>> /\ s.res = "none"
    BY <1>1 DEF ScriptRuns
  <1>3. PICK res \in {"ok", "err", "die"} :
           /\ res = "ok" => ~hopeless
           /\ scripts' = [scripts EXCEPT
                  ![i].id = id,
                  ![i].res = IF s.cmd = "poll" /\ res = "ok" THEN lrm[s.id] ELSE res]
           /\ lrm' = IF res = "ok" /\ s.cmd = "submit" THEN Append(lrm, "PENDING")
                     ELSE IF res = "ok" /\ s.cmd = "cancel" /\ running
                     THEN [lrm EXCEPT ![s.id] = "FAILED"] ELSE lrm
           /\ stagedOut' = (stagedOut \/ (s.cmd = "stage_out" /\ res = "ok"))
    BY <1>1 DEF ScriptRuns
  <1> DEFINE b == IF s.cmd = "poll" /\ res = "ok" THEN lrm[s.id] ELSE res
  <1>4. s \in ScriptType /\ ScriptKnown(s) /\ s.id \in Int /\ s.id <= Len(lrm)
    BY <1>0, <1>1, <1>2 DEF ScriptType, ScriptKnown
  <1>5. b = "DONE" => Finished
    <2>1. ASSUME s.cmd = "poll", res = "ok" PROVE s.id \in 1..Len(lrm)
      BY <1>0, <1>3, <1>4, <2>1
    <2> QED
      BY <1>3, <2>1 DEF Finished
  <1>6. Finished => Finished'
    <2>1. CASE lrm' = Append(lrm, "PENDING")
      BY <1>0, <2>1, AppendProperties DEF Finished
    <2>2. CASE lrm' = lrm
      BY <2>2 DEF Finished
    <2>3. CASE lrm' = [lrm EXCEPT ![s.id] = "FAILED"] /\ running
      <3>1. DOMAIN lrm' = DOMAIN lrm /\ (\A k \in DOMAIN lrm : k # s.id => lrm'[k] = lrm[k])
            /\ lrm[s.id] # "DONE"
        BY <1>4, <2>3 DEF Ended
      <3>2. Len(lrm') = Len(lrm)
        <4>1. BasicInv'
          BY BasicScriptRuns DEF Scripts
        <4>2. lrm' \in Seq(LrmStates)
          BY <4>1 DEF BasicInv, Types
        <4> QED
          BY <1>0, <3>1, <4>2, LenProperties
      <3> QED
        BY <1>0, <3>1, <3>2 DEF Finished
    <2> QED
      BY <1>3, <2>1, <2>2, <2>3
  <1>7. stagedOut => stagedOut'
    BY <1>3
  <1>8. /\ DOMAIN scripts' = DOMAIN scripts
        /\ \A k \in DOMAIN scripts : k # i => scripts'[k] = scripts[k]
        /\ scripts'[i].res = b /\ scripts'[i].cmd = s.cmd
    BY <1>0, <1>3 DEF ScriptType
  <1>9. scripts' \in Seq(ScriptType) /\ lrm' \in Seq(LrmStates)
    <2>1. BasicInv'
      BY BasicScriptRuns DEF Scripts
    <2> QED
      BY <2>1 DEF BasicInv, Types
  <1>10. Len(scripts') = Len(scripts) /\ DOMAIN lrm' = 1..Len(lrm')
    BY <1>0, <1>8, <1>9, LenProperties
  <1>11. s.cmd = "stage_out" /\ b = "ok" => stagedOut'
    BY <1>3
  <1> HIDE DEF b, running, hopeless, id
  <1>12. ASSUME NEW k \in 1..Len(scripts') PROVE HonestScript(scripts[k])'
    <2>1. HonestScript(scripts[k]) /\ HonestScript(s)
      BY <1>0, <1>1, <1>10 DEF Truth
    <2>2. CASE k = i
      BY <1>5, <1>6, <1>8, <1>11, <2>1, <2>2 DEF HonestScript
    <2>3. CASE k # i
      BY <1>0, <1>6, <1>7, <1>8, <1>10, <2>1, <2>3 DEF HonestScript
    <2> QED
      BY <2>2, <2>3
  <1>13. Undisturbed' <=> Undisturbed
    BY <1>2 DEF Undisturbed
  <1> QED
    BY <1>2, <1>6, <1>7, <1>10, <1>12, <1>13, TruthGrows

LEMMA TruthOrphan ==
    ASSUME BasicInv, Truth, Orphan
    PROVE  Truth'
  <1>1. PICK i \in 1..Len(scripts) :
             /\ scripts[i].cmd = "submit" /\ scripts'[i].cmd = "submit"
             /\ scripts'[i].res \in Fails \cap {"err", "die"}
             /\ \A k \in 1..Len(scripts) : k # i => scripts'[k] = scripts[k]
    BY OrphanIs
  <1>2. /\ Len(scripts') = Len(scripts) /\ Len(lrm) \in Nat /\ Len(lrm') = Len(lrm) + 1
        /\ \A k \in 1..Len(lrm) : lrm'[k] = lrm[k]
        /\ \A k \in {"crash", "cancel", "signal", "stop", "restart", "update"} :
              used'[k] = used[k]
        /\ UNCHANGED <<job, mem, loaded, r, file, held, resumed, told, stagedOut>>
    BY OrphanIs
  <1>3. Finished => Finished'
    BY <1>2 DEF Finished
  <1>4. Undisturbed' <=> Undisturbed
    BY <1>2 DEF Undisturbed
  <1>5. DOMAIN lrm' = 1..Len(lrm')
    <2>1. lrm' \in Seq(LrmStates)
      BY BasicOrphan DEF BasicInv, Types
    <2> QED
      BY <2>1, LenProperties
  <1>6. ASSUME NEW k \in 1..Len(scripts') PROVE HonestScript(scripts[k])'
    <2>1. HonestScript(scripts[k])
      BY <1>2 DEF Truth
    <2>2. CASE k = i
      BY <1>1, <2>2 DEF HonestScript
    <2>3. CASE k # i
      BY <1>1, <1>2, <1>3, <2>1, <2>3 DEF HonestScript
    <2> QED
      BY <2>2, <2>3
  <1> QED
    BY <1>2, <1>3, <1>4, <1>5, <1>6, TruthGrows

LEMMA TruthClient ==
    ASSUME BasicInv, Faithful', Truth, Client
    PROVE  Truth'
  <1> USE DEF place, mgr, env, ghosts
  <1> DEFINE q == Referenced
  <1>1. job \in Jobs /\ used \in [DOMAIN Max -> Nat] /\ (~Finished => NoNews(held) /\ NoNews(resumed))
    BY DEF BasicInv, Types, Truth
  <1>2. TakeReference => q \in RequestType /\ Honest(q)
    BY ReferencedIs, HonestReferenced DEF FitRequest
  <1>3. Undisturbed' => Undisturbed
    <2>1. Next
      BY DEF Next
    <2> QED
      BY <2>1, UndisturbedBefore
  <1>4. ASSUME NEW p, Apply(p), UNCHANGED file, Honest(p), used'["crash"] = used["crash"]
        PROVE  Truth'
    <2>1. TakeReference /\ r' = p /\ UNCHANGED <<job, lrm, stagedOut, told, scripts, held, resumed>>
      BY <1>4 DEF Apply
    <2> QED
      BY <1>1, <1>3, <1>4, <2>1, TruthReference
  <1>5. ASSUME NEW what \in {"cancel", "signal", "extend", "unregister"}, Spend(what)
        PROVE  used'["crash"] = used["crash"]
    <2>1. "crash" \in DOMAIN Max
      BY MaxAssumption DEF BoundType
    <2> QED
      BY <1>1, <1>5, <2>1, SpendIs
  <1>6. CASE CommitRequest
    <2> DEFINE p == [q EXCEPT !.jm = "TWO_PHASE_COMMITTED", !.timer = TRUE]
    <2>1. /\ Apply(p) /\ TakeReference /\ UNCHANGED <<file, used>>
          /\ q.jm \in {"START", "TWO_PHASE", "TWO_PHASE_QUERY1", "TWO_PHASE_QUERY2"}
      BY <1>6 DEF CommitRequest, Apply
    <2>2. /\ p.jm = "TWO_PHASE_COMMITTED" /\ p.todoOut = q.todoOut /\ p.status = q.status
          /\ p.failure = q.failure /\ p.restart = q.restart /\ p.events = q.events
          /\ p.jmRestart = q.jmRestart
      BY <1>2, <2>1 DEF RequestType
    <2> HIDE DEF p, q
    <2>3. Honest(p)
      BY <1>2, <2>1, <2>2 DEF Honest, Humble, Ending, Early
    <2> QED
      BY <1>4, <2>1, <2>3
  <1>7. ASSUME NEW c \in RequestType, Honest(c),
               c.jm \in {"TWO_PHASE_END", "FAILED_TWO_PHASE", "STOP"}
        PROVE  Honest(EndCommitted(c))
    <2> DEFINE p == EndCommitted(c)
    <2>1. /\ p.jm \in {"TWO_PHASE_END_COMMITTED", "FAILED_TWO_PHASE_COMMITTED"}
          /\ p.todoOut = c.todoOut /\ p.status = c.status /\ p.failure = c.failure
          /\ p.restart = c.restart /\ p.events = c.events /\ p.jmRestart = c.jmRestart
      BY <1>7 DEF EndCommitted, RequestType
    <2> HIDE DEF p
    <2>2. Honest(p)
      BY <1>7, <2>1 DEF Honest, Humble, Ending, Early
    <2> QED
      BY <2>2 DEF p
  <1>8. CASE CommitEnd
    <2>1. /\ Apply(EndCommitted(q)) /\ TakeReference /\ UNCHANGED <<file, used>>
          /\ q.jm \in {"TWO_PHASE_END", "FAILED_TWO_PHASE", "STOP"}
      BY <1>8 DEF CommitEnd, Apply
    <2> HIDE DEF q
    <2> QED
      BY <1>2, <1>4, <1>7, <2>1
  <1>9. CASE CommitExtend
    <2> DEFINE p == [q EXCEPT !.extend = TRUE]
    <2>1. Apply(p) /\ TakeReference /\ UNCHANGED file /\ Spend("extend")
      BY <1>9 DEF CommitExtend, Apply
    <2>2. Alike(p, q)
      BY <1>2, <2>1 DEF Alike, RequestType
    <2> HIDE DEF p, q
    <2> QED
      BY <1>2, <1>4, <1>5, <2>1, <2>2, HonestAlike
  <1>10. ASSUME TakeReference, NEW query, NEW wakes, DOMAIN wakes \subseteq {"POLL2", "TWO_PHASE"},
                wakes["POLL2"] = "POLL_QUERY1", wakes["TWO_PHASE"] = "TWO_PHASE_QUERY1"
                                                \/ "TWO_PHASE" \notin DOMAIN wakes
        PROVE  Honest(Queued(q, query, wakes))
    <2> DEFINE p == Queued(q, query, wakes)
               a == Append(q.queries, query)
               j == IF q.jm \in DOMAIN wakes THEN wakes[q.jm] ELSE q.jm
               t == q.timer \/ q.jm \in DOMAIN wakes
    <2>1. \/ j = q.jm \/ j = "POLL_QUERY1"
          \/ q.jm = "TWO_PHASE" /\ j = "TWO_PHASE_QUERY1"
      BY <1>10
    <2>2. p = [q EXCEPT !.queries = a, !.jm = j, !.timer = t]
      BY <1>2, <1>10 DEF Queued, RequestType
    <2> HIDE DEF a, j, t, q
    <2>3. /\ p.jm = j /\ p.todoOut = q.todoOut /\ p.status = q.status
          /\ p.failure = q.failure /\ p.restart = q.restart /\ p.events = q.events
          /\ p.jmRestart = q.jmRestart
      BY <1>2, <1>10, <2>2 DEF RequestType
    <2> HIDE DEF p
    <2>4. Honest(p)
      BY <1>2, <1>10, <2>1, <2>3 DEF Honest, Humble, Ending, Early
    <2> QED
      BY <2>4 DEF p
  <1>11. CASE Cancel
    <2> DEFINE w == [POLL2 |-> "POLL_QUERY1"]
               u == q.unsent \/ q.jm # "START"
               a == Queued(q, "cancel", w)
               b == [q EXCEPT !.jm = "FAILED", !.status = "FAILED",
                              !.failure = "USER_CANCELLED", !.unsent = u]
    <2>1. TakeReference /\ UNCHANGED file /\ Spend("cancel") /\ (Apply(a) \/ Apply(b))
      BY <1>11 DEF Cancel, Apply
    <2>2. Honest(a)
      <3>1. DOMAIN w = {"POLL2"} /\ w["POLL2"] = "POLL_QUERY1"
        OBVIOUS
      <3> HIDE DEF w
      <3> QED
        BY <1>10, <2>1, <3>1
    <2>3. Honest(b)
      <3>1. /\ b.jm = "FAILED" /\ b.todoOut = q.todoOut /\ b.status = "FAILED"
            /\ b.failure = "USER_CANCELLED" /\ b.restart = q.restart /\ b.events = q.events
        BY <1>2, <2>1 DEF RequestType
      <3> HIDE DEF b, q
      <3> QED
        BY <1>2, <2>1, <3>1 DEF Honest, Humble, Ending, Early, Over
    <2> HIDE DEF a, b, q
    <2> QED
      BY <1>4, <1>5, <2>1, <2>2, <2>3
  <1>12. CASE Signal
    <2> DEFINE w == [POLL2 |-> "POLL_QUERY1", TWO_PHASE |-> "TWO_PHASE_QUERY1"]
               p == Queued(q, "signal", w)
    <2>1. Apply(p) /\ TakeReference /\ UNCHANGED file /\ Spend("signal")
      BY <1>12 DEF Signal, Apply
    <2>2. Honest(p)
      <3>1. /\ DOMAIN w = {"POLL2", "TWO_PHASE"} /\ w["POLL2"] = "POLL_QUERY1"
            /\ w["TWO_PHASE"] = "TWO_PHASE_QUERY1"
        OBVIOUS
      <3> HIDE DEF w
      <3> QED
        BY <1>10, <2>1, <3>1
    <2> HIDE DEF p
    <2> QED
      BY <1>4, <1>5, <2>1, <2>2
  <1>13. CASE Unregister
    <2> DEFINE c == [q EXCEPT !.contact = FALSE]
               p == IF c.jm = "TWO_PHASE_END" /\ job.twoPhase THEN EndCommitted(c) ELSE c
    <2>1. Apply(p) /\ TakeReference /\ UNCHANGED file /\ Spend("unregister")
      BY <1>13 DEF Unregister, Apply
    <2>2. c \in RequestType /\ Alike(c, q)
      BY <1>2, <2>1 DEF Alike, RequestType
    <2> HIDE DEF c, q
    <2>3. Honest(c)
      BY <1>2, <2>1, <2>2, HonestAlike
    <2>4. Honest(p)
      <3>1. CASE c.jm = "TWO_PHASE_END" /\ job.twoPhase
        BY <1>7, <2>2, <2>3, <3>1
      <3>2. CASE ~(c.jm = "TWO_PHASE_END" /\ job.twoPhase)
        BY <2>3, <3>2
      <3> QED
        BY <3>1, <3>2
    <2> HIDE DEF p
    <2> QED
      BY <1>4, <1>5, <2>1, <2>4
  <1>14. ~(StopManager \/ StdioUpdate \/ ClientRestart)
    <2>1. ASSUME NEW what \in {"stop", "update", "restart"}, Spend(what) PROVE FALSE
      <3>1. used[what] \in Nat
        BY <1>1, MaxAssumption DEF BoundType
      <3>2. used'[what] = used[what] + 1
        BY <1>1, <2>1, SpendIs
      <3>3. used'[what] = 0
        BY DEF Faithful
      <3> QED
        BY <3>1, <3>2, <3>3
    <2> QED
      BY <2>1 DEF StopManager, StdioUpdate, ClientRestart
  <1> QED
    BY <1>6, <1>8, <1>9, <1>11, <1>12, <1>13, <1>14 DEF Client

LEMMA TruthCrash ==
    ASSUME BasicInv, Faithful', Truth, Crash
    PROVE  Truth'
  <1> USE DEF place, mgr, env, ghosts
  <1>1. /\ scripts' = <<>> /\ held' = <<>> /\ resumed' = <<>> /\ r' = NewRequest
        /\ UNCHANGED <<job, file, lrm, told, stagedOut>> /\ Spend("crash")
    BY DEF Crash
  <1>2. used'["crash"] # 0
    <2>1. used \in [DOMAIN Max -> Nat] /\ used["crash"] \in Nat
      BY MaxAssumption DEF BasicInv, Types, BoundType
    <2>2. used'["crash"] = used["crash"] + 1
      BY <1>1, <2>1, SpendIs
    <2> QED
      BY <2>1, <2>2
  <1>3. /\ r'.jm = "START" /\ r'.restart = "START" /\ r'.status = "UNSUBMITTED"
        /\ r'.failure = "none" /\ r'.events = <<>> /\ r'.todoOut = job.stageOut
    BY <1>1, NewRequestType DEF BasicInv, Types
  <1>4. Undisturbed' => Undisturbed
    <2>1. Next
      BY DEF Next
    <2> QED
      BY <2>1, UndisturbedBefore
  <1>5. Finished' <=> Finished
    BY <1>1 DEF Finished
  <1>6. Honest(r)'
    BY <1>1, <1>2, <1>3 DEF Honest, Humble, Modest, NoNews, Ending, Over
  <1>7. HonestFile(file)'
    BY <1>1, <1>4, <1>5 DEF Truth, HonestFile, Modest
  <1>8. DoneMeansDone'
    BY <1>1 DEF Truth, DoneMeansDone
  <1>9. NoNews(held)' /\ NoNews(resumed)'
    BY <1>1 DEF NoNews
  <1> QED
    BY <1>1, <1>2, <1>6, <1>7, <1>8, <1>9 DEF Truth

LEMMA TruthNext == BasicInv /\ SoloInv /\ TruthInv /\ [Next]_vars => TruthInv'
  <1> SUFFICES ASSUME BasicInv, SoloInv, TruthInv, [Next]_vars, Faithful' PROVE Truth'
    BY DEF TruthInv
  <1> USE DEF place, mgr, env, ghosts
  <1>0. Faithful /\ Truth
    BY FaithfulBefore DEF TruthInv
  <1>1. CASE Step
    <2>1. TruthGoal
      BY <1>0, <1>1, TruthEarlySteps, TruthLateSteps, TruthDone DEF Step
    <2>2. UNCHANGED <<job, lrm, stagedOut, used>>
      BY <1>1 DEF Step, StepStart, StepTwoPhase, StepRestart, StepTwoPhaseCommitted,
         StepStageInFailed, StepSubmitting, StepSubmit, StepPoll1, StepPoll2, StepQuery1,
         StepQuery2, StepClosing, StepCloseOutput, StepFinalStatus, StepTwoPhaseEnd,
         StepCleanUp, StepCacheCleanUp, StepStop, StepDone
    <2>3. Undisturbed' => Undisturbed
      BY <2>2 DEF Undisturbed
    <2> QED
      BY <1>0, <2>1, <2>2, <2>3, TruthStep
  <1>2. CASE TimerFires \/ CallbackReply \/ SegResume \/ ProcessPendingRestart
             \/ Events \/ SwapOut
    BY <1>0, <1>2, TruthEvents
  <1>3. CASE Scripts
    BY <1>0, <1>3, TruthScripts
  <1>4. CASE Lrm
    BY <1>0, <1>4, TruthLrm
  <1>5. CASE Client
    BY <1>0, <1>5, TruthClient
  <1>6. CASE Crash
    BY <1>0, <1>6, TruthCrash
  <1>7. CASE UNCHANGED vars
    <2>1. TruthGoal
      BY <1>0, <1>7 DEF vars, TruthGoal, Truth
    <2> QED
      BY <1>0, <1>7, <2>1, TruthStep DEF vars, Undisturbed
  <1>8. CASE Orphan \/ ExpireOldJob
    BY <1>0, <1>8, TruthOrphan, TruthExpire
  <1> QED
    BY <1>1, <1>2, <1>3, <1>4, <1>5, <1>6, <1>7, <1>8 DEF Next, Manager

\* The client is told DONE only of a job that the LRM finished and whose files were staged
\* out, whatever scripts report, whenever events come and however the client cancels,
\* signals, extends or unregisters, as long as it does not stop, restart or update the
\* job.  Crashes are covered too, but not those of a job that was signalled before its
\* commit: there set_restart_state reads the clean-up of a failed job from the state file
\* and reports it as done.
THEOREM DoneIsDone == Spec => [](Faithful => DoneMeansDone)
  <1>1. TruthInv => (Faithful => DoneMeansDone)
    BY DEF TruthInv, Truth
  <1> QED
    BY <1>1, BasicInit, BasicNext, SoloInit, SoloNext, TruthInit, TruthNext, PTL DEF Spec

\* The same of a client that leaves its job alone: however often the job manager crashes
\* and at whatever step, a restarted one (set_restart_state) reports DONE only when the
\* job is done and its output is where the client asked for it.
THEOREM DoneAfterCrashes == Spec => []RecoveredMeansDone
  <1>1. Undisturbed => Faithful
    BY DEF Undisturbed, Faithful
  <1>2. TruthInv => RecoveredMeansDone
    BY <1>1 DEF TruthInv, Truth, RecoveredMeansDone
  <1> QED
    BY <1>2, BasicInit, BasicNext, SoloInit, SoloNext, TruthInit, TruthNext, PTL DEF Spec

-----------------------------------------------------------------------------
(* FAILED means that nothing runs, and a running job has its state file *)

\* An LRM job runs, or a submit script may still start one.
Running == \E i \in 1..Len(lrm) : ~Ended(lrm[i])
AtWork == Running \/ \E i \in 1..Len(scripts) : scripts[i].cmd = "submit"
\* There is no way back to the submission.
Gone == lrm # <<>> \/ told = "FAILED"

\* No event reports an end before there is one.
Unended == \A i \in 1..Len(lrm) : ~Ended(lrm[i])
NoEnd(es) == \A k \in 1..Len(es) : es[k].state = "ACTIVE"
EventsInv == Unended => NoEnd(r.events) /\ NoEnd(held) /\ NoEnd(resumed)

\* While a job is at work the request, and the state file, keep an eye on it.
Bad == {"FAILED"} \cup Over
Watching(q) ==
    /\ q.status \notin Bad
    /\ q.jm \in Poll \cup {"SUBMIT", "TWO_PHASE_COMMITTED"}
    /\ q.jm = "TWO_PHASE_COMMITTED" => q.jmRestart /\ q.restart = "SUBMIT"
    /\ Running /\ q.jm \in Poll => q.id = Len(lrm)
    /\ Running /\ q.jm = "SUBMIT" /\ scripts = <<>> => q.id = Len(lrm)
WatchingFile(f) ==
    /\ f # NoFile /\ f.state \in Poll \cup {"SUBMIT"} /\ f.status \notin Bad
    /\ Running /\ f.state \in Poll => f.id = Len(lrm)

\* The state a request is in while script s is at work, and what the script knows.
Suits(s, jm) ==
    /\ s.cmd = "stage_in" => jm \in {"STAGE_IN", "FAILED"}
    /\ s.cmd \in {"cancel", "signal"} => jm = "POLL_QUERY2"
    /\ s.cmd = "stage_out" => jm = "STAGE_OUT"
    /\ s.cmd = "submit" =>
          jm = "SUBMIT" /\ IF s.res = "ok" THEN s.id = Len(lrm) /\ lrm # <<>> ELSE lrm = <<>>
    /\ s.cmd # "poll"
    /\ s.cmd = "cancel" /\ Running => s.res # "ok" /\ (s.res = "none" => s.id = Len(lrm))

\* A job that failed before it was submitted is not submitted after a restart.
Past(q) == q.jm \notin Early \cup {"STAGE_IN"}
Doomed(q) == Clear(q) /\ (q.jm = "TWO_PHASE_COMMITTED" => q.restart # "SUBMIT")
DoomedFile(f) == f # NoFile => f.state \in After \ {"SUBMIT"}

Fits(q) ==
    /\ used["crash"] = 0 /\ Gone => Past(q)
    /\ AtWork => Watching(q)
    /\ told = "FAILED" /\ lrm = <<>> => Doomed(q)
Watch ==
    /\ Len(lrm) <= 1
    /\ mem = "live" => Fits(r)
    /\ \A i \in 1..Len(scripts) : Suits(scripts[i], r.jm)
    /\ AtWork => told # "FAILED" /\ WatchingFile(file)
    /\ told = "FAILED" \/ (r.jm = "FAILED_CLOSE_OUTPUT" /\ r.unsent) =>
          (lrm = <<>> => DoomedFile(file))

WatchInv == EventsInv /\ (Trusted => Watch)

LEMMA WatchInit == Init => WatchInv
  <1> SUFFICES ASSUME Init PROVE WatchInv
    OBVIOUS
  <1>1. /\ r.jm = "START" /\ r.events = <<>> /\ scripts = <<>> /\ held = <<>> /\ resumed = <<>>
        /\ lrm = <<>> /\ told = "none" /\ Len(lrm) = 0
    BY NewRequestType DEF Init
  <1>2. ~AtWork /\ ~Gone
    BY <1>1 DEF AtWork, Running, Gone
  <1> QED
    BY <1>1, <1>2 DEF WatchInv, EventsInv, NoEnd, Watch, Fits

-----------------------------------------------------------------------------
(* Events *)

LEMMA NoEndConcat ==
    ASSUME NEW a \in Seq(EventType), NEW b \in Seq(EventType), NoEnd(a), NoEnd(b)
    PROVE  NoEnd(a \o b)
  <1>1. /\ Len(a \o b) = Len(a) + Len(b) /\ Len(a) \in Nat /\ Len(b) \in Nat
        /\ \A k \in 1..(Len(a) + Len(b)) :
              (a \o b)[k] = IF k <= Len(a) THEN a[k] ELSE b[k - Len(a)]
    BY ConcatProperties, LenProperties
  <1> QED
    BY <1>1 DEF NoEnd

LEMMA NoEndTail ==
    ASSUME NEW a \in Seq(EventType), a # <<>>, NoEnd(a)
    PROVE  NoEnd(Tail(a)) /\ Head(a).state = "ACTIVE"
  <1>1. /\ Len(Tail(a)) = Len(a) - 1 /\ Len(a) \in Nat \ {0} /\ Head(a) = a[1]
        /\ \A k \in 1..Len(Tail(a)) : Tail(a)[k] = a[k + 1]
    BY HeadTailProperties, EmptySeq, LenProperties
  <1> QED
    BY <1>1 DEF NoEnd

\* The state machine handles the events of a request in their order, or forgets them.
LEMMA EventsStep ==
    ASSUME BasicInv, Step
    PROVE  /\ r'.events = r.events \/ r'.events = <<>>
              \/ (r.events # <<>> /\ r'.events = Tail(r.events))
           /\ \/ held' = <<>> /\ resumed' = resumed \o held
              \/ UNCHANGED <<held, resumed>>
           /\ UNCHANGED lrm
  <1> USE DEF place, mgr, env, ghosts
  <1>0. r \in RequestType /\ job \in Jobs /\ posts \in Nat /\ told \in Statuses \cup {"none"}
        /\ lrm \in Seq(LrmStates)
    BY DEF BasicInv, Types
  <1>1. CASE StepStart \/ StepTwoPhase \/ StepStageInFailed \/ StepSubmitting \/ StepPoll2
             \/ StepQuery1 \/ StepCloseOutput \/ StepCacheCleanUp \/ StepStop
    BY <1>0, <1>1 DEF StepStart, StepTwoPhase, StepStageInFailed, StepSubmitting, StepPoll2,
       StepQuery1, StepCloseOutput, StepCacheCleanUp, StepStop, TimedOut, RequestType
  <1>2. CASE StepRestart
    BY <1>0, <1>2, RestartKeeps DEF StepRestart
  <1>3. CASE StepTwoPhaseCommitted
    <2> DEFINE q == IF r.jmRestart THEN RestartState ELSE r
    <2>1. q \in RequestType /\ q.events = r.events
      BY <1>0, RestartKeeps
    <2>2. /\ \/ r' = [q EXCEPT !.jm = "STAGE_IN", !.status = "STAGE_IN"]
             \/ r' = [q EXCEPT !.jm = "STAGE_IN"]
          /\ UNCHANGED <<lrm, held, resumed>>
      BY <1>3 DEF StepTwoPhaseCommitted
    <2> HIDE DEF q
    <2> QED
      BY <2>1, <2>2 DEF RequestType
  <1>4. CASE StepSubmit
    <2> DEFINE q == IF r.id = NoId
             THEN [r EXCEPT !.status = "FAILED", !.unsent = TRUE,
                            !.failure = IF @ = "none" THEN "SUBMIT" ELSE @]
             ELSE r
    <2>1. r' = [q EXCEPT !.jm = "POLL1", !.restart = "POLL1"] /\ Resume /\ UNCHANGED lrm
      BY <1>4 DEF StepSubmit
    <2>2. q \in RequestType /\ q.events = r.events
      BY <1>0, Names DEF RequestType
    <2> HIDE DEF q
    <2>3. r'.events = r.events
      BY <2>1, <2>2 DEF RequestType
    <2> QED
      BY <2>1, <2>3 DEF Resume
  <1>5. CASE StepPoll1
    <2>1. Types
      BY DEF BasicInv
    <2>2. PICK q \in RequestType, w \in RequestType,
               j \in {"FAILED", "PRE_CLOSE_OUTPUT", "POLL_QUERY1", "POLL1", "POLL2"},
               u \in BOOLEAN, t \in BOOLEAN :
             /\ r.events = <<>> => q = r
             /\ r.events # <<>> => q = Handled(r)
             /\ w = q \/ w = [q EXCEPT !.restart = "POLL1"]
             /\ file' = file \/ (file' = Written(w) /\ w = [q EXCEPT !.restart = "POLL1"])
             /\ r' = [w EXCEPT !.jm = j, !.unsent = u, !.timer = t]
             /\ told' = told \/ (Notify(w) /\ w.status \notin {"FAILED", "DONE", "STAGE_OUT"})
             /\ run' \in {"idle", "loop"}
             /\ j = "FAILED" => w.status = "FAILED"
             /\ j = "PRE_CLOSE_OUTPUT" => w.status \in {"DONE", "STAGE_OUT"}
             /\ j = "POLL_QUERY1" => w.queries # <<>> /\ run' = "loop"
             /\ t => w.timer \/ (run' = "idle" /\ j = "POLL2")
      BY <1>5, <2>1, Poll1Is
    <2>3. r.events # <<>> => q.events = Tail(r.events)
      BY <1>0, <2>2, HandledKeeps
    <2>4. r'.events = q.events
      BY <2>2 DEF RequestType
    <2> QED
      BY <1>5, <2>2, <2>3, <2>4 DEF StepPoll1
  <1>6. CASE StepQuery2
    <2> DEFINE q == [r EXCEPT !.queries = Tail(@)]
    <2>1. \/ \E j, b : r' = [q EXCEPT !.jm = j, !.timer = b]
          \/ \E j : r' = [q EXCEPT !.jm = j]
      BY <1>6 DEF StepQuery2
    <2>2. q.events = r.events /\ "events" \in DOMAIN q
      BY <1>0 DEF RequestType
    <2> HIDE DEF q
    <2>3. r'.events = r.events
      BY <2>1, <2>2
    <2> QED
      BY <1>6, <2>3 DEF StepQuery2
  <1>7. CASE StepClosing
    <2> DEFINE w == IF r.unsent THEN [r EXCEPT !.restart = r.jm] ELSE r
    <2>1. /\ \E u : r' = [w EXCEPT !.unsent = u, !.queries = <<>>,
                            !.jm = IF w.jm = "FAILED" THEN "FAILED_CLOSE_OUTPUT" ELSE "CLOSE_OUTPUT"]
          /\ UNCHANGED <<lrm, held, resumed>>
      BY <1>7 DEF StepClosing
    <2>2. w.events = r.events /\ "events" \in DOMAIN w
      BY <1>0 DEF RequestType
    <2> HIDE DEF w
    <2> QED
      BY <2>1, <2>2
  <1>8. CASE StepFinalStatus
    <2>1. PICK s \in {"FAILED", "DONE"}, f \in Failures, t \in BOOLEAN :
             LET j == IF s = "FAILED" THEN "FAILED_TWO_PHASE" ELSE "TWO_PHASE_END" IN
             /\ r' = [r EXCEPT !.unsent = FALSE, !.jm = j, !.status = s, !.failure = f,
                               !.timer = t]
             /\ s = "DONE" => r.jm = "STAGE_OUT" /\ ~r.todoOut
      BY <1>0, <1>8, FinalStatusIs
    <2>2. r'.events = r.events
      BY <1>0, <2>1 DEF RequestType
    <2> QED
      BY <1>8, <2>2 DEF StepFinalStatus
  <1>9. CASE StepTwoPhaseEnd
    <2>1. \/ r' = [r EXCEPT !.extend = FALSE, !.timer = TRUE]
          \/ \E j : r' = [r EXCEPT !.jm = j]
          \/ r' = [r EXCEPT !.restart = r.jm, !.jm = "STOP", !.overdue = TRUE]
      BY <1>9, Zenon DEF StepTwoPhaseEnd
    <2>2. r'.events = r.events
      BY <1>0, <2>1 DEF RequestType
    <2> QED
      BY <1>9, <2>2 DEF StepTwoPhaseEnd
  <1>10. CASE StepCleanUp
    <2>1. \E j : r' = [r EXCEPT !.jm = j]
      BY <1>10 DEF StepCleanUp
    <2>2. r'.events = r.events
      BY <1>0, <2>1 DEF RequestType
    <2> QED
      BY <1>10, <2>2 DEF StepCleanUp
  <1>11. CASE StepDone
    <2>1. \/ r' = [r EXCEPT !.queries = <<>>, !.events = <<>>, !.restart = r.jm]
          \/ r' = NewRequest
      BY <1>11 DEF StepDone
    <2>2. r'.events = <<>>
      BY <1>0, <2>1, NewRequestType DEF RequestType
    <2> QED
      BY <1>11, <2>2 DEF StepDone
  <1> QED
    BY <1>1, <1>2, <1>3, <1>4, <1>5, <1>6, <1>7, <1>8, <1>9, <1>10, <1>11 DEF Step

\* The events of the request a reference finds; the client adds none.
LEMMA EventsReferenced ==
    ASSUME BasicInv, TakeReference
    PROVE  /\ Referenced \in RequestType
           /\ Referenced.events = r.events \/ Referenced.events = <<>>
  <1>1. /\ FitRequest(Referenced) /\ mem \in {"live", "stub"}
        /\ mem = "live" => Referenced = r
        /\ mem = "stub" => Referenced = Reloaded /\ file \in FileType
    BY ReferencedIs
  <1>2. CASE mem = "stub"
    <2>1. job \in Jobs /\ pending \in BOOLEAN /\ loaded \in BOOLEAN
      BY DEF BasicInv, Types
    <2> QED
      BY <1>1, <1>2, <2>1, ReloadedType DEF FitRequest
  <1> QED
    BY <1>1, <1>2 DEF FitRequest

LEMMA EventsClient ==
    ASSUME BasicInv, Client
    PROVE  /\ r'.events = r.events \/ r'.events = <<>>
           /\ UNCHANGED <<lrm, held, resumed>>
  <1> USE DEF env
  <1> DEFINE q == Referenced
  <1>1. PICK p : Apply(p) /\ (q \in RequestType => p.events = q.events)
    <2>1. ASSUME NEW query, NEW wakes, q \in RequestType
          PROVE  Queued(q, query, wakes).events = q.events
      <3> HIDE DEF q
      <3> QED
        BY <2>1 DEF Queued, RequestType
    <2>2. ASSUME NEW c \in RequestType PROVE EndCommitted(c).events = c.events
      BY DEF EndCommitted, RequestType
    <2>3. ASSUME q \in RequestType PROVE Restaged(q).events = q.events /\ Restaged(q) \in RequestType
      <3>1. job \in Jobs
        BY DEF BasicInv, Types
      <3>2. Restaged(q) \in RequestType
        BY <2>3, <3>1, RestagedIs
      <3> HIDE DEF q
      <3> QED
        BY <2>3, <3>2 DEF Restaged, RequestType
    <2>4. CASE CommitRequest
      <3> DEFINE p == [q EXCEPT !.jm = "TWO_PHASE_COMMITTED", !.timer = TRUE]
      <3>1. Apply(p)
        BY <2>4 DEF CommitRequest
      <3>2. q \in RequestType => p.events = q.events
        BY DEF RequestType
      <3> HIDE DEF p, q
      <3> QED
        BY <3>1, <3>2
    <2>5. CASE CommitEnd
      BY <2>2, <2>5 DEF CommitEnd
    <2>6. CASE CommitExtend
      BY <2>6 DEF CommitExtend, RequestType
    <2>7. CASE Cancel
      <3> DEFINE u == q.unsent \/ q.jm # "START"
                 a == Queued(q, "cancel", [POLL2 |-> "POLL_QUERY1"])
                 b == [q EXCEPT !.jm = "FAILED", !.status = "FAILED",
                                !.failure = "USER_CANCELLED", !.unsent = u]
      <3>1. Apply(a) \/ Apply(b)
        BY <2>7 DEF Cancel
      <3>2. q \in RequestType => a.events = q.events /\ b.events = q.events
        <4>1. q \in RequestType => b.events = q.events
          BY DEF RequestType
        <4> QED
          BY <2>1, <4>1
      <3> HIDE DEF a, b, q
      <3> QED
        BY <3>1, <3>2
    <2>8. CASE Signal
      BY <2>1, <2>8 DEF Signal
    <2>9. CASE Unregister
      <3> DEFINE c == [q EXCEPT !.contact = FALSE]
      <3>1. Apply(IF c.jm = "TWO_PHASE_END" /\ job.twoPhase THEN EndCommitted(c) ELSE c)
        BY <2>9 DEF Unregister
      <3>2. q \in RequestType => c \in RequestType /\ c.events = q.events
        BY DEF RequestType
      <3> HIDE DEF c, q
      <3> QED
        BY <2>2, <3>1, <3>2
    <2>10. CASE StopManager
      <3> DEFINE c == IF q.jm = "STOP" THEN q.restart ELSE q.jm
                 t == q.timer \/ q.jm = "POLL2"
                 p == [q EXCEPT !.jm = "STOP", !.unsent = TRUE, !.overdue = FALSE, !.restart = c, !.timer = t]
      <3>1. q \in RequestType => p.events = q.events
        BY DEF RequestType
      <3>2. q \in RequestType => Apply(p)
        BY <2>10 DEF StopManager, RequestType
      <3>3. TakeReference
        BY <2>10 DEF StopManager, Apply
      <3>4. q \in RequestType
        BY <3>3, EventsReferenced
      <3> HIDE DEF p, q
      <3> QED
        BY <3>1, <3>2, <3>4
    <2>11. CASE StdioUpdate
      BY <2>3, <2>11 DEF StdioUpdate
    <2>12. CASE ClientRestart
      <3> DEFINE c == Restaged(q)
      <3>1. Apply(IF c.jm = "STOP"
             THEN [c EXCEPT !.contact = job.contact, !.jm = "START", !.jmRestart = TRUE,
                            !.unsent = TRUE, !.timer = TRUE]
             ELSE IF c.jm \in {"TWO_PHASE_END", "FAILED_TWO_PHASE"}
             THEN [c EXCEPT !.contact = job.contact, !.jm = "START", !.jmRestart = TRUE]
             ELSE [c EXCEPT !.contact = job.contact])
        BY <2>12 DEF ClientRestart
      <3>2. q \in RequestType => c \in RequestType /\ c.events = q.events
        BY <2>3
      <3> HIDE DEF c, q
      <3> DEFINE a == [c EXCEPT !.contact = job.contact, !.jm = "START", !.jmRestart = TRUE,
                                !.unsent = TRUE, !.timer = TRUE]
                 b == [c EXCEPT !.contact = job.contact, !.jm = "START", !.jmRestart = TRUE]
                 d == [c EXCEPT !.contact = job.contact]
      <3>3. Apply(a) \/ Apply(b) \/ Apply(d)
        BY <3>1
      <3>4. q \in RequestType => a.events = q.events /\ b.events = q.events /\ d.events = q.events
        BY <3>2 DEF RequestType
      <3> HIDE DEF a, b, d
      <3> QED
        BY <3>3, <3>4
    <2> QED
      BY <2>4, <2>5, <2>6, <2>7, <2>8, <2>9, <2>10, <2>11, <2>12 DEF Client
  <1>2. TakeReference /\ r' = p /\ UNCHANGED <<lrm, held, resumed>>
    BY <1>1 DEF Apply
  <1>3. q \in RequestType /\ (q.events = r.events \/ q.events = <<>>)
    BY <1>2, EventsReferenced
  <1> QED
    BY <1>1, <1>2, <1>3

LEMMA EventsNext == BasicInv /\ EventsInv /\ [Next]_vars => EventsInv'
  <1> SUFFICES ASSUME BasicInv, EventsInv, [Next]_vars PROVE EventsInv'
    OBVIOUS
  <1> USE DEF place, mgr, env, ghosts
  <1>0. /\ r \in RequestType /\ job \in Jobs /\ held \in Seq(EventType) /\ resumed \in Seq(EventType)
        /\ r.events \in Seq(EventType) /\ lrm \in Seq(LrmStates) /\ Len(lrm) \in Nat
        /\ DOMAIN lrm = 1..Len(lrm) /\ DOMAIN resumed = 1..Len(resumed)
    <2>1. /\ r \in RequestType /\ job \in Jobs /\ held \in Seq(EventType)
          /\ resumed \in Seq(EventType) /\ lrm \in Seq(LrmStates)
      BY DEF BasicInv, Types
    <2> QED
      BY <2>1, LenProperties DEF RequestType, EventQueue
  <1>1. NoEnd(<<>>)
    BY DEF NoEnd
  <1>2. ASSUME r'.events = r.events \/ r'.events = <<>>
                  \/ (r.events # <<>> /\ r'.events = Tail(r.events)),
               \/ held' = <<>> /\ resumed' = resumed \o held
               \/ UNCHANGED <<held, resumed>>
               \/ held' = <<>> /\ resumed' = <<>>,
               Unended' => Unended
        PROVE  EventsInv'
    <2>1. Unended => NoEnd(r'.events)
      BY <1>0, <1>1, <1>2, NoEndTail DEF EventsInv
    <2>2. Unended => NoEnd(held') /\ NoEnd(resumed')
      BY <1>0, <1>1, <1>2, NoEndConcat DEF EventsInv
    <2> QED
      BY <1>2, <2>1, <2>2 DEF EventsInv, NoEnd
  <1>3. UNCHANGED lrm => (Unended' <=> Unended)
    BY DEF Unended
  <1>4. CASE Step
    BY <1>2, <1>3, <1>4, EventsStep
  <1>5. CASE TimerFires \/ CallbackReply
    <2>1. r'.events = r.events
      BY <1>0, <1>5 DEF TimerFires, CallbackReply, RequestType
    <2> QED
      BY <1>2, <1>3, <1>5, <2>1 DEF TimerFires, CallbackReply
  <1>6. CASE ProcessPendingRestart
    <2>1. TakeReference /\ r' = Referenced /\ UNCHANGED <<lrm, held, resumed>>
      BY <1>6 DEF ProcessPendingRestart
    <2> QED
      BY <1>2, <1>3, <2>1, EventsReferenced
  <1>7. CASE SwapOut \/ Crash
    <2>1. r' = NewRequest /\ UNCHANGED lrm
          /\ (UNCHANGED <<held, resumed>> \/ (held' = <<>> /\ resumed' = <<>>))
      BY <1>7 DEF SwapOut, Crash
    <2>2. r'.events = <<>>
      BY <1>0, <2>1, NewRequestType
    <2> QED
      BY <1>2, <1>3, <2>1, <2>2
  <1>8. CASE Client
    BY <1>2, <1>3, <1>8, EventsClient
  <1>9. ASSUME TakeReference, NEW es \in Seq(EventType), r' = Delivered(Referenced, es),
               Unended => NoEnd(es), UNCHANGED lrm, Unended => NoEnd(held') /\ NoEnd(resumed')
        PROVE  EventsInv'
    <2> DEFINE q == Referenced
    <2>1. q \in RequestType /\ (q.events = r.events \/ q.events = <<>>)
      BY <1>9, EventsReferenced
    <2>2. r'.events = q.events \o es /\ q.events \in Seq(EventType)
      BY <1>9, <2>1, DeliveredKeeps DEF RequestType, EventQueue
    <2> HIDE DEF q
    <2>3. Unended => NoEnd(q.events)
      BY <1>1, <2>1 DEF EventsInv
    <2>4. Unended => NoEnd(r'.events)
      BY <1>9, <2>2, <2>3, NoEndConcat
    <2> QED
      BY <1>3, <1>9, <2>4 DEF EventsInv, NoEnd
  <1>10. CASE SegResume
    <2>1. PICK es \in Seq(EventType) :
             /\ \A k \in DOMAIN es : \E j \in DOMAIN resumed : es[k] = resumed[j]
             /\ run = "idle" /\ resumed' = <<>>
             /\ \/ /\ TakeReference /\ r' = Delivered(Referenced, es)
                   /\ idHash' = StillHashed(es)
                \/ UNCHANGED <<mem, loaded, pending, r, pause, idHash>>
             /\ UNCHANGED <<job, run, file, scripts, posts, held, env, ghosts, used>>
      BY <1>0, <1>10, SegResumeIs
    <2>2. NoEnd(resumed) => NoEnd(es)
      <3>1. DOMAIN es = 1..Len(es)
        BY LenProperties
      <3> QED
        BY <1>0, <2>1, <3>1 DEF NoEnd
    <2>3. CASE TakeReference /\ r' = Delivered(Referenced, es)
      BY <1>1, <1>9, <2>1, <2>2, <2>3 DEF EventsInv
    <2>4. CASE UNCHANGED <<mem, loaded, pending, r, pause, idHash>>
      BY <1>1, <1>3, <2>1, <2>4 DEF EventsInv, NoEnd
    <2> QED
      BY <2>1, <2>3, <2>4
  <1>11. ASSUME NEW i \in DOMAIN lrm, SegEvent(i)
        PROVE  EventsInv'
    <2> DEFINE e == [id |-> i, state |-> LogOf(i)[pos[i] + 1]]
    <2>1. /\ UNCHANGED <<job, run, file, scripts, posts, resumed, lrm, ghosts, used>>
          /\ \/ TakeReference /\ r' = Delivered(Referenced, <<e>>) /\ UNCHANGED held
             \/ /\ UNCHANGED <<mem, loaded, pending, r, pause, idHash>>
                /\ held' = held \/ held' = Append(held, e)
      BY <1>11 DEF SegEvent
    <2>2. lrm \in Seq(LrmStates) /\ pos \in Seq(Nat) /\ Len(pos) = Len(lrm)
      BY DEF BasicInv, Types
    <2>3. i \in 1..Len(lrm) /\ i \in Nat /\ pos[i] \in Nat /\ pos[i] < Len(LogOf(i))
      BY <1>11, <2>2, LenProperties, ElementOfSeq DEF SegEvent
    <2>4. e \in EventType /\ (e.state # "ACTIVE" => Ended(lrm[i]))
      BY <2>2, <2>3, LogEntry DEF EventType, Ended
    <2>5. Unended => e.state = "ACTIVE"
      BY <2>3, <2>4 DEF Unended
    <2> HIDE DEF e
    <2>6. <<e>> \in Seq(EventType) /\ (Unended => NoEnd(<<e>>))
      BY <2>4, <2>5 DEF NoEnd
    <2>7. CASE TakeReference /\ r' = Delivered(Referenced, <<e>>) /\ UNCHANGED held
      BY <1>9, <2>1, <2>6, <2>7 DEF EventsInv
    <2>8. CASE UNCHANGED <<mem, loaded, pending, r, pause, idHash>> /\ (held' = held \/ held' = Append(held, e))
      <3>1. Append(held, e) = held \o <<e>>
        BY <1>0, <2>4
      <3>2. Unended => NoEnd(held')
        BY <1>0, <2>6, <2>8, <3>1, NoEndConcat DEF EventsInv
      <3> QED
        BY <1>3, <2>1, <2>8, <3>2 DEF EventsInv, NoEnd
    <2> QED
      BY <2>1, <2>7, <2>8
  <1>12. ASSUME NEW i \in DOMAIN scripts, ScriptDone(i)
        PROVE  EventsInv'
    <2> DEFINE q == Applied(r, scripts[i])
    <2>1. r' = [q EXCEPT !.timer = TRUE] /\ UNCHANGED <<lrm, held, resumed>>
          /\ scripts[i].res # "none"
      BY <1>12 DEF ScriptDone
    <2>2. scripts[i] \in ScriptType /\ ScriptKnown(scripts[i])
      <3>1. scripts \in Seq(ScriptType)
        BY DEF BasicInv, Types
      <3>2. DOMAIN scripts = 1..Len(scripts) /\ scripts[i] \in ScriptType
        BY <1>12, <3>1, LenProperties, ElementOfSeq
      <3> QED
        BY <1>12, <3>2 DEF BasicInv, Known
    <2>3. q \in RequestType /\ q.events = r.events
      BY <1>0, <2>1, <2>2, AppliedKeeps
    <2> HIDE DEF q
    <2>4. r'.events = r.events
      BY <2>1, <2>3 DEF RequestType
    <2> QED
      BY <1>2, <1>3, <2>1, <2>4
  <1>13. CASE Scripts
    <2>1. PICK i \in DOMAIN scripts : ScriptRuns(i)
      BY <1>13 DEF Scripts
    <2>2. UNCHANGED <<r, held, resumed>>
          /\ \/ lrm' = lrm \/ lrm' = Append(lrm, "PENDING")
             \/ \E k : lrm' = [lrm EXCEPT ![k] = "FAILED"]
      BY <2>1 DEF ScriptRuns
    <2>3. lrm' \in Seq(LrmStates)
      <3>1. BasicInv'
        BY <2>1, BasicScriptRuns
      <3> QED
        BY <3>1 DEF BasicInv, Types
    <2>4. Unended' => Unended
      <3>1. CASE lrm' = Append(lrm, "PENDING")
        <4>1. "PENDING" \in LrmStates
          BY DEF LrmStates
        <4>2. Len(lrm') = Len(lrm) + 1 /\ \A j \in 1..Len(lrm) : lrm'[j] = lrm[j]
          BY <1>0, <3>1, <4>1, AppendProperties
        <4> QED
          BY <1>0, <4>2 DEF Unended
      <3>2. ASSUME NEW k, lrm' = [lrm EXCEPT ![k] = "FAILED"] PROVE Unended' => Unended
        <4>1. DOMAIN lrm' = DOMAIN lrm /\ \A j \in DOMAIN lrm : lrm'[j] \in {lrm[j], "FAILED"}
          BY <3>2
        <4>2. Len(lrm') = Len(lrm)
          BY <1>0, <2>3, <4>1, LenProperties
        <4> QED
          BY <1>0, <4>1, <4>2 DEF Unended, Ended
      <3> QED
        BY <1>3, <2>2, <3>1, <3>2
    <2> QED
      BY <1>2, <2>2, <2>4
  <1>14. CASE Lrm
    <2>1. PICK i \in DOMAIN lrm : LrmProgress(i)
      BY <1>14 DEF Lrm
    <2>2. UNCHANGED <<r, held, resumed>>
          /\ ~Ended(lrm[i]) /\ \E n : lrm' = [lrm EXCEPT ![i] = n]
      BY <2>1 DEF LrmProgress, Ended
    <2>3. lrm' \in Seq(LrmStates) /\ DOMAIN lrm' = DOMAIN lrm
      <3>1. BasicInv'
        BY <2>1, BasicLrm
      <3> QED
        BY <2>2, <3>1 DEF BasicInv, Types
    <2>4. Len(lrm') = Len(lrm) /\ \A j \in DOMAIN lrm : j # i => lrm'[j] = lrm[j]
      BY <1>0, <2>2, <2>3, LenProperties
    <2>5. Unended' => Unended
      BY <1>0, <2>2, <2>4 DEF Unended
    <2> QED
      BY <1>2, <2>2, <2>5
  <1>15. CASE UNCHANGED vars
    BY <1>2, <1>3, <1>15 DEF vars
  <1>16. CASE Orphan
    <2>1. /\ Len(lrm') = Len(lrm) + 1 /\ \A j \in 1..Len(lrm) : lrm'[j] = lrm[j]
          /\ UNCHANGED <<r, held, resumed>>
      BY <1>16, OrphanIs
    <2>2. Unended' => Unended
      BY <1>0, <2>1 DEF Unended
    <2> QED
      BY <1>2, <2>1, <2>2
  <1>17. CASE ExpireOldJob
    <2> DEFINE q == Referenced
    <2>1. /\ TakeReference
          /\ \/ r' = q
             \/ r' = [q EXCEPT !.jm = "FAILED_TWO_PHASE_COMMITTED", !.timer = TRUE]
          /\ UNCHANGED <<lrm, held, resumed>>
      BY <1>17, ExpireIs
    <2>2. q \in RequestType /\ (q.events = r.events \/ q.events = <<>>)
      BY <2>1, EventsReferenced
    <2> HIDE DEF q
    <2>3. r'.events = q.events
      BY <2>1, <2>2 DEF RequestType
    <2> QED
      BY <1>2, <1>3, <2>1, <2>2, <2>3
  <1> QED
    BY <1>4, <1>5, <1>6, <1>7, <1>8, <1>10, <1>11, <1>12, <1>13, <1>14, <1>15, <1>16, <1>17
       DEF Next, Manager, Events

-----------------------------------------------------------------------------
(* The facts every step needs *)

LEMMA TrustedBefore ==
    ASSUME BasicInv, [Next]_vars, Trusted'
    PROVE  Trusted
  <1>1. /\ job' = job
        /\ \A k \in {"crash", "cancel", "signal", "stop", "restart", "update", "orphan"} :
              used[k] \in Nat /\ used'[k] \in Nat /\ used[k] <= used'[k]
    BY UsedGrows
  <1>2. Undisturbed
    BY UndisturbedBefore DEF Trusted
  <1> QED
    BY <1>1, <1>2 DEF Trusted

\* What the invariants below say of a job that is trusted.
Trust ==
    /\ BasicInv /\ Trusted /\ Undisturbed /\ Truth /\ OnceInv /\ OneScript /\ Intended /\ Straight
    /\ EventsInv /\ Watch

LEMMA TrustHolds ==
    ASSUME BasicInv, SoloInv, OnceInv, TruthInv, WatchInv, Trusted
    PROVE  Trust
  <1>1. Undisturbed /\ Faithful
    BY DEF Trusted, Undisturbed, Faithful
  <1> QED
    BY <1>1 DEF Trust, SoloInv, TruthInv, WatchInv

LEMMA TrustFacts ==
    ASSUME Trust
    PROVE  /\ job.mode # "poll" /\ (used["crash"] # 0 => Lonely /\ used["cancel"] = 0)
           /\ Gone /\ mem = "live" => Clear(r)
           /\ lrm = <<>> => ~Running /\ ~Finished
           /\ Running => Unended /\ Len(lrm) = 1
           /\ Undisturbed /\ OneScript /\ Intended /\ Straight
  <1>1. job.mode # "poll" /\ (used["crash"] # 0 => Lonely /\ used["cancel"] = 0)
    <2>1. used["crash"] \in Nat
      BY MaxAssumption DEF Trust, BasicInv, Types, BoundType
    <2> QED
      BY <2>1 DEF Trust, Trusted, Lonely
  <1>2. Gone /\ mem = "live" => Clear(r)
    <2>1. CASE used["crash"] = 0
      BY <2>1 DEF Trust, Watch, Fits, Past, Clear, Early
    <2>2. CASE used["crash"] # 0 /\ lrm # <<>>
      BY <1>1, <2>2 DEF Trust, OnceInv, Submitted
    <2>3. CASE lrm = <<>>
      BY <2>3 DEF Trust, Watch, Fits, Gone, Doomed
    <2> QED
      BY <2>1, <2>2, <2>3
  <1>3. lrm \in Seq(LrmStates) /\ Len(lrm) \in Nat
    BY LenProperties DEF Trust, BasicInv, Types
  <1>4. lrm = <<>> => ~Running /\ ~Finished
    BY <1>3 DEF Running, Finished
  <1>5. Running => Unended /\ Len(lrm) = 1
    <2>1. Len(lrm) <= 1
      BY DEF Trust, Watch
    <2>2. ASSUME NEW i \in 1..Len(lrm), ~Ended(lrm[i]) PROVE Unended /\ Len(lrm) = 1
      <3> DEFINE n == Len(lrm)
      <3>1. n \in Nat /\ n <= 1 /\ i \in 1..n
        BY <1>3, <2>1
      <3> HIDE DEF n
      <3>2. n = 1 /\ i = 1
        BY <3>1
      <3> QED
        BY <2>2, <3>2 DEF Unended, n
    <2> QED
      BY <2>2 DEF Running
  <1> QED
    BY <1>1, <1>2, <1>4, <1>5 DEF Trust

\* What a step of the loop has to show.
WatchGoal ==
    /\ \/ scripts' = scripts
       \/ \E s \in ScriptType :
             /\ scripts' = Append(scripts, s) /\ Suits(s, r'.jm)
             /\ s.cmd = "submit" =>
                   told' # "FAILED" /\ WatchingFile(file') /\ (mem' = "live" => Watching(r'))
    /\ Running => told' # "FAILED" /\ WatchingFile(file') /\ (mem' = "live" => Watching(r'))
    /\ used["crash"] = 0 /\ (lrm # <<>> \/ told' = "FAILED") /\ mem' = "live" => Past(r')
    /\ told' = "FAILED" /\ lrm = <<>> => DoomedFile(file') /\ (mem' = "live" => Doomed(r'))
    /\ r'.jm = "FAILED_CLOSE_OUTPUT" /\ r'.unsent /\ lrm = <<>> => DoomedFile(file')

LEMMA WatchStep ==
    ASSUME BasicInv, Watch, scripts = <<>>, UNCHANGED <<job, lrm>>, used'["crash"] = used["crash"],
           WatchGoal
    PROVE  Watch'
  <1>0. scripts \in Seq(ScriptType) /\ Len(scripts) = 0
    BY DEF BasicInv, Types
  <1>1. Running' <=> Running
    BY DEF Running
  <1>2. ASSUME Watching(r') PROVE Watching(r)'
    BY <1>1, <1>2 DEF Watching
  <1>3. WatchingFile(file') => WatchingFile(file)'
    BY <1>1 DEF WatchingFile
  <1>4. /\ Doomed(r') => Doomed(r)'
        /\ Past(r') => Past(r)'
        /\ DoomedFile(file') => DoomedFile(file)'
    BY DEF Doomed, DoomedFile, Clear, Past
  <1>5. CASE scripts' = scripts
    <2>1. AtWork' <=> Running
      BY <1>0, <1>1, <1>5 DEF AtWork
    <2>2. mem' = "live" => Fits(r)'
      BY <1>2, <1>4, <2>1 DEF WatchGoal, Fits, Gone
    <2>3. AtWork' => told' # "FAILED" /\ WatchingFile(file)'
      BY <1>3, <2>1 DEF WatchGoal
    <2>4. \A i \in 1..Len(scripts') : Suits(scripts[i], r.jm)'
      BY <1>0, <1>5
    <2> QED
      BY <1>4, <2>2, <2>3, <2>4 DEF WatchGoal, Watch
  <1>6. CASE scripts' # scripts
    <2>1. PICK s \in ScriptType :
             /\ scripts' = Append(scripts, s) /\ Suits(s, r'.jm)
             /\ s.cmd = "submit" =>
                   told' # "FAILED" /\ WatchingFile(file') /\ (mem' = "live" => Watching(r'))
      BY <1>6 DEF WatchGoal
    <2>2. Len(scripts') = 1 /\ scripts'[1] = s
      BY <1>0, <2>1, AppendProperties
    <2>3. AtWork' <=> Running \/ s.cmd = "submit"
      BY <1>1, <2>2 DEF AtWork
    <2>4. mem' = "live" => Fits(r)'
      BY <1>2, <1>4, <2>1, <2>3 DEF WatchGoal, Fits, Gone
    <2>5. AtWork' => told' # "FAILED" /\ WatchingFile(file)'
      BY <1>3, <2>1, <2>3 DEF WatchGoal
    <2>6. ASSUME NEW i \in 1..Len(scripts') PROVE Suits(scripts[i], r.jm)'
      <3>1. i = 1
        BY <2>2
      <3> QED
        BY <1>1, <2>1, <2>2, <3>1 DEF Suits
    <2> QED
      BY <1>4, <2>4, <2>5, <2>6 DEF WatchGoal, Watch
  <1> QED
    BY <1>5, <1>6

\* A step that starts no script and leaves the job unwatched, because nothing runs.
LEMMA WatchIdle ==
    ASSUME ~Running, UNCHANGED scripts,
           used["crash"] = 0 /\ (lrm # <<>> \/ told' = "FAILED") /\ mem' = "live" => Past(r'),
           told' = "FAILED" /\ lrm = <<>> => DoomedFile(file') /\ (mem' = "live" => Doomed(r')),
           r'.jm # "FAILED_CLOSE_OUTPUT"
    PROVE  WatchGoal
  BY DEF WatchGoal

\* set_restart_state of a job that failed before it was submitted.
LEMMA RestartDoomed ==
    ASSUME r \in RequestType, r.restart \in After \ {"SUBMIT"}
    PROVE  ~RestartFound => RestartState.status = "FAILED"
  <1> USE DEF Poll, Closing, RequestType
  <1> HIDE DEF After
  <1>0. ~CondorRecovers /\ r.restart # "SUBMIT"
    BY DEF CondorRecovers
  <1>1. CASE r.restart \in Poll
    <2>1. /\ ~(r.restart \in {"FAILED", "FAILED_TWO_PHASE"}) /\ ~(r.restart \in Closing)
      BY <1>1
    <2>2. RestartFound
      BY <1>0, <1>1, <2>1, Zenon DEF RestartFound
    <2> QED
      BY <2>2
  <1>2. CASE r.restart \in {"FAILED", "FAILED_TWO_PHASE"}
    <2>1. ~(r.restart \in Poll) /\ ~(r.restart \in Closing)
      BY <1>2
    <2>2. RestartState = IF r.failure = "STAGE_OUT_FAILED"
          THEN [r EXCEPT !.failure = "none", !.status = "STAGE_OUT",
                         !.unsent = TRUE, !.jm = "POLL1"]
          ELSE IF r.failure = "STAGE_IN_FAILED"
          THEN [r EXCEPT !.failure = "none", !.status = "UNSUBMITTED",
                         !.unsent = TRUE, !.jm = "TWO_PHASE_COMMITTED"]
          ELSE [r EXCEPT !.status = "FAILED", !.unsent = TRUE, !.jm = "POLL1"]
      BY <1>0, <1>2, <2>1, Zenon DEF RestartState
    <2>3. RestartFound = (r.failure \in {"STAGE_IN_FAILED", "STAGE_OUT_FAILED"})
      BY <1>0, <1>2, <2>1, Zenon DEF RestartFound
    <2> QED
      BY <2>2, <2>3
  <1>3. CASE r.restart \in Closing
    <2>1. ~(r.restart \in Poll) /\ ~(r.restart \in {"FAILED", "FAILED_TWO_PHASE"})
      BY <1>3
    <2>2. RestartFound
      BY <1>0, <1>3, <2>1, Zenon DEF RestartFound
    <2> QED
      BY <2>2
  <1> QED
    BY <1>0, <1>1, <1>2, <1>3 DEF After

\* set_restart_state finds in the condor log the job that is at work.
LEMMA RestartFinds ==
    ASSUME r \in RequestType, r.restart = "SUBMIT", job.mode = "condor", lrm # <<>>,
           lrm \in Seq(LrmStates)
    PROVE  /\ RestartFound /\ RestartState.jm = "SUBMIT" /\ RestartState.status = "PENDING"
           /\ RestartState.id = Len(lrm)
  <1>1. CondorRecovers
    BY DEF CondorRecovers
  <1>2. /\ ~(r.restart \in Poll) /\ ~(r.restart \in {"FAILED", "FAILED_TWO_PHASE"})
        /\ ~(r.restart \in Closing)
    BY DEF Poll, Closing
  <1>3. RestartState = CondorRequest
    BY <1>1, <1>2, Zenon DEF RestartState
  <1>4. RestartFound
    BY <1>1, <1>2, Zenon DEF RestartFound
  <1> QED
    BY <1>3, <1>4 DEF CondorRequest, RequestType

-----------------------------------------------------------------------------
(* The steps of the state machine *)

\* What holds while the loop runs: no script is at work.
LEMMA LoopFacts ==
    ASSUME Trust, run # "idle"
    PROVE  /\ mem = "live" /\ scripts = <<>> /\ r \in RequestType /\ FitRequest(r) /\ Types
           /\ job \in Jobs /\ lrm \in Seq(LrmStates) /\ Len(lrm) \in Nat
           /\ told \in Statuses \cup {"none"} /\ posts \in Nat
           /\ Honest(r) /\ Straight
           /\ Running => told # "FAILED" /\ WatchingFile(file) /\ Watching(r)
           /\ used["crash"] = 0 /\ Gone => Past(r)
           /\ told = "FAILED" /\ lrm = <<>> => Doomed(r) /\ DoomedFile(file)
           /\ r.jm = "FAILED_CLOSE_OUTPUT" /\ r.unsent /\ lrm = <<>> => DoomedFile(file)
           /\ r.jm \in Early /\ r.jmRestart => Lonely
  <1>1. mem = "live" /\ scripts = <<>>
    BY DEF Trust, BasicInv, Placed, OneScript
  <1>2. /\ r \in RequestType /\ FitRequest(r) /\ job \in Jobs /\ lrm \in Seq(LrmStates)
        /\ Len(lrm) \in Nat /\ told \in Statuses \cup {"none"} /\ posts \in Nat /\ Honest(r)
        /\ Straight /\ Types
    BY LenProperties DEF Trust, BasicInv, Types, Known, FitRequest, Truth
  <1>3. Running => AtWork
    BY DEF AtWork
  <1>4. /\ Running => told # "FAILED" /\ WatchingFile(file) /\ Watching(r)
        /\ used["crash"] = 0 /\ Gone => Past(r)
        /\ told = "FAILED" /\ lrm = <<>> => Doomed(r) /\ DoomedFile(file)
        /\ r.jm = "FAILED_CLOSE_OUTPUT" /\ r.unsent /\ lrm = <<>> => DoomedFile(file)
    BY <1>1, <1>3 DEF Trust, Watch, Fits
  <1>5. r.jm \in Early /\ r.jmRestart => Lonely
    BY <1>2, TrustFacts DEF Honest
  <1> QED
    BY <1>1, <1>2, <1>4, <1>5

LEMMA WatchEarlySteps ==
    ASSUME Trust,
           \/ StepStart \/ StepTwoPhase \/ StepRestart \/ StepTwoPhaseCommitted
           \/ StepStageInFailed \/ StepSubmitting \/ StepSubmit
    PROVE  WatchGoal
  <1> USE DEF place, mgr, env, ghosts, At
  <1>0. run # "idle"
    BY DEF StepStart, StepTwoPhase, StepRestart, StepTwoPhaseCommitted,
       StepStageInFailed, StepSubmitting, StepSubmit
  <1>1. /\ mem = "live" /\ scripts = <<>> /\ r \in RequestType /\ FitRequest(r) /\ job \in Jobs
        /\ lrm \in Seq(LrmStates) /\ Len(lrm) \in Nat /\ Honest(r)
        /\ Running => told # "FAILED" /\ WatchingFile(file) /\ Watching(r)
        /\ used["crash"] = 0 /\ Gone => Past(r)
        /\ told = "FAILED" /\ lrm = <<>> => Doomed(r) /\ DoomedFile(file)
        /\ r.jm \in Early /\ r.jmRestart => Lonely
    BY <1>0, LoopFacts
  <1>2. /\ Gone => Clear(r)
        /\ lrm = <<>> => ~Running /\ ~Finished
        /\ Running => Len(lrm) = 1 /\ lrm # <<>>
    <2>1. Running => Len(lrm) = 1
      BY TrustFacts
    <2>2. Gone => Clear(r)
      BY <1>1, TrustFacts
    <2>3. lrm = <<>> => ~Running /\ ~Finished
      BY TrustFacts
    <2> QED
      BY <2>1, <2>2, <2>3
  <1>3. UNCHANGED mem
    BY DEF StepStart, StepTwoPhase, StepRestart, StepTwoPhaseCommitted,
       StepStageInFailed, StepSubmitting, StepSubmit
  <1>4. CASE StepStart \/ StepTwoPhase
    <2>1. r.jm \in {"START", "TWO_PHASE"} /\ UNCHANGED <<scripts, told, file>>
          /\ r'.jm # "FAILED_CLOSE_OUTPUT"
      BY <1>1, <1>4 DEF StepStart, StepTwoPhase, TimedOut, RequestType
    <2>2. ~Gone
      BY <1>2, <2>1 DEF Clear
    <2>3. lrm = <<>> /\ told # "FAILED" /\ ~Running
      BY <1>2, <2>2 DEF Gone
    <2> QED
      BY <2>1, <2>3, WatchIdle
  <1>5. CASE StepRestart
    <2>1. /\ r' = RestartState /\ r.jm = "TWO_PHASE_COMMITTED" /\ r.jmRestart
          /\ UNCHANGED <<scripts, told, file>>
      BY <1>5 DEF StepRestart
    <2>2. Lonely /\ job.mode = "condor" /\ used["crash"] # 0
      BY <1>1, <2>1 DEF Early, Lonely, Honest
    <2>3. /\ r'.jm \in {"TWO_PHASE_COMMITTED", "SUBMIT", "POLL1"} /\ r'.restart = r.restart
          /\ r'.jmRestart = r.jmRestart
      BY <1>1, <2>1, RestartKeeps
    <2>4. Running => Watching(r')
      <3>1. ASSUME Running PROVE Watching(r')
        <4>1. r.restart = "SUBMIT"
          BY <1>1, <2>1, <3>1 DEF Watching
        <4>2. r'.jm = "SUBMIT" /\ r'.status = "PENDING" /\ r'.id = Len(lrm)
          BY <1>1, <1>2, <2>1, <2>2, <3>1, <4>1, RestartFinds
        <4> QED
          BY <4>2 DEF Watching, Bad, Over, Poll
      <3> QED
        BY <3>1
    <2>5. Doomed(r) => Doomed(r')
      BY <2>1, <2>3 DEF Doomed, Clear
    <2> QED
      BY <1>1, <2>1, <2>2, <2>3, <2>4, <2>5 DEF WatchGoal
  <1>6. CASE StepTwoPhaseCommitted
    <2> DEFINE q == IF r.jmRestart THEN RestartState ELSE r
    <2>1. /\ r' = IF job.stageIn THEN [q EXCEPT !.jm = "STAGE_IN", !.status = "STAGE_IN"]
                                  ELSE [q EXCEPT !.jm = "STAGE_IN"]
          /\ r.jm = "TWO_PHASE_COMMITTED" /\ ~(r.jmRestart /\ RestartFound)
          /\ IF job.stageIn THEN Notify(r') /\ RunScript("stage_in", r')
                            ELSE UNCHANGED <<scripts, told>>
          /\ UNCHANGED file
      BY <1>6 DEF StepTwoPhaseCommitted
    <2>2. q \in RequestType /\ FitRequest(q)
      BY <1>1, RestartKeeps, LenProperties DEF FitRequest, CondorRecovers
    <2>3. r.jmRestart => Lonely /\ job.mode = "condor" /\ ~job.stageIn
      BY <1>1, <2>1 DEF Early, Lonely
    <2>4. ~Running
      <3> SUFFICES ASSUME Running PROVE FALSE
        OBVIOUS
      <3>1. r.jmRestart /\ r.restart = "SUBMIT"
        BY <1>1, <2>1 DEF Watching
      <3>2. RestartFound
        BY <1>1, <1>2, <2>3, <3>1, RestartFinds
      <3> QED
        BY <2>1, <3>1, <3>2
    <2>5. Doomed(r) => q.status = "FAILED" /\ ~job.stageIn
      <3> SUFFICES ASSUME Doomed(r) PROVE q.status = "FAILED" /\ ~job.stageIn
        OBVIOUS
      <3>1. r.jmRestart /\ r.restart \in After \ {"SUBMIT"}
        BY <2>1 DEF Doomed, Clear
      <3> QED
        BY <1>1, <2>1, <2>3, <3>1, RestartDoomed
    <2>6. used["crash"] = 0 => ~Gone
      BY <1>1, <2>1 DEF Past, Early
    <2> HIDE DEF q
    <2>7. /\ FitRequest(r') /\ r'.jm = "STAGE_IN" /\ (job.stageIn => r'.status = "STAGE_IN")
          /\ ~job.stageIn => r'.status = q.status
      <3>1. job.stageIn \in BOOLEAN
        BY <1>1, JobBooleans
      <3> QED
        BY <2>1, <2>2, <3>1, Names DEF FitRequest, RequestType
    <2>8. told' = "FAILED" => told = "FAILED"
      BY <2>1, <2>7 DEF Notify
    <2>9. Doomed(r) => Doomed(r')
      BY <2>5, <2>7 DEF Doomed, Clear
    <2>10. CASE job.stageIn
      <3> DEFINE s == Script("stage_in", r')
      <3>1. s \in ScriptType /\ s.cmd = "stage_in" /\ scripts' = Append(scripts, s)
        BY <2>1, <2>7, <2>10, ScriptIs DEF Cmds, RunScript
      <3> HIDE DEF s
      <3>2. Suits(s, r'.jm)
        BY <2>7, <3>1 DEF Suits
      <3> QED
        BY <1>1, <2>1, <2>4, <2>6, <2>7, <2>8, <2>9, <3>1, <3>2 DEF WatchGoal, Gone
    <2>11. CASE ~job.stageIn
      BY <1>1, <2>1, <2>4, <2>6, <2>7, <2>8, <2>9, <2>11 DEF WatchGoal, Gone
    <2> QED
      BY <2>10, <2>11
  <1>7. CASE StepStageInFailed
    <2>1. r.jm = "STAGE_IN" /\ r'.jm = "FAILED" /\ UNCHANGED <<scripts, told, file>>
      BY <1>1, <1>7 DEF StepStageInFailed, RequestType
    <2>2. ~Running
      BY <1>1, <2>1 DEF Watching, Poll
    <2>3. Past(r') /\ Doomed(r')
      BY <2>1 DEF Past, Early, Doomed, Clear
    <2> QED
      BY <1>1, <2>1, <2>2, <2>3, WatchIdle
  <1>8. CASE StepSubmitting
    <2> DEFINE q == [r EXCEPT !.jm = "SUBMIT", !.restart = "SUBMIT"]
               s == Script("submit", q)
    <2>1. /\ r' = [q EXCEPT !.seen = 0] /\ file' = Written(q) /\ RunScript("submit", q)
          /\ UNCHANGED told /\ r.jm = "STAGE_IN" /\ r.status # "FAILED"
      BY <1>8 DEF StepSubmitting
    <2>2. lrm = <<>> /\ told # "FAILED" /\ ~Running /\ ~Finished
      BY <1>2, <2>1 DEF Clear, Gone
    <2>3. r.status \notin Bad
      BY <1>1, <2>1, <2>2 DEF Honest, Humble, Bad
    <2>4. FitRequest(q) /\ q \in RequestType /\ q.jm = "SUBMIT" /\ q.status = r.status
      BY <1>1, Names DEF FitRequest, RequestType
    <2>5. s \in ScriptType /\ s.cmd = "submit" /\ s.res = "none" /\ scripts' = Append(scripts, s)
      BY <2>1, <2>4, ScriptIs DEF Cmds
    <2> HIDE DEF s, q
    <2>6. r'.jm = "SUBMIT" /\ r'.status = r.status
      BY <2>1, <2>4 DEF RequestType
    <2>7. WatchingFile(file')
      <3>1. file'.state = "SUBMIT" /\ file'.status = r.status /\ file' # NoFile
        BY <2>1, <2>4, WrittenType
      <3> QED
        BY <2>2, <2>3, <3>1 DEF WatchingFile
    <2>8. Watching(r') /\ Suits(s, r'.jm)
      BY <2>2, <2>3, <2>5, <2>6 DEF Watching, Suits
    <2> QED
      BY <2>1, <2>2, <2>5, <2>6, <2>7, <2>8 DEF WatchGoal
  <1>9. CASE StepSubmit
    <2> DEFINE q == IF r.id = NoId
             THEN [r EXCEPT !.status = "FAILED", !.unsent = TRUE,
                            !.failure = IF @ = "none" THEN "SUBMIT" ELSE @]
             ELSE r
    <2>1. r' = [q EXCEPT !.jm = "POLL1", !.restart = "POLL1"] /\ UNCHANGED <<scripts, told>>
          /\ file' = Written(r') /\ r.jm = "SUBMIT"
      BY <1>9 DEF StepSubmit
    <2>2. q \in RequestType /\ (r.id # NoId => q = r)
      BY <1>1, Names DEF RequestType
    <2> HIDE DEF q
    <2>3. r' \in RequestType /\ r'.jm = "POLL1" /\ r'.status = q.status /\ r'.id = q.id
      BY <2>1, <2>2, Names DEF RequestType
    <2>4. /\ file'.state = "POLL1" /\ file'.status = q.status /\ file'.id = q.id
          /\ file' # NoFile
      BY <2>1, <2>3, WrittenType
    <2>5. Running => q = r /\ r.id = Len(lrm) /\ r.status \notin Bad
      <3> SUFFICES ASSUME Running PROVE q = r /\ r.id = Len(lrm) /\ r.status \notin Bad
        OBVIOUS
      <3>1. r.id = Len(lrm) /\ r.status \notin Bad
        BY <1>1, <2>1 DEF Watching
      <3> QED
        BY <1>2, <2>2, <3>1 DEF NoId
    <2>6. Running => WatchingFile(file') /\ Watching(r')
      BY <2>3, <2>4, <2>5 DEF WatchingFile, Watching, Poll
    <2>7. Past(r') /\ Doomed(r') /\ DoomedFile(file')
      BY <2>3, <2>4 DEF Past, Early, Doomed, Clear, DoomedFile, After, Poll
    <2> QED
      BY <1>1, <2>1, <2>3, <2>6, <2>7 DEF WatchGoal
  <1> QED
    BY <1>4, <1>5, <1>6, <1>7, <1>8, <1>9

\* An event of a job that has not ended leaves its id and reports no end.
LEMMA HandledQuiet ==
    ASSUME NEW q \in RequestType, q.events # <<>>, Head(q.events).state = "ACTIVE"
    PROVE  /\ Handled(q).id = q.id /\ Handled(q).status \in {q.status, "ACTIVE"}
  <1> DEFINE p == [q EXCEPT !.events = Tail(@), !.seen = @ + 1, !.id = q.id]
  <1>1. ~Ended("ACTIVE")
    BY DEF Ended
  <1>2. Handled(q) = Reported(p, "ACTIVE")
    BY <1>1 DEF Handled
  <1>3. p.id = q.id /\ p.status = q.status /\ DOMAIN p = DOMAIN q
        /\ "status" \in DOMAIN q /\ "unsent" \in DOMAIN q /\ "id" \in DOMAIN q
    BY DEF RequestType
  <1> HIDE DEF p
  <1>4. Reported(p, "ACTIVE").id = p.id /\ Reported(p, "ACTIVE").status \in {p.status, "ACTIVE"}
    BY <1>3 DEF Reported
  <1> QED
    BY <1>2, <1>3, <1>4

LEMMA WatchLateSteps ==
    ASSUME Trust,
           \/ StepPoll1 \/ StepPoll2 \/ StepQuery1 \/ StepQuery2 \/ StepClosing
           \/ StepCloseOutput \/ StepFinalStatus \/ StepTwoPhaseEnd \/ StepCleanUp
           \/ StepCacheCleanUp \/ StepStop \/ StepDone
    PROVE  WatchGoal
  <1> USE DEF place, mgr, env, ghosts, At
  <1>0. run # "idle"
    BY DEF StepPoll1, StepPoll2, StepQuery1, StepQuery2, StepClosing, StepCloseOutput,
       StepFinalStatus, StepTwoPhaseEnd, StepCleanUp, StepCacheCleanUp, StepStop, StepDone
  <1>1. /\ mem = "live" /\ scripts = <<>> /\ r \in RequestType /\ FitRequest(r) /\ job \in Jobs
        /\ lrm \in Seq(LrmStates) /\ Len(lrm) \in Nat /\ Honest(r) /\ Straight /\ Types
        /\ told \in Statuses \cup {"none"} /\ posts \in Nat
        /\ Running => told # "FAILED" /\ WatchingFile(file) /\ Watching(r)
        /\ told = "FAILED" /\ lrm = <<>> => Doomed(r) /\ DoomedFile(file)
        /\ r.jm = "FAILED_CLOSE_OUTPUT" /\ r.unsent /\ lrm = <<>> => DoomedFile(file)
    BY <1>0, LoopFacts
  <1>2. r.jm \in Ending => lrm # <<>>
    <2>1. Finished => lrm # <<>>
      BY TrustFacts
    <2> QED
      BY <1>1, <2>1 DEF Honest, Humble
  <1>3. r.jm \notin Poll \cup {"SUBMIT", "TWO_PHASE_COMMITTED"} => ~Running
    BY <1>1 DEF Watching
  <1> DEFINE Open == Early \cup {"STAGE_IN"}
  <1>4. ASSUME NEW q, q.jm \notin Open PROVE Past(q) /\ Doomed(q)
    BY <1>4 DEF Past, Early, Doomed, Clear
  <1>5. ASSUME ~Running, UNCHANGED scripts, mem' = "live" => r'.jm \notin Open,
               r'.jm # "FAILED_CLOSE_OUTPUT",
               told' = "FAILED" /\ lrm = <<>> => DoomedFile(file')
        PROVE  WatchGoal
    BY <1>4, <1>5, WatchIdle
  <1>6. ASSUME UNCHANGED <<file, told>>, r.jm \in Poll, r'.jm \in Poll, r'.id = r.id,
               r'.status = r.status,
               scripts' = scripts
               \/ \E s \in ScriptType : scripts' = Append(scripts, s) /\ Suits(s, r'.jm)
                                        /\ s.cmd # "submit"
        PROVE  WatchGoal
    <2>1. Running => Watching(r')
      BY <1>1, <1>6 DEF Watching, Poll
    <2>2. Past(r') /\ Doomed(r') /\ r'.jm # "FAILED_CLOSE_OUTPUT"
      BY <1>4, <1>6 DEF Poll, Early
    <2> QED
      BY <1>1, <1>6, <2>1, <2>2 DEF WatchGoal
  <1>7. CASE StepPoll1
    <2>1. PICK q \in RequestType, w \in RequestType,
               j \in {"FAILED", "PRE_CLOSE_OUTPUT", "POLL_QUERY1", "POLL1", "POLL2"},
               u \in BOOLEAN, t \in BOOLEAN :
             /\ r.events = <<>> => q = r
             /\ r.events # <<>> => q = Handled(r)
             /\ w = q \/ w = [q EXCEPT !.restart = "POLL1"]
             /\ file' = file \/ (file' = Written(w) /\ w = [q EXCEPT !.restart = "POLL1"])
             /\ r' = [w EXCEPT !.jm = j, !.unsent = u, !.timer = t]
             /\ told' = told \/ (Notify(w) /\ w.status \notin {"FAILED", "DONE", "STAGE_OUT"})
             /\ run' \in {"idle", "loop"}
             /\ j = "FAILED" => w.status = "FAILED"
             /\ j = "PRE_CLOSE_OUTPUT" => w.status \in {"DONE", "STAGE_OUT"}
             /\ j = "POLL_QUERY1" => w.queries # <<>> /\ run' = "loop"
             /\ t => w.timer \/ (run' = "idle" /\ j = "POLL2")
      BY <1>1, <1>7, Poll1Is
    <2>2. r.jm = "POLL1" /\ UNCHANGED <<scripts, mem>>
      BY <1>7 DEF StepPoll1
    <2>3. q.jm = "POLL1"
      BY <1>1, <2>1, <2>2, HandledKeeps DEF Keeps
    <2>4. w.jm = "POLL1" /\ w.status = q.status /\ w.id = q.id
      BY <2>1, <2>3 DEF RequestType
    <2>5. r'.jm = j /\ r'.status = q.status /\ r'.id = q.id
      BY <2>1, <2>4 DEF RequestType
    <2>6. Running => q.id = Len(lrm) /\ q.status \notin Bad
      <3> SUFFICES ASSUME Running PROVE q.id = Len(lrm) /\ q.status \notin Bad
        OBVIOUS
      <3>1. r.id = Len(lrm) /\ r.status \notin Bad
        BY <1>1, <2>2 DEF Watching, Poll
      <3>2. CASE r.events # <<>>
        <4>1. Head(r.events).state = "ACTIVE"
          <5>1. NoEnd(r.events)
            BY TrustFacts DEF Trust, EventsInv
          <5>2. r.events \in Seq(EventType)
            BY <1>1 DEF RequestType, EventQueue
          <5> QED
            BY <3>2, <5>1, <5>2, NoEndTail
        <4>2. q.id = r.id /\ q.status \in {r.status, "ACTIVE"}
          BY <1>1, <2>1, <3>2, <4>1, HandledQuiet
        <4> QED
          BY <3>1, <4>2 DEF Bad, Over
      <3> QED
        BY <2>1, <3>1, <3>2
    <2>7. told' = "FAILED" => told = "FAILED"
      BY <2>1, <2>4 DEF Notify
    <2>8. file' = file \/ (/\ file'.state = "POLL1" /\ file'.status = q.status
                           /\ file'.id = q.id /\ file' # NoFile)
      BY <2>1, <2>4, WrittenType
    <2>9. Running => Watching(r') /\ WatchingFile(file')
      <3> SUFFICES ASSUME Running PROVE Watching(r') /\ WatchingFile(file')
        OBVIOUS
      <3>1. j \in Poll
        BY <2>1, <2>4, <2>6 DEF Bad, Over, Poll
      <3>2. Watching(r')
        BY <2>5, <2>6, <3>1 DEF Watching, Poll
      <3>3. WatchingFile(file')
        BY <1>1, <2>6, <2>8 DEF WatchingFile, Poll
      <3> QED
        BY <3>2, <3>3
    <2>10. Past(r') /\ Doomed(r') /\ r'.jm # "FAILED_CLOSE_OUTPUT"
      BY <1>4, <2>5 DEF Early
    <2>11. DoomedFile(file) => DoomedFile(file')
      BY <2>8 DEF DoomedFile, After, Poll
    <2> QED
      BY <1>1, <2>2, <2>7, <2>9, <2>10, <2>11 DEF WatchGoal
  <1>8. CASE StepPoll2
    <2>1. /\ r.jm = "POLL2" /\ r'.jm \in {"POLL1", "POLL2"} /\ r'.id = r.id /\ r'.status = r.status
          /\ UNCHANGED <<file, told>>
      BY <1>1, <1>8 DEF StepPoll2, RequestType
    <2>2. UNCHANGED scripts
      BY <1>8, TrustFacts DEF StepPoll2
    <2> QED
      BY <1>6, <2>1, <2>2 DEF Poll
  <1>9. CASE StepQuery1
    <2>1. r.jm = "POLL_QUERY1"
      BY <1>1, <1>9 DEF StepQuery1, Straight
    <2>2. /\ r' = [r EXCEPT !.jm = "POLL_QUERY2"] /\ RunScript(Head(r.queries), r)
          /\ UNCHANGED <<file, told>>
      BY <1>9, <2>1 DEF StepQuery1
    <2>3. Head(r.queries) \in {"cancel", "signal"}
      <3>1. r.queries # <<>>
        BY <1>0, <2>1 DEF Trust, BasicInv, Queries
      <3> QED
        BY <1>1, <3>1, HeadTailProperties DEF RequestType, QueryQueue
    <2> DEFINE s == Script(Head(r.queries), r)
    <2>4. /\ s \in ScriptType /\ s.cmd \in {"cancel", "signal"} /\ s.res = "none"
          /\ scripts' = Append(scripts, s)
      BY <1>1, <2>2, <2>3, ScriptIs DEF Cmds
    <2>5. s.id = r.id
      BY DEF Script
    <2> HIDE DEF s
    <2>6. r'.jm = "POLL_QUERY2" /\ r'.id = r.id /\ r'.status = r.status
      BY <1>1, <2>2 DEF RequestType
    <2>7. Running => s.id = Len(lrm)
      BY <1>1, <2>1, <2>5 DEF Watching, Poll
    <2>8. Suits(s, r'.jm)
      BY <2>4, <2>6, <2>7 DEF Suits
    <2> QED
      BY <1>6, <2>1, <2>2, <2>4, <2>6, <2>8 DEF Poll
  <1>10. CASE StepQuery2
    <2> DEFINE q == [r EXCEPT !.queries = Tail(@)]
    <2>1. r.jm = "POLL_QUERY2"
      BY <1>1, <1>10 DEF StepQuery2, Straight
    <2>2. /\ \E j \in {"POLL_QUERY1", "POLL1", "POLL2"} : r' = [q EXCEPT !.jm = j]
          /\ UNCHANGED <<file, told, scripts>>
      BY <1>10, <2>1 DEF StepQuery2
    <2>3. q.id = r.id /\ q.status = r.status /\ DOMAIN q = DOMAIN r /\ "jm" \in DOMAIN r
      BY <1>1 DEF RequestType
    <2> HIDE DEF q
    <2>4. r'.jm \in Poll /\ r'.id = r.id /\ r'.status = r.status
      BY <2>2, <2>3 DEF Poll
    <2> QED
      BY <1>6, <2>1, <2>2, <2>4 DEF Poll
  <1>11. CASE StepClosing
    <2> DEFINE w == IF r.unsent THEN [r EXCEPT !.restart = r.jm] ELSE r
               u == w.unsent /\ ~(r.unsent /\ r.status = "STAGE_OUT")
    <2>1. /\ r.jm \in {"PRE_CLOSE_OUTPUT", "FAILED"}
          /\ file' = IF r.unsent THEN Written(w) ELSE file
          /\ told' = told \/ (Notify(w) /\ r.status = "STAGE_OUT")
          /\ r' = [w EXCEPT !.unsent = u, !.queries = <<>>,
                            !.jm = IF w.jm = "FAILED" THEN "FAILED_CLOSE_OUTPUT" ELSE "CLOSE_OUTPUT"]
          /\ UNCHANGED scripts
      BY <1>11 DEF StepClosing
    <2>2. /\ w \in RequestType /\ w.jm = r.jm /\ w.status = r.status /\ w.unsent = r.unsent
      BY <1>1, Names DEF RequestType
    <2>3. u => r.unsent
      BY <2>2
    <2> HIDE DEF w, u
    <2>4. /\ r'.jm \in {"FAILED_CLOSE_OUTPUT", "CLOSE_OUTPUT"} /\ (r'.unsent => r.unsent)
      BY <2>1, <2>2, <2>3 DEF RequestType
    <2>5. ~Running
      BY <1>3, <2>1 DEF Poll
    <2>6. told' = "FAILED" => told = "FAILED"
      BY <2>1, <2>2 DEF Notify
    <2>7. /\ r.unsent => DoomedFile(file')
          /\ ~r.unsent => file' = file
      <3>1. Written(w).state = r.jm
        BY <2>1, <2>2, WrittenType
      <3> QED
        BY <2>1, <3>1 DEF DoomedFile, After, Closing
    <2>8. Past(r') /\ Doomed(r')
      BY <1>4, <2>4 DEF Early
    <2>9. r.unsent \in BOOLEAN
      BY <1>1 DEF RequestType
    <2> QED
      BY <1>1, <2>1, <2>4, <2>5, <2>6, <2>7, <2>8, <2>9 DEF WatchGoal
  <1>12. CASE StepCloseOutput
    <2>1. /\ r.jm = "CLOSE_OUTPUT" /\ UNCHANGED <<file, told>>
          /\ \/ r' = [r EXCEPT !.jm = "FAILED_CLOSE_OUTPUT"] /\ UNCHANGED scripts
             \/ /\ r' = [r EXCEPT !.jm = "STAGE_OUT", !.unsent = TRUE]
                /\ scripts' = scripts \/ RunScript("stage_out", r')
      BY <1>12 DEF StepCloseOutput
    <2>2. /\ r'.jm \in {"FAILED_CLOSE_OUTPUT", "STAGE_OUT"} /\ FitRequest(r')
          /\ scripts' # scripts => r'.jm = "STAGE_OUT" /\ RunScript("stage_out", r')
      BY <1>1, <2>1, Names DEF FitRequest, RequestType
    <2>3. ~Running /\ lrm # <<>>
      BY <1>2, <1>3, <2>1 DEF Poll, Ending
    <2> DEFINE s == Script("stage_out", r')
    <2>4. s \in ScriptType /\ s.cmd = "stage_out"
          /\ (RunScript("stage_out", r') => scripts' = Append(scripts, s))
      BY <2>2, ScriptIs DEF Cmds
    <2> HIDE DEF s
    <2>5. r'.jm = "STAGE_OUT" => Suits(s, r'.jm)
      BY <2>4 DEF Suits
    <2>6. Past(r')
      BY <1>4, <2>2 DEF Early
    <2> QED
      BY <2>1, <2>2, <2>3, <2>4, <2>5, <2>6 DEF WatchGoal
  <1>13. CASE StepFinalStatus
    <2>1. PICK s \in {"FAILED", "DONE"}, f \in Failures, t \in BOOLEAN :
             LET j == IF s = "FAILED" THEN "FAILED_TWO_PHASE" ELSE "TWO_PHASE_END" IN
             /\ r' = [r EXCEPT !.unsent = FALSE, !.jm = j, !.status = s, !.failure = f,
                               !.timer = t]
             /\ s = "DONE" => r.jm = "STAGE_OUT" /\ ~r.todoOut
      BY <1>1, <1>13, FinalStatusIs
    <2>2. /\ UNCHANGED <<file, scripts>> /\ r.jm \in {"STAGE_OUT", "FAILED_CLOSE_OUTPUT"}
          /\ r.unsent \/ told' = told
      BY <1>13 DEF StepFinalStatus
    <2>3. r'.jm \in EndWaits
      BY <1>1, <2>1 DEF RequestType, EndWaits
    <2>4. ~Running
      BY <1>3, <2>2 DEF Poll
    <2>5. told' = "FAILED" /\ lrm = <<>> => DoomedFile(file')
      BY <1>1, <1>2, <2>2 DEF Ending
    <2>6. r'.jm \notin Open /\ r'.jm # "FAILED_CLOSE_OUTPUT"
      BY <2>3 DEF EndWaits, Early
    <2> QED
      BY <1>5, <2>2, <2>4, <2>5, <2>6
  <1>14. CASE StepTwoPhaseEnd
    <2>1. /\ r.jm \in EndWaits /\ UNCHANGED <<file, scripts, told>>
          /\ \/ r' = [r EXCEPT !.extend = FALSE, !.timer = TRUE]
             \/ r' = [r EXCEPT !.jm = IF @ = "TWO_PHASE_END" THEN "TWO_PHASE_END_COMMITTED"
                                           ELSE "FAILED_TWO_PHASE_COMMITTED"]
             \/ r' = [r EXCEPT !.restart = r.jm, !.jm = "STOP", !.overdue = TRUE]
      BY <1>14, Zenon DEF StepTwoPhaseEnd, EndWaits
    <2>2. r'.jm \in EndWaits \cup {"TWO_PHASE_END_COMMITTED", "FAILED_TWO_PHASE_COMMITTED", "STOP"}
      BY <1>1, <2>1 DEF RequestType
    <2>3. ~Running
      BY <1>3, <2>1 DEF Poll, EndWaits
    <2>4. r'.jm \notin Open /\ r'.jm # "FAILED_CLOSE_OUTPUT"
      BY <2>2 DEF EndWaits, Early
    <2> QED
      BY <1>1, <1>5, <2>1, <2>3, <2>4
  <1>15. CASE StepCleanUp \/ StepCacheCleanUp
    <2>1. /\ r.jm \in CleanStates
          /\ \E j, a : /\ r' = [r EXCEPT !.jm = j] \/ r' = [r EXCEPT !.queries = a, !.jm = j]
                       /\ j \in CleanStates
      <3>1. CASE StepCleanUp
        <4> DEFINE j == IF r.jm = "FILE_CLEAN_UP" /\ r.status = "FAILED"
                        THEN "FAILED_SCRATCH_CLEAN_UP" ELSE CleanUp[r.jm]
        <4>1. r' = [r EXCEPT !.jm = j] /\ r.jm \in DOMAIN CleanUp
          BY <3>1 DEF StepCleanUp
        <4>2. j \in CleanStates /\ r.jm \in CleanStates
          BY <4>1, CleanUpIs DEF CleanStates
        <4> QED
          BY <4>1, <4>2
      <3>2. CASE StepCacheCleanUp
        BY <3>2 DEF StepCacheCleanUp, CleanStates
      <3> QED
        BY <1>15, <3>1, <3>2
    <2>2. file' \in {file, NoFile} /\ UNCHANGED <<scripts, told>>
      BY <1>15 DEF StepCleanUp, StepCacheCleanUp
    <2>3. r'.jm \in CleanStates
      BY <1>1, <2>1 DEF RequestType
    <2>4. ~Running
      BY <1>3, <2>1 DEF Poll, CleanStates
    <2>5. r'.jm \notin Open /\ r'.jm # "FAILED_CLOSE_OUTPUT"
      BY <2>3 DEF CleanStates, Early
    <2>6. DoomedFile(file) => DoomedFile(file')
      BY <2>2 DEF DoomedFile
    <2> QED
      BY <1>1, <1>5, <2>2, <2>4, <2>5, <2>6
  <1>16. CASE StepStop
    <2>1. r' = r /\ file' = Written(r) /\ r.jm = "STOP" /\ UNCHANGED scripts
      BY <1>16 DEF StepStop
    <2>2. file'.state \in EndWaits
      BY <1>1, <2>1, WrittenType DEF Straight
    <2>3. DoomedFile(file')
      BY <2>2 DEF DoomedFile, After, Closing, EndWaits
    <2>4. ~Running /\ r'.jm \notin Open /\ r'.jm # "FAILED_CLOSE_OUTPUT"
      BY <1>3, <2>1 DEF Poll, Early
    <2> QED
      BY <1>5, <2>1, <2>3, <2>4
  <1>17. CASE StepDone
    <2>1. /\ r.jm \in Final /\ file' \in {file, NoFile} /\ UNCHANGED <<scripts, told>>
          /\ \/ /\ r' = [r EXCEPT !.queries = <<>>, !.events = <<>>, !.restart = r.jm]
             \/ r' = NewRequest /\ mem' = "gone"
      BY <1>17 DEF StepDone
    <2>2. ~Running
      BY <1>3, <2>1 DEF Poll, Final
    <2>3. r'.jm # "FAILED_CLOSE_OUTPUT" /\ (mem' = "live" => r'.jm \in Final)
      BY <1>1, <2>1, NewRequestType DEF RequestType, Final
    <2>4. mem' = "live" => r'.jm \notin Open
      BY <2>3 DEF Final, Early
    <2>5. DoomedFile(file) => DoomedFile(file')
      BY <2>1 DEF DoomedFile
    <2> QED
      BY <1>1, <1>5, <2>1, <2>2, <2>3, <2>4, <2>5
  <1> QED
    BY <1>7, <1>8, <1>9, <1>10, <1>11, <1>12, <1>13, <1>14, <1>15, <1>16, <1>17

-----------------------------------------------------------------------------
(* References and events *)

LEMMA FitsReferenced ==
    ASSUME Trust, TakeReference
    PROVE  /\ Referenced \in RequestType /\ Fits(Referenced) /\ Alone(Referenced)
           /\ \A i \in 1..Len(scripts) : Suits(scripts[i], Referenced.jm)
           /\ Referenced.jm = "FAILED_CLOSE_OUTPUT" => Referenced = r
           /\ Referenced.jm \in Early /\ Referenced.jmRestart => Lonely
  <1> DEFINE q == Referenced
  <1>1. /\ q \in RequestType /\ mem \in {"live", "stub"} /\ (mem = "live" => q = r)
        /\ mem = "stub" => q = Reloaded /\ file \in FileType
    BY ReferencedIs DEF Trust, FitRequest
  <1>2. Alone(q)
    <2>1. SoloInv
      BY DEF Trust, SoloInv, TakeReference
    <2> QED
      BY <2>1, AloneReferenced DEF Trust
  <1>3. q.jm \in Early /\ q.jmRestart => Lonely
    BY HonestReferenced, TrustFacts DEF Trust, Honest
  <1>4. CASE mem = "live"
    BY <1>1, <1>2, <1>3, <1>4 DEF Trust, Watch
  <1>5. CASE mem = "stub"
    <2>1. /\ job \in Jobs /\ pending \in BOOLEAN /\ loaded \in BOOLEAN /\ file \in FileType
          /\ file # NoFile /\ scripts = <<>>
      BY <1>1, <1>5, NoFileIsNoFile DEF Trust, BasicInv, Types, Placed
    <2>2. /\ q.jm = IF file.state \in Poll THEN "POLL2"
                    ELSE IF loaded THEN "TWO_PHASE_COMMITTED" ELSE file.state
          /\ q.restart = file.state /\ q.status = file.status /\ q.id = file.id /\ q.jmRestart
      BY <1>1, <1>5, <2>1, ReloadedType
    <2>3. /\ ~loaded => file.state \in Poll \cup EndWaits
          /\ used["crash"] = 0 => ~loaded
      BY <1>5 DEF Trust, Truth, Straight
    <2> HIDE DEF q
    <2>4. Len(scripts) = 0
      BY <2>1
    <2>5. AtWork => Watching(q)
      <3> SUFFICES ASSUME AtWork PROVE Watching(q)
        OBVIOUS
      <3>1. WatchingFile(file)
        BY DEF Trust, Watch
      <3>2. CASE file.state \in Poll
        BY <2>2, <3>1, <3>2 DEF Watching, WatchingFile, Poll
      <3>3. CASE file.state = "SUBMIT"
        BY <2>2, <2>3, <3>1, <3>3 DEF Watching, WatchingFile, Poll, EndWaits
      <3> QED
        BY <3>1, <3>2, <3>3 DEF WatchingFile
    <2>6. told = "FAILED" /\ lrm = <<>> => Doomed(q)
      <3> SUFFICES ASSUME told = "FAILED" /\ lrm = <<>> PROVE Doomed(q)
        OBVIOUS
      <3>1. file.state \in After \ {"SUBMIT"}
        BY <2>1 DEF Trust, Watch, DoomedFile
      <3> QED
        BY <2>2, <2>3, <3>1 DEF Doomed, Clear, EndWaits
    <2>7. used["crash"] = 0 => Past(q)
      BY <2>2, <2>3 DEF Past, Early, EndWaits
    <2>8. q.jm # "FAILED_CLOSE_OUTPUT"
      BY <2>2, <2>3 DEF EndWaits
    <2>9. Fits(q)
      BY <2>5, <2>6, <2>7 DEF Fits
    <2> QED
      BY <1>1, <1>2, <1>3, <2>4, <2>8, <2>9 DEF q
  <1> QED
    BY <1>1, <1>4, <1>5

\* A reference is taken, and the request that is left keeps an eye on its job.
LEMMA WatchReference ==
    ASSUME Trust, TakeReference, UNCHANGED <<job, lrm, scripts, file, told>>,
           used'["crash"] = used["crash"], Fits(r'),
           \A i \in 1..Len(scripts) : Suits(scripts[i], r'.jm),
           r'.jm = "FAILED_CLOSE_OUTPUT" => Referenced.jm = r'.jm /\ r'.unsent = Referenced.unsent
    PROVE  Watch'
  <1>1. Running' <=> Running
    BY DEF Running
  <1>2. (AtWork' <=> AtWork) /\ (Gone' <=> Gone)
    BY <1>1 DEF AtWork, Gone
  <1>3. /\ Watching(r') => Watching(r)'
        /\ WatchingFile(file) => WatchingFile(file)'
        /\ DoomedFile(file) => DoomedFile(file)'
        /\ Doomed(r') => Doomed(r)'
        /\ Past(r') => Past(r)'
    BY <1>1 DEF Watching, WatchingFile, DoomedFile, Doomed, Past, Clear
  <1>4. Fits(r)'
    BY <1>2, <1>3 DEF Fits
  <1>5. \A i \in 1..Len(scripts') : Suits(scripts[i], r.jm)'
    BY <1>1 DEF Suits
  <1>6. r'.jm = "FAILED_CLOSE_OUTPUT" /\ r'.unsent => r.jm = "FAILED_CLOSE_OUTPUT" /\ r.unsent
    BY FitsReferenced
  <1> QED
    BY <1>2, <1>3, <1>4, <1>5, <1>6 DEF Trust, Watch

\* Two requests that are the same to whoever watches the job.
Same(p, q) ==
    /\ p.jm = q.jm /\ p.restart = q.restart /\ p.jmRestart = q.jmRestart
    /\ p.status = q.status /\ p.id = q.id
LEMMA FitsSame ==
    ASSUME NEW p, NEW q, Same(p, q), Fits(q)
    PROVE  Fits(p)
  BY DEF Same, Fits, Past, Watching, Doomed, Clear

\* A request that waits for the LRM is woken.
LEMMA FitsWoken ==
    ASSUME NEW p, NEW q, q.jm \in Poll, p.jm \in Poll, p.status = q.status, p.id = q.id, Fits(q)
    PROVE  Fits(p)
  BY DEF Fits, Past, Watching, Doomed, Clear, Poll, Early

\* The scripts suit a state that no script is at work in.
LEMMA SuitsFree ==
    ASSUME Trust, TakeReference, Referenced.jm \notin Working
    PROVE  Len(scripts) = 0
  <1>1. scripts = <<>>
    BY FitsReferenced DEF Alone
  <1> QED
    BY <1>1

LEMMA WatchDelivered ==
    ASSUME Trust, TakeReference, NEW es \in Seq(EventType), r' = Delivered(Referenced, es),
           UNCHANGED <<job, lrm, told, scripts, file, used>>
    PROVE  Watch'
  <1> DEFINE q == Referenced
             d == Delivered(q, es)
  <1>1. /\ q \in RequestType /\ Fits(q)
        /\ \A i \in 1..Len(scripts) : Suits(scripts[i], q.jm)
        /\ q.jm \notin Working => Len(scripts) = 0
    BY FitsReferenced, SuitsFree
  <1>2. /\ d.jm = q.jm \/ (q.jm = "POLL2" /\ d.jm = "POLL1")
        /\ d.restart = q.restart /\ d.jmRestart = q.jmRestart /\ d.status = q.status
        /\ d.id = q.id
    BY <1>1, DeliveredKeeps
  <1>3. d.unsent = q.unsent
    BY <1>1 DEF Delivered, RequestType
  <1> HIDE DEF q, d
  <1>4. Fits(d)
    <2>1. CASE d.jm = q.jm
      BY <1>1, <1>2, <2>1, FitsSame DEF Same
    <2>2. CASE d.jm # q.jm
      BY <1>1, <1>2, <2>2, FitsWoken DEF Poll
    <2> QED
      BY <2>1, <2>2
  <1>5. \A i \in 1..Len(scripts) : Suits(scripts[i], d.jm)
    BY <1>1, <1>2 DEF Working
  <1>6. d.jm = "FAILED_CLOSE_OUTPUT" => q.jm = d.jm
    BY <1>2
  <1> QED
    BY <1>3, <1>4, <1>5, <1>6, WatchReference DEF q, d

\* The reports of the scripts that may end while an LRM job runs.
LEMMA AppliedWatched ==
    ASSUME NEW q \in RequestType, NEW s \in ScriptType, s.res # "none"
    PROVE  /\ s.cmd = "submit" /\ s.res = "ok" =>
                 Applied(q, s).id = s.id /\ Applied(q, s).status \in {q.status, "PENDING"}
           /\ s.cmd = "cancel" /\ s.res # "ok" =>
                 Applied(q, s).id = q.id /\ Applied(q, s).status = q.status
           /\ s.cmd = "signal" =>
                 Applied(q, s).id = q.id /\ Applied(q, s).status \in {q.status, "SUSPENDED"}
  <1>1. CASE s.cmd = "submit" /\ s.res = "ok"
    <2>1. ~(s.res = "die") /\ s.cmd # "poll" /\ s.cmd # "stage_in" /\ s.cmd # "stage_out"
          /\ s.cmd # "cancel" /\ s.cmd # "signal"
      BY <1>1
    <2>2. Applied(q, s) = IF s.res = "ok" THEN Reported([q EXCEPT !.id = s.id], "PENDING")
                          ELSE ScriptFailed(q, s, "SUBMIT")
      BY <1>1, <2>1, Zenon DEF Applied
    <2> DEFINE p == [q EXCEPT !.id = s.id]
    <2>3. p.id = s.id /\ p.status = q.status /\ DOMAIN p = DOMAIN q
          /\ "status" \in DOMAIN q /\ "unsent" \in DOMAIN q
      BY DEF RequestType
    <2>4. Applied(q, s) = Reported(p, "PENDING")
      BY <1>1, <2>2
    <2> HIDE DEF p
    <2>5. Reported(p, "PENDING").id = p.id /\ Reported(p, "PENDING").status \in {p.status, "PENDING"}
      BY <2>3 DEF Reported
    <2> QED
      BY <1>1, <2>3, <2>4, <2>5
  <1>2. CASE s.res = "die"
    <2>1. Applied(q, s) = [q EXCEPT !.failure = "SCRIPT_STATUS"]
      BY <1>2, Zenon DEF Applied
    <2> QED
      BY <1>2, <2>1 DEF RequestType
  <1>3. CASE s.res # "die" /\ s.cmd = "cancel"
    <2>1. ~(s.res = "die") /\ s.cmd # "submit" /\ s.cmd # "poll" /\ s.cmd # "stage_in"
          /\ s.cmd # "stage_out" /\ s.cmd # "signal"
      BY <1>3
    <2>2. Applied(q, s) = CancelApplied(q, s)
      BY <1>3, <2>1, Zenon DEF Applied
    <2> QED
      BY <1>3, <2>2 DEF CancelApplied
  <1>4. CASE s.res # "die" /\ s.cmd = "signal"
    <2>1. ~(s.res = "die") /\ s.cmd # "submit" /\ s.cmd # "poll" /\ s.cmd # "stage_in"
          /\ s.cmd # "stage_out" /\ s.cmd # "cancel"
      BY <1>4
    <2>2. Applied(q, s) = IF s.res = "ok" /\ ValidChange(q.status, "SUSPENDED")
                          THEN [q EXCEPT !.status = "SUSPENDED", !.unsent = TRUE] ELSE q
      BY <1>4, <2>1, Zenon DEF Applied
    <2> QED
      BY <1>4, <2>2 DEF RequestType
  <1> QED
    BY <1>1, <1>2, <1>3, <1>4

LEMMA WatchScriptDone ==
    ASSUME Trust, NEW i \in DOMAIN scripts, ScriptDone(i)
    PROVE  Watch'
  <1> USE DEF place, mgr, env, ghosts
  <1>0. /\ r \in RequestType /\ scripts \in Seq(ScriptType) /\ DOMAIN scripts = 1..Len(scripts)
        /\ Len(scripts) = 1 /\ i = 1 /\ mem = "live" /\ r.jm \in Working
        /\ scripts[i] \in ScriptType /\ ScriptKnown(scripts[i]) /\ Suits(scripts[i], r.jm)
        /\ scripts[i].cmd = "stage_in" => job.stageIn
    <2>1. r \in RequestType /\ scripts \in Seq(ScriptType)
      BY DEF Trust, BasicInv, Types
    <2>2. DOMAIN scripts = 1..Len(scripts) /\ scripts # <<>>
      BY <2>1, LenProperties, EmptySeq
    <2>3. Len(scripts) = 1 /\ mem = "live" /\ r.jm \in Working
      BY <2>2 DEF Trust, OneScript, BasicInv, Placed
    <2>4. i = 1 /\ scripts[i] \in ScriptType
      BY <2>1, <2>2, <2>3, ElementOfSeq
    <2> QED
      BY <2>1, <2>2, <2>3, <2>4 DEF Trust, BasicInv, Known, Watch, OnceInv, Staging
  <1> DEFINE s == scripts[i]
             q == Applied(r, s)
  <1>1. /\ r' = [q EXCEPT !.timer = TRUE] /\ scripts' = Without(scripts, i) /\ s.res # "none"
        /\ file' = file \/ (file' = Written(q) /\ s.cmd \in {"stage_in", "stage_out"}
                            /\ r.jm # "STOP")
        /\ UNCHANGED <<job, mem, lrm, told, used>>
    BY DEF ScriptDone
  <1>2. /\ q \in RequestType /\ Keeps(q, r)
        /\ r.status = "FAILED" => q.status = "FAILED"
        /\ s.cmd = "submit" /\ s.res = "ok" => q.id = s.id /\ q.status \in {r.status, "PENDING"}
        /\ s.cmd = "cancel" /\ s.res # "ok" => q.id = r.id /\ q.status = r.status
        /\ s.cmd = "signal" => q.id = r.id /\ q.status \in {r.status, "SUSPENDED"}
    BY <1>0, <1>1, AppliedKeeps, AppliedFailed, AppliedWatched
  <1> HIDE DEF q
  <1>3. /\ r'.jm = r.jm /\ r'.restart = r.restart /\ r'.jmRestart = r.jmRestart
        /\ r'.status = q.status /\ r'.id = q.id
    BY <1>1, <1>2 DEF Keeps, RequestType
  <1>4. Len(scripts') = 0 /\ scripts' = <<>>
    <2>1. Without(scripts, i) \in Seq(ScriptType) /\ Len(Without(scripts, i)) = Len(scripts) - 1
      BY <1>0, WithoutKeeps
    <2> QED
      BY <1>0, <1>1, <2>1, EmptySeq
  <1>5. (Running' <=> Running) /\ (AtWork' <=> Running) /\ (Gone' <=> Gone)
    BY <1>1, <1>4 DEF Running, AtWork, Gone
  <1>6. Running => AtWork
    BY DEF AtWork
  <1>7. Running => Watching(r) /\ lrm # <<>>
    BY <1>0, <1>6, TrustFacts DEF Trust, Watch, Fits
  <1>8. Running => s.cmd \notin {"stage_in", "stage_out", "poll"}
    BY <1>0, <1>7 DEF Suits, Watching, Poll
  <1>9. Running => Watching(r)'
    <2> SUFFICES ASSUME Running PROVE Watching(r)'
      OBVIOUS
    <2>1. s.cmd \in {"submit", "cancel", "signal"}
      BY <1>0, <1>8 DEF ScriptType, Cmds
    <2>2. CASE s.cmd = "submit"
      <3>1. r.jm = "SUBMIT" /\ s.res = "ok" /\ s.id = Len(lrm)
        BY <1>0, <1>7, <2>2 DEF Suits
      <3>2. r'.jm = "SUBMIT" /\ r'.id = Len(lrm) /\ r'.status \notin Bad
        BY <1>2, <1>3, <1>7, <2>2, <3>1 DEF Watching, Bad, Over
      <3> QED
        BY <1>1, <3>2 DEF Watching, Poll
    <2>3. CASE s.cmd \in {"cancel", "signal"}
      <3>1. r.jm = "POLL_QUERY2" /\ (s.cmd = "cancel" => s.res # "ok")
        BY <1>0, <2>3 DEF Suits
      <3>2. r'.jm = "POLL_QUERY2" /\ r'.id = r.id /\ r'.status \notin Bad
        BY <1>2, <1>3, <1>7, <2>3, <3>1 DEF Watching, Bad, Over
      <3>3. r'.id = Len(lrm)
        BY <1>7, <3>1, <3>2 DEF Watching, Poll
      <3> QED
        BY <1>1, <3>2, <3>3 DEF Watching, Poll
    <2> QED
      BY <2>1, <2>2, <2>3
  <1>10. Past(r) => Past(r)'
    BY <1>3 DEF Past
  <1>11. Doomed(r) => Doomed(r)'
    BY <1>2, <1>3 DEF Doomed, Clear
  <1>12. Fits(r)'
    BY <1>0, <1>1, <1>5, <1>9, <1>10, <1>11 DEF Trust, Watch, Fits
  <1>13. Running => told' # "FAILED" /\ WatchingFile(file)'
    <2>1. Running => told # "FAILED" /\ WatchingFile(file) /\ file' = file
      BY <1>1, <1>6, <1>8 DEF Trust, Watch
    <2> QED
      BY <1>1, <1>5, <2>1 DEF WatchingFile
  <1>14. told = "FAILED" /\ lrm = <<>> => DoomedFile(file)'
    <2> SUFFICES ASSUME told = "FAILED", lrm = <<>> PROVE DoomedFile(file')
      BY DEF DoomedFile
    <2>1. CASE file' = file
      BY <2>1 DEF Trust, Watch
    <2>2. CASE file' # file
      <3>1. file'.state = r.jm
        <4>1. q.jm = r.jm
          BY <1>2 DEF Keeps
        <4> QED
          BY <1>1, <1>2, <2>2, <4>1, WrittenType
      <3>2. s.cmd = "stage_out" => r.jm = "STAGE_OUT"
        BY <1>0 DEF Suits
      <3>3. s.cmd = "stage_in" => r.jm = "FAILED"
        <4>1. s.cmd = "stage_in" => used["crash"] = 0
          BY <1>0, TrustFacts DEF Lonely
        <4>2. used["crash"] = 0 => Past(r)
          BY <1>0 DEF Trust, Watch, Fits, Gone
        <4> QED
          BY <1>0, <4>1, <4>2 DEF Suits, Past, Early
      <3> QED
        BY <1>1, <2>2, <3>1, <3>2, <3>3 DEF DoomedFile, After, Closing
    <2> QED
      BY <2>1, <2>2
  <1>15. r'.jm # "FAILED_CLOSE_OUTPUT"
    BY <1>0, <1>3 DEF Working
  <1>16. Len(lrm') <= 1
    BY <1>1 DEF Trust, Watch
  <1> QED
    BY <1>1, <1>4, <1>5, <1>12, <1>13, <1>14, <1>15, <1>16 DEF Watch

LEMMA WatchEvents ==
    ASSUME Trust, TimerFires \/ CallbackReply \/ SegResume \/ ProcessPendingRestart
                  \/ Events \/ SwapOut
    PROVE  Watch'
  <1> USE DEF place, mgr, env, ghosts
  <1>0. /\ r \in RequestType /\ job \in Jobs /\ resumed \in Seq(EventType)
    BY DEF Trust, BasicInv, Types
  <1>1. ASSUME Same(r', r), r'.unsent = r.unsent, UNCHANGED <<job, mem, lrm, scripts, file, told, used>>
        PROVE  Watch'
    <2>1. Running' <=> Running
      BY <1>1 DEF Running
    <2>2. (AtWork' <=> AtWork) /\ (Gone' <=> Gone)
      BY <1>1, <2>1 DEF AtWork, Gone
    <2>3. /\ WatchingFile(file) => WatchingFile(file)'
          /\ DoomedFile(file) => DoomedFile(file)'
          /\ Watching(r) => Watching(r)'
          /\ Doomed(r) => Doomed(r)'
          /\ Past(r) => Past(r)'
      BY <1>1, <2>1 DEF WatchingFile, DoomedFile, Watching, Doomed, Past, Clear, Same
    <2>4. mem' = "live" => Fits(r)'
      BY <1>1, <2>2, <2>3 DEF Trust, Watch, Fits
    <2>5. \A i \in 1..Len(scripts') : Suits(scripts[i], r.jm)'
      BY <1>1, <2>1 DEF Suits, Same, Trust, Watch
    <2>6. r'.jm = r.jm
      BY <1>1 DEF Same
    <2> QED
      BY <1>1, <2>2, <2>3, <2>4, <2>5, <2>6 DEF Trust, Watch
  <1>2. CASE TimerFires \/ CallbackReply
    <2>1. \E t \in BOOLEAN : r' = [r EXCEPT !.timer = t]
      BY <1>2 DEF TimerFires, CallbackReply
    <2>2. Same(r', r) /\ r'.unsent = r.unsent
      BY <1>0, <2>1 DEF Same, RequestType
    <2> QED
      BY <1>1, <1>2, <2>2 DEF TimerFires, CallbackReply
  <1>3. CASE ProcessPendingRestart
    <2>1. /\ TakeReference /\ r' = Referenced
          /\ UNCHANGED <<job, file, scripts, lrm, told, used>>
      BY <1>3 DEF ProcessPendingRestart
    <2> QED
      BY <2>1, FitsReferenced, WatchReference
  <1>4. ASSUME UNCHANGED <<job, mem, r, file, scripts, lrm, told, used>>
        PROVE  Watch'
    BY <1>1, <1>4 DEF Same
  <1>5. CASE SegResume
    <2>1. PICK es \in Seq(EventType) :
             /\ \A k \in DOMAIN es : \E j \in DOMAIN resumed : es[k] = resumed[j]
             /\ run = "idle" /\ resumed' = <<>>
             /\ \/ /\ TakeReference /\ r' = Delivered(Referenced, es)
                   /\ idHash' = StillHashed(es)
                \/ UNCHANGED <<mem, loaded, pending, r, pause, idHash>>
             /\ UNCHANGED <<job, run, file, scripts, posts, held, env, ghosts, used>>
      BY <1>0, <1>5, SegResumeIs
    <2> QED
      BY <1>4, <2>1, WatchDelivered
  <1>6. ASSUME NEW i \in DOMAIN lrm, SegEvent(i)
        PROVE  Watch'
    <2> DEFINE e == [id |-> i, state |-> LogOf(i)[pos[i] + 1]]
    <2>1. /\ UNCHANGED <<job, run, file, scripts, posts, resumed, lrm, ghosts, used>>
          /\ \/ TakeReference /\ r' = Delivered(Referenced, <<e>>) /\ UNCHANGED held
             \/ UNCHANGED <<mem, loaded, pending, r, pause, idHash>>
      BY <1>6 DEF SegEvent
    <2>2. lrm \in Seq(LrmStates) /\ pos \in Seq(Nat) /\ Len(pos) = Len(lrm)
      BY DEF Trust, BasicInv, Types
    <2>3. i \in 1..Len(lrm) /\ i \in Nat /\ pos[i] \in Nat /\ pos[i] < Len(LogOf(i))
      BY <1>6, <2>2, LenProperties, ElementOfSeq DEF SegEvent
    <2>4. e \in EventType
      BY <2>2, <2>3, LogEntry DEF EventType
    <2> HIDE DEF e
    <2>5. <<e>> \in Seq(EventType)
      BY <2>4
    <2> QED
      BY <1>4, <2>1, <2>5, WatchDelivered
  <1>7. CASE SwapOut
    <2>1. /\ file' = Written(r) /\ r' = NewRequest /\ mem' = "stub" /\ r.jm \in {"POLL2", "STOP"}
          /\ mem = "live" /\ scripts = <<>>
          /\ UNCHANGED <<job, scripts, lrm, told, used>>
      BY <1>7 DEF SwapOut, Referrers
    <2>2. /\ r'.jm = "START" /\ Len(scripts) = 0
      BY <1>0, <2>1, NewRequestType
    <2>3. /\ file'.state = (IF r.jm = "STOP" THEN r.restart ELSE r.jm) /\ file'.status = r.status
          /\ file'.id = r.id /\ file' # NoFile
      BY <1>0, <2>1, WrittenType
    <2>4. (Running' <=> Running) /\ (AtWork' <=> Running) /\ (Running => AtWork)
      BY <2>1, <2>2 DEF Running, AtWork
    <2>5. Running => told # "FAILED" /\ Watching(r)
      BY <2>1, <2>4 DEF Trust, Watch, Fits
    <2>6. Running => WatchingFile(file)'
      BY <2>1, <2>3, <2>4, <2>5 DEF Watching, WatchingFile, Poll
    <2>7. r.jm = "STOP" => r.restart \in EndWaits
      BY DEF Trust, Straight
    <2>8. DoomedFile(file)'
      BY <2>1, <2>3, <2>7 DEF DoomedFile, After, Poll, Closing, EndWaits
    <2> QED
      BY <2>1, <2>2, <2>4, <2>5, <2>6, <2>8 DEF Trust, Watch
  <1> QED
    BY <1>2, <1>3, <1>5, <1>6, <1>7, WatchScriptDone DEF Events

-----------------------------------------------------------------------------
(* Scripts, the LRM, the client and crashes *)

\* Nothing but the LRM changes, and it starts no job.
LEMMA WatchEnds ==
    ASSUME Trust, UNCHANGED <<job, mem, r, file, scripts, told, used>>, Len(lrm') = Len(lrm),
           lrm' \in Seq(LrmStates), Running' => Running
    PROVE  Watch'
  <1>1. lrm \in Seq(LrmStates)
    BY DEF Trust, BasicInv, Types
  <1>2. lrm' = <<>> <=> lrm = <<>>
    <2>1. lrm = <<>> <=> Len(lrm) = 0
      BY <1>1, EmptySeq
    <2>2. lrm' = <<>> <=> Len(lrm') = 0
      BY EmptySeq
    <2> QED
      BY <2>1, <2>2
  <1>3. (AtWork' => AtWork) /\ (Gone' <=> Gone)
    BY <1>2 DEF AtWork, Gone
  <1>4. /\ WatchingFile(file) => WatchingFile(file)'
        /\ DoomedFile(file) => DoomedFile(file)'
        /\ Watching(r) => Watching(r)'
        /\ Doomed(r) => Doomed(r)'
        /\ Past(r) => Past(r)'
    BY DEF WatchingFile, DoomedFile, Watching, Doomed, Past, Clear
  <1>5. mem' = "live" => Fits(r)'
    BY <1>2, <1>3, <1>4 DEF Trust, Watch, Fits
  <1>6. \A i \in 1..Len(scripts') : Suits(scripts[i], r.jm)'
    BY <1>2 DEF Suits, Trust, Watch
  <1> QED
    BY <1>2, <1>3, <1>4, <1>5, <1>6 DEF Trust, Watch

LEMMA WatchLrm ==
    ASSUME Trust, Lrm
    PROVE  Watch'
  <1> USE DEF place, mgr, env, ghosts
  <1>1. PICK i \in DOMAIN lrm : LrmProgress(i)
    BY DEF Lrm
  <1>2. /\ UNCHANGED <<job, mem, r, file, scripts, told, used>>
        /\ ~Ended(lrm[i]) /\ \E n : lrm' = [lrm EXCEPT ![i] = n]
    BY <1>1 DEF LrmProgress, Ended
  <1>3. lrm \in Seq(LrmStates) /\ DOMAIN lrm = 1..Len(lrm)
    BY LenProperties DEF Trust, BasicInv, Types
  <1>4. lrm' \in Seq(LrmStates) /\ Len(lrm') = Len(lrm)
    <2>1. BasicInv'
      BY BasicLrm DEF Trust, Lrm
    <2>2. lrm' \in Seq(LrmStates) /\ DOMAIN lrm' = DOMAIN lrm
      BY <1>2, <2>1 DEF BasicInv, Types
    <2> QED
      BY <1>3, <2>2, LenProperties
  <1>5. Running
    BY <1>2, <1>3 DEF Running
  <1> QED
    BY <1>2, <1>4, <1>5, WatchEnds

LEMMA WatchScripts ==
    ASSUME Trust, Scripts
    PROVE  Watch'
  <1> USE DEF place, mgr, env, ghosts
  <1>0. /\ scripts \in Seq(ScriptType) /\ DOMAIN scripts = 1..Len(scripts) /\ lrm \in Seq(LrmStates)
        /\ DOMAIN lrm = 1..Len(lrm) /\ Len(lrm) \in Nat
    BY LenProperties DEF Trust, BasicInv, Types
  <1>1. PICK i \in DOMAIN scripts : ScriptRuns(i)
    BY DEF Scripts
  <1> DEFINE s == scripts[i]
             running == s.id > 0 /\ ~Ended(lrm[s.id])
             id == IF s.cmd = "submit" THEN Len(lrm) + 1 ELSE s.id
  <1>2. /\ Len(scripts) = 1 /\ i = 1 /\ mem = "live" /\ s \in ScriptType /\ ScriptKnown(s)
        /\ Suits(s, r.jm) /\ (s.cmd = "submit" => file.state = "SUBMIT")
    <2>1. scripts # <<>>
      BY <1>0, <1>1, EmptySeq
    <2>2. Len(scripts) = 1 /\ mem = "live"
      BY <2>1 DEF Trust, OneScript, BasicInv, Placed
    <2>3. i = 1
      BY <1>0, <2>2
    <2>4. s \in ScriptType
      BY <1>0, <2>2, <2>3, ElementOfSeq
    <2> QED
      BY <1>0, <2>2, <2>3, <2>4 DEF Trust, BasicInv, Known, Watch, Intended
  <1>3. UNCHANGED <<job, mem, r, file, told, used>> /\ s.res = "none"
    BY <1>1 DEF ScriptRuns
  <1>4. PICK res \in {"ok", "err", "die"} :
           /\ scripts' = [scripts EXCEPT
                  ![i].id = id,
                  ![i].res = IF s.cmd = "poll" /\ res = "ok" THEN lrm[s.id] ELSE res]
           /\ lrm' = IF res = "ok" /\ s.cmd = "submit" THEN Append(lrm, "PENDING")
                     ELSE IF res = "ok" /\ s.cmd = "cancel" /\ running
                     THEN [lrm EXCEPT ![s.id] = "FAILED"] ELSE lrm
    BY <1>1 DEF ScriptRuns
  <1>5. lrm' \in Seq(LrmStates) /\ scripts' \in Seq(ScriptType)
    <2>1. BasicInv'
      BY BasicScriptRuns DEF Trust, Scripts
    <2> QED
      BY <2>1 DEF BasicInv, Types
  <1>6. /\ DOMAIN scripts' = DOMAIN scripts /\ scripts'[1].cmd = s.cmd /\ scripts'[1].id = id
        /\ s.cmd # "poll" => scripts'[1].res = res
    BY <1>0, <1>2, <1>4 DEF ScriptType
  <1>7. Len(scripts') = 1 /\ scripts' # <<>>
    <2>1. Len(scripts') = Len(scripts)
      BY <1>0, <1>5, <1>6, LenProperties
    <2>2. Len(scripts') = 1
      BY <1>2, <2>1
    <2> QED
      BY <2>2, EmptySeq
  <1>8. (AtWork <=> Running \/ s.cmd = "submit") /\ (AtWork' <=> Running' \/ s.cmd = "submit")
    <2>1. scripts[1].cmd = s.cmd
      BY <1>2
    <2> QED
      BY <1>2, <1>6, <1>7, <2>1 DEF AtWork
  <1>9. /\ Fits(r)
        /\ AtWork => told # "FAILED" /\ WatchingFile(file) /\ Watching(r)
        /\ told = "FAILED" \/ (r.jm = "FAILED_CLOSE_OUTPUT" /\ r.unsent) =>
              (lrm = <<>> => DoomedFile(file))
        /\ Len(lrm) <= 1
    BY <1>2 DEF Trust, Watch, Fits
  <1>10. s.id \in Int /\ s.id <= Len(lrm)
    BY <1>2, <1>3 DEF ScriptType, ScriptKnown
  <1>11. Suits(scripts[1], r.jm)' => \A k \in 1..Len(scripts') : Suits(scripts[k], r.jm)'
    <2> SUFFICES ASSUME Suits(scripts[1], r.jm)', NEW k \in 1..Len(scripts')
                 PROVE  Suits(scripts[k], r.jm)'
      OBVIOUS
    <2>1. k = 1
      BY <1>7
    <2> QED
      BY <2>1 DEF Suits
  <1>12. CASE res = "ok" /\ s.cmd = "submit"
    <2>1. lrm = <<>> /\ r.jm = "SUBMIT"
      BY <1>2, <1>3, <1>12 DEF Suits
    <2>2. Len(lrm') = 1 /\ lrm' # <<>> /\ Len(lrm) = 0
      <3>1. "PENDING" \in LrmStates
        BY DEF LrmStates
      <3>2. lrm' = Append(lrm, "PENDING") /\ Len(lrm) = 0
        BY <1>4, <1>12, <2>1
      <3> QED
        BY <1>0, <3>1, <3>2, AppendProperties
    <2>3. told # "FAILED" /\ WatchingFile(file) /\ Watching(r)
      BY <1>8, <1>9, <1>12
    <2>4. Watching(r)' /\ WatchingFile(file)'
      BY <1>2, <1>3, <1>7, <1>12, <2>1, <2>3 DEF Watching, WatchingFile, Poll
    <2>5. Suits(scripts[1], r.jm)'
      BY <1>3, <1>6, <1>12, <2>1, <2>2 DEF Suits
    <2>6. Past(r)'
      BY <1>3, <2>1 DEF Past, Early
    <2>7. Fits(r)'
      BY <1>3, <2>3, <2>4, <2>6 DEF Fits
    <2>8. Len(lrm') <= 1 /\ told' # "FAILED" /\ r'.jm # "FAILED_CLOSE_OUTPUT"
      BY <1>3, <2>1, <2>2, <2>3
    <2> QED
      BY <1>11, <2>4, <2>5, <2>7, <2>8 DEF Watch
  <1>13. CASE res = "ok" /\ s.cmd = "cancel" /\ running
    <2>1. Running
      BY <1>10, <1>0, <1>13 DEF Running
    <2>2. Len(lrm) = 1 /\ s.id = 1
      <3>1. Len(lrm) = 1
        BY <2>1, TrustFacts
      <3> QED
        BY <1>10, <1>13, <3>1
    <2>3. lrm' = [lrm EXCEPT ![1] = "FAILED"]
      BY <1>4, <1>13, <2>2
    <2>4. DOMAIN lrm' = DOMAIN lrm /\ lrm'[1] = "FAILED"
      BY <1>0, <2>2, <2>3
    <2>5. Len(lrm') = 1 /\ lrm' # <<>> /\ lrm # <<>>
      <3>1. Len(lrm') = Len(lrm)
        BY <1>0, <1>5, <2>4, LenProperties
      <3> QED
        BY <2>2, <3>1, EmptySeq
    <2>6. ~Running' /\ ~AtWork'
      <3>1. ~Running'
        BY <2>4, <2>5 DEF Running, Ended
      <3> QED
        BY <1>8, <1>13, <3>1
    <2>7. r.jm = "POLL_QUERY2"
      BY <1>2, <1>13 DEF Suits
    <2>8. Suits(scripts[1], r.jm)'
      BY <1>3, <1>6, <1>13, <2>6, <2>7 DEF Suits
    <2>9. Past(r)'
      BY <1>3, <2>7 DEF Past, Early
    <2>10. Fits(r)'
      BY <2>5, <2>6, <2>9 DEF Fits
    <2> QED
      BY <1>11, <2>5, <2>6, <2>8, <2>10 DEF Watch
  <1>14. CASE ~(res = "ok" /\ s.cmd = "submit") /\ ~(res = "ok" /\ s.cmd = "cancel" /\ running)
    <2>1. lrm' = lrm
      BY <1>4, <1>14
    <2>2. (Running' <=> Running) /\ (Gone' <=> Gone)
      BY <1>3, <2>1 DEF Running, Gone
    <2>3. s.cmd = "cancel" /\ Running => res # "ok"
      <3> SUFFICES ASSUME s.cmd = "cancel", Running PROVE running
        BY <1>14
      <3>1. s.id = Len(lrm)
        BY <1>2, <1>3 DEF Suits
      <3>2. Len(lrm) = 1 /\ Unended
        BY TrustFacts
      <3> QED
        BY <3>1, <3>2 DEF Unended
    <2>4. Suits(scripts[1], r.jm)'
      BY <1>2, <1>3, <1>6, <1>14, <2>1, <2>2, <2>3 DEF Suits
    <2>5. /\ WatchingFile(file) => WatchingFile(file)'
          /\ DoomedFile(file) => DoomedFile(file)'
          /\ Watching(r) => Watching(r)'
          /\ Doomed(r) => Doomed(r)'
          /\ Past(r) => Past(r)'
      BY <1>3, <1>7, <2>1, <2>2 DEF WatchingFile, DoomedFile, Watching, Doomed, Past, Clear
    <2>6. AtWork' <=> AtWork
      BY <1>8, <2>2
    <2>7. Fits(r)'
      BY <1>3, <1>9, <2>1, <2>2, <2>5, <2>6 DEF Fits
    <2> QED
      BY <1>3, <1>9, <1>11, <2>1, <2>4, <2>5, <2>6, <2>7 DEF Watch
  <1> QED
    BY <1>12, <1>13, <1>14

LEMMA WatchCrash ==
    ASSUME Trust, Crash
    PROVE  Watch'
  <1> USE DEF ghosts
  <1>1. /\ scripts' = <<>> /\ r' = NewRequest /\ mem' # "live" /\ UNCHANGED <<job, file, lrm, told>>
    BY DEF Crash
  <1>2. r'.jm = "START" /\ Len(scripts') = 0
    BY <1>1, NewRequestType DEF Trust, BasicInv, Types
  <1>3. (Running' <=> Running) /\ (AtWork' <=> Running) /\ (Running => AtWork)
    BY <1>1, <1>2 DEF Running, AtWork
  <1>4. /\ WatchingFile(file) => WatchingFile(file)'
        /\ DoomedFile(file) => DoomedFile(file)'
    BY <1>1, <1>3 DEF WatchingFile, DoomedFile
  <1> QED
    BY <1>1, <1>2, <1>3, <1>4 DEF Trust, Watch

-----------------------------------------------------------------------------
(* The client *)

LEMMA WatchClient ==
    ASSUME Trust, Trusted', Client
    PROVE  Watch'
  <1> USE DEF place, mgr, env, ghosts
  <1> DEFINE q == Referenced
  <1>1. job \in Jobs /\ used \in [DOMAIN Max -> Nat] /\ BasicInv /\ Undisturbed'
    BY DEF Trust, BasicInv, Types, Trusted
  <1>2. TakeReference =>
          /\ q \in RequestType /\ Fits(q) /\ Alone(q) /\ Honest(q)
          /\ \A i \in 1..Len(scripts) : Suits(scripts[i], q.jm)
          /\ q.jm \notin Working => Len(scripts) = 0
    BY FitsReferenced, SuitsFree, HonestReferenced DEF Trust
  <1>3. ASSUME NEW p, Apply(p), UNCHANGED file, used'["crash"] = used["crash"], Fits(p),
               \A i \in 1..Len(scripts) : Suits(scripts[i], p.jm),
               p.jm = "FAILED_CLOSE_OUTPUT" => q.jm = p.jm /\ p.unsent = q.unsent
        PROVE  Watch'
    <2>1. TakeReference /\ r' = p /\ UNCHANGED <<job, lrm, told, scripts>>
      BY <1>3 DEF Apply
    <2> QED
      BY <1>3, <2>1, WatchReference
  <1>4. "crash" \in DOMAIN Max /\ "cancel" \in DOMAIN Max /\ "signal" \in DOMAIN Max
    BY MaxAssumption DEF BoundType
  <1>5. ASSUME NEW what \in {"cancel", "signal", "extend", "unregister"}, Spend(what)
        PROVE  used'["crash"] = used["crash"]
    BY <1>1, <1>4, <1>5, SpendIs
  <1>6. CASE CommitRequest
    <2> DEFINE p == [q EXCEPT !.jm = "TWO_PHASE_COMMITTED", !.timer = TRUE]
    <2>1. /\ Apply(p) /\ TakeReference /\ UNCHANGED <<file, used>>
          /\ q.jm \in {"START", "TWO_PHASE", "TWO_PHASE_QUERY1", "TWO_PHASE_QUERY2"}
      BY <1>6 DEF CommitRequest, Apply
    <2>2. p.jm = "TWO_PHASE_COMMITTED"
      BY <1>2, <2>1 DEF RequestType
    <2> HIDE DEF p
    <2>3. q.jm \in {"START", "TWO_PHASE"}
      BY <1>2, <2>1 DEF Alone
    <2>4. ~Gone
      <3>1. SoloInv /\ OnceInv
        BY <2>1 DEF Trust, SoloInv, TakeReference
      <3>2. used["crash"] = 0 => ~Gone
        BY <1>2, <2>1, <2>3 DEF Fits, Past, Early
      <3>3. used["crash"] # 0 => lrm = <<>>
        BY <1>1, <2>1, <2>3, <3>1, TrustFacts, ClearReferenced DEF Clear
      <3>4. lrm = <<>> => told # "FAILED"
        BY <1>2, <2>1, <2>3 DEF Fits, Doomed, Clear
      <3> QED
        BY <3>2, <3>3, <3>4 DEF Gone
    <2> HIDE DEF q
    <2>5. ~AtWork
      BY <1>2, <2>1, <2>3 DEF Fits, Watching, Poll
    <2>6. Fits(p)
      BY <2>4, <2>5 DEF Fits, Gone
    <2>7. Len(scripts) = 0
      BY <1>2, <2>1, <2>3 DEF Working
    <2> QED
      BY <1>3, <2>1, <2>2, <2>6, <2>7
  <1>7. ASSUME TakeReference, NEW c \in RequestType, c.jm = q.jm,
               c.jm \in {"TWO_PHASE_END", "FAILED_TWO_PHASE", "STOP"}
        PROVE  /\ Fits(EndCommitted(c)) /\ Len(scripts) = 0
               /\ EndCommitted(c).jm # "FAILED_CLOSE_OUTPUT"
    <2> DEFINE p == EndCommitted(c)
    <2>1. p.jm \in {"TWO_PHASE_END_COMMITTED", "FAILED_TWO_PHASE_COMMITTED"}
      BY <1>7 DEF EndCommitted, RequestType
    <2> HIDE DEF p, q
    <2>2. ~AtWork
      BY <1>2, <1>7 DEF Fits, Watching, Poll
    <2>3. Past(p) /\ Doomed(p)
      BY <2>1 DEF Past, Doomed, Clear, Early
    <2>4. Len(scripts) = 0
      BY <1>2, <1>7 DEF Working
    <2> QED
      BY <2>1, <2>2, <2>3, <2>4 DEF Fits, p
  <1>8. CASE CommitEnd
    <2>1. /\ Apply(EndCommitted(q)) /\ TakeReference /\ UNCHANGED <<file, used>>
          /\ q.jm \in {"TWO_PHASE_END", "FAILED_TWO_PHASE", "STOP"}
      BY <1>8 DEF CommitEnd, Apply
    <2> HIDE DEF q
    <2> QED
      BY <1>2, <1>3, <1>7, <2>1
  <1>9. ASSUME TakeReference, NEW p, Same(p, q), Apply(p), UNCHANGED file, p.unsent = q.unsent,
               used'["crash"] = used["crash"]
        PROVE  Watch'
    <2>1. Fits(p) /\ p.jm = q.jm
      BY <1>2, <1>9, FitsSame DEF Same
    <2> HIDE DEF q
    <2> QED
      BY <1>2, <1>3, <1>9, <2>1
  <1>10. CASE CommitExtend
    <2> DEFINE p == [q EXCEPT !.extend = TRUE]
    <2>1. Apply(p) /\ TakeReference /\ UNCHANGED file /\ Spend("extend")
      BY <1>10 DEF CommitExtend, Apply
    <2>2. Same(p, q) /\ p.unsent = q.unsent
      BY <1>2, <2>1 DEF Same, RequestType
    <2> HIDE DEF p, q
    <2> QED
      BY <1>5, <1>9, <2>1, <2>2
  <1>11. ASSUME TakeReference, NEW query, NEW wakes,
                wakes["POLL2"] = "POLL_QUERY1",
                DOMAIN wakes = {"POLL2"} \/ (DOMAIN wakes = {"POLL2", "TWO_PHASE"} /\ q.jm # "TWO_PHASE"),
                Apply(Queued(q, query, wakes)), UNCHANGED file,
                used'["crash"] = used["crash"]
        PROVE  Watch'
    <2> DEFINE p == Queued(q, query, wakes)
               a == Append(q.queries, query)
               j == IF q.jm \in DOMAIN wakes THEN wakes[q.jm] ELSE q.jm
               t == q.timer \/ q.jm \in DOMAIN wakes
    <2>1. j = q.jm \/ (q.jm = "POLL2" /\ j = "POLL_QUERY1")
      BY <1>11
    <2>2. p = [q EXCEPT !.queries = a, !.jm = j, !.timer = t]
      BY <1>2, <1>11 DEF Queued, RequestType
    <2> HIDE DEF a, j, t, q
    <2>3. /\ p.jm = j /\ p.restart = q.restart /\ p.jmRestart = q.jmRestart
          /\ p.status = q.status /\ p.id = q.id /\ p.unsent = q.unsent
      BY <1>2, <1>11, <2>2 DEF RequestType
    <2>4. Apply(p)
      BY <1>11
    <2> HIDE DEF p
    <2>5. CASE j = q.jm
      BY <1>9, <1>11, <2>3, <2>4, <2>5 DEF Same
    <2>6. CASE j # q.jm
      <3>1. Fits(p)
        BY <1>2, <1>11, <2>1, <2>3, <2>6, FitsWoken DEF Poll
      <3>2. Len(scripts) = 0
        BY <1>2, <1>11, <2>1, <2>6 DEF Working
      <3> QED
        BY <1>3, <1>11, <2>1, <2>3, <2>4, <2>6, <3>1, <3>2
    <2> QED
      BY <2>5, <2>6
  <1>12. CASE Cancel
    <2> DEFINE w == [POLL2 |-> "POLL_QUERY1"]
               u == q.unsent \/ q.jm # "START"
               p == [q EXCEPT !.jm = "FAILED", !.status = "FAILED",
                              !.failure = "USER_CANCELLED", !.unsent = u]
    <2>1. /\ TakeReference /\ UNCHANGED file /\ Spend("cancel")
          /\ \/ Apply(Queued(q, "cancel", w))
             \/ Apply(p) /\ q.jm \in {"START", "TWO_PHASE", "TWO_PHASE_COMMITTED", "STAGE_IN"}
      BY <1>12 DEF Cancel, Apply
    <2>2. used'["crash"] = used["crash"]
      BY <1>5, <2>1
    <2>3. CASE Apply(Queued(q, "cancel", w))
      <3>1. DOMAIN w = {"POLL2"} /\ w["POLL2"] = "POLL_QUERY1"
        OBVIOUS
      <3> HIDE DEF w, q
      <3> QED
        BY <1>11, <2>1, <2>2, <2>3, <3>1
    <2>4. CASE Apply(p) /\ q.jm \in {"START", "TWO_PHASE", "TWO_PHASE_COMMITTED", "STAGE_IN"}
      <3>1. used["crash"] = 0
        <4>1. used'["cancel"] = used["cancel"] + 1 /\ used["cancel"] \in Nat
          BY <1>1, <1>4, <2>1, SpendIs
        <4>2. used'["crash"] \in Nat
          BY <1>1, <1>4, <2>2
        <4>3. ~(used'["crash"] > 0)
          BY <4>1 DEF Trusted
        <4> QED
          BY <2>2, <4>2, <4>3
      <3>2. p.jm = "FAILED"
        BY <1>2, <2>1 DEF RequestType
      <3> HIDE DEF p, q
      <3>3. ~AtWork
        BY <1>2, <2>1, <2>4, <3>1 DEF Fits, Watching, Poll, Honest, Early
      <3>4. Past(p) /\ Doomed(p)
        BY <3>2 DEF Past, Doomed, Clear, Early
      <3>5. Fits(p)
        BY <3>3, <3>4 DEF Fits
      <3>6. \A i \in 1..Len(scripts) : Suits(scripts[i], p.jm)
        <4>1. CASE q.jm = "STAGE_IN"
          BY <1>2, <2>1, <3>2, <4>1 DEF Suits
        <4>2. CASE q.jm # "STAGE_IN"
          BY <1>2, <2>1, <2>4, <4>2 DEF Working
        <4> QED
          BY <4>1, <4>2
      <3> QED
        BY <1>3, <2>1, <2>2, <2>4, <3>2, <3>5, <3>6
    <2> QED
      BY <2>1, <2>3, <2>4
  <1>13. CASE Signal
    <2> DEFINE w == [POLL2 |-> "POLL_QUERY1", TWO_PHASE |-> "TWO_PHASE_QUERY1"]
    <2>1. Apply(Queued(q, "signal", w)) /\ TakeReference /\ UNCHANGED file /\ Spend("signal")
      BY <1>13 DEF Signal, Apply
    <2>2. used'["crash"] = used["crash"]
      BY <1>5, <2>1
    <2>3. ~job.twoPhase
      <3>1. used'["signal"] = used["signal"] + 1 /\ used["signal"] \in Nat
        BY <1>1, <1>4, <2>1, SpendIs
      <3>2. job' = job
        BY <2>1 DEF Apply
      <3> QED
        BY <1>1, <3>1, <3>2 DEF Undisturbed
    <2>4. q.jm # "TWO_PHASE"
      BY <1>2, <2>1, <2>3 DEF Alone
    <2>5. DOMAIN w = {"POLL2", "TWO_PHASE"} /\ w["POLL2"] = "POLL_QUERY1"
      OBVIOUS
    <2> HIDE DEF w, q
    <2> QED
      BY <1>11, <2>1, <2>2, <2>4, <2>5
  <1>14. CASE Unregister
    <2> DEFINE c == [q EXCEPT !.contact = FALSE]
               p == IF c.jm = "TWO_PHASE_END" /\ job.twoPhase THEN EndCommitted(c) ELSE c
    <2>1. Apply(p) /\ TakeReference /\ UNCHANGED file /\ Spend("unregister")
      BY <1>14 DEF Unregister, Apply
    <2>2. c \in RequestType /\ Same(c, q) /\ c.unsent = q.unsent
      BY <1>2, <2>1 DEF Same, RequestType
    <2>3. used'["crash"] = used["crash"]
      BY <1>5, <2>1
    <2> HIDE DEF c, q
    <2>4. CASE c.jm = "TWO_PHASE_END" /\ job.twoPhase
      <3>1. p = EndCommitted(c) /\ c.jm = q.jm
        BY <2>2, <2>4 DEF Same
      <3> HIDE DEF p
      <3> QED
        BY <1>3, <1>7, <2>1, <2>2, <2>3, <2>4, <3>1
    <2>5. CASE ~(c.jm = "TWO_PHASE_END" /\ job.twoPhase)
      BY <1>9, <2>1, <2>2, <2>3, <2>5
    <2> QED
      BY <2>4, <2>5
  <1>15. ~(StopManager \/ StdioUpdate \/ ClientRestart)
    <2>1. ASSUME NEW what \in {"stop", "update", "restart"}, Spend(what) PROVE FALSE
      <3>1. used[what] \in Nat
        BY <1>1, MaxAssumption DEF BoundType
      <3>2. used'[what] = used[what] + 1
        BY <1>1, <2>1, SpendIs
      <3>3. used'[what] = 0
        BY <1>1 DEF Undisturbed
      <3> QED
        BY <3>1, <3>2, <3>3
    <2> QED
      BY <2>1 DEF StopManager, StdioUpdate, ClientRestart
  <1> QED
    BY <1>6, <1>8, <1>10, <1>12, <1>13, <1>14, <1>15 DEF Client

\* An expired job has no script at work, and is over.
LEMMA WatchExpire ==
    ASSUME Trust, ExpireOldJob
    PROVE  Watch'
  <1> DEFINE q == Referenced
  <1>1. /\ TakeReference
        /\ \/ r' = q
           \/ /\ q.jm \in {"TWO_PHASE_END", "FAILED_TWO_PHASE"}
              /\ r' = [q EXCEPT !.jm = "FAILED_TWO_PHASE_COMMITTED", !.timer = TRUE]
        /\ UNCHANGED <<job, file, scripts, lrm, told, used>>
    BY ExpireIs DEF Trust
  <1>2. /\ q \in RequestType /\ Fits(q)
        /\ \A i \in 1..Len(scripts) : Suits(scripts[i], q.jm)
        /\ q.jm \notin Working => Len(scripts) = 0
    BY <1>1, FitsReferenced, SuitsFree
  <1>3. CASE r' = q
    BY <1>1, <1>2, <1>3, WatchReference
  <1>4. CASE /\ q.jm \in {"TWO_PHASE_END", "FAILED_TWO_PHASE"}
             /\ r' = [q EXCEPT !.jm = "FAILED_TWO_PHASE_COMMITTED", !.timer = TRUE]
    <2> HIDE DEF q
    <2>1. r'.jm = "FAILED_TWO_PHASE_COMMITTED"
      BY <1>2, <1>4 DEF RequestType
    <2>2. ~AtWork
      BY <1>2, <1>4 DEF Fits, Watching, Poll
    <2>3. Past(r') /\ Doomed(r')
      BY <2>1 DEF Past, Doomed, Clear, Early
    <2>4. Len(scripts) = 0
      BY <1>2, <1>4 DEF Working
    <2>5. Fits(r')
      BY <2>2, <2>3 DEF Fits
    <2> QED
      BY <1>1, <2>1, <2>4, <2>5, WatchReference
  <1> QED
    BY <1>1, <1>3, <1>4

LEMMA WatchNext ==
    BasicInv /\ SoloInv /\ OnceInv /\ TruthInv /\ WatchInv /\ [Next]_vars => WatchInv'
  <1> SUFFICES ASSUME BasicInv, SoloInv, OnceInv, TruthInv, WatchInv, [Next]_vars
               PROVE  EventsInv' /\ (Trusted' => Watch')
    BY DEF WatchInv
  <1>0. EventsInv'
    BY EventsNext DEF WatchInv
  <1> SUFFICES ASSUME Trusted' PROVE Watch'
    BY <1>0
  <1> USE DEF place, mgr, env, ghosts
  <1>1. Trust
    BY TrustedBefore, TrustHolds
  <1>2. CASE Step
    <2>1. WatchGoal
      BY <1>1, <1>2, WatchEarlySteps, WatchLateSteps DEF Step
    <2>2. /\ UNCHANGED <<job, lrm, used>> /\ run # "idle"
      BY <1>2 DEF At, Step, StepStart, StepTwoPhase, StepRestart, StepTwoPhaseCommitted,
         StepStageInFailed, StepSubmitting, StepSubmit, StepPoll1, StepPoll2, StepQuery1,
         StepQuery2, StepClosing, StepCloseOutput, StepFinalStatus, StepTwoPhaseEnd,
         StepCleanUp, StepCacheCleanUp, StepStop, StepDone
    <2>3. scripts = <<>> /\ Watch
      BY <1>1, <2>2, LoopFacts DEF Trust
    <2> QED
      BY <2>1, <2>2, <2>3, WatchStep
  <1>3. CASE TimerFires \/ CallbackReply \/ SegResume \/ ProcessPendingRestart
             \/ Events \/ SwapOut
    BY <1>1, <1>3, WatchEvents
  <1>4. CASE Scripts
    BY <1>1, <1>4, WatchScripts
  <1>5. CASE Lrm
    BY <1>1, <1>5, WatchLrm
  <1>6. CASE Client
    BY <1>1, <1>6, WatchClient
  <1>7. CASE Crash
    BY <1>1, <1>7, WatchCrash
  <1>8. CASE UNCHANGED vars
    <2>1. lrm' \in Seq(LrmStates)
      BY <1>8 DEF BasicInv, Types, vars
    <2>2. Running' => Running
      BY <1>8 DEF Running, vars
    <2> QED
      BY <1>1, <1>8, <2>1, <2>2, WatchEnds DEF vars
  <1>9. CASE ExpireOldJob
    BY <1>1, <1>9, WatchExpire
  <1>10. ~Orphan
    <2> SUFFICES ASSUME Orphan PROVE FALSE
      OBVIOUS
    <2>1. used["orphan"] \in Nat /\ used'["orphan"] = used["orphan"] + 1
      BY OrphanIs
    <2>2. used'["orphan"] = 0
      BY DEF Trusted
    <2> QED
      BY <2>1, <2>2
  <1> QED
    BY <1>2, <1>3, <1>4, <1>5, <1>6, <1>7, <1>8, <1>9, <1>10 DEF Next, Manager

\* A job the client was told FAILED about is over: none of its LRM jobs runs, and no submit
\* script is at work that could still start one.  This holds of every job whose end the
\* job manager cannot miss (Trusted): one that the event generator or condor's log reports
\* and no poll script, whose submit script did not fail or die after the LRM took the job,
\* of a client that does not stop, restart or update the job or signal it before the
\* commit; after a crash, one whose log shows what was submitted before it, and that is
\* not cancelled.
THEOREM FailedIsEnded == Spec => []FailedMostlyMeansEnded
  <1>1. BasicInv /\ WatchInv => FailedMostlyMeansEnded
    <2> SUFFICES ASSUME BasicInv, Watch, told = "FAILED" PROVE FailedMeansEnded
      BY DEF WatchInv, FailedMostlyMeansEnded, FailedMeansEnded
    <2>1. DOMAIN lrm = 1..Len(lrm) /\ DOMAIN scripts = 1..Len(scripts)
      BY LenProperties DEF BasicInv, Types
    <2>2. ~AtWork
      BY DEF Watch
    <2> QED
      BY <2>1, <2>2 DEF FailedMeansEnded, AtWork, Running
  <1> QED
    BY <1>1, BasicInit, BasicNext, SoloInit, SoloNext, OnceInit, OnceNext, TruthInit, TruthNext,
       WatchInit, WatchNext, PTL DEF Spec

\* While an LRM job of such a request runs its state file exists, so that a job manager
\* started after a crash finds the job: no path through the state machine removes the file
\* (at CACHE_CLEAN_UP) before the job ended.
THEOREM RunningIsOnFile == Spec => []RunningJobHasFile
  <1>1. BasicInv /\ WatchInv => RunningJobHasFile
    <2> SUFFICES ASSUME BasicInv, Watch, NEW i \in DOMAIN lrm, ~Ended(lrm[i])
                 PROVE  file # NoFile
      BY DEF WatchInv, RunningJobHasFile
    <2>1. DOMAIN lrm = 1..Len(lrm)
      BY LenProperties DEF BasicInv, Types
    <2>2. AtWork
      BY <2>1 DEF AtWork, Running
    <2> QED
      BY <2>2 DEF Watch, WatchingFile
  <1> QED
    BY <1>1, BasicInit, BasicNext, SoloInit, SoloNext, OnceInit, OnceNext, TruthInit, TruthNext,
       WatchInit, WatchNext, PTL DEF Spec

-----------------------------------------------------------------------------
(* The clean-up waits for the client *)

\* The client does not restart the job, which registers its contact anew, and no script
\* dies that a signal before the commit left at work beside the state machine.
Patient == used["restart"] = 0 /\ ("die" \in Fails => Undisturbed)

\* The states in which the client has not committed the job, and those that run scripts.
Asking == {"START", "TWO_PHASE", "TWO_PHASE_QUERY1", "TWO_PHASE_QUERY2"}
StartStates == {"STAGE_IN", "SUBMIT", "POLL1", "POLL_QUERY1", "TWO_PHASE_QUERY1", "STAGE_OUT"}

\* Where a request is, or is to go on when it was stopped.
Stands(q) == IF q.jm = "STOP" THEN q.restart ELSE q.jm
\* A request that is cleaned up, or is about to be, has its last status; its client does
\* not listen, or did not commit the job.
Waited(state, q) ==
    /\ state \in CleanStates => ~q.contact \/ q.failure = "COMMIT_TIMED_OUT"
    /\ state \in CleanStates \cup EndWaits => q.status \in {"DONE", "FAILED"}
Waits(q) ==
    /\ job.twoPhase /\ ~ended => Waited(Stands(q), q)
    /\ q.jm \in Asking => q.restart \in Asking
WaitsFile(f) == f # NoFile /\ job.twoPhase /\ ~ended => Waited(f.state, f)
Started(s) == s.start \in StartStates /\ (s.res = "die" => "die" \in Fails)

WaitInv ==
    Patient => /\ Waits(r) /\ WaitsFile(file)
               /\ \A i \in 1..Len(scripts) : Started(scripts[i])

LEMMA WaitsFree ==
    ASSUME NEW q, q.jm \notin Asking \cup CleanStates \cup EndWaits \cup {"STOP"}
    PROVE  Waits(q)
  BY DEF Waits, Waited, Stands

\* Two requests that are the same to whoever waits for the client.
Twins(p, q) ==
    /\ p.jm = q.jm /\ p.restart = q.restart /\ p.status = q.status
    /\ p.failure = q.failure /\ p.contact = q.contact
LEMMA WaitsTwin ==
    ASSUME NEW p, NEW q, Twins(p, q), Waits(q)
    PROVE  Waits(p)
  BY DEF Twins, Waits, Waited, Stands

LEMMA WaitsWritten ==
    ASSUME NEW q \in RequestType, Waits(q)
    PROVE  WaitsFile(Written(q))
  <1>1. /\ Written(q).state = Stands(q) /\ Written(q).contact = q.contact
        /\ Written(q).status = q.status /\ Written(q).failure = q.failure
    BY DEF Written, RequestType, Stands
  <1> QED
    BY <1>1 DEF Waits, WaitsFile, Waited

LEMMA WaitInit == Init => WaitInv
  <1> SUFFICES ASSUME Init PROVE WaitInv
    OBVIOUS
  <1>1. job \in Jobs /\ r = NewRequest /\ file = Written(r) /\ Len(scripts) = 0
    BY DEF Init
  <1>2. r \in RequestType /\ r.jm = "START" /\ r.restart = "START"
    BY <1>1, NewRequestType
  <1>3. Waits(r)
    BY <1>2 DEF Waits, Waited, Stands, Asking, CleanStates, EndWaits
  <1> QED
    BY <1>1, <1>2, <1>3, WaitsWritten DEF WaitInv

\* What a step has to show.
WaitGoal ==
    /\ Waits(r')
    /\ \/ file' \in {file, NoFile}
       \/ \E q \in RequestType : Waits(q) /\ file' = Written(q)
    /\ \/ scripts' = scripts
       \/ \E s \in ScriptType : scripts' = Append(scripts, s) /\ Started(s)
       \/ \A k \in 1..Len(scripts') : Started(scripts'[k])

LEMMA WaitStep ==
    ASSUME BasicInv, Waits(r), WaitsFile(file), \A i \in 1..Len(scripts) : Started(scripts[i]),
           WaitGoal, UNCHANGED <<job, ended>>
    PROVE  WaitInv'
  <1>1. Waits(r)'
    BY DEF WaitGoal, Waits, Waited, Stands
  <1>2. WaitsFile(file')
    BY WaitsWritten DEF WaitGoal, WaitsFile
  <1>3. WaitsFile(file)'
    BY <1>2 DEF WaitsFile, Waited
  <1>4. \A i \in 1..Len(scripts') : Started(scripts'[i])
    <2>1. CASE scripts' = scripts
      BY <2>1
    <2>2. ASSUME NEW s \in ScriptType, scripts' = Append(scripts, s), Started(s)
          PROVE  \A i \in 1..Len(scripts') : Started(scripts'[i])
      <3>1. scripts \in Seq(ScriptType)
        BY DEF BasicInv, Types
      <3>2. /\ Len(scripts') = Len(scripts) + 1 /\ Len(scripts) \in Nat
            /\ \A i \in 1..Len(scripts) : scripts'[i] = scripts[i]
            /\ scripts'[Len(scripts) + 1] = s
        BY <2>2, <3>1, AppendProperties, LenProperties
      <3>3. ASSUME NEW i \in 1..Len(scripts') PROVE Started(scripts'[i])
        <4>1. i \in 1..Len(scripts) \/ i = Len(scripts) + 1
          BY <3>2
        <4> QED
          BY <2>2, <3>2, <4>1
      <3> QED
        BY <3>3
    <2> QED
      BY <2>1, <2>2 DEF WaitGoal
  <1>5. (\A i \in 1..Len(scripts) : Started(scripts[i]))'
    BY <1>4 DEF Started
  <1> QED
    BY <1>1, <1>3, <1>5 DEF WaitInv

LEMMA ScriptStarts ==
    ASSUME NEW q \in RequestType, NEW cmd \in Cmds
    PROVE  /\ Script(cmd, q) \in ScriptType /\ Script(cmd, q).start = q.jm
           /\ Script(cmd, q).res = "none"
  BY DEF Script, ScriptType, RequestType, LrmStates

LEMMA WaitSteps ==
    ASSUME BasicInv, Waits(r), Step
    PROVE  WaitGoal
  <1> USE DEF place, mgr, env, ghosts, At
  <1>0. /\ r \in RequestType /\ job \in Jobs /\ lrm \in Seq(LrmStates) /\ posts \in Nat
        /\ told \in Statuses \cup {"none"} /\ job.twoPhase \in BOOLEAN /\ job.stageIn \in BOOLEAN
    BY JobBooleans DEF BasicInv, Types
  <1>1. ASSUME Waits(r'), UNCHANGED <<file, scripts>> PROVE WaitGoal
    BY <1>1 DEF WaitGoal
  <1>2. ASSUME NEW s \in ScriptType, s.start \in StartStates, s.res = "none" PROVE Started(s)
    BY <1>2 DEF Started
  <1> USE DEF Asking, EndWaits, CleanStates
  <1>3. CASE StepStart \/ StepTwoPhase
    <2>1. /\ r'.restart = r.restart /\ r.jm \in Asking
          /\ r'.jm \in {"TWO_PHASE", "TWO_PHASE_COMMITTED", "STOP", "FAILED"}
      BY <1>0, <1>3 DEF StepStart, StepTwoPhase, TimedOut, RequestType
    <2>2. Waits(r')
      BY <2>1 DEF Waits, Waited, Stands
    <2> QED
      BY <1>1, <1>3, <2>2 DEF StepStart, StepTwoPhase
  <1>4. CASE StepRestart \/ StepStageInFailed
    <2>1. r'.jm \in {"SUBMIT", "POLL1", "TWO_PHASE_COMMITTED", "FAILED"}
      BY <1>0, <1>4, RestartKeeps DEF StepRestart, StepStageInFailed, RequestType
    <2>2. Waits(r')
      BY <2>1, WaitsFree
    <2> QED
      BY <1>1, <1>4, <2>2 DEF StepRestart, StepStageInFailed
  <1>5. CASE StepTwoPhaseCommitted
    <2> DEFINE q == IF r.jmRestart THEN RestartState ELSE r
    <2>1. /\ r' = IF job.stageIn THEN [q EXCEPT !.jm = "STAGE_IN", !.status = "STAGE_IN"]
                                  ELSE [q EXCEPT !.jm = "STAGE_IN"]
          /\ IF job.stageIn THEN RunScript("stage_in", r') ELSE UNCHANGED scripts
          /\ UNCHANGED file
      BY <1>5 DEF StepTwoPhaseCommitted
    <2>2. q \in RequestType
      BY <1>0, RestartKeeps
    <2> HIDE DEF q
    <2>3. r' \in RequestType /\ r'.jm = "STAGE_IN"
      BY <1>0, <2>1, <2>2, Names DEF RequestType
    <2>4. Waits(r')
      BY <2>3, WaitsFree
    <2>5. CASE job.stageIn
      <3> DEFINE s == Script("stage_in", r')
      <3>1. s \in ScriptType /\ s.start = "STAGE_IN" /\ s.res = "none" /\ scripts' = Append(scripts, s)
        BY <2>1, <2>3, <2>5, ScriptStarts DEF Cmds, RunScript
      <3> HIDE DEF s
      <3> QED
        BY <1>2, <2>1, <2>4, <3>1 DEF WaitGoal, StartStates
    <2> QED
      BY <1>0, <1>1, <2>1, <2>4, <2>5
  <1>6. CASE StepSubmitting
    <2> DEFINE q == [r EXCEPT !.jm = "SUBMIT", !.restart = "SUBMIT"]
    <2>1. r' = [q EXCEPT !.seen = 0] /\ file' = Written(q) /\ RunScript("submit", q)
      BY <1>6 DEF StepSubmitting
    <2>2. q \in RequestType /\ q.jm = "SUBMIT" /\ r'.jm = "SUBMIT"
      BY <1>0, <2>1, Names DEF RequestType
    <2> DEFINE s == Script("submit", q)
    <2>3. s \in ScriptType /\ s.start = "SUBMIT" /\ s.res = "none" /\ scripts' = Append(scripts, s)
      BY <2>1, <2>2, ScriptStarts DEF Cmds, RunScript
    <2> HIDE DEF q, s
    <2>4. Waits(q) /\ Waits(r')
      BY <2>2, WaitsFree
    <2> QED
      BY <1>2, <2>1, <2>2, <2>3, <2>4 DEF WaitGoal, StartStates
  <1>7. CASE StepSubmit
    <2> DEFINE q == IF r.id = NoId
             THEN [r EXCEPT !.status = "FAILED", !.unsent = TRUE,
                            !.failure = IF @ = "none" THEN "SUBMIT" ELSE @]
             ELSE r
    <2>1. /\ r' = [q EXCEPT !.jm = "POLL1", !.restart = "POLL1"] /\ file' = Written(r')
          /\ UNCHANGED scripts
      BY <1>7 DEF StepSubmit
    <2>2. q \in RequestType
      BY <1>0, Names DEF RequestType
    <2> HIDE DEF q
    <2>3. r' \in RequestType /\ r'.jm = "POLL1"
      BY <2>1, <2>2, Names DEF RequestType
    <2> QED
      BY <2>1, <2>3, WaitsFree DEF WaitGoal
  <1>8. CASE StepPoll1
    <2>1. Types
      BY DEF BasicInv
    <2>2. PICK q \in RequestType, w \in RequestType,
               j \in {"FAILED", "PRE_CLOSE_OUTPUT", "POLL_QUERY1", "POLL1", "POLL2"},
               u \in BOOLEAN, t \in BOOLEAN :
             /\ r.events = <<>> => q = r
             /\ r.events # <<>> => q = Handled(r)
             /\ w = q \/ w = [q EXCEPT !.restart = "POLL1"]
             /\ file' = file \/ (file' = Written(w) /\ w = [q EXCEPT !.restart = "POLL1"])
             /\ r' = [w EXCEPT !.jm = j, !.unsent = u, !.timer = t]
             /\ told' = told \/ (Notify(w) /\ w.status \notin {"FAILED", "DONE", "STAGE_OUT"})
             /\ run' \in {"idle", "loop"}
             /\ j = "FAILED" => w.status = "FAILED"
             /\ j = "PRE_CLOSE_OUTPUT" => w.status \in {"DONE", "STAGE_OUT"}
             /\ j = "POLL_QUERY1" => w.queries # <<>> /\ run' = "loop"
             /\ t => w.timer \/ (run' = "idle" /\ j = "POLL2")
      BY <1>8, <2>1, Poll1Is
    <2>3. q.jm = "POLL1"
      BY <1>0, <1>8, <2>2, HandledKeeps DEF StepPoll1, Keeps
    <2>4. w.jm = "POLL1" /\ r'.jm = j
      BY <2>2, <2>3 DEF RequestType
    <2>5. Waits(w) /\ Waits(r')
      BY <2>4, WaitsFree
    <2> QED
      BY <1>8, <2>2, <2>5 DEF StepPoll1, WaitGoal
  <1>9. CASE StepPoll2 \/ StepQuery1 \/ StepCloseOutput
    <2>1. /\ r'.restart = r.restart
          /\ \/ r'.jm \in {"POLL1", "POLL2", "POLL_QUERY2", "FAILED_CLOSE_OUTPUT", "STAGE_OUT"}
             \/ r.jm = "TWO_PHASE_QUERY1" /\ r'.jm = "TWO_PHASE_QUERY2"
          /\ r' \in RequestType /\ UNCHANGED file
      BY <1>0, <1>9, Names DEF StepPoll2, StepQuery1, StepCloseOutput, RequestType
    <2>2. Waits(r')
      <3>1. CASE r'.jm = "TWO_PHASE_QUERY2"
        BY <2>1, <3>1 DEF Waits, Waited, Stands
      <3>2. CASE r'.jm # "TWO_PHASE_QUERY2"
        BY <2>1, <3>2, WaitsFree
      <3> QED
        BY <3>1, <3>2
    <2>3. \/ scripts' = scripts
          \/ StepPoll2 /\ r'.jm = "POLL1" /\ RunScript("poll", r')
          \/ StepQuery1 /\ RunScript(Head(r.queries), r)
          \/ r'.jm = "STAGE_OUT" /\ RunScript("stage_out", r')
      BY <1>0, <1>9 DEF StepPoll2, StepQuery1, StepCloseOutput, RequestType
    <2>4. \/ scripts' = scripts
          \/ \E s \in ScriptType : scripts' = Append(scripts, s) /\ s.start \in StartStates /\ s.res = "none"
      <3>1. CASE r'.jm = "POLL1" /\ RunScript("poll", r')
        <4>1. Script("poll", r') \in ScriptType /\ Script("poll", r').start = "POLL1"
              /\ Script("poll", r').res = "none"
          BY <2>1, <3>1, ScriptStarts DEF Cmds
        <4> QED
          BY <3>1, <4>1 DEF RunScript, StartStates
      <3>2. CASE StepQuery1 /\ RunScript(Head(r.queries), r)
        <4>1. r.queries # <<>> /\ r.jm \in {"POLL_QUERY1", "TWO_PHASE_QUERY1"}
          BY <3>2 DEF StepQuery1, BasicInv, Queries
        <4>2. Head(r.queries) \in {"cancel", "signal"}
          BY <1>0, <4>1, HeadTailProperties DEF RequestType, QueryQueue
        <4> DEFINE c == Head(r.queries)
        <4>3. c \in Cmds
          BY <4>2 DEF Cmds
        <4> HIDE DEF c
        <4>4. Script(c, r) \in ScriptType /\ Script(c, r).start = r.jm /\ Script(c, r).res = "none"
          BY <1>0, <4>3, ScriptStarts
        <4> QED
          BY <3>2, <4>1, <4>4 DEF RunScript, StartStates, c
      <3>3. CASE r'.jm = "STAGE_OUT" /\ RunScript("stage_out", r')
        <4>1. Script("stage_out", r') \in ScriptType /\ Script("stage_out", r').start = "STAGE_OUT"
              /\ Script("stage_out", r').res = "none"
          BY <2>1, <3>3, ScriptStarts DEF Cmds
        <4> QED
          BY <3>3, <4>1 DEF RunScript, StartStates
      <3> QED
        BY <2>3, <3>1, <3>2, <3>3
    <2> QED
      BY <1>2, <2>1, <2>2, <2>4 DEF WaitGoal
  <1>10. CASE StepQuery2
    <2> DEFINE q == [r EXCEPT !.queries = Tail(@)]
    <2>1. /\ \/ /\ r.jm = "TWO_PHASE_QUERY2"
                /\ \E j \in {"TWO_PHASE", "TWO_PHASE_QUERY1"} : \E b : r' = [q EXCEPT !.jm = j, !.timer = b]
             \/ \E j \in Poll : r' = [q EXCEPT !.jm = j]
          /\ UNCHANGED <<file, scripts>>
      BY <1>10 DEF StepQuery2, Poll
    <2>2. q.restart = r.restart /\ {"jm", "restart"} \subseteq DOMAIN q
      BY <1>0 DEF RequestType
    <2> HIDE DEF q
    <2>3. /\ r'.restart = r.restart
          /\ r'.jm \in Poll \/ (r.jm \in Asking /\ r'.jm \in {"TWO_PHASE", "TWO_PHASE_QUERY1"})
      BY <2>1, <2>2
    <2>4. Waits(r')
      BY <2>3 DEF Waits, Waited, Stands, Poll
    <2> QED
      BY <1>1, <2>1, <2>4
  <1>11. CASE StepClosing
    <2> DEFINE w == IF r.unsent THEN [r EXCEPT !.restart = r.jm] ELSE r
    <2>1. /\ \E u : r' = [w EXCEPT !.unsent = u, !.queries = <<>>,
                            !.jm = IF w.jm = "FAILED" THEN "FAILED_CLOSE_OUTPUT" ELSE "CLOSE_OUTPUT"]
          /\ file' = file \/ file' = Written(w)
          /\ UNCHANGED scripts /\ r.jm \in {"PRE_CLOSE_OUTPUT", "FAILED"}
      BY <1>11 DEF StepClosing
    <2>2. w \in RequestType /\ w.jm = r.jm
      BY <1>0 DEF RequestType
    <2> HIDE DEF w
    <2>3. r'.jm \in {"FAILED_CLOSE_OUTPUT", "CLOSE_OUTPUT"}
      BY <2>1, <2>2 DEF RequestType
    <2>4. Waits(w) /\ Waits(r')
      BY <2>1, <2>2, <2>3, WaitsFree
    <2> QED
      BY <2>1, <2>2, <2>4 DEF WaitGoal
  <1>12. CASE StepFinalStatus
    <2>1. PICK s \in {"FAILED", "DONE"}, f \in Failures, t \in BOOLEAN :
             LET j == IF s = "FAILED" THEN "FAILED_TWO_PHASE" ELSE "TWO_PHASE_END" IN
             r' = [r EXCEPT !.unsent = FALSE, !.jm = j, !.status = s, !.failure = f, !.timer = t]
      BY <1>0, <1>12, FinalStatusIs
    <2>2. r'.jm \in EndWaits /\ r'.status \in {"DONE", "FAILED"}
      BY <1>0, <2>1 DEF RequestType
    <2>3. Waits(r')
      BY <2>2 DEF Waits, Waited, Stands
    <2> QED
      BY <1>1, <1>12, <2>3 DEF StepFinalStatus
  <1>13. CASE StepTwoPhaseEnd
    <2>1. /\ \/ r' = [r EXCEPT !.extend = FALSE, !.timer = TRUE]
             \/ /\ ~job.twoPhase \/ ~r.contact \/ r.failure = "COMMIT_TIMED_OUT"
                /\ \E j \in {"TWO_PHASE_END_COMMITTED", "FAILED_TWO_PHASE_COMMITTED"} :
                      r' = [r EXCEPT !.jm = j]
             \/ r' = [r EXCEPT !.restart = r.jm, !.jm = "STOP", !.overdue = TRUE]
          /\ r.jm \in EndWaits /\ UNCHANGED <<file, scripts>>
      BY <1>13, Zenon DEF StepTwoPhaseEnd
    <2>2. /\ r'.status = r.status /\ r'.contact = r.contact /\ r'.failure = r.failure
          /\ \/ r'.jm = r.jm
             \/ /\ ~job.twoPhase \/ ~r.contact \/ r.failure = "COMMIT_TIMED_OUT"
                /\ r'.jm \in {"TWO_PHASE_END_COMMITTED", "FAILED_TWO_PHASE_COMMITTED"}
             \/ r'.jm = "STOP" /\ r'.restart = r.jm
      BY <1>0, <2>1 DEF RequestType
    <2>3. Waits(r')
      BY <2>1, <2>2 DEF Waits, Waited, Stands
    <2> QED
      BY <1>1, <2>1, <2>3
  <1>14. CASE StepCleanUp \/ StepCacheCleanUp
    <2>1. /\ r.jm \in CleanStates /\ r'.jm \in CleanStates
          /\ r'.status = r.status /\ r'.contact = r.contact /\ r'.failure = r.failure
      BY <1>0, <1>14, CleanUpIs DEF StepCleanUp, StepCacheCleanUp, RequestType
    <2>2. Waits(r')
      BY <2>1 DEF Waits, Waited, Stands
    <2> QED
      BY <1>14, <2>2 DEF StepCleanUp, StepCacheCleanUp, WaitGoal
  <1>15. CASE StepStop
    BY <1>0, <1>15 DEF StepStop, WaitGoal
  <1>16. CASE StepDone
    <2>1. \/ r' = [r EXCEPT !.queries = <<>>, !.events = <<>>, !.restart = r.jm]
          \/ r' = NewRequest
      BY <1>16 DEF StepDone
    <2>2. /\ r.jm \in Final /\ UNCHANGED scripts /\ file' \in {file, NoFile}
      BY <1>16 DEF StepDone
    <2>3. \/ r'.jm = "START" /\ r'.restart = "START"
          \/ /\ r'.jm = r.jm /\ r'.status = r.status /\ r'.contact = r.contact
             /\ r'.failure = r.failure
      BY <1>0, <2>1, NewRequestType DEF RequestType
    <2>4. Waits(r')
      BY <2>2, <2>3 DEF Waits, Waited, Stands, Final
    <2> QED
      BY <2>2, <2>4 DEF WaitGoal
  <1> QED
    BY <1>3, <1>4, <1>5, <1>6, <1>7, <1>8, <1>9, <1>10, <1>11, <1>12, <1>13, <1>14, <1>15, <1>16
    DEF Step

-----------------------------------------------------------------------------
(* Scripts, references and the client *)

\* A script that ends late, in the clean-up, changes neither the status nor the failure.
LEMMA AppliedWaits ==
    ASSUME NEW q \in RequestType, NEW s \in ScriptType, ScriptKnown(s), s.res # "none",
           s.start \in StartStates, s.res = "die" => q.jm \in Working, Waits(q)
    PROVE  Waits(Applied(q, s))
  <1> DEFINE p == Applied(q, s)
  <1>1. p.jm = q.jm /\ p.restart = q.restart /\ p.contact = q.contact
    BY AppliedKeeps DEF Keeps
  <1>2. CASE job.twoPhase /\ ~ended /\ Stands(q) \in CleanStates \cup EndWaits
    <2>1. q.status \in {"DONE", "FAILED"} /\ s.res # "die" /\ q.jm # s.start
      BY <1>2 DEF Waits, Waited, Stands, Working, CleanStates, EndWaits, StartStates
    <2>2. \A new : ~ValidChange(q.status, new)
      <3> TAKE new
      <3>1. /\ ~(q.status \in {"PENDING", "UNSUBMITTED", "STAGE_IN"})
            /\ ~(q.status \in {"ACTIVE", "SUSPENDED"}) /\ ~(q.status = "STAGE_OUT")
        BY <2>1
      <3> QED
        BY <3>1, Zenon DEF ValidChange
    <2>3. ASSUME NEW c, NEW new, c.status = q.status PROVE Reported(c, new) = c
      BY <2>2, <2>3 DEF Reported
    <2>4. ASSUME NEW why PROVE ScriptFailed(q, s, why) = q
      BY <2>1 DEF ScriptFailed
    <2>5. CASE s.cmd = "submit"
      <3>1. ~(s.res = "die") /\ s.cmd # "poll" /\ s.cmd # "stage_in" /\ s.cmd # "stage_out"
            /\ s.cmd # "cancel" /\ s.cmd # "signal"
        BY <2>1, <2>5
      <3>2. p = IF s.res = "ok" THEN Reported([q EXCEPT !.id = s.id], "PENDING")
                ELSE ScriptFailed(q, s, "SUBMIT")
        BY <2>5, <3>1, Zenon DEF Applied
      <3>3. [q EXCEPT !.id = s.id].status = q.status /\ [q EXCEPT !.id = s.id].failure = q.failure
        BY DEF RequestType
      <3>4. p.status = q.status /\ p.failure = q.failure
        BY <2>3, <2>4, <3>2, <3>3
      <3> HIDE DEF p
      <3>5. Waits(p)
        BY <1>1, <3>4, WaitsTwin DEF Twins
      <3> QED
        BY <3>5 DEF p
    <2>6. CASE s.cmd = "poll"
      <3>1. ~(s.res = "die") /\ s.cmd # "submit" /\ s.cmd # "stage_in" /\ s.cmd # "stage_out"
            /\ s.cmd # "cancel" /\ s.cmd # "signal"
        BY <2>1, <2>6
      <3>2. p = IF s.res = "err" THEN ScriptFailed(q, s, "SUBMIT") ELSE Reported(q, s.res)
        BY <2>6, <3>1, Zenon DEF Applied
      <3> QED
        BY <2>3, <2>4, <3>2
    <2>7. CASE s.cmd = "stage_in"
      <3>1. ~(s.res = "die") /\ s.cmd # "submit" /\ s.cmd # "poll" /\ s.cmd # "stage_out"
            /\ s.cmd # "cancel" /\ s.cmd # "signal"
        BY <2>1, <2>7
      <3>2. p = IF s.res = "ok" THEN [q EXCEPT !.todoIn = FALSE]
                ELSE ScriptFailed(q, s, "STAGE_IN_FAILED")
        BY <2>7, <3>1, Zenon DEF Applied
      <3>3. p.status = q.status /\ p.failure = q.failure
        BY <2>4, <3>2 DEF RequestType
      <3> HIDE DEF p
      <3>4. Waits(p)
        BY <1>1, <3>3, WaitsTwin DEF Twins
      <3> QED
        BY <3>4 DEF p
    <2>8. CASE s.cmd = "stage_out"
      <3>1. ~(s.res = "die") /\ s.cmd # "submit" /\ s.cmd # "poll" /\ s.cmd # "stage_in"
            /\ s.cmd # "cancel" /\ s.cmd # "signal"
        BY <2>1, <2>8
      <3>2. p = IF s.res = "ok" THEN [q EXCEPT !.todoOut = @ /\ q.jm # s.start]
                ELSE ScriptFailed(q, s, "STAGE_OUT_FAILED")
        BY <2>8, <3>1, Zenon DEF Applied
      <3>3. p.status = q.status /\ p.failure = q.failure
        BY <2>4, <3>2 DEF RequestType
      <3> HIDE DEF p
      <3>4. Waits(p)
        BY <1>1, <3>3, WaitsTwin DEF Twins
      <3> QED
        BY <3>4 DEF p
    <2>9. CASE s.cmd = "cancel"
      <3>1. ~(s.res = "die") /\ s.cmd # "submit" /\ s.cmd # "poll" /\ s.cmd # "stage_in"
            /\ s.cmd # "stage_out" /\ s.cmd # "signal"
        BY <2>1, <2>9
      <3>2. p = CancelApplied(q, s)
        BY <2>9, <3>1, Zenon DEF Applied
      <3> QED
        BY <2>2, <3>2 DEF CancelApplied
    <2>10. CASE s.cmd = "signal"
      <3>1. ~(s.res = "die") /\ s.cmd # "submit" /\ s.cmd # "poll" /\ s.cmd # "stage_in"
            /\ s.cmd # "stage_out" /\ s.cmd # "cancel"
        BY <2>1, <2>10
      <3>2. p = IF s.res = "ok" /\ ValidChange(q.status, "SUSPENDED")
                THEN [q EXCEPT !.status = "SUSPENDED", !.unsent = TRUE] ELSE q
        BY <2>10, <3>1, Zenon DEF Applied
      <3> QED
        BY <2>2, <3>2
    <2> QED
      BY <2>5, <2>6, <2>7, <2>8, <2>9, <2>10 DEF ScriptType, Cmds
  <1>3. CASE ~(job.twoPhase /\ ~ended /\ Stands(q) \in CleanStates \cup EndWaits)
    <2> HIDE DEF p
    <2>1. Waits(p)
      BY <1>1, <1>3 DEF Waits, Waited, Stands
    <2> QED
      BY <2>1 DEF p
  <1> QED
    BY <1>2, <1>3

LEMMA WaitsReferenced ==
    ASSUME BasicInv, Waits(r), WaitsFile(file), TakeReference
    PROVE  Referenced \in RequestType /\ Waits(Referenced)
  <1>1. /\ FitRequest(Referenced) /\ mem \in {"live", "stub"}
        /\ mem = "live" => Referenced = r
        /\ mem = "stub" => Referenced = Reloaded /\ file \in FileType
    BY ReferencedIs
  <1>2. CASE mem = "stub"
    <2>1. job \in Jobs /\ pending \in BOOLEAN /\ loaded \in BOOLEAN /\ file \in FileType
          /\ file # NoFile
      BY <1>1, <1>2, NoFileIsNoFile DEF BasicInv, Types
    <2> DEFINE q == Reloaded
    <2>2. /\ q.jm = IF file.state \in Poll THEN "POLL2"
                    ELSE IF loaded THEN "TWO_PHASE_COMMITTED" ELSE file.state
          /\ q.restart = file.state /\ q.status = file.status /\ q.failure = file.failure
      BY <2>1, ReloadedType
    <2>3. q.contact = file.contact
      BY <2>1 DEF Reloaded, NewRequest
    <2> HIDE DEF q
    <2>4. Waits(q)
      <3>1. CASE q.jm = file.state
        BY <2>1, <2>2, <2>3, <3>1 DEF Waits, WaitsFile, Waited, Stands
      <3>2. CASE q.jm # file.state
        <4>1. q.jm \in {"POLL2", "TWO_PHASE_COMMITTED"}
          BY <2>2, <3>2
        <4> QED
          BY <4>1, WaitsFree DEF Asking, CleanStates, EndWaits
      <3> QED
        BY <3>1, <3>2
    <2> QED
      BY <1>1, <1>2, <2>4 DEF q, FitRequest
  <1> QED
    BY <1>1, <1>2 DEF FitRequest

LEMMA WaitScriptDone ==
    ASSUME BasicInv, SoloInv, Patient, Waits(r), WaitsFile(file),
           \A k \in 1..Len(scripts) : Started(scripts[k]),
           NEW i \in DOMAIN scripts, ScriptDone(i)
    PROVE  WaitInv'
  <1> USE DEF place, mgr, env, ghosts
  <1> DEFINE s == scripts[i]
             p == Applied(r, s)
  <1>1. /\ r' = [p EXCEPT !.timer = TRUE] /\ (file' = file \/ file' = Written(p))
        /\ scripts' = Without(scripts, i) /\ UNCHANGED <<job, ended>> /\ s.res # "none"
    BY DEF ScriptDone
  <1>2. /\ scripts \in Seq(ScriptType) /\ r \in RequestType /\ i \in 1..Len(scripts)
        /\ s \in ScriptType /\ ScriptKnown(s) /\ scripts # <<>>
    <2>1. scripts \in Seq(ScriptType) /\ r \in RequestType
      BY DEF BasicInv, Types
    <2>2. i \in 1..Len(scripts) /\ s \in ScriptType
      BY <2>1, LenProperties, ElementOfSeq
    <2>3. scripts # <<>>
      BY <2>1, <2>2, EmptySeq
    <2> QED
      BY <2>1, <2>2, <2>3 DEF BasicInv, Known
  <1>3. Started(s) /\ (s.res = "die" => r.jm \in Working)
    BY <1>2 DEF Started, Patient, SoloInv, OneScript
  <1>4. p \in RequestType /\ Waits(p)
    BY <1>1, <1>2, <1>3, AppliedKeeps, AppliedWaits DEF Started
  <1> HIDE DEF p
  <1>5. Twins(r', p)
    BY <1>1, <1>4 DEF Twins, RequestType
  <1>6. Waits(r')
    BY <1>4, <1>5, WaitsTwin
  <1>7. \A k \in 1..Len(scripts') : Started(scripts'[k])
    BY <1>1, <1>2, WithoutKeeps
  <1>8. WaitGoal
    BY <1>1, <1>4, <1>6, <1>7 DEF WaitGoal
  <1> QED
    BY <1>1, <1>8, WaitStep

LEMMA WaitDelivered ==
    ASSUME BasicInv, Waits(r), WaitsFile(file), \A k \in 1..Len(scripts) : Started(scripts[k]),
           TakeReference, NEW es \in Seq(EventType), r' = Delivered(Referenced, es),
           UNCHANGED <<job, ended, scripts, file>>
    PROVE  WaitInv'
  <1> DEFINE q == Referenced
  <1>1. q \in RequestType /\ Waits(q)
    BY WaitsReferenced
  <1>2. /\ r'.jm = q.jm \/ r'.jm = "POLL1"
        /\ r'.restart = q.restart /\ r'.status = q.status
        /\ r'.failure = q.failure /\ r'.contact = q.contact
    BY <1>1, DeliveredKeeps
  <1> HIDE DEF q
  <1>3. Waits(r')
    <2>1. CASE r'.jm = q.jm
      BY <1>1, <1>2, <2>1, WaitsTwin DEF Twins
    <2>2. CASE r'.jm # q.jm
      BY <1>2, <2>2, WaitsFree DEF Asking, CleanStates, EndWaits
    <2> QED
      BY <2>1, <2>2
  <1>4. WaitGoal
    BY <1>3 DEF WaitGoal
  <1> QED
    BY <1>4, WaitStep

LEMMA WaitScripts ==
    ASSUME BasicInv, Waits(r), WaitsFile(file), \A k \in 1..Len(scripts) : Started(scripts[k]),
           Scripts
    PROVE  WaitInv'
  <1> USE DEF place, mgr, env, ghosts
  <1>1. PICK i \in DOMAIN scripts : ScriptRuns(i)
    BY DEF Scripts
  <1> DEFINE s == scripts[i]
             running == s.id > 0 /\ ~Ended(lrm[s.id])
             hopeless == (s.cmd = "signal" /\ ~running) \/ (s.cmd = "poll" /\ s.id <= 0)
             id == IF s.cmd = "submit" THEN Len(lrm) + 1 ELSE s.id
  <1>2. /\ scripts \in Seq(ScriptType) /\ DOMAIN scripts = 1..Len(scripts) /\ s \in ScriptType
        /\ lrm \in Seq(LrmStates) /\ Len(lrm) \in Nat /\ ScriptKnown(s) /\ s.res = "none"
        /\ \A k \in 1..Len(scripts) : scripts[k] \in ScriptType
    <2>1. scripts \in Seq(ScriptType) /\ lrm \in Seq(LrmStates)
      BY DEF BasicInv, Types
    <2>2. /\ DOMAIN scripts = 1..Len(scripts) /\ Len(lrm) \in Nat
          /\ \A k \in 1..Len(scripts) : scripts[k] \in ScriptType
      BY <2>1, LenProperties, ElementOfSeq
    <2> QED
      BY <1>1, <2>1, <2>2 DEF BasicInv, Known, ScriptRuns
  <1>3. PICK res \in {"ok", "err", "die"} :
           /\ res = "ok" => ~hopeless
           /\ res = "die" => "die" \in Fails
           /\ scripts' = [scripts EXCEPT
                  ![i].id = id,
                  ![i].res = IF s.cmd = "poll" /\ res = "ok" THEN lrm[s.id] ELSE res]
           /\ UNCHANGED <<job, r, file, ended>>
    BY <1>1 DEF ScriptRuns
  <1> DEFINE b == IF s.cmd = "poll" /\ res = "ok" THEN lrm[s.id] ELSE res
  <1>4. b = "die" => "die" \in Fails
    <2>1. ASSUME s.cmd = "poll", res = "ok" PROVE lrm[s.id] \in LrmStates
      <3>1. s.id \in 1..Len(lrm)
        BY <1>2, <1>3, <2>1 DEF ScriptType, ScriptKnown
      <3> QED
        BY <1>2, <3>1, ElementOfSeq
    <2>2. "die" \notin LrmStates
      BY DEF LrmStates
    <2> QED
      BY <1>3, <2>1, <2>2
  <1> HIDE DEF b, id
  <1>5. scripts' = [scripts EXCEPT ![i].id = id, ![i].res = b]
    BY <1>3 DEF b
  <1>6. /\ Len(scripts') = Len(scripts)
        /\ \A k \in 1..Len(scripts) :
              scripts'[k] = IF k = i THEN [s EXCEPT !.id = id, !.res = b] ELSE scripts[k]
    <2>1. BasicInv'
      BY BasicScriptRuns DEF Scripts
    <2>2. scripts' \in Seq(ScriptType) /\ DOMAIN scripts' = DOMAIN scripts
      BY <1>5, <2>1 DEF BasicInv, Types
    <2>3. Len(scripts') = Len(scripts)
      BY <1>2, <2>2, LenProperties
    <2> QED
      BY <1>2, <1>5, <2>3
  <1>7. ASSUME NEW k \in 1..Len(scripts') PROVE Started(scripts'[k])
    <2>1. CASE k = i
      <3>1. scripts'[k].start = s.start /\ scripts'[k].res = b
        BY <1>2, <1>6, <2>1 DEF ScriptType
      <3> QED
        BY <1>2, <1>4, <3>1 DEF Started
    <2>2. CASE k # i
      BY <1>6, <2>2
    <2> QED
      BY <2>1, <2>2
  <1>8. WaitGoal
    BY <1>3, <1>7 DEF WaitGoal
  <1> QED
    BY <1>3, <1>8, WaitStep

LEMMA WaitOrphan ==
    ASSUME BasicInv, Waits(r), WaitsFile(file), \A k \in 1..Len(scripts) : Started(scripts[k]),
           Orphan
    PROVE  WaitInv'
  <1>1. PICK i \in 1..Len(scripts) :
             /\ scripts[i].cmd = "submit" /\ scripts[i].res = "none"
             /\ scripts'[i].cmd = "submit" /\ scripts'[i].start = scripts[i].start
             /\ scripts'[i].res \in Fails \cap {"err", "die"}
             /\ \A k \in 1..Len(scripts) : k # i => scripts'[k] = scripts[k]
    BY OrphanIs
  <1>2. Len(scripts') = Len(scripts) /\ UNCHANGED <<job, r, file, ended>>
    BY OrphanIs
  <1>3. \A k \in 1..Len(scripts') : Started(scripts'[k])
    BY <1>1, <1>2 DEF Started
  <1>4. WaitGoal
    BY <1>2, <1>3 DEF WaitGoal
  <1> QED
    BY <1>2, <1>4, WaitStep

LEMMA WaitExpire ==
    ASSUME BasicInv, Waits(r), WaitsFile(file), \A k \in 1..Len(scripts) : Started(scripts[k]),
           ExpireOldJob
    PROVE  WaitInv'
  <1> DEFINE q == Referenced
  <1>1. /\ TakeReference
        /\ \/ r' = q /\ ended' = ended
           \/ r' = [q EXCEPT !.jm = "FAILED_TWO_PHASE_COMMITTED", !.timer = TRUE] /\ ended' = TRUE
        /\ UNCHANGED <<job, file, scripts>>
    BY ExpireIs
  <1>2. q \in RequestType /\ Waits(q)
    BY <1>1, WaitsReferenced
  <1> HIDE DEF q
  <1>3. CASE r' = q /\ ended' = ended
    <2>1. WaitGoal
      BY <1>1, <1>2, <1>3 DEF WaitGoal
    <2> QED
      BY <1>1, <1>3, <2>1, WaitStep
  <1>4. CASE r' = [q EXCEPT !.jm = "FAILED_TWO_PHASE_COMMITTED", !.timer = TRUE] /\ ended' = TRUE
    <2>1. r'.jm = "FAILED_TWO_PHASE_COMMITTED"
      BY <1>2, <1>4 DEF RequestType
    <2>2. Waits(r)' /\ WaitsFile(file)'
      BY <1>4, <2>1 DEF Waits, WaitsFile, Asking
    <2>3. (\A k \in 1..Len(scripts) : Started(scripts[k]))'
      BY <1>1 DEF Started
    <2> QED
      BY <2>2, <2>3 DEF WaitInv
  <1> QED
    BY <1>1, <1>3, <1>4

LEMMA WaitClient ==
    ASSUME BasicInv, Patient', Waits(r), WaitsFile(file),
           \A k \in 1..Len(scripts) : Started(scripts[k]), Client
    PROVE  WaitInv'
  <1> USE DEF place, mgr, env, ghosts
  <1> DEFINE q == Referenced
  <1>1. job \in Jobs /\ used \in [DOMAIN Max -> Nat]
    BY DEF BasicInv, Types
  <1>2. TakeReference => q \in RequestType /\ Waits(q)
    BY WaitsReferenced
  <1>3. ASSUME NEW p, Apply(p), Waits(p), UNCHANGED ended, file' = file \/ (p \in RequestType /\ file' = Written(p))
        PROVE  WaitInv'
    <2>1. r' = p /\ UNCHANGED <<job, scripts>>
      BY <1>3 DEF Apply
    <2>2. WaitGoal
      BY <1>3, <2>1 DEF WaitGoal
    <2> QED
      BY <1>3, <2>1, <2>2, WaitStep
  <1> USE DEF Asking, CleanStates, EndWaits
  <1>4. CASE CommitRequest
    <2> DEFINE p == [q EXCEPT !.jm = "TWO_PHASE_COMMITTED", !.timer = TRUE]
    <2>1. Apply(p) /\ TakeReference /\ UNCHANGED <<file, ended>>
      BY <1>4 DEF CommitRequest, Apply
    <2>2. p.jm = "TWO_PHASE_COMMITTED"
      BY <1>2, <2>1 DEF RequestType
    <2> HIDE DEF p
    <2> QED
      BY <1>3, <2>1, <2>2, WaitsFree
  <1>5. CASE CommitEnd
    <2> DEFINE p == EndCommitted(q)
    <2>1. /\ Apply(p) /\ TakeReference /\ UNCHANGED file /\ ended'
          /\ q.jm \in {"TWO_PHASE_END", "FAILED_TWO_PHASE", "STOP"}
      BY <1>5 DEF CommitEnd, Apply
    <2>2. p.jm \in {"TWO_PHASE_END_COMMITTED", "FAILED_TWO_PHASE_COMMITTED"}
      BY <1>2, <2>1 DEF EndCommitted, RequestType
    <2> HIDE DEF p
    <2>3. r' = p /\ UNCHANGED scripts
      BY <2>1 DEF Apply
    <2>4. Waits(r)' /\ WaitsFile(file)'
      BY <2>1, <2>2, <2>3 DEF Waits, WaitsFile
    <2>5. (\A k \in 1..Len(scripts) : Started(scripts[k]))'
      BY <2>3 DEF Started
    <2> QED
      BY <2>4, <2>5 DEF WaitInv
  <1>6. CASE CommitExtend
    <2> DEFINE p == [q EXCEPT !.extend = TRUE]
    <2>1. Apply(p) /\ TakeReference /\ UNCHANGED <<file, ended>>
      BY <1>6 DEF CommitExtend, Apply
    <2>2. Twins(p, q)
      BY <1>2, <2>1 DEF Twins, RequestType
    <2> HIDE DEF p, q
    <2> QED
      BY <1>2, <1>3, <2>1, <2>2, WaitsTwin
  <1>7. ASSUME TakeReference, NEW query, NEW wakes, DOMAIN wakes \subseteq {"POLL2", "TWO_PHASE"},
                wakes["POLL2"] = "POLL_QUERY1", wakes["TWO_PHASE"] = "TWO_PHASE_QUERY1"
                                                \/ "TWO_PHASE" \notin DOMAIN wakes
        PROVE  Waits(Queued(q, query, wakes))
    <2> DEFINE p == Queued(q, query, wakes)
               a == Append(q.queries, query)
               j == IF q.jm \in DOMAIN wakes THEN wakes[q.jm] ELSE q.jm
               t == q.timer \/ q.jm \in DOMAIN wakes
    <2>1. \/ j = q.jm \/ j = "POLL_QUERY1"
          \/ q.jm = "TWO_PHASE" /\ j = "TWO_PHASE_QUERY1"
      BY <1>7
    <2>2. p = [q EXCEPT !.queries = a, !.jm = j, !.timer = t]
      BY <1>2, <1>7 DEF Queued, RequestType
    <2> HIDE DEF a, j, t, q
    <2>3. /\ p.jm = j /\ p.restart = q.restart /\ p.status = q.status
          /\ p.failure = q.failure /\ p.contact = q.contact
      BY <1>2, <1>7, <2>2 DEF RequestType
    <2> HIDE DEF p
    <2>4. Waits(p)
      BY <1>2, <1>7, <2>1, <2>3 DEF Waits, Waited, Stands
    <2> QED
      BY <2>4 DEF p
  <1>8. CASE Cancel
    <2> DEFINE w == [POLL2 |-> "POLL_QUERY1"]
               u == q.unsent \/ q.jm # "START"
               a == Queued(q, "cancel", w)
               b == [q EXCEPT !.jm = "FAILED", !.status = "FAILED",
                              !.failure = "USER_CANCELLED", !.unsent = u]
    <2>1. TakeReference /\ UNCHANGED <<file, ended>> /\ (Apply(a) \/ Apply(b))
      BY <1>8 DEF Cancel, Apply
    <2>2. Waits(a)
      <3>1. DOMAIN w = {"POLL2"} /\ w["POLL2"] = "POLL_QUERY1"
        OBVIOUS
      <3> HIDE DEF w
      <3> QED
        BY <1>7, <2>1, <3>1
    <2>3. b.jm = "FAILED"
      BY <1>2, <2>1 DEF RequestType
    <2> HIDE DEF a, b, q
    <2> QED
      BY <1>3, <2>1, <2>2, <2>3, WaitsFree
  <1>9. CASE Signal
    <2> DEFINE w == [POLL2 |-> "POLL_QUERY1", TWO_PHASE |-> "TWO_PHASE_QUERY1"]
               p == Queued(q, "signal", w)
    <2>1. Apply(p) /\ TakeReference /\ UNCHANGED <<file, ended>>
      BY <1>9 DEF Signal, Apply
    <2>2. Waits(p)
      <3>1. /\ DOMAIN w = {"POLL2", "TWO_PHASE"} /\ w["POLL2"] = "POLL_QUERY1"
            /\ w["TWO_PHASE"] = "TWO_PHASE_QUERY1"
        OBVIOUS
      <3> HIDE DEF w
      <3> QED
        BY <1>7, <2>1, <3>1
    <2> HIDE DEF p
    <2> QED
      BY <1>3, <2>1, <2>2
  <1>10. CASE Unregister
    <2> DEFINE c == [q EXCEPT !.contact = FALSE]
               p == IF c.jm = "TWO_PHASE_END" /\ job.twoPhase THEN EndCommitted(c) ELSE c
    <2>1. Apply(p) /\ TakeReference /\ UNCHANGED <<file, ended>>
      BY <1>10 DEF Unregister, Apply
    <2>2. /\ c \in RequestType /\ c.jm = q.jm /\ c.restart = q.restart /\ c.status = q.status
          /\ c.failure = q.failure /\ ~c.contact
      BY <1>2, <2>1 DEF RequestType
    <2> HIDE DEF c, q
    <2>3. /\ p.restart = c.restart /\ p.status = c.status /\ p.failure = c.failure
          /\ p.contact = c.contact
          /\ p.jm = c.jm \/ (c.jm = "TWO_PHASE_END" /\ p.jm = "TWO_PHASE_END_COMMITTED")
      BY <2>2 DEF EndCommitted, RequestType
    <2> HIDE DEF p
    <2>4. Waits(p)
      BY <1>2, <2>1, <2>2, <2>3 DEF Waits, Waited, Stands
    <2> QED
      BY <1>3, <2>1, <2>4
  <1>11. CASE StopManager
    <2> DEFINE d == IF q.jm = "STOP" THEN q.restart ELSE q.jm
               t == q.timer \/ q.jm = "POLL2"
               p == [q EXCEPT !.jm = "STOP", !.unsent = TRUE, !.overdue = FALSE, !.restart = d, !.timer = t]
    <2>1. TakeReference /\ UNCHANGED <<file, ended>>
      BY <1>11 DEF StopManager, Apply
    <2>2. Apply(p)
      BY <1>2, <1>11, <2>1 DEF StopManager, RequestType
    <2>3. /\ p.jm = "STOP" /\ p.restart = d /\ p.status = q.status
          /\ p.failure = q.failure /\ p.contact = q.contact
      BY <1>2, <2>1 DEF RequestType
    <2>4. d = Stands(q)
      BY DEF Stands
    <2> HIDE DEF p, q, d
    <2>5. Stands(p) = Stands(q)
      BY <2>3, <2>4 DEF Stands
    <2>6. Waits(p)
      BY <1>2, <2>1, <2>3, <2>5 DEF Waits, Waited
    <2> QED
      BY <1>3, <2>1, <2>2, <2>6
  <1>12. CASE StdioUpdate
    <2> DEFINE p == Restaged(q)
    <2>1. Apply(p) /\ TakeReference /\ file' = Written(r') /\ UNCHANGED ended /\ r' = p
      BY <1>12 DEF StdioUpdate, Apply
    <2>2. PICK a \in BOOLEAN, b \in BOOLEAN : p = [q EXCEPT !.todoIn = a, !.todoOut = b]
      BY <1>1, <1>2, <2>1, RestagedIs
    <2>3. p \in RequestType
      BY <1>1, <1>2, <2>1, RestagedIs
    <2> HIDE DEF p, q
    <2>4. Twins(p, q)
      BY <1>2, <2>1, <2>2 DEF Twins, RequestType
    <2> QED
      BY <1>2, <1>3, <2>1, <2>3, <2>4, WaitsTwin
  <1>13. ~ClientRestart
    <2> SUFFICES ASSUME Spend("restart") PROVE FALSE
      BY DEF ClientRestart
    <2>1. used["restart"] \in Nat
      BY <1>1, MaxAssumption DEF BoundType
    <2>2. used'["restart"] = used["restart"] + 1
      BY <1>1, SpendIs
    <2>3. used'["restart"] = 0
      BY DEF Patient
    <2> QED
      BY <2>1, <2>2, <2>3
  <1> QED
    BY <1>4, <1>5, <1>6, <1>8, <1>9, <1>10, <1>11, <1>12, <1>13 DEF Client

LEMMA WaitNext == BasicInv /\ SoloInv /\ WaitInv /\ [Next]_vars => WaitInv'
  <1> SUFFICES ASSUME BasicInv, SoloInv, WaitInv, [Next]_vars, Patient' PROVE WaitInv'
    BY DEF WaitInv
  <1> USE DEF place, mgr, env, ghosts
  <1>1. Patient
    BY UsedGrows, UndisturbedBefore DEF Patient
  <1>2. /\ Waits(r) /\ WaitsFile(file) /\ \A k \in 1..Len(scripts) : Started(scripts[k])
        /\ r \in RequestType /\ job \in Jobs
    BY <1>1 DEF WaitInv, BasicInv, Types
  <1>3. CASE Step
    <2>1. WaitGoal
      BY <1>2, <1>3, WaitSteps
    <2>2. UNCHANGED <<job, ended>>
      BY <1>3 DEF Step, StepStart, StepTwoPhase, StepRestart, StepTwoPhaseCommitted,
         StepStageInFailed, StepSubmitting, StepSubmit, StepPoll1, StepPoll2, StepQuery1,
         StepQuery2, StepClosing, StepCloseOutput, StepFinalStatus, StepTwoPhaseEnd,
         StepCleanUp, StepCacheCleanUp, StepStop, StepDone
    <2> QED
      BY <1>2, <2>1, <2>2, WaitStep
  <1>4. CASE TimerFires \/ CallbackReply
    <2>1. Twins(r', r) /\ UNCHANGED <<job, ended, file, scripts>>
      BY <1>2, <1>4 DEF TimerFires, CallbackReply, Twins, RequestType
    <2>2. WaitGoal
      BY <1>2, <2>1, WaitsTwin DEF WaitGoal
    <2> QED
      BY <1>2, <2>1, <2>2, WaitStep
  <1>5. CASE ProcessPendingRestart
    <2>1. TakeReference /\ r' = Referenced /\ UNCHANGED <<job, ended, file, scripts>>
      BY <1>5 DEF ProcessPendingRestart
    <2>2. WaitGoal
      BY <1>2, <2>1, WaitsReferenced DEF WaitGoal
    <2> QED
      BY <1>2, <2>1, <2>2, WaitStep
  <1>6. ASSUME UNCHANGED <<job, r, file, scripts, ended>> PROVE WaitInv'
    <2>1. WaitGoal
      BY <1>2, <1>6 DEF WaitGoal
    <2> QED
      BY <1>2, <1>6, <2>1, WaitStep
  <1>7. CASE SegResume
    <2>1. resumed \in Seq(EventType)
      BY DEF BasicInv, Types
    <2>2. PICK es \in Seq(EventType) :
             /\ \A k \in DOMAIN es : \E j \in DOMAIN resumed : es[k] = resumed[j]
             /\ run = "idle" /\ resumed' = <<>>
             /\ \/ /\ TakeReference /\ r' = Delivered(Referenced, es)
                   /\ idHash' = StillHashed(es)
                \/ UNCHANGED <<mem, loaded, pending, r, pause, idHash>>
             /\ UNCHANGED <<job, run, file, scripts, posts, held, env, ghosts, used>>
      BY <1>2, <1>7, <2>1, SegResumeIs
    <2> QED
      BY <1>2, <1>6, <2>2, WaitDelivered
  <1>8. CASE Events
    <2>1. ASSUME NEW i \in DOMAIN scripts, ScriptDone(i) PROVE WaitInv'
      BY <1>1, <1>2, <2>1, WaitScriptDone
    <2>2. ASSUME NEW i \in DOMAIN lrm, SegEvent(i) PROVE WaitInv'
      <3> DEFINE e == [id |-> i, state |-> LogOf(i)[pos[i] + 1]]
      <3>1. /\ UNCHANGED <<job, file, scripts, ended>>
            /\ \/ TakeReference /\ r' = Delivered(Referenced, <<e>>)
               \/ UNCHANGED r
        BY <2>2 DEF SegEvent
      <3>2. e \in EventType
        <4>1. lrm \in Seq(LrmStates) /\ pos \in Seq(Nat) /\ Len(pos) = Len(lrm)
          BY DEF BasicInv, Types
        <4>2. i \in 1..Len(lrm) /\ i \in Nat /\ pos[i] \in Nat /\ pos[i] < Len(LogOf(i))
          BY <2>2, <4>1, LenProperties, ElementOfSeq DEF SegEvent
        <4> QED
          BY <4>1, <4>2, LogEntry DEF EventType
      <3> HIDE DEF e
      <3>3. <<e>> \in Seq(EventType)
        BY <3>2
      <3> QED
        BY <1>2, <1>6, <3>1, <3>3, WaitDelivered
    <2> QED
      BY <1>8, <2>1, <2>2 DEF Events
  <1>9. CASE Scripts
    BY <1>2, <1>9, WaitScripts
  <1>10. CASE Lrm
    BY <1>6, <1>10 DEF Lrm, LrmProgress
  <1>11. CASE Client
    BY <1>2, <1>11, WaitClient
  <1>12. CASE SwapOut \/ Crash
    <2>1. /\ r' = NewRequest /\ UNCHANGED <<job, ended>> /\ (file' = file \/ file' = Written(r))
          /\ scripts' = scripts \/ scripts' = <<>>
      BY <1>12 DEF SwapOut, Crash
    <2>2. r'.jm = "START" /\ r'.restart = "START"
      BY <1>2, <2>1, NewRequestType
    <2>3. Waits(r')
      BY <2>2 DEF Waits, Waited, Stands, Asking, CleanStates, EndWaits
    <2>4. WaitGoal
      BY <1>2, <2>1, <2>3 DEF WaitGoal
    <2> QED
      BY <1>2, <2>1, <2>4, WaitStep
  <1>13. CASE UNCHANGED vars
    BY <1>6, <1>13 DEF vars
  <1>14. CASE Orphan \/ ExpireOldJob
    BY <1>2, <1>14, WaitOrphan, WaitExpire
  <1> QED
    BY <1>3, <1>4, <1>5, <1>7, <1>8, <1>9, <1>10, <1>11, <1>12, <1>13, <1>14 DEF Next, Manager

\* The state file goes at the end of the clean-up, in no other step.
LEMMA FileRemoved ==
    ASSUME BasicInv, [Next]_vars, file # NoFile, file' = NoFile
    PROVE  run = "loop" /\ r.jm \in CleanStates
  <1> USE DEF place, mgr, env, ghosts, At
  <1>1. CASE StepCacheCleanUp \/ StepDone
    BY <1>1 DEF StepCacheCleanUp, StepDone, Final, CleanStates
  <1>2. ASSUME NEW q \in RequestType, file' = Written(q) PROVE FALSE
    BY <1>2, WrittenType
  <1>3. BasicInv' /\ r \in RequestType /\ r' \in RequestType /\ job \in Jobs
    BY BasicNext DEF BasicInv, Types
  <1>4. CASE Step
    <2>1. CASE StepStart \/ StepTwoPhase \/ StepRestart \/ StepTwoPhaseCommitted \/ StepStageInFailed
               \/ StepPoll2 \/ StepQuery1 \/ StepQuery2 \/ StepCloseOutput \/ StepFinalStatus
               \/ StepTwoPhaseEnd \/ StepCleanUp
      BY <2>1 DEF StepStart, StepTwoPhase, StepRestart, StepTwoPhaseCommitted, StepStageInFailed,
         StepPoll2, StepQuery1, StepQuery2, StepCloseOutput, StepFinalStatus, StepTwoPhaseEnd,
         StepCleanUp
    <2>2. CASE StepSubmitting
      <3> DEFINE q == [r EXCEPT !.jm = "SUBMIT", !.restart = "SUBMIT"]
      <3>1. file' = Written(q)
        BY <2>2 DEF StepSubmitting
      <3>2. q \in RequestType
        BY <1>3, Names DEF RequestType
      <3> HIDE DEF q
      <3> QED
        BY <1>2, <3>1, <3>2
    <2>3. CASE StepSubmit \/ StepStop
      BY <1>2, <1>3, <2>3 DEF StepSubmit, StepStop
    <2>4. CASE StepPoll1
      <3> DEFINE q == IF r.events # <<>> THEN Handled(r) ELSE r
                 w == IF q.unsent THEN [q EXCEPT !.restart = "POLL1"] ELSE q
      <3>1. file' = Written(w)
        BY <2>4 DEF StepPoll1
      <3>2. q \in RequestType
        BY <1>3, HandledKeeps
      <3> HIDE DEF q
      <3>3. w \in RequestType
        BY <3>2, Names DEF RequestType
      <3> HIDE DEF w
      <3> QED
        BY <1>2, <3>1, <3>3
    <2>5. CASE StepClosing
      <3> DEFINE w == IF r.unsent THEN [r EXCEPT !.restart = r.jm] ELSE r
      <3>1. file' = Written(w)
        BY <2>5 DEF StepClosing
      <3>2. w \in RequestType
        BY <1>3 DEF RequestType
      <3> HIDE DEF w
      <3> QED
        BY <1>2, <3>1, <3>2
    <2> QED
      BY <1>1, <1>4, <2>1, <2>2, <2>3, <2>4, <2>5 DEF Step
  <1>5. CASE TimerFires \/ CallbackReply \/ SegResume \/ ProcessPendingRestart \/ Scripts \/ Lrm
             \/ Orphan \/ ExpireOldJob \/ Crash \/ UNCHANGED vars
    BY <1>5 DEF TimerFires, CallbackReply, SegResume, ProcessPendingRestart, Scripts, ScriptRuns,
       Lrm, LrmProgress, Orphan, OrphanSubmit, ExpireOldJob, Crash, vars
  <1>6. CASE SwapOut
    BY <1>2, <1>3, <1>6 DEF SwapOut
  <1>7. ASSUME NEW i \in DOMAIN scripts, ScriptDone(i) PROVE FALSE
    <2> DEFINE p == Applied(r, scripts[i])
    <2>1. file' = Written(p) /\ scripts[i].res # "none"
      BY <1>7 DEF ScriptDone
    <2>2. scripts[i] \in ScriptType /\ ScriptKnown(scripts[i])
      <3>1. scripts \in Seq(ScriptType)
        BY DEF BasicInv, Types
      <3>2. i \in 1..Len(scripts) /\ scripts[i] \in ScriptType
        BY <1>7, <3>1, LenProperties, ElementOfSeq
      <3> QED
        BY <3>2 DEF BasicInv, Known
    <2>3. p \in RequestType
      BY <1>3, <2>1, <2>2, AppliedKeeps
    <2> HIDE DEF p
    <2> QED
      BY <1>2, <2>1, <2>3
  <1>8. CASE Events
    BY <1>7, <1>8 DEF Events, SegEvent
  <1>9. CASE Client
    <2>1. CASE ~StdioUpdate /\ ~ClientRestart
      BY <1>9, <2>1 DEF Client, CommitRequest, CommitEnd, CommitExtend, Cancel, Signal, Unregister,
         StopManager
    <2>2. CASE StdioUpdate
      BY <1>2, <1>3, <2>2 DEF StdioUpdate
    <2>3. CASE ClientRestart
      <3>1. TakeReference /\ file' = Written(Restaged(Referenced))
        BY <2>3 DEF ClientRestart, Apply
      <3>2. Restaged(Referenced) \in RequestType
        BY <1>3, <3>1, EventsReferenced, RestagedIs
      <3> QED
        BY <1>2, <3>1, <3>2
    <2> QED
      BY <2>1, <2>2, <2>3
  <1> QED
    BY <1>4, <1>5, <1>6, <1>8, <1>9 DEF Next, Manager

\* The files of a two-phase job are cleaned up, and its state file is removed, only after
\* the client committed the end of the job or the job expired because it did not
\* (expire_old_jobs), unless it listens no more or let the time to commit the job itself
\* run out (StepTwoPhaseEnd).  It may cancel, signal, extend, stop
\* and update the job, the job manager may crash at any step, and a script left at work by
\* a signal before the commit may end during the clean-up; a script that then reports
\* nothing would overwrite the reason of the failure, and is allowed only where the client
\* sends no such signal and no stop or update.
THEOREM CleanedUpAfterCommit == Spec /\ []Patient => CleanUpAfterCommit
  <1> DEFINE P == file # NoFile /\ file' = NoFile /\ job.twoPhase =>
                      ended \/ ~r.contact \/ r.failure = "COMMIT_TIMED_OUT"
  <1>1. BasicInv /\ WaitInv /\ Patient /\ [Next]_vars => [P]_vars
    <2> SUFFICES ASSUME BasicInv, WaitInv, Patient, [Next]_vars,
                        file # NoFile, file' = NoFile, job.twoPhase, ~ended
                 PROVE  ~r.contact \/ r.failure = "COMMIT_TIMED_OUT"
      OBVIOUS
    <2>1. r.jm \in CleanStates
      BY FileRemoved
    <2>2. Waits(r)
      BY DEF WaitInv
    <2> QED
      BY <2>1, <2>2 DEF Waits, Waited, Stands, CleanStates
  <1> QED
    BY <1>1, BasicInit, BasicNext, SoloInit, SoloNext, WaitInit, WaitNext, PTL
    DEF Spec, CleanUpAfterCommit

-----------------------------------------------------------------------------
(* The client is told how its job ended *)

\* A client that leaves the job alone, and no crash: a restarted job manager does not
\* know whether the last status was sent.
Unbroken == Undisturbed /\ used["crash"] = 0

\* A script that ends without a report leaves no status to be sent, and neither does a
\* cancel in START.
Mute == "die" \in Fails
Excused(q) == Mute \/ (q.failure = "USER_CANCELLED" /\ lrm = <<>>)

\* A request in memory, when t was sent last: a final status is sent, or is still to be sent.
Tells(q, t) ==
    /\ q.todoIn => job.stageIn
    /\ q.jm \in Early => q.status = "UNSUBMITTED"
    /\ q.jm = "STAGE_IN" => q.status \in {"UNSUBMITTED", "STAGE_IN", "FAILED"}
    /\ q.jm \in Poll \cup {"SUBMIT", "STAGE_IN"} /\ q.status \in Bad =>
          q.unsent /\ q.jm # "POLL2"
    /\ q.jm = "FAILED" => q.status \notin Over
    /\ q.jm \in {"FAILED", "FAILED_CLOSE_OUTPUT"} => q.unsent \/ Excused(q)
    /\ q.jm \in {"PRE_CLOSE_OUTPUT", "CLOSE_OUTPUT"} => q.status \in Over
    /\ q.jm = "STAGE_OUT" => q.unsent
    /\ q.jm \in Late /\ q.contact => t = q.status \/ Excused(q)
\* A request that was swapped out.
TellsFile(f, t) ==
    /\ f.todoIn => job.stageIn
    /\ f.state \in Poll => f.status \notin Bad
    /\ f.state \in EndWaits /\ f.contact => t = f.status \/ Excused(f)
\* The scripts that are at work in STAGE_IN, and still after a cancel there.
Stages(s, jm) ==
    /\ s.cmd = "stage_in" => s.start = "STAGE_IN"
    /\ s.cmd # "stage_in" => jm \notin {"STAGE_IN", "FAILED"}
\* The state machine waits for the reply to the final status, and stays in STOP.
Replies(q) ==
    /\ posts \in {0, 1}
    /\ posts = 1 => q.jm \in CleanStates \/ (q.jm \in EndWaits /\ ~q.timer /\ run = "idle")
    /\ q.jm = "STOP" => ~q.timer /\ run = "idle"

Told ==
    /\ Tells(r, told)
    /\ mem = "stub" => TellsFile(file, told)
    /\ mem = "live" /\ r.jm = "START" => lrm = <<>>
    /\ r.jm = "STAGE_IN" /\ scripts = <<>> /\ r.todoIn => r.status = "FAILED" \/ Mute
    /\ \A i \in 1..Len(scripts) : Stages(scripts[i], r.jm)
    /\ Replies(r)

ToldInv == Unbroken => Told

LEMMA TellsNew ==
    ASSUME job \in Jobs, NEW t
    PROVE  /\ NewRequest.jm = "START" /\ ~NewRequest.unsent /\ NewRequest.timer
           /\ Tells(NewRequest, t)
  <1>1. /\ NewRequest.jm = "START" /\ NewRequest.status = "UNSUBMITTED" /\ ~NewRequest.unsent
        /\ NewRequest.todoIn = job.stageIn /\ NewRequest.timer
    BY DEF NewRequest
  <1> DEFINE q == NewRequest
  <1> HIDE DEF q
  <1>2. q.jm = "START" /\ q.status = "UNSUBMITTED" /\ q.todoIn = job.stageIn
    BY <1>1 DEF q
  <1>3. Tells(q, t)
    BY <1>2 DEF Tells, Poll, Late, CleanStates
  <1> QED
    BY <1>1, <1>3 DEF q

LEMMA ToldInit == Init => ToldInv
  <1> SUFFICES ASSUME Init PROVE Told
    BY DEF ToldInv
  <1>1. /\ job \in Jobs /\ r = NewRequest /\ scripts = <<>> /\ posts = 0 /\ lrm = <<>>
        /\ mem = "live" /\ Len(scripts) = 0
    BY DEF Init
  <1>2. r.jm = "START" /\ Tells(r, told)
    BY <1>1, TellsNew
  <1> QED
    BY <1>1, <1>2 DEF Told, Replies

\* What a step of the loop has to show.
ToldGoal ==
    /\ Tells(r', told')
    /\ r'.jm = "START" => mem' = "gone"
    /\ \/ scripts' = scripts /\ (r'.jm = "STAGE_IN" /\ r'.todoIn => r'.status = "FAILED" \/ Mute)
       \/ \E s \in ScriptType : scripts' = Append(scripts, s) /\ Stages(s, r'.jm)
    /\ Replies(r)'

LEMMA ToldStep ==
    ASSUME scripts = <<>>, ToldGoal, UNCHANGED <<job, lrm>>, mem' # "stub"
    PROVE  Told'
  <1>1. Tells(r, told)'
    BY DEF ToldGoal, Tells, Excused
  <1>2. CASE scripts' = scripts /\ (r'.jm = "STAGE_IN" /\ r'.todoIn => r'.status = "FAILED" \/ Mute)
    <2>1. Len(scripts') = 0
      BY <1>2
    <2>2. (\A i \in 1..Len(scripts) : Stages(scripts[i], r.jm))'
      BY <2>1
    <2> QED
      BY <1>1, <1>2, <2>2 DEF ToldGoal, Told
  <1>3. ASSUME NEW s \in ScriptType, scripts' = Append(scripts, s), Stages(s, r'.jm)
        PROVE  Told'
    <2>1. scripts' = <<s>>
      BY <1>3
    <2> HIDE DEF ScriptType
    <2>2. Len(scripts') = 1 /\ scripts'[1] = s /\ scripts' # <<>>
      BY <2>1
    <2>3. (\A i \in 1..Len(scripts) : Stages(scripts[i], r.jm))'
      BY <1>3, <2>2 DEF Stages
    <2> QED
      BY <1>1, <2>2, <2>3 DEF ToldGoal, Told
  <1> QED
    BY <1>2, <1>3 DEF ToldGoal

\* What POLL1 makes of the status: a job that is over keeps what is to be sent.
LEMMA Poll1Tells ==
    ASSUME Types, StepPoll1,
           r.status \in Bad => r.unsent
    PROVE  /\ r'.todoIn = r.todoIn
           /\ r'.jm \in {"FAILED", "PRE_CLOSE_OUTPUT"} \/ r'.status \notin Bad
           /\ r'.jm \in {"FAILED", "PRE_CLOSE_OUTPUT", "POLL_QUERY1", "POLL1", "POLL2"}
           /\ r'.jm = "FAILED" => r'.status = "FAILED" /\ r'.unsent
           /\ r'.jm = "PRE_CLOSE_OUTPUT" => r'.status \in Over
  <1> DEFINE q == IF r.events # <<>> THEN Handled(r) ELSE r
             w == IF q.unsent THEN [q EXCEPT !.restart = "POLL1"] ELSE q
             quiet == [w EXCEPT !.unsent = FALSE]
  <1>0. r \in RequestType
    BY DEF Types
  <1>1. /\ q \in RequestType /\ q.todoIn = r.todoIn
        /\ q.status \in Bad => q.unsent
    <2>1. CASE r.events = <<>>
      BY <1>0, <2>1
    <2>2. CASE r.events # <<>>
      <3> DEFINE e == Head(r.events)
                 i == IF Ended(e.state) /\ e.id = r.id THEN EmptyId ELSE r.id
                 n == r.seen + 1
                 q1 == [r EXCEPT !.events = Tail(@), !.seen = n, !.id = i]
      <3>1. Handled(r) \in {q1, Reported(q1, e.state)}
        BY <1>0 DEF Handled, RequestType
      <3>2. q1.todoIn = r.todoIn /\ q1.status = r.status /\ q1.unsent = r.unsent
        BY <1>0 DEF RequestType
      <3>3. {"unsent", "status", "todoIn"} \subseteq DOMAIN q1
        BY <1>0 DEF RequestType
      <3> HIDE DEF q1, e
      <3>4. /\ Reported(q1, e.state).todoIn = r.todoIn
            /\ Reported(q1, e.state).status \in Bad => Reported(q1, e.state).unsent
        BY <3>2, <3>3 DEF Reported
      <3> QED
        BY <1>0, <2>2, <3>1, <3>2, <3>4, HandledKeeps
    <2> QED
      BY <2>1, <2>2
  <1>2. CASE w.status = "FAILED" /\ r' = [w EXCEPT !.jm = "FAILED"]
    <2> HIDE DEF q
    <2>1. w \in RequestType /\ w.todoIn = q.todoIn /\ w.status = q.status /\ w.unsent = q.unsent
      BY <1>1 DEF RequestType, States, Poll
    <2> HIDE DEF w
    <2> QED
      BY <1>1, <1>2, <2>1 DEF RequestType, Bad, Over
  <1>3. CASE w.status \in {"DONE", "STAGE_OUT"} /\ r' = [w EXCEPT !.jm = "PRE_CLOSE_OUTPUT"]
    <2> HIDE DEF q
    <2>1. w \in RequestType /\ w.todoIn = q.todoIn /\ w.status = q.status
      BY <1>1 DEF RequestType, States, Poll
    <2> HIDE DEF w
    <2> QED
      BY <1>1, <1>3, <2>1 DEF RequestType, Bad, Over
  <1>4. CASE /\ ~(w.status = "FAILED") /\ ~(w.status \in {"DONE", "STAGE_OUT"})
             /\ \E j \in {"POLL_QUERY1", "POLL1", "POLL2"} : \E t :
                   r' = [quiet EXCEPT !.jm = j, !.timer = t] \/ r' = [quiet EXCEPT !.jm = j]
    <2> HIDE DEF q
    <2>1. w \in RequestType /\ w.todoIn = q.todoIn /\ w.status = q.status
      BY <1>1 DEF RequestType, States, Poll
    <2> HIDE DEF w
    <2>2. quiet.todoIn = w.todoIn /\ quiet.status = w.status
          /\ {"jm", "timer", "todoIn", "status"} \subseteq DOMAIN quiet
      BY <2>1 DEF RequestType
    <2> HIDE DEF quiet
    <2>3. /\ r'.todoIn = quiet.todoIn /\ r'.status = quiet.status
          /\ r'.jm \in {"POLL_QUERY1", "POLL1", "POLL2"}
      BY <1>4, <2>2
    <2> QED
      BY <1>1, <1>4, <2>1, <2>2, <2>3 DEF Bad, Over
  <1>5. \/ w.status = "FAILED" /\ r' = [w EXCEPT !.jm = "FAILED"]
        \/ w.status \in {"DONE", "STAGE_OUT"} /\ r' = [w EXCEPT !.jm = "PRE_CLOSE_OUTPUT"]
        \/ /\ ~(w.status = "FAILED") /\ ~(w.status \in {"DONE", "STAGE_OUT"})
           /\ \E j \in {"POLL_QUERY1", "POLL1", "POLL2"} : \E t :
                   r' = [quiet EXCEPT !.jm = j, !.timer = t] \/ r' = [quiet EXCEPT !.jm = j]
    <2>1. CASE w.status = "FAILED"
      <3>1. ~(w.status \in {"DONE", "STAGE_OUT"})
        BY <2>1
      <3> HIDE DEF w, quiet
      <3> QED
        BY <2>1, <3>1, Zenon DEF StepPoll1, w, q
    <2>2. CASE w.status \in {"DONE", "STAGE_OUT"}
      <3>1. ~(w.status = "FAILED")
        BY <2>2
      <3> QED
        BY <2>2, <3>1, Zenon DEF StepPoll1
    <2>3. CASE ~(w.status = "FAILED") /\ ~(w.status \in {"DONE", "STAGE_OUT"})
      <3>1. IF w.queries # <<>>
            THEN r' = [quiet EXCEPT !.jm = "POLL_QUERY1"]
            ELSE IF job.mode = "poll"
            THEN r' = [quiet EXCEPT !.jm = "POLL2", !.timer = run # "first"]
            ELSE r' = [quiet EXCEPT !.jm = IF w.events # <<>> THEN "POLL1" ELSE "POLL2"]
        BY <2>3, Zenon DEF StepPoll1
      <3> HIDE DEF w, quiet, q
      <3> QED
        BY <2>3, <3>1
    <2> QED
      BY <2>1, <2>2, <2>3
  <1> QED
    BY <1>2, <1>3, <1>4, <1>5

LEMMA ToldEarlySteps ==
    ASSUME BasicInv, Undisturbed, OneScript, Straight, Told, ~r.timer, run # "idle",
           r.jm \in Early => ~r.jmRestart,
           \/ StepStart \/ StepTwoPhase \/ StepRestart \/ StepTwoPhaseCommitted
           \/ StepStageInFailed \/ StepSubmitting \/ StepSubmit \/ StepPoll1 \/ StepPoll2
           \/ StepQuery1 \/ StepQuery2
    PROVE  ToldGoal
  <1> USE DEF place, mgr, env, ghosts, At
  <1>0. /\ r \in RequestType /\ job \in Jobs /\ job.twoPhase \in BOOLEAN /\ job.stageIn \in BOOLEAN
        /\ Tells(r, told) /\ scripts = <<>> /\ mem = "live"
    BY JobBooleans DEF BasicInv, Types, Placed, OneScript, Told
  <1>1. /\ posts = 0 \/ r.jm \in CleanStates
        /\ posts \in {0, 1} /\ r.jm # "STOP"
    BY DEF Told, Replies
  <1>2. ASSUME posts' = posts, r.jm \notin CleanStates, r'.jm # "STOP" PROVE Replies(r)'
    BY <1>1, <1>2 DEF Replies
  <1>3. CASE StepStart
    <2>1. /\ r'.jm = "TWO_PHASE" /\ r'.status = r.status /\ r'.todoIn = r.todoIn
          /\ r.jm = "START" /\ UNCHANGED <<told, scripts, posts>>
      BY <1>0, <1>3 DEF StepStart, RequestType
    <2>2. Tells(r', told')
      BY <1>0, <2>1 DEF Tells, Early, Poll, Late, CleanStates
    <2> QED
      BY <1>2, <2>1, <2>2 DEF ToldGoal, CleanStates
  <1>4. CASE StepTwoPhase
    <2>1. /\ r.jm = "TWO_PHASE" /\ ~r.jmRestart /\ UNCHANGED <<told, scripts, posts>>
      BY <1>4 DEF StepTwoPhase, Early
    <2>2. /\ r'.status = r.status /\ r'.todoIn = r.todoIn
          /\ r'.jm \in {"TWO_PHASE", "TWO_PHASE_COMMITTED"} \/ (r'.jm = "FAILED" /\ r'.unsent)
      BY <1>0, <1>4, <2>1 DEF StepTwoPhase, TimedOut, RequestType
    <2>3. r.status = "UNSUBMITTED"
      BY <1>0, <2>1 DEF Tells, Early
    <2>4. Tells(r', told')
      BY <1>0, <2>2, <2>3 DEF Tells, Early, Poll, Late, CleanStates, Over
    <2> QED
      BY <1>2, <2>1, <2>2, <2>4 DEF ToldGoal, CleanStates
  <1>5. CASE StepRestart
    BY <1>5 DEF StepRestart, Early
  <1>6. CASE StepTwoPhaseCommitted
    <2>1. r.jm = "TWO_PHASE_COMMITTED" /\ ~r.jmRestart /\ posts' = posts
      BY <1>6 DEF StepTwoPhaseCommitted, Early
    <2>2. r.status = "UNSUBMITTED" /\ (r.todoIn => job.stageIn)
      BY <1>0, <2>1 DEF Tells, Early
    <2>3. CASE job.stageIn
      <3>1. r' = [r EXCEPT !.jm = "STAGE_IN", !.status = "STAGE_IN"] /\ RunScript("stage_in", r')
        BY <1>6, <2>1, <2>3 DEF StepTwoPhaseCommitted
      <3>2. r'.jm = "STAGE_IN" /\ r'.status = "STAGE_IN" /\ r' \in RequestType
        BY <1>0, <3>1, Names DEF RequestType
      <3>3. Tells(r', told')
        BY <2>3, <3>2 DEF Tells, Early, Poll, Late, CleanStates, Bad, Over
      <3> DEFINE s == Script("stage_in", r')
      <3>4. s \in ScriptType /\ s.start = "STAGE_IN" /\ s.cmd = "stage_in" /\ scripts' = Append(scripts, s)
        BY <3>1, <3>2, ScriptStarts DEF Cmds, RunScript, Script
      <3> HIDE DEF s
      <3> QED
        BY <1>2, <2>1, <3>2, <3>3, <3>4 DEF ToldGoal, CleanStates, Stages
    <2>4. CASE ~job.stageIn
      <3>1. r' = [r EXCEPT !.jm = "STAGE_IN"] /\ UNCHANGED <<told, scripts>>
        BY <1>6, <2>1, <2>4 DEF StepTwoPhaseCommitted
      <3>2. r'.jm = "STAGE_IN" /\ r'.status = r.status /\ r'.todoIn = r.todoIn
        BY <1>0, <3>1 DEF RequestType
      <3>3. Tells(r', told')
        BY <2>2, <2>4, <3>2 DEF Tells, Early, Poll, Late, CleanStates, Bad, Over
      <3> QED
        BY <1>2, <2>1, <2>2, <2>4, <3>1, <3>2, <3>3 DEF ToldGoal, CleanStates
    <2> QED
      BY <1>0, <2>3, <2>4
  <1>7. CASE StepStageInFailed
    <2>1. /\ r.jm = "STAGE_IN" /\ (r.status = "FAILED" \/ Mute) /\ UNCHANGED <<told, scripts, posts>>
      BY <1>0, <1>7 DEF StepStageInFailed, Told
    <2>2. (r.unsent \/ Mute) /\ r.status \notin Over
      BY <1>0, <2>1 DEF Tells, Bad, Over
    <2>3. r'.jm = "FAILED" /\ r'.status = r.status /\ r'.todoIn = r.todoIn /\ r'.unsent = r.unsent
      BY <1>0, <1>7 DEF StepStageInFailed, RequestType
    <2>4. Tells(r', told')
      BY <1>0, <2>1, <2>2, <2>3 DEF Tells, Excused, Early, Poll, Late, CleanStates
    <2> QED
      BY <1>2, <2>1, <2>3, <2>4 DEF ToldGoal, CleanStates
  <1>8. CASE StepSubmitting
    <2> DEFINE q == [r EXCEPT !.jm = "SUBMIT", !.restart = "SUBMIT"]
    <2>1. /\ r' = [q EXCEPT !.seen = 0] /\ RunScript("submit", q)
          /\ r.jm = "STAGE_IN" /\ r.status # "FAILED" /\ UNCHANGED <<told, posts>>
      BY <1>8 DEF StepSubmitting
    <2>2. q \in RequestType
      BY <1>0, Names DEF RequestType
    <2>3. /\ r'.jm = "SUBMIT" /\ r'.status = r.status /\ r'.todoIn = r.todoIn
      BY <1>0, <2>1 DEF RequestType
    <2> DEFINE s == Script("submit", q)
    <2>4. s \in ScriptType /\ s.cmd = "submit" /\ scripts' = Append(scripts, s)
      BY <2>1, <2>2, ScriptStarts DEF Cmds, RunScript, Script
    <2> HIDE DEF q, s
    <2>5. r.status \in {"UNSUBMITTED", "STAGE_IN"} /\ (r.todoIn => job.stageIn)
      BY <1>0, <2>1 DEF Tells
    <2>6. Tells(r', told')
      BY <2>3, <2>5 DEF Tells, Early, Poll, Late, CleanStates, Bad, Over
    <2> QED
      BY <1>2, <2>1, <2>3, <2>4, <2>6 DEF ToldGoal, CleanStates, Stages
  <1>9. CASE StepSubmit
    <2> DEFINE q == IF r.id = NoId
             THEN [r EXCEPT !.status = "FAILED", !.unsent = TRUE,
                            !.failure = IF @ = "none" THEN "SUBMIT" ELSE @]
             ELSE r
    <2>1. /\ r' = [q EXCEPT !.jm = "POLL1", !.restart = "POLL1"]
          /\ r.jm = "SUBMIT" /\ UNCHANGED <<told, scripts, posts>>
      BY <1>9 DEF StepSubmit
    <2>2. /\ q \in RequestType /\ q.todoIn = r.todoIn
          /\ q.unsent \/ (q.status = r.status /\ q.unsent = r.unsent)
      BY <1>0, Names DEF RequestType
    <2> HIDE DEF q
    <2>3. /\ r'.jm = "POLL1" /\ r'.status = q.status /\ r'.todoIn = q.todoIn /\ r'.unsent = q.unsent
      BY <2>1, <2>2 DEF RequestType
    <2>4. r.status \in Bad => r.unsent
      BY <1>0, <2>1 DEF Tells
    <2>5. Tells(r', told')
      BY <1>0, <2>2, <2>3, <2>4 DEF Tells, Early, Late, CleanStates
    <2> QED
      BY <1>2, <2>1, <2>3, <2>5 DEF ToldGoal, CleanStates
  <1>10. CASE StepPoll1
    <2>1. r.jm = "POLL1" /\ UNCHANGED <<scripts, posts>>
      BY <1>10 DEF StepPoll1
    <2>2. Types /\ (r.status \in Bad => r.unsent)
      BY <1>0, <2>1 DEF Tells, Poll, BasicInv
    <2>3. /\ r'.todoIn = r.todoIn
          /\ r'.jm \in {"FAILED", "PRE_CLOSE_OUTPUT"} \/ r'.status \notin Bad
          /\ r'.jm \in {"FAILED", "PRE_CLOSE_OUTPUT", "POLL_QUERY1", "POLL1", "POLL2"}
          /\ r'.jm = "FAILED" => r'.status = "FAILED" /\ r'.unsent
          /\ r'.jm = "PRE_CLOSE_OUTPUT" => r'.status \in Over
      BY <1>10, <2>2, Poll1Tells
    <2>4. Tells(r', told')
      BY <1>0, <2>3 DEF Tells, Early, Poll, Late, CleanStates, Over
    <2> QED
      BY <1>2, <2>1, <2>3, <2>4 DEF ToldGoal, CleanStates
  <1>11. CASE StepPoll2 \/ StepQuery1
    <2>1. /\ r.jm \in {"POLL2", "POLL_QUERY1"} /\ UNCHANGED <<told, posts>>
          /\ r' \in RequestType /\ r'.status = r.status /\ r'.todoIn = r.todoIn
          /\ r'.unsent = r.unsent
          /\ r'.jm \in {"POLL1", "POLL_QUERY2"} \/ (r.jm = "POLL2" /\ r'.jm = "POLL2")
      BY <1>0, <1>11, Names DEF StepPoll2, StepQuery1, RequestType, Straight
    <2>2. r.status \in Bad => r.unsent /\ r.jm # "POLL2"
      BY <1>0, <2>1 DEF Tells, Poll
    <2>3. Tells(r', told')
      BY <1>0, <2>1, <2>2 DEF Tells, Early, Late, CleanStates
    <2>4. \/ scripts' = scripts
          \/ r'.jm = "POLL1" /\ RunScript("poll", r')
          \/ StepQuery1 /\ RunScript(Head(r.queries), r)
      BY <1>0, <1>11 DEF StepPoll2, StepQuery1, RequestType
    <2>5. \/ scripts' = scripts
          \/ \E s \in ScriptType : scripts' = Append(scripts, s) /\ s.cmd # "stage_in"
      <3>1. CASE RunScript("poll", r')
        <4>1. Script("poll", r') \in ScriptType /\ Script("poll", r').cmd = "poll"
          BY <2>1, ScriptStarts DEF Cmds, Script
        <4> QED
          BY <3>1, <4>1 DEF RunScript
      <3>2. CASE StepQuery1 /\ RunScript(Head(r.queries), r)
        <4>1. r.queries # <<>>
          BY <3>2 DEF StepQuery1, BasicInv, Queries
        <4>2. Head(r.queries) \in {"cancel", "signal"}
          BY <1>0, <4>1, HeadTailProperties DEF RequestType, QueryQueue
        <4> DEFINE c == Head(r.queries)
        <4>3. c \in Cmds /\ c # "stage_in"
          BY <4>2 DEF Cmds
        <4> HIDE DEF c
        <4>4. Script(c, r) \in ScriptType /\ Script(c, r).cmd = c
          BY <1>0, <4>3, ScriptStarts DEF Script
        <4> QED
          BY <3>2, <4>3, <4>4 DEF RunScript, c
      <3> QED
        BY <2>4, <3>1, <3>2
    <2>6. ASSUME NEW s \in ScriptType, s.cmd # "stage_in" PROVE Stages(s, r'.jm)
      BY <2>1, <2>6 DEF Stages
    <2> HIDE DEF ScriptType
    <2> QED
      BY <1>2, <2>1, <2>3, <2>5, <2>6 DEF ToldGoal, CleanStates
  <1>12. CASE StepQuery2
    <2> DEFINE q == [r EXCEPT !.queries = Tail(@)]
    <2>1. /\ r.jm = "POLL_QUERY2" /\ UNCHANGED <<told, scripts, posts>>
          /\ \E j \in {"POLL_QUERY1", "POLL1", "POLL2"} :
                r' = [q EXCEPT !.jm = j] /\ (j = "POLL2" => ~q.unsent)
      BY <1>12 DEF StepQuery2, Straight
    <2>2. /\ q.status = r.status /\ q.todoIn = r.todoIn /\ q.unsent = r.unsent
          /\ {"jm", "status", "todoIn", "unsent"} \subseteq DOMAIN q
      BY <1>0 DEF RequestType
    <2> HIDE DEF q
    <2>3. /\ r'.jm \in {"POLL_QUERY1", "POLL1", "POLL2"} /\ (r'.jm = "POLL2" => ~r.unsent)
          /\ r'.status = r.status /\ r'.todoIn = r.todoIn /\ r'.unsent = r.unsent
      BY <2>1, <2>2
    <2>4. r.status \in Bad => r.unsent
      BY <1>0, <2>1 DEF Tells, Poll
    <2>5. Tells(r', told')
      BY <1>0, <2>3, <2>4 DEF Tells, Early, Late, CleanStates
    <2> QED
      BY <1>2, <2>1, <2>3, <2>5 DEF ToldGoal, CleanStates
  <1> QED
    BY <1>3, <1>4, <1>5, <1>6, <1>7, <1>8, <1>9, <1>10, <1>11, <1>12

LEMMA ToldLateSteps ==
    ASSUME BasicInv, Undisturbed, OneScript, Straight, Told, ~r.timer, run # "idle",
           "post" \notin Fails,
           \/ StepClosing \/ StepCloseOutput \/ StepFinalStatus \/ StepTwoPhaseEnd
           \/ StepCleanUp \/ StepCacheCleanUp \/ StepStop \/ StepDone
    PROVE  ToldGoal
  <1> USE DEF place, mgr, env, ghosts, At
  <1>0. /\ r \in RequestType /\ job \in Jobs /\ job.twoPhase \in BOOLEAN
        /\ Tells(r, told) /\ scripts = <<>> /\ mem = "live"
    BY JobBooleans DEF BasicInv, Types, Placed, OneScript, Told
  <1>1. /\ posts = 0 \/ r.jm \in CleanStates
        /\ posts \in {0, 1} /\ r.jm # "STOP"
    BY DEF Told, Replies
  <1>2. ASSUME posts' = posts, r.jm \in CleanStates => r'.jm \in CleanStates, r'.jm # "STOP"
        PROVE  Replies(r)'
    BY <1>1, <1>2 DEF Replies
  <1>3. CASE StepClosing
    <2> DEFINE w == IF r.unsent THEN [r EXCEPT !.restart = r.jm] ELSE r
               now == r.unsent /\ r.status = "STAGE_OUT"
               u == w.unsent /\ ~now
               j == IF w.jm = "FAILED" THEN "FAILED_CLOSE_OUTPUT" ELSE "CLOSE_OUTPUT"
    <2>1. /\ r' = [w EXCEPT !.unsent = u, !.queries = <<>>, !.jm = j]
          /\ UNCHANGED <<scripts, posts>> /\ r.jm \in {"PRE_CLOSE_OUTPUT", "FAILED"}
      BY <1>3 DEF StepClosing
    <2>2. /\ w \in RequestType /\ w.jm = r.jm /\ w.unsent = r.unsent /\ w.status = r.status
          /\ w.failure = r.failure /\ w.todoIn = r.todoIn
      BY <1>0 DEF RequestType
    <2> HIDE DEF w
    <2>3. /\ r'.jm = j /\ r'.unsent = u /\ r'.status = r.status
          /\ r'.failure = r.failure /\ r'.todoIn = r.todoIn
      BY <2>1, <2>2 DEF RequestType
    <2>4. /\ j = "FAILED_CLOSE_OUTPUT" => r.jm = "FAILED"
          /\ j = "CLOSE_OUTPUT" => r.jm = "PRE_CLOSE_OUTPUT"
          /\ j \in {"FAILED_CLOSE_OUTPUT", "CLOSE_OUTPUT"}
      BY <2>1, <2>2
    <2>5. r.jm = "FAILED" => (r.unsent \/ Excused(r)) /\ r.status \notin Over
      BY <1>0 DEF Tells
    <2>6. j = "FAILED_CLOSE_OUTPUT" => r'.unsent \/ Excused(r')
      BY <2>2, <2>3, <2>4, <2>5 DEF Excused, Over
    <2>7. j = "CLOSE_OUTPUT" => r.status \in Over
      BY <1>0, <2>4 DEF Tells
    <2> HIDE DEF j, u
    <2>8. Tells(r', told')
      BY <1>0, <2>3, <2>4, <2>6, <2>7 DEF Tells, Early, Poll, Late, CleanStates
    <2> QED
      BY <1>2, <2>1, <2>3, <2>4, <2>8 DEF ToldGoal, CleanStates
  <1>4. CASE StepCloseOutput
    <2>1. r.jm = "CLOSE_OUTPUT" /\ UNCHANGED <<told, posts>>
      BY <1>4 DEF StepCloseOutput
    <2>2. r.status \in Over
      BY <1>0, <2>1 DEF Tells
    <2>3. /\ r' = [r EXCEPT !.jm = "STAGE_OUT", !.unsent = TRUE]
          /\ RunScript("stage_out", r') \/ UNCHANGED scripts
      BY <1>4, <2>2 DEF StepCloseOutput, Over
    <2>4. /\ r' \in RequestType /\ r'.jm = "STAGE_OUT" /\ r'.unsent /\ r'.todoIn = r.todoIn
      BY <1>0, <2>3, Names DEF RequestType
    <2>5. Tells(r', told')
      BY <1>0, <2>4 DEF Tells, Early, Poll, Late, CleanStates
    <2> DEFINE s == Script("stage_out", r')
    <2>6. s \in ScriptType /\ s.cmd = "stage_out" /\ (scripts' = Append(scripts, s) \/ UNCHANGED scripts)
      BY <2>3, <2>4, ScriptStarts DEF Cmds, RunScript, Script
    <2> HIDE DEF s
    <2> QED
      BY <1>2, <2>1, <2>4, <2>5, <2>6 DEF ToldGoal, CleanStates, Stages
  <1>5. CASE StepFinalStatus
    <2> DEFINE failed == r.jm = "FAILED_CLOSE_OUTPUT" \/ r.todoOut
               j == IF failed THEN "FAILED_TWO_PHASE" ELSE "TWO_PHASE_END"
               st == IF failed THEN "FAILED" ELSE "DONE"
               f == IF r.jm = "STAGE_OUT" /\ r.todoOut /\ r.failure = "none"
                    THEN "STAGE_OUT_FAILED" ELSE r.failure
               q == [r EXCEPT !.unsent = FALSE, !.jm = j, !.status = st, !.failure = f]
    <2>1. /\ r.jm \in {"STAGE_OUT", "FAILED_CLOSE_OUTPUT"}
          /\ IF r.unsent /\ job.twoPhase THEN FinalNotify(q)
             ELSE /\ r' = q /\ UNCHANGED posts
                  /\ IF r.unsent THEN Notify(q) ELSE UNCHANGED told
          /\ Return(r.unsent /\ job.twoPhase) /\ UNCHANGED scripts
      BY <1>0, <1>5 DEF StepFinalStatus, RequestType
    <2>2. /\ q.jm = j /\ q.status = st /\ q.failure = f /\ q.todoIn = r.todoIn
          /\ q.contact = r.contact /\ q.timer = r.timer /\ q.contact \in BOOLEAN
          /\ {"jm", "status", "failure", "todoIn", "contact", "timer"} \subseteq DOMAIN q
          /\ j \in EndWaits
      BY <1>0 DEF RequestType, EndWaits
    <2> HIDE DEF q
    <2>3. posts = 0 /\ (r.unsent \/ (r.jm = "FAILED_CLOSE_OUTPUT" /\ Excused(r)))
      BY <1>0, <1>1, <2>1 DEF Tells, CleanStates
    <2>4. /\ r'.jm = j /\ r'.status = st /\ r'.failure = f /\ r'.todoIn = r.todoIn
          /\ r'.contact = r.contact
          /\ r.unsent => ~r.contact \/ told' = st
          /\ ~r.unsent => told' = told
          /\ posts' = 0 \/ (posts' = 1 /\ r'.timer = r.timer /\ run' = "idle")
      <3>1. CASE r.unsent /\ job.twoPhase
        <4>1. FinalNotify(q) /\ run' = "idle"
          BY <2>1, <3>1 DEF Return
        <4>2. \/ q.contact /\ told' = q.status /\ posts' = posts + 1 /\ r' = q
              \/ ~q.contact /\ r' = [q EXCEPT !.timer = TRUE] /\ posts' = posts
          BY <4>1 DEF FinalNotify
        <4>3. /\ r'.jm = q.jm /\ r'.status = q.status /\ r'.failure = q.failure
              /\ r'.todoIn = q.todoIn /\ r'.contact = q.contact
          BY <2>2, <4>2
        <4>4. ~q.contact \/ told' = q.status
          BY <4>2
        <4>5. posts' = 0 \/ (posts' = 1 /\ r'.timer = q.timer)
          BY <2>3, <4>2
        <4> HIDE DEF j, st, f
        <4> QED
          BY <2>2, <3>1, <4>1, <4>3, <4>4, <4>5
      <3>2. CASE ~(r.unsent /\ job.twoPhase)
        <4>1. r' = q /\ posts' = 0 /\ IF r.unsent THEN Notify(q) ELSE UNCHANGED told
          BY <2>1, <2>3, <3>2
        <4>2. r.unsent => ~q.contact \/ told' = q.status
          BY <2>2, <4>1 DEF Notify
        <4>3. ~r.unsent => told' = told
          BY <4>1
        <4> HIDE DEF j, st, f
        <4> QED
          BY <2>2, <4>1, <4>2, <4>3
      <3> QED
        BY <3>1, <3>2
    <2>5. r.jm = "FAILED_CLOSE_OUTPUT" => f = r.failure
      OBVIOUS
    <2> HIDE DEF j, st, f
    <2>6. r'.contact => told' = r'.status \/ Excused(r')
      BY <2>3, <2>4, <2>5 DEF Excused
    <2>7. Tells(r', told')
      BY <1>0, <2>2, <2>4, <2>6 DEF Tells, Early, Poll, EndWaits
    <2>8. Replies(r)'
      BY <2>2, <2>4 DEF Replies, EndWaits
    <2> QED
      BY <2>1, <2>2, <2>4, <2>7, <2>8 DEF ToldGoal, EndWaits
  <1>6. CASE StepTwoPhaseEnd
    <2>1. /\ \/ r' = [r EXCEPT !.extend = FALSE, !.timer = TRUE]
             \/ \E j \in {"TWO_PHASE_END_COMMITTED", "FAILED_TWO_PHASE_COMMITTED"} :
                   r' = [r EXCEPT !.jm = j]
             \/ r' = [r EXCEPT !.restart = r.jm, !.jm = "STOP", !.overdue = TRUE] /\ run' = "idle"
          /\ r.jm \in EndWaits /\ UNCHANGED <<told, scripts, posts>>
      BY <1>6, Zenon DEF StepTwoPhaseEnd, EndWaits
    <2>2. /\ r'.status = r.status /\ r'.contact = r.contact /\ r'.failure = r.failure
          /\ r'.todoIn = r.todoIn
          /\ \/ r'.jm = r.jm
             \/ r'.jm \in {"TWO_PHASE_END_COMMITTED", "FAILED_TWO_PHASE_COMMITTED"}
             \/ r'.jm = "STOP" /\ run' = "idle" /\ r'.timer = r.timer
      BY <1>0, <2>1 DEF RequestType
    <2>3. r'.contact => told' = r'.status \/ Excused(r')
      BY <1>0, <2>1, <2>2 DEF Tells, Late, EndWaits, Excused
    <2>4. r'.jm \in Late
      BY <2>1, <2>2 DEF Late, CleanStates, EndWaits
    <2>5. Tells(r', told')
      BY <1>0, <2>2, <2>3, <2>4 DEF Tells, Early, Poll, Late, CleanStates
    <2>6. posts' = 0
      BY <1>1, <2>1 DEF EndWaits, CleanStates
    <2>7. Replies(r)'
      BY <2>1, <2>2, <2>6 DEF Replies, EndWaits
    <2> QED
      BY <2>1, <2>4, <2>5, <2>7 DEF ToldGoal, Late, CleanStates
  <1>7. CASE StepCleanUp \/ StepCacheCleanUp
    <2>1. /\ r.jm \in CleanStates /\ r'.jm \in CleanStates
          /\ r'.status = r.status /\ r'.contact = r.contact /\ r'.failure = r.failure
          /\ r'.todoIn = r.todoIn
      BY <1>0, <1>7, CleanUpIs DEF StepCleanUp, StepCacheCleanUp, RequestType, CleanStates
    <2>2. UNCHANGED <<told, scripts, posts>>
      BY <1>7 DEF StepCleanUp, StepCacheCleanUp
    <2>3. r'.contact => told' = r'.status \/ Excused(r')
      BY <1>0, <2>1, <2>2 DEF Tells, Late, Excused
    <2>4. Tells(r', told')
      BY <1>0, <2>1, <2>3 DEF Tells, Early, Poll, CleanStates
    <2> QED
      BY <1>2, <2>1, <2>2, <2>4 DEF ToldGoal, CleanStates
  <1>8. CASE StepStop
    BY <1>1, <1>8 DEF StepStop
  <1>9. CASE StepDone
    <2>1. /\ r.jm \in Final /\ UNCHANGED <<told, scripts, posts>>
          /\ \/ r' = [r EXCEPT !.queries = <<>>, !.events = <<>>, !.restart = r.jm]
             \/ r' = NewRequest /\ mem' = "gone" /\ posts = 0
      BY <1>1, <1>9 DEF StepDone
    <2>2. CASE r' = NewRequest /\ mem' = "gone" /\ posts = 0
      <3>1. r'.jm = "START" /\ Tells(r', told')
        BY <1>0, <2>2, TellsNew
      <3> QED
        BY <2>1, <2>2, <3>1 DEF ToldGoal, Replies
    <2>3. CASE r' = [r EXCEPT !.queries = <<>>, !.events = <<>>, !.restart = r.jm]
      <3>1. /\ r'.jm = r.jm /\ r'.status = r.status /\ r'.contact = r.contact
            /\ r'.failure = r.failure /\ r'.todoIn = r.todoIn
        BY <1>0, <2>3 DEF RequestType
      <3>2. r'.contact => told' = r'.status \/ Excused(r')
        BY <1>0, <2>1, <3>1 DEF Tells, Late, CleanStates, Final, Excused
      <3>3. Tells(r', told')
        BY <1>0, <2>1, <3>1, <3>2 DEF Tells, Early, Poll, Final
      <3> QED
        BY <1>2, <2>1, <3>1, <3>3 DEF ToldGoal, CleanStates, Final
    <2> QED
      BY <2>1, <2>2, <2>3
  <1> QED
    BY <1>3, <1>4, <1>5, <1>6, <1>7, <1>8, <1>9

\* Two requests of which the client is, or will be, told the same.
SameNews(p, q) ==
    /\ p.status = q.status /\ p.failure = q.failure /\ p.unsent = q.unsent
    /\ p.todoIn = q.todoIn /\ p.contact = q.contact

LEMMA TellsAlike ==
    ASSUME NEW p, NEW q, NEW t, SameNews(p, q), Tells(q, t),
           \/ p.jm = q.jm
           \/ q.jm = "POLL2" /\ p.jm \in {"POLL1", "POLL_QUERY1"}
           \/ q.jm \in Late /\ p.jm \in Late
    PROVE  Tells(p, t)
  <1>1. Excused(p) <=> Excused(q)
    BY DEF Excused, SameNews
  <1>2. CASE p.jm = q.jm
    BY <1>1, <1>2 DEF Tells, SameNews
  <1>3. CASE q.jm = "POLL2" /\ p.jm \in {"POLL1", "POLL_QUERY1"}
    <2>1. q.status \notin Bad
      BY <1>3 DEF Tells, Poll
    <2> QED
      BY <1>3, <2>1 DEF Tells, SameNews, Early, Late, CleanStates
  <1>4. CASE q.jm \in Late /\ p.jm \in Late
    BY <1>1, <1>4 DEF Tells, SameNews, Early, Poll, Late, CleanStates
  <1> QED
    BY <1>2, <1>3, <1>4

\* What a script's report does to the status, and whether that is to be sent.
LEMMA AppliedTells ==
    ASSUME NEW q \in RequestType, NEW s \in ScriptType, s.res \notin {"none", "die"}
    PROVE  /\ \/ Applied(q, s).unsent
              \/ /\ Applied(q, s).status = q.status /\ Applied(q, s).unsent = q.unsent
                 /\ Applied(q, s).failure = q.failure
           /\ Applied(q, s).todoIn => q.todoIn
           /\ s.cmd = "stage_in" =>
                 /\ Applied(q, s).status \in {q.status, "FAILED"}
                 /\ Applied(q, s).todoIn /\ q.jm = s.start => Applied(q, s).status = "FAILED"
  <1> DEFINE p == Applied(q, s)
             Sent(c) == /\ c.unsent \/ (c.status = q.status /\ c.unsent = q.unsent
                                        /\ c.failure = q.failure)
                        /\ c.todoIn => q.todoIn
  <1>0. ~(s.res = "die")
    OBVIOUS
  <1>1. ASSUME NEW c \in RequestType, NEW new,
               c.status = q.status, c.unsent = q.unsent, c.failure = q.failure, c.todoIn = q.todoIn
        PROVE  Sent(Reported(c, new))
    BY <1>1 DEF Reported, RequestType
  <1>2. ASSUME NEW why
        PROVE  /\ Sent(ScriptFailed(q, s, why)) /\ ScriptFailed(q, s, why).status \in {q.status, "FAILED"}
               /\ q.jm = s.start => ScriptFailed(q, s, why).status = "FAILED"
    BY <1>2 DEF ScriptFailed, RequestType
  <1>3. CASE s.cmd = "submit"
    <2>1. s.cmd # "poll" /\ s.cmd # "stage_in" /\ s.cmd # "stage_out" /\ s.cmd # "cancel" /\ s.cmd # "signal"
      BY <1>3
    <2>2. p = IF s.res = "ok" THEN Reported([q EXCEPT !.id = s.id], "PENDING")
              ELSE ScriptFailed(q, s, "SUBMIT")
      BY <1>0, <1>3, <2>1, Zenon DEF Applied
    <2> DEFINE c == [q EXCEPT !.id = s.id]
    <2>3. c \in RequestType /\ c.status = q.status /\ c.unsent = q.unsent /\ c.failure = q.failure /\ c.todoIn = q.todoIn
      BY DEF RequestType, ScriptType
    <2>4. Sent(Reported(c, "PENDING"))
      BY <1>1, <2>3
    <2>5. Sent(p)
      BY <1>2, <2>2, <2>4
    <2> QED
      BY <2>1, <2>5
  <1>4. CASE s.cmd = "poll"
    <2>1. s.cmd # "submit" /\ s.cmd # "stage_in" /\ s.cmd # "stage_out" /\ s.cmd # "cancel" /\ s.cmd # "signal"
      BY <1>4
    <2>2. p = IF s.res = "err" THEN ScriptFailed(q, s, "SUBMIT") ELSE Reported(q, s.res)
      BY <1>0, <1>4, <2>1, Zenon DEF Applied
    <2>3. Sent(Reported(q, s.res))
      BY <1>1
    <2>4. Sent(p)
      BY <1>2, <2>2, <2>3
    <2> QED
      BY <2>1, <2>4
  <1>5. CASE s.cmd = "stage_in"
    <2>1. s.cmd # "submit" /\ s.cmd # "poll" /\ s.cmd # "stage_out" /\ s.cmd # "cancel" /\ s.cmd # "signal"
      BY <1>5
    <2>2. p = IF s.res = "ok" THEN [q EXCEPT !.todoIn = FALSE]
              ELSE ScriptFailed(q, s, "STAGE_IN_FAILED")
      BY <1>0, <1>5, <2>1, Zenon DEF Applied
    <2>3. CASE s.res = "ok"
      BY <2>2, <2>3 DEF RequestType
    <2>4. CASE s.res # "ok"
      BY <1>2, <2>2, <2>4
    <2> QED
      BY <2>3, <2>4
  <1>6. CASE s.cmd = "stage_out"
    <2>1. s.cmd # "submit" /\ s.cmd # "poll" /\ s.cmd # "stage_in" /\ s.cmd # "cancel" /\ s.cmd # "signal"
      BY <1>6
    <2>2. p = IF s.res = "ok" THEN [q EXCEPT !.todoOut = @ /\ q.jm # s.start]
              ELSE ScriptFailed(q, s, "STAGE_OUT_FAILED")
      BY <1>0, <1>6, <2>1, Zenon DEF Applied
    <2>3. Sent([q EXCEPT !.todoOut = @ /\ q.jm # s.start])
      BY DEF RequestType
    <2>4. Sent(p)
      BY <1>2, <2>2, <2>3
    <2> QED
      BY <2>1, <2>4
  <1>7. CASE s.cmd = "cancel"
    <2>1. s.cmd # "submit" /\ s.cmd # "poll" /\ s.cmd # "stage_in" /\ s.cmd # "stage_out" /\ s.cmd # "signal"
      BY <1>7
    <2>2. p = CancelApplied(q, s)
      BY <1>0, <1>7, <2>1, Zenon DEF Applied
    <2>3. Sent(CancelApplied(q, s))
      BY DEF CancelApplied, RequestType
    <2>4. Sent(p)
      BY <2>2, <2>3
    <2> QED
      BY <2>1, <2>4
  <1>8. CASE s.cmd = "signal"
    <2>1. s.cmd # "submit" /\ s.cmd # "poll" /\ s.cmd # "stage_in" /\ s.cmd # "stage_out" /\ s.cmd # "cancel"
      BY <1>8
    <2>2. p = IF s.res = "ok" /\ ValidChange(q.status, "SUSPENDED")
              THEN [q EXCEPT !.status = "SUSPENDED", !.unsent = TRUE] ELSE q
      BY <1>0, <1>8, <2>1, Zenon DEF Applied
    <2>3. Sent([q EXCEPT !.status = "SUSPENDED", !.unsent = TRUE])
      BY DEF RequestType
    <2>4. Sent(p)
      BY <2>2, <2>3
    <2> QED
      BY <2>1, <2>4
  <1> QED
    BY <1>3, <1>4, <1>5, <1>6, <1>7, <1>8 DEF ScriptType, Cmds

LEMMA ToldScriptDone ==
    ASSUME BasicInv, OneScript, Told,
           \A k \in 1..Len(scripts) : scripts[k].res = "die" => Mute,
           NEW i \in DOMAIN scripts, ScriptDone(i)
    PROVE  Told'
  <1> USE DEF place, mgr, env, ghosts
  <1> DEFINE s == scripts[i]
             p == Applied(r, s)
  <1>1. /\ r' = [p EXCEPT !.timer = TRUE] /\ scripts' = Without(scripts, i)
        /\ UNCHANGED <<job, mem, lrm, told, posts, run>> /\ s.res # "none"
    BY DEF ScriptDone
  <1>2. /\ scripts \in Seq(ScriptType) /\ r \in RequestType /\ i \in 1..Len(scripts)
        /\ s \in ScriptType /\ ScriptKnown(s) /\ scripts # <<>>
    <2>1. scripts \in Seq(ScriptType) /\ r \in RequestType
      BY DEF BasicInv, Types
    <2>2. i \in 1..Len(scripts) /\ s \in ScriptType
      BY <2>1, LenProperties, ElementOfSeq
    <2>3. scripts # <<>>
      BY <2>1, <2>2, EmptySeq
    <2> QED
      BY <2>1, <2>2, <2>3 DEF BasicInv, Known
  <1>3. /\ Len(scripts) = 1 /\ posts = 0 /\ r.jm \in Working /\ mem = "live"
    BY <1>2 DEF OneScript, BasicInv, Placed, Types
  <1>4. Len(scripts') = 0
    BY <1>1, <1>2, <1>3, WithoutKeeps
  <1>5. /\ p \in RequestType /\ p.jm = r.jm
        /\ p.unsent \/ (p.status = r.status /\ p.unsent = r.unsent /\ (Mute \/ p.failure = r.failure))
        /\ p.todoIn => r.todoIn
        /\ s.cmd = "stage_in" => /\ p.status \in {r.status, "FAILED"}
                                 /\ p.todoIn /\ r.jm = s.start => p.status = "FAILED" \/ Mute
    <2>1. p \in RequestType /\ p.jm = r.jm
      BY <1>1, <1>2, AppliedKeeps DEF Keeps
    <2>2. CASE s.res # "die"
      BY <1>1, <1>2, <2>1, <2>2, AppliedTells
    <2>3. CASE s.res = "die"
      <3>1. Mute
        BY <1>2, <2>3
      <3>2. p = [r EXCEPT !.failure = "SCRIPT_STATUS"]
        BY <2>3, Zenon DEF Applied
      <3>3. p.status = r.status /\ p.unsent = r.unsent /\ p.todoIn = r.todoIn
        BY <1>2, <3>2 DEF RequestType
      <3> QED
        BY <2>1, <3>1, <3>3
    <2> QED
      BY <2>2, <2>3
  <1> HIDE DEF p
  <1>6. /\ r'.jm = r.jm /\ r'.status = p.status /\ r'.unsent = p.unsent
        /\ r'.failure = p.failure /\ r'.todoIn = p.todoIn
    BY <1>1, <1>5 DEF RequestType
  <1>7. Stages(s, r.jm) /\ Tells(r, told)
    BY <1>2 DEF Told
  <1>8. r.jm \in {"STAGE_IN", "FAILED"} => s.cmd = "stage_in" /\ s.start = "STAGE_IN"
    BY <1>7 DEF Stages
  <1> HIDE DEF s
  <1>9. r.jm \in {"FAILED", "FAILED_CLOSE_OUTPUT"} => r'.unsent \/ Excused(r')
    BY <1>5, <1>6, <1>7 DEF Tells, Excused
  <1>10. /\ r'.todoIn => job.stageIn
         /\ r.jm \in Poll \cup {"SUBMIT", "STAGE_IN"} /\ r'.status \in Bad => r'.unsent
         /\ r.jm = "STAGE_OUT" => r'.unsent
    BY <1>5, <1>6, <1>7 DEF Tells
  <1>11. /\ r.jm = "STAGE_IN" => r'.status \in {"UNSUBMITTED", "STAGE_IN", "FAILED"}
         /\ r.jm = "FAILED" => r'.status \notin Over
    BY <1>5, <1>6, <1>7, <1>8 DEF Tells, Over
  <1>12. Tells(r', told')
    BY <1>1, <1>3, <1>6, <1>9, <1>10, <1>11 DEF Tells, Working, Early, Late, CleanStates
  <1>13. Tells(r, told)'
    BY <1>1, <1>12 DEF Tells, Excused
  <1>14. (\A k \in 1..Len(scripts) : Stages(scripts[k], r.jm))'
    BY <1>4
  <1>15. Replies(r)'
    BY <1>1, <1>3, <1>6 DEF Replies, Working
  <1> QED
    BY <1>1, <1>3, <1>5, <1>6, <1>8, <1>13, <1>14, <1>15 DEF Told, Working

\* The request a reference finds.
LEMMA TellsReferenced ==
    ASSUME BasicInv, Straight, Told, ~loaded, TakeReference
    PROVE  /\ Referenced \in RequestType /\ Tells(Referenced, told) /\ Replies(Referenced)
           /\ mem = "live" \/ (scripts = <<>> /\ posts = 0 /\ Referenced.jm \in {"POLL2"} \cup EndWaits)
           /\ mem = "live" => Referenced = r
           /\ mem' = "live" /\ run = "idle"
  <1>1. /\ FitRequest(Referenced) /\ mem \in {"live", "stub"} /\ run = "idle"
        /\ mem = "live" => Referenced = r
        /\ mem = "stub" => Referenced = Reloaded /\ file \in FileType
    BY ReferencedIs
  <1>2. CASE mem = "stub"
    <2>1. /\ job \in Jobs /\ pending \in BOOLEAN /\ loaded \in BOOLEAN /\ file \in FileType
          /\ scripts = <<>> /\ posts = 0
      BY <1>1, <1>2 DEF BasicInv, Types, Placed
    <2> DEFINE q == Reloaded
    <2>2. /\ q.jm = IF file.state \in Poll THEN "POLL2" ELSE file.state
          /\ q.status = file.status /\ q.failure = file.failure
      BY <2>1, ReloadedType
    <2>3. q.contact = file.contact /\ q.todoIn = file.todoIn
      BY <2>1 DEF Reloaded, NewRequest
    <2> HIDE DEF q
    <2>4. file.state \in Poll \cup EndWaits /\ TellsFile(file, told)
      BY <1>2 DEF Straight, Told
    <2>5. q.jm \in {"POLL2"} \cup EndWaits
      BY <2>2, <2>4
    <2>6. Tells(q, told)
      <3>1. CASE file.state \in Poll
        BY <2>2, <2>3, <2>4, <3>1 DEF Tells, TellsFile, Early, Late, CleanStates
      <3>2. CASE file.state \notin Poll
        BY <2>2, <2>3, <2>4, <3>2 DEF Tells, TellsFile, Excused, Early, Poll, EndWaits
      <3> QED
        BY <3>1, <3>2
    <2>7. Replies(q)
      BY <2>1, <2>5 DEF Replies, EndWaits
    <2> QED
      BY <1>1, <1>2, <2>1, <2>5, <2>6, <2>7 DEF q, FitRequest, TakeReference
  <1>3. CASE mem = "live"
    BY <1>1, <1>3 DEF FitRequest, Told, TakeReference
  <1> QED
    BY <1>1, <1>2, <1>3

\* A step that takes a reference and leaves request p.
LEMMA ToldReference ==
    ASSUME BasicInv, Straight, Told, ~loaded, TakeReference, Tells(r', told),
           UNCHANGED <<job, lrm, scripts, posts, told, run>>,
           \/ r'.jm = Referenced.jm /\ SameNews(r', Referenced)
           \/ /\ r'.jm = "FAILED"
              /\ Referenced.jm \in {"START", "TWO_PHASE", "TWO_PHASE_COMMITTED", "STAGE_IN"}
           \/ r'.jm \notin {"START", "STAGE_IN", "FAILED"},
           OneScript, Replies(r)'
    PROVE  Told'
  <1> DEFINE q == Referenced
  <1>1. /\ mem = "live" \/ (scripts = <<>> /\ q.jm \in {"POLL2"} \cup EndWaits)
        /\ mem = "live" => q = r
        /\ mem' = "live"
    BY TellsReferenced
  <1> HIDE DEF q
  <1>2. /\ mem = "live" /\ r.jm = "START" => lrm = <<>>
        /\ r.jm = "STAGE_IN" /\ scripts = <<>> /\ r.todoIn => r.status = "FAILED" \/ Mute
        /\ \A i \in 1..Len(scripts) : Stages(scripts[i], r.jm)
    BY DEF Told
  <1>3. Tells(r, told)'
    BY DEF Tells, Excused
  <1>4. r'.jm \notin {"START", "STAGE_IN", "FAILED"} \/ (mem = "live" /\ q = r)
    BY <1>1 DEF q, EndWaits
  <1>5. /\ r'.jm = "START" => lrm = <<>>
        /\ r'.jm = "STAGE_IN" /\ scripts = <<>> /\ r'.todoIn => r'.status = "FAILED" \/ Mute
    BY <1>2, <1>4 DEF q, SameNews
  <1>6. ASSUME NEW i \in 1..Len(scripts) PROVE Stages(scripts[i], r'.jm)
    <2>1. Stages(scripts[i], r.jm) \/ mem # "live"
      BY <1>2
    <2>2. scripts # <<>>
      BY <1>6 DEF BasicInv, Types
    <2>3. mem = "live" /\ r.jm \in Working /\ q = r
      BY <1>1, <2>2 DEF OneScript
    <2> QED
      BY <2>1, <2>3 DEF Stages, Working, q
  <1>7. (\A i \in 1..Len(scripts) : Stages(scripts[i], r.jm))'
    BY <1>6 DEF Stages
  <1> QED
    BY <1>1, <1>3, <1>5, <1>7 DEF Told

LEMMA ToldDelivered ==
    ASSUME BasicInv, OneScript, Straight, Told, ~loaded, TakeReference,
           NEW es \in Seq(EventType), r' = Delivered(Referenced, es),
           UNCHANGED <<job, lrm, scripts, posts, told, run>>
    PROVE  Told'
  <1> DEFINE q == Referenced
  <1>1. q \in RequestType /\ Tells(q, told) /\ Replies(q)
    BY TellsReferenced
  <1>2. /\ r'.jm = q.jm \/ (q.jm = "POLL2" /\ r'.jm = "POLL1")
        /\ r'.status = q.status /\ r'.failure = q.failure /\ r'.contact = q.contact
        /\ q.jm # "POLL2" /\ r'.timer => q.timer
    BY <1>1, DeliveredKeeps
  <1>3. r'.unsent = q.unsent /\ r'.todoIn = q.todoIn
    <2> DEFINE woken == es # <<>> /\ q.jm = "POLL2"
               e == q.events \o es
               t == q.timer \/ woken
               j == IF woken THEN "POLL1" ELSE q.jm
    <2>1. r' = [q EXCEPT !.events = e, !.timer = t, !.jm = j]
      BY <1>1 DEF Delivered, RequestType
    <2> HIDE DEF e, t, j, q
    <2> QED
      BY <1>1, <2>1 DEF RequestType
  <1> HIDE DEF q
  <1>4. SameNews(r', q)
    BY <1>2, <1>3 DEF SameNews
  <1>5. Tells(r', told)
    BY <1>1, <1>2, <1>4, TellsAlike
  <1>6. Replies(r')
    BY <1>1, <1>2 DEF Replies, CleanStates, EndWaits
  <1>7. Replies(r)'
    BY <1>6 DEF Replies
  <1>8. \/ r'.jm = q.jm /\ SameNews(r', q)
        \/ r'.jm \notin {"START", "STAGE_IN", "FAILED"}
    BY <1>2, <1>4
  <1> QED
    BY <1>5, <1>7, <1>8, ToldReference DEF q

\* A step outside the job manager: the LRM's list may grow while a submit script is at work.
LEMMA ToldOutside ==
    ASSUME Told, UNCHANGED <<job, mem, r, run, file, posts, told>>,
           lrm = <<>> => lrm' = <<>> \/ r.jm = "SUBMIT",
           mem = "stub" => (lrm = <<>> => lrm' = <<>>),
           scripts' = <<>> => scripts = <<>>,
           \A k \in 1..Len(scripts') : Stages(scripts'[k], r.jm)
    PROVE  Told'
  <1>2. Tells(r, told)'
    <2>1. CASE r.jm = "SUBMIT"
      BY <2>1 DEF Told, Tells, Late, CleanStates
    <2>2. CASE r.jm # "SUBMIT"
      <3>1. Excused(r) => Excused(r)'
        BY <2>2 DEF Excused
      <3> QED
        BY <3>1 DEF Told, Tells
    <2> QED
      BY <2>1, <2>2
  <1>3. mem = "stub" => TellsFile(file, told)'
    <2>1. mem = "stub" /\ Excused(file) => Excused(file)'
      BY DEF Excused
    <2> QED
      BY <2>1 DEF Told, TellsFile
  <1>4. (\A k \in 1..Len(scripts) : Stages(scripts[k], r.jm))'
    BY DEF Stages
  <1>5. Replies(r)'
    BY DEF Told, Replies
  <1> QED
    BY <1>2, <1>3, <1>4, <1>5 DEF Told

LEMMA ToldScripts ==
    ASSUME BasicInv, Intended, Told, Scripts
    PROVE  Told'
  <1> USE DEF place, mgr, env, ghosts
  <1>1. PICK i \in DOMAIN scripts : ScriptRuns(i)
    BY DEF Scripts
  <1> DEFINE s == scripts[i]
             running == s.id > 0 /\ ~Ended(lrm[s.id])
             id == IF s.cmd = "submit" THEN Len(lrm) + 1 ELSE s.id
  <1>2. /\ scripts \in Seq(ScriptType) /\ DOMAIN scripts = 1..Len(scripts) /\ s \in ScriptType
        /\ lrm \in Seq(LrmStates) /\ mem = "live"
        /\ \A k \in 1..Len(scripts) : scripts[k] \in ScriptType
    <2>1. scripts \in Seq(ScriptType) /\ lrm \in Seq(LrmStates)
      BY DEF BasicInv, Types
    <2>2. /\ DOMAIN scripts = 1..Len(scripts)
          /\ \A k \in 1..Len(scripts) : scripts[k] \in ScriptType
      BY <2>1, LenProperties, ElementOfSeq
    <2>3. mem = "live"
      BY DEF BasicInv, Placed
    <2> QED
      BY <2>1, <2>2, <2>3
  <1>3. PICK res \in {"ok", "err", "die"} :
           /\ scripts' = [scripts EXCEPT
                  ![i].id = id,
                  ![i].res = IF s.cmd = "poll" /\ res = "ok" THEN lrm[s.id] ELSE res]
           /\ lrm' = IF res = "ok" /\ s.cmd = "submit" THEN Append(lrm, "PENDING")
                     ELSE IF res = "ok" /\ s.cmd = "cancel" /\ running
                     THEN [lrm EXCEPT ![s.id] = "FAILED"] ELSE lrm
           /\ UNCHANGED <<job, mem, r, run, file, posts, told>>
    BY <1>1 DEF ScriptRuns
  <1> DEFINE b == IF s.cmd = "poll" /\ res = "ok" THEN lrm[s.id] ELSE res
  <1>4. scripts' = [scripts EXCEPT ![i].id = id, ![i].res = b]
    BY <1>3
  <1> HIDE DEF b, id
  <1>5. /\ Len(scripts') = Len(scripts) /\ scripts' \in Seq(ScriptType)
        /\ \A k \in 1..Len(scripts) :
              scripts'[k] = IF k = i THEN [s EXCEPT !.id = id, !.res = b] ELSE scripts[k]
    <2>1. BasicInv'
      BY BasicScriptRuns DEF Scripts
    <2>2. scripts' \in Seq(ScriptType) /\ DOMAIN scripts' = DOMAIN scripts
      BY <1>4, <2>1 DEF BasicInv, Types
    <2>3. Len(scripts') = Len(scripts)
      BY <1>2, <2>2, LenProperties
    <2> QED
      BY <1>2, <1>4, <2>2, <2>3
  <1>6. ASSUME NEW k \in 1..Len(scripts') PROVE Stages(scripts'[k], r.jm)
    <2>1. Stages(scripts[k], r.jm) /\ scripts[k] \in ScriptType
      BY <1>2, <1>5, <1>6 DEF Told
    <2>2. scripts'[k].cmd = scripts[k].cmd /\ scripts'[k].start = scripts[k].start
      <3>1. CASE k = i
        BY <1>2, <1>5, <1>6, <3>1 DEF ScriptType
      <3>2. CASE k # i
        BY <1>5, <1>6, <3>2
      <3> QED
        BY <3>1, <3>2
    <2> QED
      BY <2>1, <2>2 DEF Stages
  <1>7. lrm = <<>> => lrm' = <<>> \/ r.jm = "SUBMIT"
    <2>1. CASE s.cmd = "submit"
      BY <1>2, <2>1 DEF Intended
    <2>2. CASE s.cmd # "submit"
      <3>1. lrm' = lrm \/ lrm' = [lrm EXCEPT ![s.id] = "FAILED"]
        BY <1>3, <2>2
      <3>2. ASSUME lrm = <<>> PROVE [lrm EXCEPT ![s.id] = "FAILED"] = <<>>
        <4>1. DOMAIN lrm = {}
          BY <3>2
        <4>2. [lrm EXCEPT ![s.id] = "FAILED"] = lrm
          BY <1>2, <4>1
        <4> QED
          BY <3>2, <4>2
      <3> QED
        BY <3>1, <3>2
    <2> QED
      BY <2>1, <2>2
  <1>8. scripts' = <<>> => scripts = <<>>
    BY <1>2, <1>5, EmptySeq
  <1> QED
    BY <1>2, <1>3, <1>6, <1>7, <1>8, ToldOutside

LEMMA ToldOrphan ==
    ASSUME BasicInv, Intended, Told, Orphan
    PROVE  Told'
  <1>1. PICK i \in 1..Len(scripts) :
             /\ scripts[i].cmd = "submit" /\ scripts[i].res = "none"
             /\ scripts'[i].cmd = "submit" /\ scripts'[i].start = scripts[i].start
             /\ scripts'[i].res \in Fails \cap {"err", "die"}
             /\ \A k \in 1..Len(scripts) : k # i => scripts'[k] = scripts[k]
    BY OrphanIs
  <1>2. /\ Len(scripts') = Len(scripts) /\ scripts' # <<>> /\ scripts # <<>>
        /\ UNCHANGED <<job, mem, r, run, file, posts, told>>
    BY OrphanIs
  <1>3. r.jm = "SUBMIT" /\ mem = "live"
    BY <1>1, <1>2 DEF Intended, BasicInv, Placed
  <1>4. ASSUME NEW k \in 1..Len(scripts') PROVE Stages(scripts'[k], r.jm)
    <2>1. Stages(scripts[k], r.jm)
      BY <1>2 DEF Told
    <2>2. scripts'[k].cmd = scripts[k].cmd /\ scripts'[k].start = scripts[k].start
      BY <1>1, <1>2
    <2> QED
      BY <2>1, <2>2 DEF Stages
  <1> QED
    BY <1>2, <1>3, <1>4, ToldOutside

LEMMA ToldLrm ==
    ASSUME BasicInv, Told, Lrm
    PROVE  Told'
  <1> USE DEF place, mgr, env, ghosts
  <1>1. PICK i \in DOMAIN lrm : LrmProgress(i)
    BY DEF Lrm
  <1>2. UNCHANGED <<job, mem, r, run, file, scripts, posts, told>>
    BY <1>1 DEF LrmProgress
  <1>3. lrm # <<>>
    BY <1>1
  <1>4. \A k \in 1..Len(scripts') : Stages(scripts'[k], r.jm)
    BY <1>2 DEF Told
  <1> QED
    BY <1>2, <1>3, <1>4, ToldOutside

LEMMA ToldClient ==
    ASSUME BasicInv, Undisturbed', OneScript, Straight, Told, ~loaded, Client
    PROVE  Told'
  <1> USE DEF place, mgr, env, ghosts
  <1> DEFINE q == Referenced
  <1>1. job \in Jobs /\ used \in [DOMAIN Max -> Nat]
    BY DEF BasicInv, Types
  <1>2. TakeReference => /\ q \in RequestType /\ Tells(q, told) /\ Replies(q)
                         /\ mem = "live" => q = r
                         /\ mem = "live" \/ q.jm \in {"POLL2"} \cup EndWaits
    BY TellsReferenced
  <1>3. ASSUME NEW p, Apply(p), Tells(p, told), Replies(p),
               \/ p.jm = q.jm /\ SameNews(p, q)
               \/ /\ p.jm = "FAILED"
                  /\ q.jm \in {"START", "TWO_PHASE", "TWO_PHASE_COMMITTED", "STAGE_IN"}
               \/ p.jm \notin {"START", "STAGE_IN", "FAILED"}
        PROVE  Told'
    <2>1. r' = p /\ TakeReference /\ UNCHANGED <<job, lrm, scripts, posts, told, run>>
      BY <1>3 DEF Apply
    <2>2. Replies(r)'
      BY <1>3, <2>1 DEF Replies
    <2> QED
      BY <1>3, <2>1, <2>2, ToldReference
  <1>4. CASE CommitRequest
    <2> DEFINE p == [q EXCEPT !.jm = "TWO_PHASE_COMMITTED", !.timer = TRUE]
    <2>1. /\ Apply(p) /\ TakeReference
          /\ q.jm \in {"START", "TWO_PHASE", "TWO_PHASE_QUERY1", "TWO_PHASE_QUERY2"}
      BY <1>4 DEF CommitRequest, Apply
    <2>2. /\ p.jm = "TWO_PHASE_COMMITTED" /\ p.status = q.status /\ p.todoIn = q.todoIn
      BY <1>2, <2>1 DEF RequestType
    <2> HIDE DEF p, q
    <2>3. Tells(p, told)
      BY <1>2, <2>1, <2>2 DEF Tells, Early, Poll, Late, CleanStates
    <2>4. Replies(p)
      BY <1>2, <2>1, <2>2 DEF Replies, CleanStates, EndWaits
    <2> QED
      BY <1>3, <2>1, <2>2, <2>3, <2>4
  <1>5. CASE CommitEnd
    <2> DEFINE p == EndCommitted(q)
    <2>1. /\ Apply(p) /\ TakeReference /\ q.jm \in {"TWO_PHASE_END", "FAILED_TWO_PHASE", "STOP"}
      BY <1>5 DEF CommitEnd, Apply
    <2>2. /\ p.jm \in {"TWO_PHASE_END_COMMITTED", "FAILED_TWO_PHASE_COMMITTED"}
          /\ SameNews(p, q)
      BY <1>2, <2>1 DEF EndCommitted, RequestType, SameNews
    <2> HIDE DEF p, q
    <2>3. p.jm \in Late /\ q.jm \in Late
      BY <2>1, <2>2 DEF Late, CleanStates
    <2>4. Tells(p, told)
      BY <1>2, <2>1, <2>2, <2>3, TellsAlike
    <2>5. Replies(p)
      BY <1>2, <2>1, <2>2 DEF Replies, CleanStates
    <2> QED
      BY <1>3, <2>1, <2>2, <2>4, <2>5
  <1>6. CASE CommitExtend
    <2> DEFINE p == [q EXCEPT !.extend = TRUE]
    <2>1. Apply(p) /\ TakeReference
      BY <1>6 DEF CommitExtend, Apply
    <2>2. SameNews(p, q) /\ p.jm = q.jm /\ p.timer = q.timer
      BY <1>2, <2>1 DEF SameNews, RequestType
    <2> HIDE DEF p, q
    <2>3. Tells(p, told)
      BY <1>2, <2>1, <2>2, TellsAlike
    <2>4. Replies(p)
      BY <1>2, <2>1, <2>2 DEF Replies
    <2> QED
      BY <1>3, <2>1, <2>2, <2>3, <2>4
  <1>7. ASSUME TakeReference, NEW query, NEW wakes, Apply(Queued(q, query, wakes)),
               \/ DOMAIN wakes = {"POLL2"}
               \/ DOMAIN wakes = {"POLL2", "TWO_PHASE"} /\ q.jm # "TWO_PHASE",
               wakes["POLL2"] = "POLL_QUERY1", q.jm \notin Late
        PROVE  Told'
    <2> DEFINE p == Queued(q, query, wakes)
               a == Append(q.queries, query)
               j == IF q.jm \in DOMAIN wakes THEN wakes[q.jm] ELSE q.jm
               t == q.timer \/ q.jm \in DOMAIN wakes
    <2>1. j = q.jm \/ (q.jm = "POLL2" /\ j = "POLL_QUERY1")
      BY <1>7
    <2>2. p = [q EXCEPT !.queries = a, !.jm = j, !.timer = t]
      BY <1>2, <1>7 DEF Queued, RequestType
    <2> HIDE DEF a, j, t, q
    <2>3. p.jm = j /\ SameNews(p, q)
      BY <1>2, <1>7, <2>2 DEF RequestType, SameNews
    <2>4. Apply(p)
      BY <1>7
    <2> HIDE DEF p
    <2>5. Tells(p, told)
      BY <1>2, <1>7, <2>1, <2>3, TellsAlike
    <2>6. Replies(p)
      BY <1>2, <1>7, <2>1, <2>3 DEF Replies, Late, EndWaits
    <2> QED
      BY <1>3, <2>1, <2>3, <2>4, <2>5, <2>6
  <1>8. CASE Cancel
    <2> DEFINE w == [POLL2 |-> "POLL_QUERY1"]
               u == q.unsent \/ q.jm # "START"
               b == [q EXCEPT !.jm = "FAILED", !.status = "FAILED",
                              !.failure = "USER_CANCELLED", !.unsent = u]
    <2>1. /\ TakeReference
          /\ \/ q.jm \in Poll \cup {"SUBMIT"} /\ Apply(Queued(q, "cancel", w))
             \/ /\ q.jm \in {"START", "TWO_PHASE", "TWO_PHASE_COMMITTED", "STAGE_IN"}
                /\ Apply(b)
      BY <1>8 DEF Cancel, Apply
    <2>2. CASE q.jm \in Poll \cup {"SUBMIT"} /\ Apply(Queued(q, "cancel", w))
      <3>1. DOMAIN w = {"POLL2"} /\ w["POLL2"] = "POLL_QUERY1"
        OBVIOUS
      <3>2. q.jm \notin Late
        BY <2>2 DEF Poll, Late, CleanStates
      <3> HIDE DEF w, q
      <3> QED
        BY <1>7, <2>1, <2>2, <3>1, <3>2
    <2>3. CASE q.jm \in {"START", "TWO_PHASE", "TWO_PHASE_COMMITTED", "STAGE_IN"} /\ Apply(b)
      <3>1. /\ b.jm = "FAILED" /\ b.status = "FAILED" /\ b.failure = "USER_CANCELLED"
            /\ b.unsent = u /\ b.todoIn = q.todoIn
        BY <1>2, <2>1 DEF RequestType
      <3>2. u \/ (q.jm = "START" /\ lrm = <<>>)
        BY <1>2, <2>1 DEF Told, EndWaits
      <3> HIDE DEF b, u, q
      <3>3. b.unsent \/ Excused(b)
        BY <3>1, <3>2 DEF Excused
      <3>4. Tells(b, told)
        BY <1>2, <2>1, <3>1, <3>3 DEF Tells, Early, Poll, Late, CleanStates, Over
      <3>5. Replies(b)
        BY <1>2, <2>1, <2>3, <3>1 DEF Replies, CleanStates, EndWaits
      <3> QED
        BY <1>3, <2>3, <3>1, <3>4, <3>5
    <2> QED
      BY <2>1, <2>2, <2>3
  <1>9. CASE Signal
    <2> DEFINE w == [POLL2 |-> "POLL_QUERY1", TWO_PHASE |-> "TWO_PHASE_QUERY1"]
    <2>1. Apply(Queued(q, "signal", w)) /\ TakeReference /\ q.jm \in QueryValid /\ Spend("signal")
      BY <1>9 DEF Signal, Apply
    <2>2. /\ DOMAIN w = {"POLL2", "TWO_PHASE"} /\ w["POLL2"] = "POLL_QUERY1"
      OBVIOUS
    <2>3. q.jm \notin Late
      BY <2>1 DEF QueryValid, Poll, Late, CleanStates
    <2>4. ~job.twoPhase
      <3>1. used["signal"] \in Nat
        BY <1>1, MaxAssumption DEF BoundType
      <3>2. used'["signal"] = used["signal"] + 1
        BY <1>1, <2>1, SpendIs
      <3>3. job' = job
        BY <2>1 DEF Apply
      <3> QED
        BY <3>1, <3>2, <3>3 DEF Undisturbed
    <2>5. q.jm # "TWO_PHASE"
      BY <1>2, <2>1, <2>4 DEF Straight, TakeReference, EndWaits
    <2> HIDE DEF w, q
    <2> QED
      BY <1>7, <2>1, <2>2, <2>3, <2>5
  <1>10. CASE Unregister
    <2> DEFINE c == [q EXCEPT !.contact = FALSE]
               p == IF c.jm = "TWO_PHASE_END" /\ job.twoPhase THEN EndCommitted(c) ELSE c
    <2>1. Apply(p) /\ TakeReference
      BY <1>10 DEF Unregister, Apply
    <2>2. /\ c \in RequestType /\ c.jm = q.jm /\ c.status = q.status /\ c.failure = q.failure
          /\ ~c.contact /\ c.unsent = q.unsent /\ c.todoIn = q.todoIn /\ c.timer = q.timer
      BY <1>2, <2>1 DEF RequestType
    <2> HIDE DEF c, q
    <2>3. Tells(c, told)
      <3>1. Excused(c) <=> Excused(q)
        BY <2>2 DEF Excused
      <3> QED
        BY <1>2, <2>1, <2>2, <3>1 DEF Tells
    <2>4. /\ SameNews(p, c)
          /\ \/ p.jm = c.jm /\ p.timer = c.timer
             \/ c.jm = "TWO_PHASE_END" /\ p.jm = "TWO_PHASE_END_COMMITTED"
      BY <2>2 DEF EndCommitted, RequestType, SameNews
    <2> HIDE DEF p
    <2>5. Tells(p, told)
      BY <2>3, <2>4, TellsAlike DEF Late, CleanStates
    <2>6. Replies(p)
      BY <1>2, <2>1, <2>2, <2>4 DEF Replies, CleanStates
    <2>7. p.jm \notin {"START", "STAGE_IN", "FAILED"} \/ (p.jm = q.jm /\ mem = "live" /\ q = r)
      BY <1>2, <2>1, <2>2, <2>4 DEF EndWaits
    <2>8. CASE p.jm \notin {"START", "STAGE_IN", "FAILED"}
      BY <1>3, <2>1, <2>5, <2>6, <2>8
    <2>9. CASE p.jm = q.jm /\ mem = "live" /\ q = r
      <3>1. /\ r' = p /\ mem' = "live" /\ UNCHANGED <<job, lrm, scripts, posts, told, run>>
        BY <2>1 DEF Apply, TakeReference
      <3>2. Tells(r, told)'
        BY <2>5, <3>1 DEF Tells, Excused
      <3>3. Replies(r)'
        BY <2>6, <3>1 DEF Replies
      <3>4. p.todoIn = r.todoIn /\ p.status = r.status
        BY <2>2, <2>4, <2>9 DEF SameNews
      <3>5. \A k \in 1..Len(scripts) : Stages(scripts[k], r'.jm)
        BY <2>9, <3>1 DEF Told
      <3>6. (\A k \in 1..Len(scripts) : Stages(scripts[k], r.jm))'
        BY <3>1, <3>5 DEF Stages
      <3> QED
        BY <2>9, <3>1, <3>2, <3>3, <3>4, <3>6 DEF Told
    <2> QED
      BY <2>7, <2>8, <2>9
  <1>11. ASSUME NEW k \in {"stop", "restart", "update"}, Spend(k) PROVE FALSE
    <2>1. used[k] \in Nat
      BY <1>1, MaxAssumption DEF BoundType
    <2>2. used'[k] = used[k] + 1
      BY <1>1, <1>11, SpendIs
    <2>3. used'[k] = 0
      BY DEF Undisturbed
    <2> QED
      BY <2>1, <2>2, <2>3
  <1>12. ~StopManager /\ ~StdioUpdate /\ ~ClientRestart
    BY <1>11 DEF StopManager, StdioUpdate, ClientRestart
  <1> QED
    BY <1>4, <1>5, <1>6, <1>8, <1>9, <1>10, <1>12 DEF Client

LEMMA ToldExpire ==
    ASSUME BasicInv, OneScript, Straight, Told, ~loaded, ExpireOldJob
    PROVE  Told'
  <1> DEFINE q == Referenced
  <1>1. /\ TakeReference
        /\ \/ r' = q
           \/ /\ q.jm \in {"TWO_PHASE_END", "FAILED_TWO_PHASE"}
              /\ r' = [q EXCEPT !.jm = "FAILED_TWO_PHASE_COMMITTED", !.timer = TRUE]
        /\ UNCHANGED <<job, lrm, scripts, posts, told, run>>
    BY ExpireIs
  <1>2. q \in RequestType /\ Tells(q, told) /\ Replies(q)
    BY <1>1, TellsReferenced
  <1>3. CASE r' = q
    <2>1. SameNews(r', q) /\ r'.jm = q.jm
      BY <1>3 DEF SameNews
    <2>2. Replies(r)'
      BY <1>1, <1>2, <1>3 DEF Replies
    <2> QED
      BY <1>1, <1>2, <1>3, <2>1, <2>2, ToldReference
  <1>4. CASE /\ q.jm \in {"TWO_PHASE_END", "FAILED_TWO_PHASE"}
             /\ r' = [q EXCEPT !.jm = "FAILED_TWO_PHASE_COMMITTED", !.timer = TRUE]
    <2>1. r'.jm = "FAILED_TWO_PHASE_COMMITTED" /\ SameNews(r', q)
      BY <1>2, <1>4 DEF RequestType, SameNews
    <2> HIDE DEF q
    <2>2. r'.jm \in Late /\ q.jm \in Late
      BY <1>4, <2>1 DEF Late, CleanStates
    <2>3. Tells(r', told)
      BY <1>2, <2>1, <2>2, TellsAlike
    <2>4. Replies(r)'
      BY <1>1, <1>2, <2>1 DEF Replies, CleanStates
    <2> QED
      BY <1>1, <2>1, <2>3, <2>4, ToldReference
  <1> QED
    BY <1>1, <1>3, <1>4

LEMMA ToldSwapOut ==
    ASSUME BasicInv, Straight, Told, SwapOut
    PROVE  Told'
  <1> USE DEF place, mgr, env, ghosts
  <1>1. /\ r' = NewRequest /\ file' = Written(r) /\ mem' = "stub" /\ scripts = <<>>
        /\ UNCHANGED <<job, scripts, posts, lrm, told, run>>
        /\ r.jm \in {"POLL2", "STOP"} /\ ~(posts > 0) /\ mem = "live"
    BY DEF SwapOut, Referrers
  <1>2. job \in Jobs /\ r \in RequestType /\ posts \in Nat
    BY DEF BasicInv, Types
  <1>3. r'.jm = "START" /\ Tells(r', told)
    BY <1>1, <1>2, TellsNew
  <1>4. Tells(r, told)'
    BY <1>1, <1>3 DEF Tells, Excused
  <1>5. /\ file'.state = (IF r.jm = "STOP" THEN r.restart ELSE r.jm)
        /\ file'.status = r.status /\ file'.failure = r.failure
        /\ file'.contact = r.contact /\ file'.todoIn = r.todoIn
    BY <1>1 DEF Written
  <1>6. /\ r.jm = "POLL2" => r.status \notin Bad
        /\ r.jm = "STOP" /\ r.contact => told = r.status \/ Excused(r)
        /\ r.todoIn => job.stageIn
    BY DEF Told, Tells, Poll, Late
  <1>7. TellsFile(file', told)
    <2>1. CASE r.jm = "POLL2"
      BY <1>5, <1>6, <2>1 DEF TellsFile, EndWaits
    <2>2. CASE r.jm = "STOP"
      <3>1. r.restart \in EndWaits
        BY <2>2 DEF Straight
      <3> QED
        BY <1>5, <1>6, <2>2, <3>1 DEF TellsFile, Excused, EndWaits, Poll
    <2> QED
      BY <1>1, <2>1, <2>2
  <1>8. TellsFile(file, told)'
    BY <1>1, <1>7 DEF TellsFile, Excused
  <1>9. (\A k \in 1..Len(scripts) : Stages(scripts[k], r.jm))'
    BY <1>1
  <1>10. Replies(r)'
    BY <1>1, <1>2, <1>3 DEF Replies
  <1> QED
    BY <1>1, <1>3, <1>4, <1>8, <1>9, <1>10 DEF Told

LEMMA ToldNext ==
    ASSUME "post" \notin Fails
    PROVE  BasicInv /\ SoloInv /\ TruthInv /\ WaitInv /\ ToldInv /\ [Next]_vars => ToldInv'
  <1> SUFFICES ASSUME BasicInv, SoloInv, TruthInv, WaitInv, ToldInv, [Next]_vars, Unbroken'
               PROVE  Told'
    BY DEF ToldInv
  <1> USE DEF place, mgr, env, ghosts
  <1>1. Undisturbed /\ used["crash"] = 0 /\ Undisturbed'
    BY UsedGrows, UndisturbedBefore DEF Unbroken
  <1>2. /\ Told /\ OneScript /\ Intended /\ Straight /\ ~loaded
        /\ r.jm \in Early => ~r.jmRestart
        /\ run # "idle" => ~r.timer
        /\ \A k \in 1..Len(scripts) : scripts[k].res = "die" => Mute
    <2>1. Told /\ OneScript /\ Intended /\ Straight /\ (run # "idle" => ~r.timer)
      BY <1>1 DEF ToldInv, Unbroken, SoloInv
    <2>2. Faithful
      BY <1>1 DEF Faithful, Undisturbed
    <2>3. Truth
      BY <2>2 DEF TruthInv
    <2>4. Patient
      BY <1>1 DEF Patient, Undisturbed
    <2> QED
      BY <1>1, <2>1, <2>3, <2>4 DEF Truth, Honest, WaitInv, Started, Mute
  <1>3. job \in Jobs /\ r \in RequestType /\ posts \in Nat
    BY DEF BasicInv, Types
  <1>4. CASE Step
    <2>1. run # "idle" /\ UNCHANGED <<job, lrm>> /\ mem' \in {mem, "gone"}
      BY <1>4 DEF Step, StepStart, StepTwoPhase, StepRestart, StepTwoPhaseCommitted,
         StepStageInFailed, StepSubmitting, StepSubmit, StepPoll1, StepPoll2, StepQuery1,
         StepQuery2, StepClosing, StepCloseOutput, StepFinalStatus, StepTwoPhaseEnd,
         StepCleanUp, StepCacheCleanUp, StepStop, StepDone, At
    <2>2. scripts = <<>> /\ mem = "live"
      BY <1>2, <2>1 DEF OneScript, BasicInv, Placed
    <2>3. ToldGoal
      BY <1>1, <1>2, <1>4, <2>1, ToldEarlySteps, ToldLateSteps DEF Step
    <2> QED
      BY <2>1, <2>2, <2>3, ToldStep
  <1>5. CASE TimerFires \/ CallbackReply
    <2>1. /\ SameNews(r', r) /\ r'.jm = r.jm /\ UNCHANGED <<job, mem, lrm, file, scripts, told>>
          /\ \/ ~r'.timer /\ r.timer /\ posts' = posts
             \/ posts > 0 /\ posts' = posts - 1 /\ UNCHANGED run
      BY <1>3, <1>5 DEF TimerFires, CallbackReply, SameNews, RequestType
    <2>2. Tells(r', told)
      BY <1>2, <2>1, TellsAlike DEF Told
    <2>3. Tells(r, told)'
      BY <2>1, <2>2 DEF Tells, Excused
    <2>4. mem = "stub" => TellsFile(file, told)'
      BY <1>2, <2>1 DEF Told, TellsFile, Excused
    <2>5. \A k \in 1..Len(scripts) : Stages(scripts[k], r'.jm)
      BY <1>2, <2>1 DEF Told
    <2>6. (\A k \in 1..Len(scripts) : Stages(scripts[k], r.jm))'
      BY <2>1, <2>5 DEF Stages
    <2>7. Replies(r)'
      BY <1>2, <1>3, <2>1 DEF Told, Replies, CleanStates, EndWaits
    <2> QED
      BY <1>2, <2>1, <2>3, <2>4, <2>6, <2>7 DEF Told, SameNews
  <1>6. CASE ProcessPendingRestart
    BY <1>2, <1>6 DEF ProcessPendingRestart, BasicInv, Placed
  <1>7. CASE UNCHANGED vars
    BY <1>2, <1>7 DEF vars, Told, Tells, TellsFile, Excused, Replies, Stages
  <1>8. ASSUME UNCHANGED <<job, mem, r, run, file, scripts, posts, told, lrm>> PROVE Told'
    BY <1>2, <1>8 DEF Told, Tells, TellsFile, Excused, Replies, Stages
  <1>9. CASE SegResume
    <2>1. resumed \in Seq(EventType)
      BY DEF BasicInv, Types
    <2>2. PICK es \in Seq(EventType) :
             /\ \A k \in DOMAIN es : \E j \in DOMAIN resumed : es[k] = resumed[j]
             /\ run = "idle" /\ resumed' = <<>>
             /\ \/ /\ TakeReference /\ r' = Delivered(Referenced, es)
                   /\ idHash' = StillHashed(es)
                \/ UNCHANGED <<mem, loaded, pending, r, pause, idHash>>
             /\ UNCHANGED <<job, run, file, scripts, posts, held, env, ghosts, used>>
      BY <1>3, <1>9, <2>1, SegResumeIs
    <2> QED
      BY <1>2, <1>8, <2>2, ToldDelivered
  <1>10. CASE Events
    <2>1. ASSUME NEW i \in DOMAIN scripts, ScriptDone(i) PROVE Told'
      BY <1>2, <2>1, ToldScriptDone
    <2>2. ASSUME NEW i \in DOMAIN lrm, SegEvent(i) PROVE Told'
      <3> DEFINE e == [id |-> i, state |-> LogOf(i)[pos[i] + 1]]
      <3>1. /\ UNCHANGED <<job, run, file, scripts, posts, lrm, told>>
            /\ \/ TakeReference /\ r' = Delivered(Referenced, <<e>>)
               \/ UNCHANGED <<r, mem>>
        BY <2>2 DEF SegEvent
      <3>2. e \in EventType
        <4>1. lrm \in Seq(LrmStates) /\ pos \in Seq(Nat) /\ Len(pos) = Len(lrm)
          BY DEF BasicInv, Types
        <4>2. i \in 1..Len(lrm) /\ i \in Nat /\ pos[i] \in Nat /\ pos[i] < Len(LogOf(i))
          BY <2>2, <4>1, LenProperties, ElementOfSeq DEF SegEvent
        <4> QED
          BY <4>1, <4>2, LogEntry DEF EventType
      <3> HIDE DEF e
      <3>3. <<e>> \in Seq(EventType)
        BY <3>2
      <3> QED
        BY <1>2, <1>8, <3>1, <3>3, ToldDelivered
    <2> QED
      BY <1>10, <2>1, <2>2 DEF Events
  <1>11. CASE Scripts
    BY <1>2, <1>11, ToldScripts
  <1>12. CASE Lrm
    BY <1>2, <1>12, ToldLrm
  <1>13. CASE Client
    BY <1>1, <1>2, <1>13, ToldClient
  <1>14. CASE SwapOut
    BY <1>2, <1>14, ToldSwapOut
  <1>15. ~Crash
    <2> SUFFICES ASSUME Spend("crash") PROVE FALSE
      BY DEF Crash
    <2>1. used \in [DOMAIN Max -> Nat] /\ used["crash"] \in Nat
      BY MaxAssumption DEF BasicInv, Types, BoundType
    <2>2. used'["crash"] = used["crash"] + 1
      BY <2>1, SpendIs
    <2> QED
      BY <2>1, <2>2 DEF Unbroken
  <1>16. CASE Orphan \/ ExpireOldJob
    BY <1>2, <1>16, ToldOrphan, ToldExpire
  <1> QED
    BY <1>4, <1>5, <1>6, <1>7, <1>9, <1>10, <1>11, <1>12, <1>13, <1>14, <1>15, <1>16
       DEF Next, Manager

\* Unless the process crashed, a script ended without a report or the client could not be
\* reached, the client is told how its job ended before the job is cleaned up, or it
\* cancelled the job in START: whatever it cancels, signals, extends or unregisters.
THEOREM ClientIsTold ==
    ASSUME "die" \notin Fails, "post" \notin Fails
    PROVE  Spec => [](used["crash"] = 0 => ClientTold)
  <1>1. BasicInv /\ ToldInv => (used["crash"] = 0 => ClientTold)
    <2> SUFFICES ASSUME BasicInv, ToldInv, used["crash"] = 0, Undisturbed, mem = "live", r.contact,
                        r.jm \in {"TWO_PHASE_END", "TWO_PHASE_END_COMMITTED", "FAILED_TWO_PHASE",
                                  "FAILED_TWO_PHASE_COMMITTED"} \cup Final
                 PROVE  told = r.status \/ (r.failure = "USER_CANCELLED" /\ lrm = <<>>)
      BY DEF ClientTold
    <2>1. r.jm \in Late
      BY DEF Late, CleanStates, Final
    <2> QED
      BY <2>1 DEF ToldInv, Unbroken, Told, Tells, Excused, Mute
  <1>2. BasicInv /\ SoloInv /\ TruthInv /\ WaitInv /\ ToldInv /\ [Next]_vars => ToldInv'
    BY ToldNext
  <1> QED
    BY <1>1, <1>2, BasicHolds, BasicNext, BasicInit, SoloInit, SoloNext, TruthInit, TruthNext,
       WaitInit, WaitNext, ToldInit, PTL DEF Spec

-----------------------------------------------------------------------------
(* Something will wake the state machine *)

\* Events es report the end of LRM job i.
EndIn(es, i) == \E k \in 1..Len(es) : es[k].id = i /\ Ended(es[k].state)
\* While events are held, the end of job i is still to be reported, held, or among the
\* events es of the request.
Kept(i, es) == i > 0 /\ (pos[i] < 2 \/ EndIn(held, i) \/ EndIn(es, i))
Due(q) == q.id > 0 /\ (EndDue(q.id) \/ EndIn(q.events, q.id))

\* A request knows its LRM job from the submission on, and until it knows how the job
\* ended, that will be reported.
Follows(q) ==
    /\ q.jm \in Early \cup {"STAGE_IN"} => q.id = NoId
    /\ q.jm = "SUBMIT" => q.id = NoId \/ Kept(q.id, q.events)
    /\ q.jm \in Poll /\ q.status \notin Bad => Due(q)
\* A request at rest waits for something.
Rests(q) ==
    run = "idle" =>
       \/ q.timer \/ scripts # <<>> \/ posts > 0
       \/ q.jm \in Final \cup {"STOP"}
       \/ q.jmRestart /\ q.jm \in EndWaits
       \/ q.jm = "POLL2" /\ job.mode # "poll" /\ q.events = <<>>
\* A request that was swapped out.
Follow(f) == f.state \in Poll => job.mode # "poll" /\ f.id > 0 /\ EndDue(f.id)

Awake ==
    /\ pause = (IF r.jm = "SUBMIT" THEN 1 ELSE 0)
    /\ Follows(r)
    /\ mem = "live" => Rests(r)
    /\ mem = "stub" => Follow(file)
    /\ \A i \in 1..Len(scripts) :
          scripts[i].cmd = "submit" /\ scripts[i].res = "ok" => Kept(scripts[i].id, r.events)

WakeInv == Unbroken => Awake

LEMMA AwakeInit == Init => WakeInv
  <1> SUFFICES ASSUME Init PROVE Awake
    BY DEF WakeInv
  <1>1. /\ job \in Jobs /\ r = NewRequest /\ Len(scripts) = 0 /\ pause = 0
        /\ mem = "live"
    BY DEF Init
  <1>2. r.jm = "START" /\ r.id = NoId /\ r.timer
    BY <1>1, NewRequestType DEF NoId
  <1> QED
    BY <1>1, <1>2 DEF Awake, Follows, Rests, Poll

LEMMA FollowsFree ==
    ASSUME NEW q, q.jm \notin Early \cup {"STAGE_IN", "SUBMIT"} \cup Poll
    PROVE  Follows(q)
  BY DEF Follows

LEMMA FollowsAlike ==
    ASSUME NEW p, NEW q, Follows(q), p.id = q.id, p.events = q.events,
           p.status \notin Bad => q.status \notin Bad,
           \/ p.jm = q.jm \/ (p.jm \in Poll /\ q.jm \in Poll)
           \/ p.jm \in Early \cup {"STAGE_IN"} /\ q.jm \in Early \cup {"STAGE_IN"}
    PROVE  Follows(p)
  <1>1. CASE p.jm = q.jm
    BY <1>1 DEF Follows, Due
  <1>2. CASE p.jm \in Poll /\ q.jm \in Poll
    BY <1>2 DEF Follows, Due, Poll, Early
  <1>3. CASE p.jm \in Early \cup {"STAGE_IN"} /\ q.jm \in Early \cup {"STAGE_IN"}
    BY <1>3 DEF Follows, Poll, Early
  <1> QED
    BY <1>1, <1>2, <1>3

\* What a step of the loop has to show.
WakeGoal ==
    /\ pause' = (IF r'.jm = "SUBMIT" THEN 1 ELSE 0)
    /\ Follows(r') /\ Rests(r)'
    /\ scripts' = scripts
       \/ \E s \in ScriptType : scripts' = Append(scripts, s) /\ s.res = "none"

LEMMA AwakeStep ==
    ASSUME scripts = <<>>, WakeGoal, mem' # "stub",
           UNCHANGED <<job, held, resumed, idHash, pos>>
    PROVE  Awake'
  <1>1. Follows(r)'
    <2>1. Due(r') => Due(r)'
      BY DEF Due, EndDue
    <2>2. Kept(r'.id, r'.events) => Kept(r.id, r.events)'
      BY DEF Kept
    <2> QED
      BY <2>1, <2>2 DEF WakeGoal, Follows
  <1>2. \A i \in 1..Len(scripts') : scripts'[i].res # "ok"
    <2>1. CASE scripts' = scripts
      BY <2>1
    <2>2. ASSUME NEW s \in ScriptType, scripts' = Append(scripts, s), s.res = "none"
          PROVE  \A i \in 1..Len(scripts') : scripts'[i].res # "ok"
      <3>1. scripts' = <<s>>
        BY <2>2
      <3> HIDE DEF ScriptType
      <3>2. Len(scripts') = 1 /\ scripts'[1] = s
        BY <3>1
      <3> QED
        BY <2>2, <3>2
    <2> QED
      BY <2>1, <2>2 DEF WakeGoal
  <1> QED
    BY <1>1, <1>2 DEF WakeGoal, Awake

\* A report changes no final status, and makes the status final when it says so.
LEMMA ReportedBad ==
    ASSUME NEW q \in RequestType, NEW new, Reported(q, new).status \notin Bad
    PROVE  q.status \notin Bad /\ new \notin {"DONE", "FAILED"}
  <1>0. q.status \in Statuses
    BY DEF RequestType
  <1>1. CASE ValidChange(q.status, new)
    <2>1. Reported(q, new).status = IF new = "DONE" /\ job.stageOut THEN "STAGE_OUT" ELSE new
      BY <1>1 DEF Reported, RequestType
    <2>2. new \notin {"DONE", "FAILED"}
      BY <2>1 DEF Bad, Over
    <2>3. q.status \notin {"DONE", "FAILED", "STAGE_OUT"}
      BY <1>0, <1>1, <2>2, Zenon DEF ValidChange, Statuses
    <2> QED
      BY <2>2, <2>3 DEF Bad, Over
  <1>2. CASE ~ValidChange(q.status, new)
    <2>1. q.status \notin Bad
      BY <1>2 DEF Reported
    <2>2. ASSUME new \in {"DONE", "FAILED"} PROVE FALSE
      BY <1>0, <1>2, <2>1, <2>2 DEF ValidChange, Statuses, Bad, Over
    <2> QED
      BY <2>1, <2>2
  <1> QED
    BY <1>1, <1>2

\* A request that handled an event and does not know the end of its job waits for it still.
LEMMA HandledDue ==
    ASSUME NEW q \in RequestType, q.events # <<>>, q.status \notin Bad => Due(q),
           Handled(q).status \notin Bad
    PROVE  Due(Handled(q))
  <1> DEFINE e == Head(q.events)
             i == IF Ended(e.state) /\ e.id = q.id THEN EmptyId ELSE q.id
             t == Tail(q.events)
             n == q.seen + 1
             q1 == [q EXCEPT !.events = t, !.seen = n, !.id = i]
             p == Handled(q)
  <1>1. /\ q.events \in Seq(EventType) /\ t \in Seq(EventType) /\ Len(t) = Len(q.events) - 1
        /\ \A k \in 1..Len(t) : t[k] = q.events[k + 1]
        /\ e = q.events[1]
    BY HeadTailProperties DEF RequestType, EventQueue
  <1>2. p = IF Ended(e.state) /\ q1.id # EmptyId THEN q1 ELSE Reported(q1, e.state)
    BY DEF Handled, RequestType
  <1>3. n \in Nat /\ i \in Int /\ t \in EventQueue
    BY <1>1 DEF RequestType, EventQueue, EmptyId
  <1> HIDE DEF t, n, i, e
  <1>4. q1 \in RequestType /\ q1.id = i /\ q1.status = q.status /\ q1.events = t
    BY <1>3 DEF RequestType
  <1>5. p.events = t
    BY HandledKeeps DEF t
  <1> HIDE DEF q1
  <1>6. Due(q)
    <2>1. p = q1 \/ p = Reported(q1, e.state)
      BY <1>2
    <2> QED
      BY <1>4, <2>1, ReportedBad
  <1>7. q.id > 0 /\ q.id \in Int
    BY <1>6 DEF Due, RequestType
  <1>8. ~(Ended(e.state) /\ e.id = q.id)
    <2> SUFFICES ASSUME Ended(e.state), e.id = q.id PROVE FALSE
      OBVIOUS
    <2>1. q1.id = EmptyId
      BY <1>4 DEF i
    <2>2. p = Reported(q1, e.state)
      BY <1>2, <2>1
    <2> QED
      BY <1>4, <2>2, ReportedBad DEF Ended
  <1>9. p.id = q.id
    <2>1. i = q.id
      BY <1>8 DEF i
    <2>2. q1.id = q.id /\ q.id # EmptyId
      BY <1>4, <1>7, <2>1 DEF EmptyId
    <2>3. Reported(q1, e.state).id = q1.id
      BY <1>4 DEF Reported, RequestType
    <2> QED
      BY <1>2, <2>2, <2>3
  <1>10. EndIn(q.events, q.id) => EndIn(t, q.id)
    <2> SUFFICES ASSUME NEW k \in 1..Len(q.events), q.events[k].id = q.id, Ended(q.events[k].state)
                 PROVE  EndIn(t, q.id)
      BY DEF EndIn
    <2>1. k # 1
      BY <1>1, <1>8
    <2>2. Len(q.events) \in Nat
      BY <1>1, LenProperties
    <2>3. k - 1 \in 1..Len(t) /\ t[k - 1] = q.events[k]
      BY <1>1, <2>1, <2>2
    <2> QED
      BY <2>3 DEF EndIn
  <1> HIDE DEF p
  <1> QED
    BY <1>5, <1>6, <1>9, <1>10 DEF Due, p

LEMMA AwakePoll1 ==
    ASSUME BasicInv, Follows(r), StepPoll1
    PROVE  Follows(r') /\ Rests(r)' /\ r'.jm # "SUBMIT"
  <1> USE DEF place, mgr, env, ghosts
  <1>0. Types /\ r \in RequestType /\ r.jm = "POLL1" /\ run # "idle"
    BY DEF BasicInv, Types, StepPoll1
  <1>1. PICK q, w \in RequestType, j \in {"FAILED", "PRE_CLOSE_OUTPUT", "POLL_QUERY1",
                                          "POLL1", "POLL2"},
              u \in BOOLEAN, t \in BOOLEAN :
             /\ r.events = <<>> => q = r
             /\ r.events # <<>> => q = Handled(r)
             /\ w = q \/ w = [q EXCEPT !.restart = "POLL1"]
             /\ file' = file \/ (file' = Written(w) /\ w = [q EXCEPT !.restart = "POLL1"])
             /\ r' = [w EXCEPT !.jm = j, !.unsent = u, !.timer = t]
             /\ told' = told \/ (Notify(w) /\ w.status \notin {"FAILED", "DONE", "STAGE_OUT"})
             /\ run' \in {"idle", "loop"}
             /\ j = "FAILED" => w.status = "FAILED"
             /\ j = "PRE_CLOSE_OUTPUT" => w.status \in {"DONE", "STAGE_OUT"}
             /\ j = "POLL_QUERY1" => w.queries # <<>> /\ run' = "loop"
             /\ t => w.timer \/ (run' = "idle" /\ j = "POLL2")
    BY <1>0, Poll1Is
  <1>2. /\ w.id = q.id /\ w.events = q.events /\ w.status = q.status
    BY <1>1 DEF RequestType
  <1>3. /\ r'.id = q.id /\ r'.events = q.events /\ r'.status = q.status /\ r'.jm = j
        /\ r'.timer = t
    BY <1>1, <1>2 DEF RequestType
  <1>4. q.status \notin Bad => Due(q)
    <2>1. r.status \notin Bad => Due(r)
      BY <1>0 DEF Follows, Poll
    <2> QED
      BY <1>0, <1>1, <2>1, HandledDue
  <1>5. Follows(r')
    BY <1>3, <1>4 DEF Follows, Due, Early
  <1>6. Rests(r)'
    <2> DEFINE qq == IF r.events # <<>> THEN Handled(r) ELSE r
               ww == IF qq.unsent THEN [qq EXCEPT !.restart = "POLL1"] ELSE qq
               quiet == [ww EXCEPT !.unsent = FALSE]
    <2>1. \/ run' = "loop"
          \/ /\ r' = [quiet EXCEPT !.jm = "POLL2", !.timer = run # "first"]
             /\ Return(run # "first")
          \/ /\ job.mode # "poll" /\ Return(ww.events = <<>>)
             /\ r' = [quiet EXCEPT !.jm = IF ww.events # <<>> THEN "POLL1" ELSE "POLL2"]
      <3>1. CASE ww.status = "FAILED" \/ ww.status \in {"DONE", "STAGE_OUT"}
        <4>1. CASE ww.status = "FAILED"
          <5>1. ~(ww.status \in {"DONE", "STAGE_OUT"})
            BY <4>1
          <5> HIDE DEF ww, quiet
          <5> QED
            BY <4>1, <5>1, Zenon DEF StepPoll1, ww, qq
        <4>2. CASE ww.status \in {"DONE", "STAGE_OUT"}
          <5>1. ~(ww.status = "FAILED")
            BY <4>2
          <5> QED
            BY <4>2, <5>1, Zenon DEF StepPoll1
        <4> QED
          BY <3>1, <4>1, <4>2
      <3>2. CASE ~(ww.status = "FAILED") /\ ~(ww.status \in {"DONE", "STAGE_OUT"})
        <4>1. IF ww.queries # <<>>
              THEN r' = [quiet EXCEPT !.jm = "POLL_QUERY1"] /\ run' = "loop"
              ELSE IF job.mode = "poll"
              THEN /\ r' = [quiet EXCEPT !.jm = "POLL2", !.timer = run # "first"]
                   /\ Return(run # "first")
              ELSE /\ r' = [quiet EXCEPT !.jm = IF ww.events # <<>> THEN "POLL1" ELSE "POLL2"]
                   /\ Return(ww.events = <<>>)
          BY <3>2, Zenon DEF StepPoll1
        <4> HIDE DEF ww, quiet, qq
        <4> QED
          BY <4>1
      <3> QED
        BY <3>1, <3>2
    <2>2. qq \in RequestType
      BY <1>0, HandledKeeps
    <2> HIDE DEF qq
    <2>3. ww \in RequestType
      BY <2>2, Names DEF RequestType
    <2> HIDE DEF ww
    <2>4. quiet.events = ww.events /\ {"jm", "timer", "events"} \subseteq DOMAIN quiet
      BY <2>3 DEF RequestType
    <2> HIDE DEF quiet
    <2>5. CASE run' = "loop"
      BY <2>5 DEF Rests
    <2>6. CASE /\ r' = [quiet EXCEPT !.jm = "POLL2", !.timer = run # "first"]
               /\ Return(run # "first")
      <3>1. r'.timer = (run # "first")
        BY <2>4, <2>6
      <3> QED
        BY <2>6, <3>1 DEF Return, Rests
    <2>7. CASE /\ job.mode # "poll" /\ Return(ww.events = <<>>)
               /\ r' = [quiet EXCEPT !.jm = IF ww.events # <<>> THEN "POLL1" ELSE "POLL2"]
      <3>1. r'.events = ww.events /\ (ww.events = <<>> => r'.jm = "POLL2")
        BY <2>4, <2>7
      <3>2. job' = job
        BY DEF StepPoll1
      <3> QED
        BY <2>7, <3>1, <3>2 DEF Return, Rests
    <2> QED
      BY <2>1, <2>5, <2>6, <2>7
  <1> QED
    BY <1>3, <1>5, <1>6

LEMMA AwakeEarlySteps ==
    ASSUME BasicInv, OneScript, Straight, Awake, ~r.timer, run # "idle",
           r.jm \in Early => ~r.jmRestart,
           \/ StepStart \/ StepTwoPhase \/ StepRestart \/ StepTwoPhaseCommitted
           \/ StepStageInFailed \/ StepSubmitting \/ StepPoll1 \/ StepPoll2
           \/ StepQuery1 \/ StepQuery2
    PROVE  WakeGoal
  <1> USE DEF place, mgr, env, ghosts, At
  <1>0. /\ r \in RequestType /\ job \in Jobs /\ job.twoPhase \in BOOLEAN /\ job.stageIn \in BOOLEAN
        /\ Follows(r) /\ scripts = <<>> /\ (r.jm # "SUBMIT" => pause = 0)
    BY JobBooleans DEF BasicInv, Types, OneScript, Awake
  <1>1. ASSUME NEW s \in ScriptType, scripts' = Append(scripts, s) PROVE scripts' # <<>>
    <2> HIDE DEF ScriptType
    <2>1. scripts' = <<s>>
      BY <1>0, <1>1
    <2> QED
      BY <2>1
  <1>2. CASE StepStart
    <2>1. /\ r'.jm = "TWO_PHASE" /\ r'.id = r.id /\ r'.timer = job.twoPhase
          /\ r.jm = "START" /\ UNCHANGED <<scripts, pause>> /\ Return(job.twoPhase)
      BY <1>0, <1>2 DEF StepStart, RequestType
    <2>2. Follows(r')
      BY <1>0, <2>1 DEF Follows, Early, Poll
    <2>3. Rests(r)'
      BY <1>0, <2>1 DEF Rests, Return
    <2> QED
      BY <1>0, <2>1, <2>2, <2>3 DEF WakeGoal
  <1>3. CASE StepTwoPhase
    <2>1. /\ r.jm = "TWO_PHASE" /\ ~r.jmRestart /\ UNCHANGED <<scripts, pause>>
          /\ Return(job.twoPhase /\ r.extend)
      BY <1>3 DEF StepTwoPhase, Early
    <2>2. /\ r'.id = r.id /\ r'.jm \in {"TWO_PHASE", "TWO_PHASE_COMMITTED", "FAILED"}
          /\ job.twoPhase /\ r.extend => r'.timer
      BY <1>0, <1>3, <2>1 DEF StepTwoPhase, TimedOut, RequestType
    <2>3. Follows(r')
      BY <1>0, <2>1, <2>2 DEF Follows, Early, Poll
    <2>4. Rests(r)'
      BY <1>0, <2>1, <2>2 DEF Rests, Return, RequestType
    <2> QED
      BY <1>0, <2>1, <2>2, <2>3, <2>4 DEF WakeGoal
  <1>4. CASE StepRestart
    BY <1>4 DEF StepRestart, Early
  <1>5. CASE StepTwoPhaseCommitted
    <2>1. r.jm = "TWO_PHASE_COMMITTED" /\ ~r.jmRestart /\ pause' = pause /\ Return(job.stageIn)
      BY <1>5 DEF StepTwoPhaseCommitted, Early
    <2>2. /\ \/ r' = [r EXCEPT !.jm = "STAGE_IN", !.status = "STAGE_IN"] /\ RunScript("stage_in", r')
             \/ ~job.stageIn /\ r' = [r EXCEPT !.jm = "STAGE_IN"] /\ UNCHANGED scripts
      BY <1>0, <1>5, <2>1 DEF StepTwoPhaseCommitted
    <2>3. r'.jm = "STAGE_IN" /\ r'.id = r.id /\ r' \in RequestType
      BY <1>0, <2>2, Names DEF RequestType
    <2>4. Follows(r')
      BY <1>0, <2>1, <2>3 DEF Follows, Early, Poll
    <2> DEFINE s == Script("stage_in", r')
    <2>5. /\ s \in ScriptType /\ s.res = "none"
          /\ scripts' = Append(scripts, s) \/ (UNCHANGED scripts /\ ~job.stageIn)
      BY <2>2, <2>3, ScriptStarts DEF Cmds, RunScript
    <2> HIDE DEF s
    <2>6. Rests(r)'
      BY <1>0, <1>1, <2>1, <2>5 DEF Rests, Return
    <2> QED
      BY <1>0, <2>1, <2>3, <2>4, <2>5, <2>6 DEF WakeGoal
  <1>6. CASE StepStageInFailed
    <2>1. r.jm = "STAGE_IN" /\ r'.jm = "FAILED" /\ UNCHANGED <<scripts, pause, run>>
      BY <1>0, <1>6 DEF StepStageInFailed, RequestType
    <2>2. Follows(r')
      BY <2>1, FollowsFree DEF Early, Poll
    <2> QED
      BY <1>0, <2>1, <2>2 DEF WakeGoal, Rests
  <1>7. CASE StepSubmitting
    <2> DEFINE q == [r EXCEPT !.jm = "SUBMIT", !.restart = "SUBMIT"]
               s == Script("submit", q)
    <2>1. /\ r' = [q EXCEPT !.seen = 0] /\ RunScript("submit", q) /\ r.jm = "STAGE_IN"
          /\ pause' = pause + 1
      BY <1>7 DEF StepSubmitting
    <2>2. q \in RequestType
      BY <1>0, Names DEF RequestType
    <2>3. r'.jm = "SUBMIT" /\ r'.id = r.id
      BY <1>0, <2>1 DEF RequestType
    <2>4. s \in ScriptType /\ s.res = "none" /\ scripts' = Append(scripts, s)
      BY <2>1, <2>2, ScriptStarts DEF Cmds, RunScript
    <2> HIDE DEF q, s
    <2>5. Follows(r')
      BY <1>0, <2>1, <2>3 DEF Follows, Early, Poll
    <2>6. Rests(r)'
      BY <1>1, <2>4 DEF Rests
    <2> QED
      BY <1>0, <2>1, <2>3, <2>4, <2>5, <2>6 DEF WakeGoal
  <1>8. CASE StepPoll1
    <2>1. r.jm = "POLL1" /\ UNCHANGED <<scripts, pause>>
      BY <1>8 DEF StepPoll1
    <2> QED
      BY <1>0, <1>8, <2>1, AwakePoll1 DEF WakeGoal
  <1>9. CASE StepPoll2
    <2>1. /\ r.jm = "POLL2" /\ UNCHANGED <<pause, job>>
          /\ \/ r' = [r EXCEPT !.jm = "POLL1"] /\ RunScript("poll", r')
             \/ /\ r' = [r EXCEPT !.jm = IF r.events # <<>> THEN "POLL1" ELSE "POLL2"]
                /\ Return(r.events = <<>>) /\ UNCHANGED scripts /\ job.mode # "poll"
      BY <1>9 DEF StepPoll2
    <2>2. /\ r' \in RequestType /\ r'.id = r.id /\ r'.events = r.events /\ r'.status = r.status
          /\ r'.jm \in {"POLL1", "POLL2"}
      BY <1>0, <2>1, Names DEF RequestType
    <2>3. Follows(r')
      BY <1>0, <2>1, <2>2, FollowsAlike DEF Poll
    <2>4. CASE r' = [r EXCEPT !.jm = "POLL1"] /\ RunScript("poll", r')
      <3> DEFINE s == Script("poll", r')
      <3>1. s \in ScriptType /\ s.res = "none" /\ scripts' = Append(scripts, s)
        BY <2>2, <2>4, ScriptStarts DEF Cmds, RunScript
      <3> HIDE DEF s
      <3>2. Rests(r)'
        BY <1>1, <3>1 DEF Rests
      <3> QED
        BY <1>0, <2>1, <2>2, <2>3, <3>1, <3>2 DEF WakeGoal
    <2>5. CASE /\ r' = [r EXCEPT !.jm = IF r.events # <<>> THEN "POLL1" ELSE "POLL2"]
               /\ Return(r.events = <<>>) /\ UNCHANGED scripts /\ job.mode # "poll"
      <3>1. r.events = <<>> => r'.jm = "POLL2"
        BY <1>0, <2>5 DEF RequestType
      <3>2. Rests(r)'
        BY <2>1, <2>2, <2>5, <3>1 DEF Rests, Return
      <3> QED
        BY <1>0, <2>1, <2>2, <2>3, <2>5, <3>2 DEF WakeGoal
    <2> QED
      BY <2>1, <2>4, <2>5
  <1>10. CASE StepQuery1
    <2>1. /\ r.jm = "POLL_QUERY1" /\ UNCHANGED pause /\ RunScript(Head(r.queries), r)
          /\ r' = [r EXCEPT !.jm = "POLL_QUERY2"]
      BY <1>10 DEF StepQuery1, Straight
    <2>2. /\ r'.id = r.id /\ r'.events = r.events /\ r'.status = r.status
          /\ r'.jm = "POLL_QUERY2"
      BY <1>0, <2>1 DEF RequestType
    <2>3. Follows(r')
      BY <1>0, <2>1, <2>2, FollowsAlike DEF Poll
    <2>4. r.queries # <<>>
      BY <2>1 DEF BasicInv, Queries
    <2>5. Head(r.queries) \in Cmds
      BY <1>0, <2>4, HeadTailProperties DEF RequestType, QueryQueue, Cmds
    <2> DEFINE s == Script(Head(r.queries), r)
    <2>6. s \in ScriptType /\ s.res = "none" /\ scripts' = Append(scripts, s)
      BY <1>0, <2>1, <2>5, ScriptStarts DEF RunScript
    <2> HIDE DEF s
    <2>7. Rests(r)'
      BY <1>1, <2>6 DEF Rests
    <2> QED
      BY <1>0, <2>1, <2>2, <2>3, <2>6, <2>7 DEF WakeGoal
  <1>11. CASE StepQuery2
    <2> DEFINE q == [r EXCEPT !.queries = Tail(@)]
    <2>1. /\ r.jm = "POLL_QUERY2" /\ UNCHANGED <<scripts, pause>> /\ run' = "loop"
          /\ \E j \in {"POLL_QUERY1", "POLL1", "POLL2"} : r' = [q EXCEPT !.jm = j]
      BY <1>11 DEF StepQuery2, Straight
    <2>2. /\ q.status = r.status /\ q.id = r.id /\ q.events = r.events
          /\ {"jm", "status", "id", "events"} \subseteq DOMAIN q
      BY <1>0 DEF RequestType
    <2> HIDE DEF q
    <2>3. /\ r'.jm \in {"POLL_QUERY1", "POLL1", "POLL2"}
          /\ r'.status = r.status /\ r'.id = r.id /\ r'.events = r.events
      BY <2>1, <2>2
    <2>4. Follows(r')
      BY <1>0, <2>1, <2>3, FollowsAlike DEF Poll
    <2> QED
      BY <1>0, <2>1, <2>3, <2>4 DEF WakeGoal, Rests
  <1> QED
    BY <1>2, <1>3, <1>4, <1>5, <1>6, <1>7, <1>8, <1>9, <1>10, <1>11

LEMMA AwakeLateSteps ==
    ASSUME BasicInv, OneScript, Straight, Awake, Told, ~r.timer, run # "idle",
           "post" \notin Fails,
           \/ StepClosing \/ StepCloseOutput \/ StepFinalStatus \/ StepTwoPhaseEnd
           \/ StepCleanUp \/ StepCacheCleanUp \/ StepStop
    PROVE  WakeGoal
  <1> USE DEF place, mgr, env, ghosts, At
  <1>0. /\ r \in RequestType /\ job \in Jobs /\ job.twoPhase \in BOOLEAN /\ posts \in Nat
        /\ scripts = <<>> /\ (r.jm # "SUBMIT" => pause = 0) /\ r.jm # "STOP"
    BY JobBooleans DEF BasicInv, Types, OneScript, Awake, Told, Replies
  <1>1. ASSUME NEW s \in ScriptType, scripts' = Append(scripts, s) PROVE scripts' # <<>>
    <2> HIDE DEF ScriptType
    <2>1. scripts' = <<s>>
      BY <1>0, <1>1
    <2> QED
      BY <2>1
  <1> DEFINE Apart == Early \cup {"STAGE_IN", "SUBMIT"} \cup Poll
  <1>2. ASSUME r.jm \notin Apart, r'.jm \notin Apart, pause' = pause, Rests(r)',
               \/ scripts' = scripts
               \/ \E s \in ScriptType : scripts' = Append(scripts, s) /\ s.res = "none"
        PROVE  WakeGoal
    BY <1>0, <1>2, FollowsFree DEF WakeGoal
  <1>3. CASE StepClosing \/ StepCleanUp \/ StepCacheCleanUp
    <2>1. UNCHANGED <<scripts, pause, run>>
      BY <1>3 DEF StepClosing, StepCleanUp, StepCacheCleanUp
    <2>2. r.jm \notin Apart /\ r'.jm \notin Apart
      <3>1. CASE StepClosing
        <4> DEFINE w == IF r.unsent THEN [r EXCEPT !.restart = r.jm] ELSE r
                   u == w.unsent /\ ~(r.unsent /\ r.status = "STAGE_OUT")
                   j == IF w.jm = "FAILED" THEN "FAILED_CLOSE_OUTPUT" ELSE "CLOSE_OUTPUT"
        <4>1. r' = [w EXCEPT !.unsent = u, !.queries = <<>>, !.jm = j] /\ r.jm \in {"PRE_CLOSE_OUTPUT", "FAILED"}
          BY <3>1 DEF StepClosing
        <4>2. w \in RequestType
          BY <1>0 DEF RequestType
        <4>3. j \notin Apart
          BY DEF Early, Poll
        <4> HIDE DEF w, u, j, Apart
        <4>4. r'.jm = j
          BY <4>1, <4>2 DEF RequestType
        <4> QED
          BY <4>1, <4>3, <4>4 DEF Early, Poll, Apart
      <3>2. CASE StepCleanUp \/ StepCacheCleanUp
        <4>1. r.jm \in CleanStates /\ r'.jm \in CleanStates
          BY <1>0, <3>2, CleanUpIs DEF StepCleanUp, StepCacheCleanUp, RequestType, CleanStates
        <4> QED
          BY <4>1 DEF CleanStates, Early, Poll
      <3> QED
        BY <1>3, <3>1, <3>2
    <2> HIDE DEF Apart
    <2> QED
      BY <1>2, <2>1, <2>2 DEF Rests
  <1>4. CASE StepCloseOutput
    <2>1. r.jm = "CLOSE_OUTPUT" /\ pause' = pause
      BY <1>4 DEF StepCloseOutput
    <2>2. \/ r' = [r EXCEPT !.jm = "FAILED_CLOSE_OUTPUT"] /\ run' = "loop" /\ UNCHANGED scripts
          \/ /\ r' = [r EXCEPT !.jm = "STAGE_OUT", !.unsent = TRUE]
             /\ RunScript("stage_out", r') \/ (UNCHANGED scripts /\ run' = "loop")
      BY <1>0, <1>4 DEF StepCloseOutput, Return
    <2>3. r' \in RequestType /\ r'.jm \in {"STAGE_OUT", "FAILED_CLOSE_OUTPUT"}
      BY <1>0, <2>2, Names DEF RequestType
    <2> DEFINE s == Script("stage_out", r')
    <2>4. s \in ScriptType /\ s.res = "none" /\ (scripts' = Append(scripts, s) \/ (UNCHANGED scripts /\ run' = "loop"))
      BY <2>2, <2>3, ScriptStarts DEF Cmds, RunScript
    <2> HIDE DEF s
    <2>5. Rests(r)'
      BY <1>1, <2>4 DEF Rests
    <2>6. r.jm \notin Apart /\ r'.jm \notin Apart
      BY <2>1, <2>3 DEF Early, Poll
    <2> HIDE DEF Apart
    <2> QED
      BY <1>2, <2>1, <2>4, <2>5, <2>6
  <1>5. CASE StepFinalStatus
    <2> DEFINE failed == r.jm = "FAILED_CLOSE_OUTPUT" \/ r.todoOut
               j == IF failed THEN "FAILED_TWO_PHASE" ELSE "TWO_PHASE_END"
               st == IF failed THEN "FAILED" ELSE "DONE"
               f == IF r.jm = "STAGE_OUT" /\ r.todoOut /\ r.failure = "none"
                    THEN "STAGE_OUT_FAILED" ELSE r.failure
               q == [r EXCEPT !.unsent = FALSE, !.jm = j, !.status = st, !.failure = f]
    <2>1. /\ r.jm \in {"STAGE_OUT", "FAILED_CLOSE_OUTPUT"}
          /\ IF r.unsent /\ job.twoPhase THEN FinalNotify(q) ELSE r' = q
          /\ Return(r.unsent /\ job.twoPhase) /\ UNCHANGED <<scripts, pause>>
      BY <1>0, <1>5 DEF StepFinalStatus, RequestType
    <2>2. q.jm = j /\ {"jm", "timer"} \subseteq DOMAIN q /\ j \in EndWaits
      BY <1>0 DEF RequestType, EndWaits
    <2> HIDE DEF q, j
    <2>3. CASE r.unsent /\ job.twoPhase
      <3>1. \/ posts' = posts + 1 /\ r' = q
            \/ r' = [q EXCEPT !.timer = TRUE]
        BY <2>1, <2>3 DEF FinalNotify
      <3>2. r'.jm = j /\ (posts' > 0 \/ r'.timer)
        BY <1>0, <2>2, <3>1
      <3> QED
        BY <1>2, <2>1, <2>2, <3>2 DEF Rests, EndWaits, Early, Poll
    <2>4. CASE ~(r.unsent /\ job.twoPhase)
      <3>1. r'.jm = j /\ run' = "loop"
        BY <2>1, <2>2, <2>4 DEF Return
      <3> QED
        BY <1>2, <2>1, <2>2, <3>1 DEF Rests, EndWaits, Early, Poll
    <2> QED
      BY <2>3, <2>4
  <1>6. CASE StepTwoPhaseEnd
    <2>1. /\ \/ r' = [r EXCEPT !.extend = FALSE, !.timer = TRUE]
             \/ \E j \in {"TWO_PHASE_END_COMMITTED", "FAILED_TWO_PHASE_COMMITTED"} :
                   r' = [r EXCEPT !.jm = j] /\ run' = "loop"
             \/ r' = [r EXCEPT !.restart = r.jm, !.jm = "STOP", !.overdue = TRUE]
          /\ r.jm \in EndWaits /\ UNCHANGED <<scripts, pause>>
      BY <1>6, Zenon DEF StepTwoPhaseEnd, EndWaits
    <2>2. \/ r'.jm = r.jm /\ r'.timer
          \/ r'.jm \in {"TWO_PHASE_END_COMMITTED", "FAILED_TWO_PHASE_COMMITTED"} /\ run' = "loop"
          \/ r'.jm = "STOP"
      BY <1>0, <2>1 DEF RequestType
    <2>3. Rests(r)'
      BY <2>2 DEF Rests
    <2>4. r.jm \notin Apart /\ r'.jm \notin Apart
      BY <2>1, <2>2 DEF EndWaits, Early, Poll
    <2> HIDE DEF Apart
    <2> QED
      BY <1>2, <2>1, <2>3, <2>4
  <1>7. CASE StepStop
    BY <1>0, <1>7 DEF StepStop
  <1> QED
    BY <1>3, <1>4, <1>5, <1>6, <1>7

LEMMA EndInConcat ==
    ASSUME NEW a \in Seq(EventType), NEW b \in Seq(EventType), NEW i, EndIn(a, i) \/ EndIn(b, i)
    PROVE  EndIn(a \o b, i)
  <1>1. Len(a) \in Nat /\ Len(b) \in Nat /\ Len(a \o b) = Len(a) + Len(b)
    BY LenProperties, ConcatProperties
  <1>2. /\ \A k \in 1..Len(a) : (a \o b)[k] = a[k]
        /\ \A k \in 1..Len(b) : (a \o b)[Len(a) + k] = b[k]
    BY <1>1
  <1>3. CASE EndIn(a, i)
    <2>1. PICK k \in 1..Len(a) : a[k].id = i /\ Ended(a[k].state)
      BY <1>3 DEF EndIn
    <2>2. k \in 1..Len(a \o b) /\ (a \o b)[k] = a[k]
      BY <1>1, <1>2
    <2> QED
      BY <2>1, <2>2 DEF EndIn
  <1>4. CASE EndIn(b, i)
    <2>1. PICK k \in 1..Len(b) : b[k].id = i /\ Ended(b[k].state)
      BY <1>4 DEF EndIn
    <2>2. Len(a) + k \in 1..Len(a \o b) /\ (a \o b)[Len(a) + k] = b[k]
      BY <1>1, <1>2
    <2> QED
      BY <2>1, <2>2 DEF EndIn
  <1> QED
    BY <1>3, <1>4

LEMMA AwakeSubmit ==
    ASSUME BasicInv, OneScript, Awake, StepSubmit
    PROVE  Awake'
  <1> USE DEF place, mgr, env, ghosts, At
  <1> DEFINE q == IF r.id = NoId
             THEN [r EXCEPT !.status = "FAILED", !.unsent = TRUE,
                            !.failure = IF @ = "none" THEN "SUBMIT" ELSE @]
             ELSE r
  <1>1. /\ r' = [q EXCEPT !.jm = "POLL1", !.restart = "POLL1"] /\ Resume
        /\ idHash' = IF r.id > 0 THEN idHash \cup {r.id} ELSE idHash
        /\ r.jm = "SUBMIT" /\ run' = "first" /\ run # "idle" /\ UNCHANGED <<job, mem, scripts, pos>>
    BY DEF StepSubmit
  <1>2. /\ r \in RequestType /\ mem = "live" /\ Len(scripts) = 0
        /\ held \in Seq(EventType) /\ resumed \in Seq(EventType)
    BY <1>1 DEF BasicInv, Types, Placed, OneScript
  <1>3. q \in RequestType /\ q.id = r.id /\ q.events = r.events /\ (r.id = NoId => q.status = "FAILED")
    BY <1>2, Names DEF RequestType
  <1> HIDE DEF q
  <1>4. /\ r'.jm = "POLL1" /\ r'.id = r.id /\ r'.events = r.events
        /\ r.id = NoId => r'.status = "FAILED"
    BY <1>1, <1>3 DEF RequestType
  <1>5. pause = 1 /\ pause' = 0
    BY <1>1 DEF Awake, Resume
  <1>6. ASSUME r'.status \notin Bad PROVE Due(r)'
    <2>1. Kept(r.id, r.events)
      BY <1>1, <1>4, <1>6 DEF Awake, Follows, Bad
    <2>2. r.id > 0 /\ r.id \in idHash'
      BY <1>1, <2>1 DEF Kept
    <2>3. CASE pos[r.id] < 2
      BY <1>1, <1>4, <2>2, <2>3 DEF Due, EndDue
    <2>4. CASE EndIn(r.events, r.id)
      BY <1>4, <2>2, <2>4 DEF Due
    <2>5. CASE EndIn(held, r.id)
      <3>1. held # <<>>
        BY <2>5 DEF EndIn
      <3>2. resumed' = resumed \o held
        BY <1>1, <1>5, <3>1 DEF Resume
      <3>3. EndIn(resumed', r.id) /\ resumed' \in Seq(EventType)
        BY <1>2, <2>5, <3>2, EndInConcat, ConcatProperties
      <3>4. DOMAIN resumed' = 1..Len(resumed')
        BY <3>3, LenProperties
      <3>5. \E k \in DOMAIN resumed' : resumed'[k].id = r'.id /\ Ended(resumed'[k].state)
        BY <1>4, <3>3, <3>4 DEF EndIn
      <3> QED
        BY <1>4, <2>2, <3>5 DEF Due, EndDue
    <2> QED
      BY <2>1, <2>3, <2>4, <2>5 DEF Kept
  <1>7. Follows(r)'
    BY <1>4, <1>6 DEF Follows, Early
  <1>8. Len(scripts') = 0
    BY <1>1, <1>2
  <1> QED
    BY <1>1, <1>2, <1>4, <1>5, <1>7, <1>8 DEF Awake, Rests

LEMMA AwakeDone ==
    ASSUME BasicInv, OneScript, Awake, StepDone
    PROVE  Awake'
  <1> USE DEF place, mgr, env, ghosts, At
  <1>1. /\ r.jm \in Final /\ UNCHANGED <<job, scripts, pause>> /\ run # "idle"
        /\ \/ r' = [r EXCEPT !.queries = <<>>, !.events = <<>>, !.restart = r.jm] /\ mem' = mem
           \/ r' = NewRequest /\ mem' = "gone"
    BY DEF StepDone
  <1>2. r \in RequestType /\ job \in Jobs /\ mem = "live" /\ Len(scripts) = 0
    BY <1>1 DEF BasicInv, Types, Placed, OneScript
  <1>3. pause = 0
    BY <1>1 DEF Awake, Final
  <1>4. \/ r'.jm \in Final /\ mem' = "live"
        \/ r'.jm = "START" /\ r'.id = NoId /\ mem' = "gone"
    BY <1>1, <1>2, NewRequestType DEF RequestType, NoId
  <1>5. Follows(r)'
    BY <1>4 DEF Follows, Final, Early, Poll
  <1>6. Len(scripts') = 0
    BY <1>1, <1>2
  <1> QED
    BY <1>1, <1>3, <1>4, <1>5, <1>6 DEF Awake, Rests, Final

\* The request a reference finds.
LEMMA FollowsReferenced ==
    ASSUME BasicInv, Straight, Awake, ~loaded, TakeReference
    PROVE  /\ FitRequest(Referenced) /\ Follows(Referenced) /\ Rests(Referenced)
           /\ pause' = pause /\ pause = (IF Referenced.jm = "SUBMIT" THEN 1 ELSE 0)
           /\ mem = "live" => Referenced = r
           /\ scripts # <<>> => mem = "live"
           /\ mem' = "live" /\ run = "idle"
           /\ mem = "live" \/ Referenced.jm \in {"POLL2"} \cup EndWaits
  <1>1. /\ FitRequest(Referenced) /\ mem \in {"live", "stub"} /\ run = "idle"
        /\ mem = "live" => Referenced = r
        /\ mem = "stub" => Referenced = Reloaded /\ file \in FileType
    BY ReferencedIs
  <1>2. /\ pause' = pause /\ mem' = "live" /\ (scripts # <<>> => mem = "live")
    BY DEF TakeReference, BasicInv, Placed
  <1>3. CASE mem = "live"
    BY <1>1, <1>2, <1>3 DEF Awake
  <1>4. CASE mem = "stub"
    <2>1. /\ job \in Jobs /\ pending \in BOOLEAN /\ loaded \in BOOLEAN /\ file \in FileType
          /\ r = NewRequest
      BY <1>1, <1>4 DEF BasicInv, Types, Placed
    <2> DEFINE q == Reloaded
    <2>2. /\ q.jm = IF file.state \in Poll THEN "POLL2" ELSE file.state
          /\ q.id = file.id /\ q.events = <<>> /\ q.jmRestart
      BY <2>1, ReloadedType
    <2> HIDE DEF q
    <2>3. pause = 0
      BY <2>1, NewRequestType DEF Awake
    <2>4. file.state \in Poll \cup EndWaits /\ Follow(file)
      BY <1>4 DEF Straight, Awake
    <2>5. q.jm \in {"POLL2"} \cup EndWaits
      BY <2>2, <2>4
    <2>6. Follows(q)
      <3>1. CASE file.state \in Poll
        BY <2>2, <2>4, <3>1 DEF Follows, Follow, Due, Early
      <3>2. CASE file.state \notin Poll
        BY <2>2, <2>4, <3>2, FollowsFree DEF EndWaits, Early, Poll
      <3> QED
        BY <3>1, <3>2
    <2>7. Rests(q)
      BY <2>2, <2>4 DEF Rests, Follow
    <2>8. pause = (IF q.jm = "SUBMIT" THEN 1 ELSE 0)
      BY <2>3, <2>5 DEF EndWaits
    <2> QED
      BY <1>1, <1>2, <1>4, <2>5, <2>6, <2>7, <2>8 DEF q
  <1> QED
    BY <1>1, <1>3, <1>4

\* A step that takes a reference and delivers no event.
LEMMA AwakeReference ==
    ASSUME BasicInv, Straight, Awake, ~loaded, TakeReference, Follows(r'), Rests(r'),
           r'.events = Referenced.events,
           r'.jm = "SUBMIT" <=> Referenced.jm = "SUBMIT",
           UNCHANGED <<job, run, scripts, posts, held, resumed, idHash, pos>>
    PROVE  Awake'
  <1>1. /\ pause' = (IF r'.jm = "SUBMIT" THEN 1 ELSE 0) /\ mem' = "live"
        /\ scripts # <<>> => r'.events = r.events
    BY FollowsReferenced
  <1>2. Follows(r)'
    <2>1. Due(r') => Due(r)'
      BY DEF Due, EndDue
    <2>2. Kept(r'.id, r'.events) => Kept(r.id, r.events)'
      BY DEF Kept
    <2> QED
      BY <2>1, <2>2 DEF Follows
  <1>3. Rests(r)'
    BY DEF Rests
  <1>4. ASSUME NEW i \in 1..Len(scripts), scripts[i].cmd = "submit" /\ scripts[i].res = "ok"
        PROVE  Kept(scripts[i].id, r.events)'
    <2>1. scripts # <<>>
      BY <1>4 DEF BasicInv, Types
    <2>2. Kept(scripts[i].id, r'.events)
      BY <1>1, <1>4, <2>1 DEF Awake
    <2> QED
      BY <2>2 DEF Kept
  <1> QED
    BY <1>1, <1>2, <1>3, <1>4 DEF Awake

\* What a step that hands over the events es leaves to be reported.
LEMMA AwakeDelivered ==
    ASSUME BasicInv, Straight, Awake, ~loaded, TakeReference, NEW es \in Seq(EventType),
           r' = Delivered(Referenced, es), idHash' = StillHashed(es),
           UNCHANGED <<job, run, scripts, posts, held>>,
           \A i \in 1..Len(lrm) : pos[i] < 2 => pos'[i] < 2 \/ EndIn(es, i),
           \A i \in idHash : EndIn(resumed, i) => EndIn(resumed', i) \/ EndIn(es, i),
           resumed' \in Seq(EventType)
    PROVE  Awake'
  <1> DEFINE q == Referenced
  <1>1. /\ q \in RequestType /\ q.id <= Len(lrm) /\ Follows(q) /\ Rests(q)
        /\ pause' = pause /\ pause = (IF q.jm = "SUBMIT" THEN 1 ELSE 0)
        /\ mem = "live" => q = r
        /\ scripts # <<>> => mem = "live"
        /\ mem' = "live" /\ run = "idle"
    BY FollowsReferenced DEF FitRequest
  <1>2. /\ r'.events = q.events \o es /\ r'.id = q.id /\ r'.status = q.status
        /\ r'.jm = q.jm \/ (q.jm = "POLL2" /\ r'.jm = "POLL1" /\ r'.timer)
    BY <1>1, DeliveredKeeps
  <1>3. /\ q.timer => r'.timer
        /\ r'.jmRestart = q.jmRestart
        /\ q.jm = "POLL2" => es = <<>> \/ r'.timer
    <2> DEFINE woken == es # <<>> /\ q.jm = "POLL2"
               e == q.events \o es
               t == q.timer \/ woken
               j == IF woken THEN "POLL1" ELSE q.jm
    <2>1. r' = [q EXCEPT !.events = e, !.timer = t, !.jm = j]
      BY <1>1 DEF Delivered, RequestType
    <2>2. (q.timer => t) /\ (q.jm = "POLL2" /\ es # <<>> => t)
      OBVIOUS
    <2> HIDE DEF e, t, j, q
    <2>3. r'.timer = t /\ r'.jmRestart = q.jmRestart
      BY <1>1, <2>1 DEF RequestType
    <2> QED
      BY <2>2, <2>3
  <1>4. /\ q.events \in Seq(EventType) /\ Len(lrm) \in Nat /\ resumed \in Seq(EventType)
        /\ idHash \subseteq 1..Len(lrm) /\ q.id \in Int
        /\ DOMAIN es = 1..Len(es) /\ DOMAIN resumed = 1..Len(resumed)
        /\ DOMAIN resumed' = 1..Len(resumed')
    <2>1. /\ q.events \in Seq(EventType) /\ resumed \in Seq(EventType) /\ lrm \in Seq(LrmStates)
          /\ idHash \subseteq 1..Len(lrm) /\ q.id \in Int
      BY <1>1 DEF BasicInv, Types, RequestType, EventQueue
    <2> QED
      BY <2>1, LenProperties
  <1> HIDE DEF q
  <1>5. ASSUME NEW i, EndIn(q.events, i) \/ EndIn(es, i) PROVE EndIn(r'.events, i)
    BY <1>2, <1>4, <1>5, EndInConcat
  <1>6. ASSUME NEW i \in 1..Len(lrm), EndDue(i), ~EndIn(es, i)
        PROVE  /\ i \in idHash'
               /\ \/ pos'[i] < 2
                  \/ \E k \in DOMAIN resumed' : resumed'[k].id = i /\ Ended(resumed'[k].state)
    <2>1. i \in idHash
      BY <1>6 DEF EndDue
    <2>2. i \in idHash'
      BY <1>4, <1>6, <2>1 DEF StillHashed, EndIn
    <2>3. CASE pos[i] < 2
      BY <1>6, <2>2, <2>3
    <2>4. CASE ~(pos[i] < 2)
      <3>1. EndIn(resumed, i)
        BY <1>4, <1>6, <2>4 DEF EndDue, EndIn
      <3>2. EndIn(resumed', i)
        BY <1>6, <2>1, <3>1
      <3>3. \E k \in DOMAIN resumed' : resumed'[k].id = i /\ Ended(resumed'[k].state)
        BY <1>4, <3>2 DEF EndIn
      <3> QED
        BY <2>2, <3>3
    <2> QED
      BY <2>3, <2>4
  <1>7. ASSUME Due(q) PROVE Due(r)'
    <2>1. q.id \in 1..Len(lrm) /\ q.id > 0
      BY <1>1, <1>4, <1>7 DEF Due
    <2>2. PICK i \in 1..Len(lrm) : i = q.id
      BY <2>1
    <2>3. r'.id = i /\ i > 0
      BY <1>2, <2>1, <2>2
    <2>4. CASE EndIn(q.events, i) \/ EndIn(es, i)
      <3>1. EndIn(r'.events, i)
        BY <1>5, <2>4
      <3> QED
        BY <2>3, <3>1 DEF Due
    <2>5. CASE ~(EndIn(q.events, i) \/ EndIn(es, i))
      <3>1. EndDue(i)
        BY <1>7, <2>2, <2>5 DEF Due
      <3>2. EndDue(r.id)'
        BY <1>6, <2>3, <2>5, <3>1 DEF EndDue
      <3> QED
        BY <2>3, <3>2 DEF Due
    <2> QED
      BY <2>4, <2>5
  <1>8. ASSUME NEW i \in Int, i <= Len(lrm), Kept(i, q.events) PROVE i > 0 /\ (pos'[i] < 2 \/ EndIn(held', i) \/ EndIn(r'.events, i))
    BY <1>4, <1>5, <1>8 DEF Kept
  <1>9. Follows(r)'
    <2>1. q.jm = "SUBMIT" => q.id = NoId \/ Kept(r.id, r.events)'
      BY <1>1, <1>2, <1>4, <1>8 DEF Follows, Kept
    <2>2. q.jm \in Poll /\ q.status \notin Bad => Due(r)'
      BY <1>1, <1>7 DEF Follows
    <2>3. q.jm \in Early \cup {"STAGE_IN"} => q.id = NoId
      BY <1>1 DEF Follows
    <2> QED
      BY <1>2, <2>1, <2>2, <2>3 DEF Follows, Poll, Early
  <1>10. Rests(r)'
    <2>1. CASE q.jm = "POLL2" /\ es # <<>>
      BY <1>3, <2>1 DEF Rests
    <2>2. CASE es = <<>>
      <3>1. r'.events = q.events
        BY <1>2, <1>4, <2>2
      <3> QED
        BY <1>1, <1>2, <1>3, <3>1 DEF Rests
    <2>3. CASE q.jm # "POLL2"
      BY <1>1, <1>2, <1>3, <2>3 DEF Rests
    <2> QED
      BY <2>1, <2>2, <2>3
  <1>11. ASSUME NEW k \in 1..Len(scripts), scripts[k].cmd = "submit" /\ scripts[k].res = "ok"
         PROVE  Kept(scripts[k].id, r.events)'
    <2>1. scripts # <<>> /\ scripts[k] \in ScriptType /\ ScriptKnown(scripts[k])
      <3>1. scripts \in Seq(ScriptType)
        BY DEF BasicInv, Types
      <3> QED
        BY <1>11, <3>1, LenProperties, ElementOfSeq, EmptySeq DEF BasicInv, Known
    <2>2. q = r /\ scripts[k].id \in Int /\ scripts[k].id <= Len(lrm)
      BY <1>1, <1>11, <2>1 DEF ScriptKnown, ScriptType
    <2>3. Kept(scripts[k].id, q.events)
      BY <1>11, <2>2 DEF Awake
    <2> QED
      BY <1>8, <2>2, <2>3 DEF Kept
  <1>12. pause' = (IF r'.jm = "SUBMIT" THEN 1 ELSE 0)
    BY <1>1, <1>2
  <1> QED
    BY <1>1, <1>9, <1>10, <1>11, <1>12 DEF Awake

\* The second entry of a log is the end of the job.
LEMMA LogEnd ==
    ASSUME lrm \in Seq(LrmStates), NEW i \in 1..Len(lrm), NEW p \in Nat, p < Len(LogOf(i))
    PROVE  p < 2 /\ (p = 1 => Ended(LogOf(i)[p + 1]))
  <1>1. lrm[i] \in LrmStates
    BY ElementOfSeq
  <1>2. CASE lrm[i] = "PENDING"
    BY <1>2 DEF LogOf
  <1>3. CASE lrm[i] = "ACTIVE"
    <2>1. LogOf(i) = <<"ACTIVE">>
      BY <1>3, Zenon DEF LogOf
    <2> QED
      BY <2>1
  <1>4. CASE lrm[i] \in {"DONE", "FAILED"}
    <2>1. LogOf(i) = <<"ACTIVE", lrm[i]>>
      <3>1. ~(lrm[i] = "PENDING") /\ ~(lrm[i] = "ACTIVE")
        BY <1>4
      <3> QED
        BY <3>1, Zenon DEF LogOf
    <2>2. Len(LogOf(i)) = 2 /\ LogOf(i)[2] = lrm[i]
      BY <2>1
    <2> QED
      BY <1>4, <2>2 DEF Ended
  <1> QED
    BY <1>1, <1>2, <1>3, <1>4 DEF LrmStates

LEMMA AwakeSegEvent ==
    ASSUME BasicInv, Intended, Straight, Awake, ~loaded, NEW i \in DOMAIN lrm, SegEvent(i)
    PROVE  Awake'
  <1> USE DEF place, mgr, env, ghosts
  <1> DEFINE e == [id |-> i, state |-> LogOf(i)[pos[i] + 1]]
  <1>1. /\ UNCHANGED <<job, run, file, scripts, posts, lrm, resumed>> /\ pos[i] < Len(LogOf(i))
        /\ pos' = [pos EXCEPT ![i] = @ + 1]
        /\ \/ TakeReference /\ r' = Delivered(Referenced, <<e>>) /\ idHash' = StillHashed(<<e>>) /\ UNCHANGED held
           \/ /\ i \notin idHash /\ held' = (IF pause > 0 THEN Append(held, e) ELSE held)
              /\ UNCHANGED <<mem, r, pause, idHash>>
    BY DEF SegEvent
  <1>2. /\ lrm \in Seq(LrmStates) /\ pos \in Seq(Nat) /\ Len(pos) = Len(lrm) /\ Len(lrm) \in Nat
        /\ i \in 1..Len(lrm) /\ i \in Nat /\ pos[i] \in Nat /\ DOMAIN pos = 1..Len(lrm)
        /\ held \in Seq(EventType) /\ resumed \in Seq(EventType) /\ r \in RequestType
        /\ scripts \in Seq(ScriptType) /\ r.id <= Len(lrm) /\ idHash \subseteq 1..Len(lrm)
    <2>1. lrm \in Seq(LrmStates) /\ pos \in Seq(Nat) /\ Len(pos) = Len(lrm)
      BY DEF BasicInv, Types
    <2>2. i \in 1..Len(lrm) /\ i \in Nat /\ pos[i] \in Nat /\ DOMAIN pos = 1..Len(lrm) /\ Len(lrm) \in Nat
      BY <2>1, LenProperties, ElementOfSeq
    <2> QED
      BY <2>1, <2>2 DEF BasicInv, Types, Known
  <1>3. e \in EventType /\ (pos[i] = 1 => Ended(e.state)) /\ pos[i] < 2 /\ e.id = i
    BY <1>1, <1>2, LogEntry, LogEnd DEF EventType
  <1> HIDE DEF e
  <1>4. <<e>> \in Seq(EventType) /\ (pos[i] = 1 => EndIn(<<e>>, i))
    <2>1. <<e>> \in Seq(EventType)
      BY <1>3
    <2>2. Len(<<e>>) = 1 /\ <<e>>[1] = e
      OBVIOUS
    <2> QED
      BY <1>3, <2>1, <2>2 DEF EndIn
  <1>5. \A j \in 1..Len(lrm) : pos[j] < 2 => pos'[j] < 2 \/ (j = i /\ pos[i] = 1)
    <2> SUFFICES ASSUME NEW j \in 1..Len(lrm), pos[j] < 2 PROVE pos'[j] < 2 \/ (j = i /\ pos[i] = 1)
      OBVIOUS
    <2>1. CASE j = i
      BY <1>1, <1>2, <2>1
    <2>2. CASE j # i
      BY <1>1, <1>2, <2>2
    <2> QED
      BY <2>1, <2>2
  <1>6. CASE TakeReference /\ r' = Delivered(Referenced, <<e>>) /\ idHash' = StillHashed(<<e>>) /\ UNCHANGED held
    <2>1. \A j \in 1..Len(lrm) : pos[j] < 2 => pos'[j] < 2 \/ EndIn(<<e>>, j)
      BY <1>4, <1>5
    <2> QED
      BY <1>1, <1>2, <1>4, <1>6, <2>1, AwakeDelivered
  <1>7. CASE /\ i \notin idHash /\ held' = (IF pause > 0 THEN Append(held, e) ELSE held)
             /\ UNCHANGED <<mem, r, pause, idHash>>
    <2>1. ASSUME NEW j, EndDue(j) PROVE EndDue(j)'
      <3>1. j \in idHash /\ j # i /\ pos'[j] = pos[j]
        BY <1>1, <1>2, <1>7, <2>1 DEF EndDue
      <3> QED
        BY <1>1, <1>7, <2>1, <3>1 DEF EndDue
    <2>2. ASSUME NEW j \in Int, j <= Len(lrm), Kept(j, r.events), pause = 1 PROVE j > 0 /\ (pos'[j] < 2 \/ EndIn(held', j) \/ EndIn(r.events, j))
      <3>1. held' = held \o <<e>>
        <4>1. held' = Append(held, e)
          BY <1>7, <2>2
        <4> QED
          BY <1>2, <1>3, <4>1, AppendIsConcat
      <3>2. EndIn(held, j) \/ EndIn(<<e>>, j) => EndIn(held', j)
        BY <1>2, <1>4, <3>1, EndInConcat
      <3> QED
        BY <1>2, <1>4, <1>5, <2>2, <3>2 DEF Kept
    <2>3. Follows(r)'
      <3>1. r.jm = "SUBMIT" => r.id = NoId \/ Kept(r.id, r.events)'
        <4> SUFFICES ASSUME r.jm = "SUBMIT", r.id # NoId PROVE Kept(r.id, r.events)'
          OBVIOUS
        <4>1. pause = 1 /\ Kept(r.id, r.events) /\ r.id \in Int
          BY <1>2 DEF Awake, Follows, RequestType
        <4> QED
          BY <1>2, <1>7, <2>2, <4>1 DEF Kept
      <3>2. r.jm \in Poll /\ r.status \notin Bad => Due(r)'
        <4> SUFFICES ASSUME Due(r) PROVE Due(r)'
          BY DEF Awake, Follows
        <4>1. EndDue(r.id) => EndDue(r.id)'
          BY <1>1, <1>7, <2>1 DEF EndDue
        <4> QED
          BY <1>7, <4>1 DEF Due
      <3> QED
        BY <1>7, <3>1, <3>2 DEF Awake, Follows
    <2>4. Rests(r) => Rests(r)'
      BY <1>1, <1>7 DEF Rests
    <2>5. Follow(file) => Follow(file)'
      <3> SUFFICES ASSUME file.state \in Poll, Follow(file) PROVE Follow(file)'
        BY <1>1 DEF Follow
      <3>1. EndDue(file.id) /\ job.mode # "poll" /\ file.id > 0
        BY DEF Follow
      <3>2. EndDue(file.id)'
        BY <1>1, <1>7, <2>1, <3>1 DEF EndDue
      <3> QED
        BY <1>1, <3>1, <3>2 DEF Follow
    <2>6. ASSUME NEW k \in 1..Len(scripts), scripts[k].cmd = "submit" /\ scripts[k].res = "ok"
          PROVE  Kept(scripts[k].id, r.events)'
      <3>1. scripts[k] \in ScriptType /\ ScriptKnown(scripts[k])
        BY <1>2, <2>6, ElementOfSeq DEF BasicInv, Known
      <3>2. pause = 1 /\ Kept(scripts[k].id, r.events) /\ scripts[k].id \in Int /\ scripts[k].id <= Len(lrm)
        BY <2>6, <3>1 DEF Awake, Intended, ScriptKnown, ScriptType
      <3> QED
        BY <1>1, <1>7, <2>2, <3>2 DEF Kept
    <2> QED
      BY <1>1, <1>7, <2>3, <2>4, <2>5, <2>6 DEF Awake
  <1> QED
    BY <1>1, <1>6, <1>7

\* The resume callback hands over every kept event whose id is registered.
LEMMA SegResumeAll ==
    ASSUME resumed \in Seq(EventType), SegResume
    PROVE  \E es \in Seq(EventType) :
             /\ \A k \in DOMAIN resumed : resumed[k].id \in idHash =>
                   \E j \in 1..Len(es) : es[j] = resumed[k]
             /\ run = "idle" /\ resumed' = <<>>
             /\ \/ /\ TakeReference /\ r' = Delivered(Referenced, es)
                   /\ idHash' = StillHashed(es)
                \/ es = <<>> /\ UNCHANGED <<mem, loaded, pending, r, pause, idHash>>
             /\ UNCHANGED <<job, run, file, scripts, posts, held, env, ghosts, used>>
  <1> DEFINE due == { k \in DOMAIN resumed : resumed[k].id \in idHash }
             c == Cardinality(due)
  <1>1. PICK f \in [1..c -> due] :
       LET es == [k \in 1..c |-> resumed[f[k]]] IN
       /\ run = "idle" /\ resumed # <<>>
       /\ \A j, k \in 1..c : j < k => f[j] < f[k]
       /\ resumed' = <<>>
       /\ \/ /\ es # <<>>
             /\ TakeReference
             /\ r' = Delivered(Referenced, es)
             /\ idHash' = StillHashed(es)
          \/ /\ es = <<>>
             /\ UNCHANGED <<mem, loaded, pending, r, pause, idHash>>
       /\ UNCHANGED <<job, run, file, scripts, posts, held, env, ghosts, used>>
    BY DEF SegResume
  <1>2. DOMAIN resumed = 1..Len(resumed) /\ Len(resumed) \in Nat
    BY LenProperties
  <1>3. IsFiniteSet(due) /\ c \in Nat
    <2>1. IsFiniteSet(1..Len(resumed))
      BY <1>2, FS_Interval
    <2>2. IsFiniteSet(due)
      BY <1>2, <2>1, FS_Subset
    <2> QED
      BY <2>2, FS_CardinalityType
  <1>4. \A k \in DOMAIN resumed : resumed[k] \in EventType
    BY LenProperties, ElementOfSeq
  <1> DEFINE es == [k \in 1..c |-> resumed[f[k]]]
  <1>5. \A k \in 1..c : f[k] \in DOMAIN resumed
    BY <1>1
  <1>6. due \subseteq Int
    BY <1>2
  <1>7. \A j, k \in 1..c : j < k => f[j] < f[k]
    BY <1>1
  <1>8. \A k \in DOMAIN resumed : resumed[k].id \in idHash => k \in due
    OBVIOUS
  <1>9. /\ run = "idle" /\ resumed' = <<>>
        /\ \/ /\ TakeReference /\ r' = Delivered(Referenced, es)
              /\ idHash' = StillHashed(es)
           \/ es = <<>> /\ UNCHANGED <<mem, loaded, pending, r, pause, idHash>>
        /\ UNCHANGED <<job, run, file, scripts, posts, held, env, ghosts, used>>
    BY <1>1
  <1>10. Cardinality(1..c) = c
    BY <1>3, FS_Interval
  <1>11. Cardinality(due) = c
    OBVIOUS
  <1> HIDE DEF due, c
  <1>12. f \in Injection(1..c, due)
    <2>1. ASSUME NEW j \in 1..c, NEW k \in 1..c, f[j] = f[k] PROVE j = k
      <3>1. f[j] \in Int /\ f[k] \in Int
        BY <1>1, <1>6
      <3> QED
        BY <1>3, <1>7, <2>1, <3>1
    <2> QED
      BY <1>1, <2>1 DEF Injection, IsInjective
  <1>13. f \in Surjection(1..c, due)
    BY <1>3, <1>10, <1>11, <1>12, FS_Injection
  <1>14. es \in [1..c -> EventType]
    BY <1>4, <1>5
  <1>15. es \in Seq(EventType) /\ Len(es) = c
    <2>1. es \in Seq(EventType)
      BY <1>3, <1>14, SeqDef
    <2>2. DOMAIN es = 1..c
      OBVIOUS
    <2> HIDE DEF es
    <2> QED
      BY <1>3, <2>1, <2>2, LenProperties
  <1>16. ASSUME NEW k \in DOMAIN resumed, resumed[k].id \in idHash
         PROVE  \E j \in 1..Len(es) : es[j] = resumed[k]
    <2>1. PICK j \in 1..c : f[j] = k
      BY <1>8, <1>13, <1>16 DEF Surjection
    <2>2. es[j] = resumed[k]
      BY <2>1
    <2> HIDE DEF es
    <2> QED
      BY <1>15, <2>2
  <1> HIDE DEF es
  <1> QED
    BY <1>9, <1>15, <1>16

LEMMA AwakeSegResume ==
    ASSUME BasicInv, Straight, Awake, ~loaded, SegResume
    PROVE  Awake'
  <1> USE DEF place, mgr, env, ghosts
  <1>1. resumed \in Seq(EventType) /\ DOMAIN resumed = 1..Len(resumed)
    BY LenProperties DEF BasicInv, Types
  <1>2. PICK es \in Seq(EventType) :
             /\ \A k \in DOMAIN resumed : resumed[k].id \in idHash =>
                   \E j \in 1..Len(es) : es[j] = resumed[k]
             /\ run = "idle" /\ resumed' = <<>>
             /\ \/ /\ TakeReference /\ r' = Delivered(Referenced, es)
                   /\ idHash' = StillHashed(es)
                \/ es = <<>> /\ UNCHANGED <<mem, loaded, pending, r, pause, idHash>>
             /\ UNCHANGED <<job, run, file, scripts, posts, held, env, ghosts, used>>
    BY <1>1, SegResumeAll
  <1>3. ASSUME NEW i \in idHash, EndIn(resumed, i) PROVE EndIn(es, i)
    <2>1. PICK k \in 1..Len(resumed) : resumed[k].id = i /\ Ended(resumed[k].state)
      BY <1>3 DEF EndIn
    <2>2. PICK j \in 1..Len(es) : es[j] = resumed[k]
      BY <1>1, <1>2, <2>1
    <2> QED
      BY <2>1, <2>2 DEF EndIn
  <1>4. resumed' \in Seq(EventType)
    BY <1>2, EmptySeq
  <1>5. CASE TakeReference /\ r' = Delivered(Referenced, es) /\ idHash' = StillHashed(es)
    <2>1. \A i \in 1..Len(lrm) : pos[i] < 2 => pos'[i] < 2 \/ EndIn(es, i)
      BY <1>2
    <2>2. \A i \in idHash : EndIn(resumed, i) => EndIn(resumed', i) \/ EndIn(es, i)
      BY <1>3
    <2> QED
      BY <1>2, <1>4, <1>5, <2>1, <2>2, AwakeDelivered
  <1>6. CASE es = <<>> /\ UNCHANGED <<mem, loaded, pending, r, pause, idHash>>
    <2>1. ASSUME NEW i, EndDue(i) PROVE i \in idHash /\ pos[i] < 2
      <3>1. ~EndIn(es, i)
        BY <1>6 DEF EndIn
      <3> QED
        BY <1>1, <1>3, <2>1, <3>1 DEF EndDue, EndIn
    <2>2. Due(r) => Due(r)'
      BY <1>2, <1>6, <2>1 DEF Due, EndDue
    <2>3. Kept(r.id, r.events) => Kept(r.id, r.events)'
      BY <1>2, <1>6 DEF Kept
    <2>4. Follows(r)'
      BY <1>6, <2>2, <2>3 DEF Awake, Follows
    <2>5. Follow(file) => Follow(file)'
      BY <1>2, <1>6, <2>1 DEF Follow, EndDue
    <2>6. Rests(r) => Rests(r)'
      BY <1>2, <1>6 DEF Rests
    <2>7. ASSUME NEW k \in 1..Len(scripts), Kept(scripts[k].id, r.events)
          PROVE  Kept(scripts[k].id, r.events)'
      BY <1>2, <1>6, <2>7 DEF Kept
    <2> QED
      BY <1>2, <1>6, <2>4, <2>5, <2>6, <2>7 DEF Awake
  <1> QED
    BY <1>2, <1>5, <1>6

\* No report takes a final status back.
LEMMA AppliedBad ==
    ASSUME NEW q \in RequestType, NEW s \in ScriptType, s.res # "none",
           Applied(q, s).status \notin Bad
    PROVE  q.status \notin Bad
  <1> DEFINE p == Applied(q, s)
  <1>1. ASSUME NEW why PROVE ScriptFailed(q, s, why).status \in {q.status, "FAILED"}
    BY DEF ScriptFailed, RequestType
  <1>2. CASE s.res = "die"
    <2>1. p = [q EXCEPT !.failure = "SCRIPT_STATUS"]
      BY <1>2, Zenon DEF Applied
    <2>2. p.status = q.status
      BY <2>1 DEF RequestType
    <2> QED
      BY <2>2
  <1>3. CASE s.res # "die"
    <2>0. ~(s.res = "die")
      BY <1>3
    <2>1. CASE s.cmd = "submit"
      <3>1. s.cmd # "poll" /\ s.cmd # "stage_in" /\ s.cmd # "stage_out" /\ s.cmd # "cancel" /\ s.cmd # "signal"
        BY <2>1
      <3>2. p = IF s.res = "ok" THEN Reported([q EXCEPT !.id = s.id], "PENDING")
                ELSE ScriptFailed(q, s, "SUBMIT")
        BY <2>0, <2>1, <3>1, Zenon DEF Applied
      <3> DEFINE c == [q EXCEPT !.id = s.id]
      <3>3. c \in RequestType /\ c.status = q.status
        BY DEF RequestType, ScriptType
      <3> HIDE DEF c
      <3>4. p = Reported(c, "PENDING") \/ p = ScriptFailed(q, s, "SUBMIT")
        BY <3>2 DEF c
      <3> QED
        BY <1>1, <3>3, <3>4, ReportedBad DEF Bad
    <2>2. CASE s.cmd = "poll"
      <3>1. s.cmd # "submit" /\ s.cmd # "stage_in" /\ s.cmd # "stage_out" /\ s.cmd # "cancel" /\ s.cmd # "signal"
        BY <2>2
      <3>2. p = IF s.res = "err" THEN ScriptFailed(q, s, "SUBMIT") ELSE Reported(q, s.res)
        BY <2>0, <2>2, <3>1, Zenon DEF Applied
      <3> QED
        BY <1>1, <3>2, ReportedBad DEF Bad
    <2>3. CASE s.cmd = "stage_in"
      <3>1. s.cmd # "submit" /\ s.cmd # "poll" /\ s.cmd # "stage_out" /\ s.cmd # "cancel" /\ s.cmd # "signal"
        BY <2>3
      <3>2. p = IF s.res = "ok" THEN [q EXCEPT !.todoIn = FALSE]
                ELSE ScriptFailed(q, s, "STAGE_IN_FAILED")
        BY <2>0, <2>3, <3>1, Zenon DEF Applied
      <3>3. [q EXCEPT !.todoIn = FALSE].status = q.status
        BY DEF RequestType
      <3> QED
        BY <1>1, <3>2, <3>3 DEF Bad
    <2>4. CASE s.cmd = "stage_out"
      <3>1. s.cmd # "submit" /\ s.cmd # "poll" /\ s.cmd # "stage_in" /\ s.cmd # "cancel" /\ s.cmd # "signal"
        BY <2>4
      <3>2. p = IF s.res = "ok" THEN [q EXCEPT !.todoOut = @ /\ q.jm # s.start]
                ELSE ScriptFailed(q, s, "STAGE_OUT_FAILED")
        BY <2>0, <2>4, <3>1, Zenon DEF Applied
      <3>3. [q EXCEPT !.todoOut = @ /\ q.jm # s.start].status = q.status
        BY DEF RequestType
      <3> QED
        BY <1>1, <3>2, <3>3 DEF Bad
    <2>5. CASE s.cmd = "cancel"
      <3>1. s.cmd # "submit" /\ s.cmd # "poll" /\ s.cmd # "stage_in" /\ s.cmd # "stage_out" /\ s.cmd # "signal"
        BY <2>5
      <3>2. p = CancelApplied(q, s)
        BY <2>0, <2>5, <3>1, Zenon DEF Applied
      <3>3. CancelApplied(q, s).status \in {q.status, "FAILED"}
        BY DEF CancelApplied, RequestType
      <3> QED
        BY <3>2, <3>3 DEF Bad
    <2>6. CASE s.cmd = "signal"
      <3>1. s.cmd # "submit" /\ s.cmd # "poll" /\ s.cmd # "stage_in" /\ s.cmd # "stage_out" /\ s.cmd # "cancel"
        BY <2>6
      <3>2. p = IF s.res = "ok" /\ ValidChange(q.status, "SUSPENDED")
                THEN [q EXCEPT !.status = "SUSPENDED", !.unsent = TRUE] ELSE q
        BY <2>0, <2>6, <3>1, Zenon DEF Applied
      <3>3. p = q \/ ValidChange(q.status, "SUSPENDED")
        BY <3>2
      <3>4. q.status \in Statuses
        BY DEF RequestType
      <3>5. ValidChange(q.status, "SUSPENDED") => q.status \notin {"DONE", "FAILED", "STAGE_OUT"}
        BY <3>4, Zenon DEF ValidChange, Statuses
      <3> QED
        BY <3>3, <3>5 DEF Bad, Over
    <2> QED
      BY <2>1, <2>2, <2>3, <2>4, <2>5, <2>6 DEF ScriptType, Cmds
  <1> QED
    BY <1>2, <1>3

LEMMA AwakeScriptDone ==
    ASSUME BasicInv, OneScript, Intended, Awake, NEW i \in DOMAIN scripts, ScriptDone(i)
    PROVE  Awake'
  <1> USE DEF place, mgr, env, ghosts
  <1> DEFINE s == scripts[i]
             p == Applied(r, s)
  <1>1. /\ r' = [p EXCEPT !.timer = TRUE] /\ scripts' = Without(scripts, i)
        /\ UNCHANGED <<job, mem, run, posts, pause, held, resumed, idHash, pos>> /\ s.res # "none"
    BY DEF ScriptDone
  <1>2. /\ scripts \in Seq(ScriptType) /\ r \in RequestType /\ i \in 1..Len(scripts)
        /\ s \in ScriptType /\ ScriptKnown(s) /\ scripts # <<>>
    <2>1. scripts \in Seq(ScriptType) /\ r \in RequestType
      BY DEF BasicInv, Types
    <2>2. i \in 1..Len(scripts) /\ s \in ScriptType
      BY <2>1, LenProperties, ElementOfSeq
    <2>3. scripts # <<>>
      BY <2>1, <2>2, EmptySeq
    <2> QED
      BY <2>1, <2>2, <2>3 DEF BasicInv, Known
  <1>3. Len(scripts) = 1 /\ mem = "live" /\ r.jm \in Working
    BY <1>2 DEF OneScript, BasicInv, Placed, Types
  <1>4. Len(scripts') = 0
    BY <1>1, <1>2, <1>3, WithoutKeeps
  <1>5. /\ p \in RequestType /\ p.jm = r.jm /\ p.events = r.events
        /\ p.id = r.id \/ (s.cmd = "submit" /\ s.res = "ok" /\ p.id = s.id)
        /\ p.status \notin Bad => r.status \notin Bad
    BY <1>1, <1>2, AppliedKeeps, AppliedBad DEF Keeps
  <1>6. s.cmd = "submit" => r.jm = "SUBMIT"
    BY <1>2 DEF Intended
  <1>7. s.cmd = "submit" /\ s.res = "ok" => Kept(s.id, r.events)
    BY <1>2 DEF Awake
  <1> HIDE DEF p, s
  <1>8. /\ r'.jm = r.jm /\ r'.status = p.status /\ r'.events = r.events /\ r'.id = p.id /\ r'.timer
    BY <1>1, <1>5 DEF RequestType
  <1>9. CASE s.cmd = "submit" /\ s.res = "ok" /\ p.id = s.id
    <2>1. Kept(r.id, r.events)'
      BY <1>1, <1>7, <1>8, <1>9 DEF Kept
    <2>2. Follows(r)'
      BY <1>6, <1>8, <1>9, <2>1 DEF Follows, Early, Poll
    <2> QED
      BY <1>1, <1>3, <1>4, <1>8, <2>2 DEF Awake, Rests
  <1>10. CASE p.id = r.id
    <2>1. Due(r) => Due(r)'
      BY <1>1, <1>8, <1>10 DEF Due, EndDue
    <2>2. Kept(r.id, r.events) => Kept(r.id, r.events)'
      BY <1>1, <1>8, <1>10 DEF Kept
    <2>3. Follows(r)'
      BY <1>5, <1>8, <1>10, <2>1, <2>2 DEF Awake, Follows
    <2> QED
      BY <1>1, <1>3, <1>4, <1>8, <2>3 DEF Awake, Rests
  <1> QED
    BY <1>5, <1>9, <1>10

\* A script that is at work may start an LRM job, of which everything is still to be reported.
LEMMA AwakeScripts ==
    ASSUME BasicInv, OneScript, Awake, Scripts
    PROVE  Awake'
  <1> USE DEF place, mgr, env, ghosts
  <1>1. PICK i \in DOMAIN scripts : ScriptRuns(i)
    BY DEF Scripts
  <1> DEFINE s == scripts[i]
             id == IF s.cmd = "submit" THEN Len(lrm) + 1 ELSE s.id
  <1>2. /\ scripts \in Seq(ScriptType) /\ DOMAIN scripts = 1..Len(scripts) /\ s \in ScriptType
        /\ mem = "live" /\ scripts # <<>> /\ Len(scripts) = 1 /\ i = 1
        /\ pos \in Seq(Nat) /\ Len(pos) = Len(lrm) /\ Len(lrm) \in Nat
        /\ r \in RequestType /\ r.id <= Len(lrm) /\ idHash \subseteq 1..Len(lrm)
        /\ DOMAIN pos = 1..Len(lrm)
    <2>1. /\ scripts \in Seq(ScriptType) /\ lrm \in Seq(LrmStates) /\ pos \in Seq(Nat)
          /\ Len(pos) = Len(lrm)
      BY DEF BasicInv, Types
    <2>2. DOMAIN scripts = 1..Len(scripts) /\ s \in ScriptType /\ Len(lrm) \in Nat
          /\ DOMAIN pos = 1..Len(lrm)
      BY <2>1, LenProperties, ElementOfSeq
    <2>3. mem = "live" /\ scripts # <<>>
      BY <2>2, EmptySeq DEF BasicInv, Placed
    <2> QED
      BY <2>1, <2>2, <2>3 DEF OneScript, BasicInv, Types, Known
  <1>3. PICK res \in {"ok", "err", "die"} :
           /\ scripts' = [scripts EXCEPT
                  ![i].id = id,
                  ![i].res = IF s.cmd = "poll" /\ res = "ok" THEN lrm[s.id] ELSE res]
           /\ pos' = IF res = "ok" /\ s.cmd = "submit" THEN Append(pos, 0) ELSE pos
           /\ UNCHANGED <<job, mem, r, run, file, posts, pause, held, resumed, idHash>>
    BY <1>1 DEF ScriptRuns
  <1> DEFINE b == IF s.cmd = "poll" /\ res = "ok" THEN lrm[s.id] ELSE res
  <1>4. scripts' = [scripts EXCEPT ![i].id = id, ![i].res = b]
    BY <1>3
  <1>5. s.cmd = "submit" => b = res /\ id = Len(lrm) + 1
    OBVIOUS
  <1> HIDE DEF b, id
  <1>6. /\ Len(scripts') = 1 /\ scripts' # <<>>
        /\ scripts'[1].cmd = s.cmd /\ scripts'[1].res = b /\ scripts'[1].id = id
    <2>1. BasicInv'
      BY BasicScriptRuns DEF Scripts
    <2>2. scripts' \in Seq(ScriptType) /\ DOMAIN scripts' = DOMAIN scripts
      BY <1>4, <2>1 DEF BasicInv, Types
    <2>3. Len(scripts') = Len(scripts)
      BY <1>2, <2>2, LenProperties
    <2>4. scripts'[1] = [s EXCEPT !.id = id, !.res = b]
      BY <1>2, <1>4
    <2> HIDE DEF s
    <2> QED
      BY <1>2, <2>2, <2>3, <2>4, EmptySeq DEF ScriptType
  <1>7. ASSUME NEW j \in 1..Len(lrm) PROVE pos'[j] = pos[j]
    BY <1>2, <1>3, <1>7, AppendProperties
  <1>8. Due(r) => Due(r)'
    <2> SUFFICES ASSUME Due(r) PROVE Due(r)'
      OBVIOUS
    <2>1. EndDue(r.id) => EndDue(r.id)'
      <3> SUFFICES ASSUME EndDue(r.id) PROVE EndDue(r.id)'
        OBVIOUS
      <3>1. r.id \in 1..Len(lrm)
        BY <1>2 DEF EndDue
      <3> QED
        BY <1>3, <1>7, <3>1 DEF EndDue
    <2> QED
      BY <1>3, <2>1 DEF Due
  <1>9. Kept(r.id, r.events) => Kept(r.id, r.events)'
    <2> SUFFICES ASSUME Kept(r.id, r.events) PROVE Kept(r.id, r.events)'
      OBVIOUS
    <2>1. r.id \in 1..Len(lrm)
      BY <1>2 DEF Kept, RequestType
    <2> QED
      BY <1>3, <1>7, <2>1 DEF Kept
  <1>10. Follows(r)'
    BY <1>3, <1>8, <1>9 DEF Awake, Follows
  <1>11. Rests(r)'
    BY <1>6 DEF Rests
  <1>12. ASSUME NEW k \in 1..Len(scripts'), scripts'[k].cmd = "submit" /\ scripts'[k].res = "ok"
         PROVE  Kept(scripts[k].id, r.events)'
    <2>1. k = 1 /\ s.cmd = "submit" /\ res = "ok" /\ scripts'[k].id = Len(lrm) + 1
      BY <1>5, <1>6, <1>12
    <2>2. pos' = Append(pos, 0)
      BY <1>3, <2>1
    <2>3. pos'[Len(lrm) + 1] = 0 /\ Len(lrm) + 1 > 0
      <3>1. pos \in Seq(Nat) /\ 0 \in Nat /\ Len(pos) \in Nat /\ Len(pos) = Len(lrm)
        BY <1>2
      <3>2. Append(pos, 0)[Len(pos) + 1] = 0
        BY <3>1, AppendProperties
      <3> QED
        BY <2>2, <3>1, <3>2
    <2> QED
      BY <2>1, <2>3 DEF Kept
  <1> QED
    BY <1>2, <1>3, <1>10, <1>11, <1>12 DEF Awake

LEMMA AwakeOrphan ==
    ASSUME BasicInv, OneScript, Awake, Orphan
    PROVE  Awake'
  <1>1. PICK i \in 1..Len(scripts) :
             /\ scripts[i].cmd = "submit" /\ scripts[i].res = "none"
             /\ scripts'[i].cmd = "submit" /\ scripts'[i].start = scripts[i].start
             /\ scripts'[i].res \in Fails \cap {"err", "die"}
             /\ \A k \in 1..Len(scripts) : k # i => scripts'[k] = scripts[k]
    BY OrphanIs
  <1>2. /\ Len(scripts') = Len(scripts) /\ scripts' # <<>> /\ scripts # <<>>
        /\ \A k \in 1..Len(lrm) : pos'[k] = pos[k]
        /\ UNCHANGED <<job, mem, r, run, file, posts, pause, held, resumed, idHash>>
    BY OrphanIs
  <1>3. /\ r \in RequestType /\ r.id <= Len(lrm) /\ idHash \subseteq 1..Len(lrm)
        /\ Len(lrm) \in Nat /\ Len(scripts) = 1 /\ mem = "live"
    <2>1. Len(lrm) \in Nat
      BY OrphanIs
    <2> QED
      BY <1>2, <2>1 DEF OneScript, BasicInv, Types, Known, Placed
  <1>4. Due(r) => Due(r)'
    <2>1. EndDue(r.id) => EndDue(r.id)'
      <3> SUFFICES ASSUME EndDue(r.id) PROVE EndDue(r.id)'
        OBVIOUS
      <3>1. r.id \in 1..Len(lrm)
        BY <1>3 DEF EndDue
      <3> QED
        BY <1>2, <3>1 DEF EndDue
    <2> QED
      BY <1>2, <2>1 DEF Due
  <1>5. Kept(r.id, r.events) => Kept(r.id, r.events)'
    <2> SUFFICES ASSUME Kept(r.id, r.events) PROVE Kept(r.id, r.events)'
      OBVIOUS
    <2>1. r.id \in 1..Len(lrm)
      BY <1>3 DEF Kept, RequestType
    <2> QED
      BY <1>2, <2>1 DEF Kept
  <1>6. Follows(r)'
    BY <1>2, <1>4, <1>5 DEF Awake, Follows
  <1>7. Rests(r)'
    BY <1>2 DEF Rests
  <1>8. \A k \in 1..Len(scripts') : scripts'[k].res # "ok"
    BY <1>1, <1>2, <1>3
  <1> QED
    BY <1>2, <1>3, <1>6, <1>7, <1>8 DEF Awake

LEMMA AwakeExpire ==
    ASSUME BasicInv, Straight, Awake, ~loaded, ExpireOldJob
    PROVE  Awake'
  <1> DEFINE q == Referenced
  <1>1. /\ TakeReference
        /\ \/ r' = q
           \/ /\ q.jm \in {"TWO_PHASE_END", "FAILED_TWO_PHASE"}
              /\ r' = [q EXCEPT !.jm = "FAILED_TWO_PHASE_COMMITTED", !.timer = TRUE]
        /\ UNCHANGED <<job, run, scripts, posts, held, resumed, idHash, pos>>
    BY ExpireIs
  <1>2. q \in RequestType /\ Follows(q) /\ Rests(q)
    BY <1>1, FollowsReferenced DEF FitRequest
  <1>3. CASE r' = q
    BY <1>1, <1>2, <1>3, AwakeReference
  <1>4. CASE /\ q.jm \in {"TWO_PHASE_END", "FAILED_TWO_PHASE"}
             /\ r' = [q EXCEPT !.jm = "FAILED_TWO_PHASE_COMMITTED", !.timer = TRUE]
    <2>1. r'.jm = "FAILED_TWO_PHASE_COMMITTED" /\ r'.events = q.events /\ r'.timer
      BY <1>2, <1>4 DEF RequestType
    <2>2. Follows(r') /\ Rests(r')
      BY <2>1, FollowsFree DEF Early, Poll, Rests
    <2>3. r'.jm # "SUBMIT" /\ q.jm # "SUBMIT"
      BY <1>4, <2>1
    <2> QED
      BY <1>1, <2>1, <2>2, <2>3, AwakeReference
  <1> QED
    BY <1>1, <1>3, <1>4

LEMMA AwakeClient ==
    ASSUME BasicInv, Undisturbed', Straight, Awake, ~loaded, Client
    PROVE  Awake'
  <1> USE DEF place, mgr, env, ghosts
  <1> DEFINE q == Referenced
  <1>1. job \in Jobs /\ used \in [DOMAIN Max -> Nat]
    BY DEF BasicInv, Types
  <1>2. TakeReference => /\ q \in RequestType /\ Follows(q) /\ Rests(q) /\ run = "idle"
                         /\ mem = "live" => q = r
                         /\ mem = "live" \/ q.jm \in {"POLL2"} \cup EndWaits
    BY FollowsReferenced DEF FitRequest
  <1>3. ASSUME NEW p, Apply(p), Follows(p), Rests(p), p.events = q.events,
               p.jm = "SUBMIT" <=> q.jm = "SUBMIT"
        PROVE  Awake'
    <2>1. /\ r' = p /\ TakeReference
          /\ UNCHANGED <<job, run, scripts, posts, held, resumed, idHash, pos>>
      BY <1>3 DEF Apply
    <2> QED
      BY <1>3, <2>1, AwakeReference
  <1>4. ASSUME NEW p, p.timer PROVE Rests(p)
    BY <1>4 DEF Rests
  <1>5. CASE CommitRequest
    <2> DEFINE p == [q EXCEPT !.jm = "TWO_PHASE_COMMITTED", !.timer = TRUE]
    <2>1. /\ Apply(p) /\ TakeReference
          /\ q.jm \in {"START", "TWO_PHASE", "TWO_PHASE_QUERY1", "TWO_PHASE_QUERY2"}
      BY <1>5 DEF CommitRequest, Apply
    <2>2. /\ p.jm = "TWO_PHASE_COMMITTED" /\ p.status = q.status /\ p.id = q.id
          /\ p.events = q.events /\ p.timer
      BY <1>2, <2>1 DEF RequestType
    <2> HIDE DEF p, q
    <2>3. p.jm \in Early /\ q.jm \in Early
      BY <2>1, <2>2 DEF Early
    <2>4. Follows(p)
      BY <1>2, <2>1, <2>2, <2>3, FollowsAlike
    <2> QED
      BY <1>3, <1>4, <2>1, <2>2, <2>4
  <1>6. CASE CommitEnd
    <2> DEFINE p == EndCommitted(q)
    <2>1. /\ Apply(p) /\ TakeReference /\ q.jm \in {"TWO_PHASE_END", "FAILED_TWO_PHASE", "STOP"}
      BY <1>6 DEF CommitEnd, Apply
    <2>2. /\ p.jm \in {"TWO_PHASE_END_COMMITTED", "FAILED_TWO_PHASE_COMMITTED"}
          /\ p.events = q.events /\ p.timer
      BY <1>2, <2>1 DEF EndCommitted, RequestType
    <2> HIDE DEF p, q
    <2>3. Follows(p)
      BY <2>2, FollowsFree DEF Early, Poll
    <2> QED
      BY <1>3, <1>4, <2>1, <2>2, <2>3
  <1>7. CASE CommitExtend
    <2> DEFINE p == [q EXCEPT !.extend = TRUE]
    <2>1. Apply(p) /\ TakeReference
      BY <1>7 DEF CommitExtend, Apply
    <2>2. /\ p.jm = q.jm /\ p.timer = q.timer /\ p.id = q.id /\ p.events = q.events
          /\ p.status = q.status /\ p.jmRestart = q.jmRestart
      BY <1>2, <2>1 DEF RequestType
    <2> HIDE DEF p, q
    <2>3. Follows(p)
      BY <1>2, <2>1, <2>2, FollowsAlike
    <2>4. Rests(p)
      BY <1>2, <2>1, <2>2 DEF Rests
    <2> QED
      BY <1>3, <2>1, <2>2, <2>3, <2>4
  <1>8. ASSUME TakeReference, NEW query, NEW wakes, Apply(Queued(q, query, wakes)),
               \/ DOMAIN wakes = {"POLL2"}
               \/ DOMAIN wakes = {"POLL2", "TWO_PHASE"} /\ q.jm # "TWO_PHASE",
               wakes["POLL2"] = "POLL_QUERY1"
        PROVE  Awake'
    <2> DEFINE p == Queued(q, query, wakes)
               a == Append(q.queries, query)
               j == IF q.jm \in DOMAIN wakes THEN wakes[q.jm] ELSE q.jm
               t == q.timer \/ q.jm \in DOMAIN wakes
    <2>1. (j = q.jm \/ (q.jm = "POLL2" /\ j = "POLL_QUERY1" /\ t)) /\ (q.timer => t)
      BY <1>8
    <2>2. p = [q EXCEPT !.queries = a, !.jm = j, !.timer = t]
      BY <1>2, <1>8 DEF Queued, RequestType
    <2> HIDE DEF a, j, t, q
    <2>3. /\ p.jm = j /\ p.timer = t /\ p.id = q.id /\ p.events = q.events
          /\ p.status = q.status /\ p.jmRestart = q.jmRestart
      BY <1>2, <1>8, <2>2 DEF RequestType
    <2>4. Apply(p)
      BY <1>8
    <2> HIDE DEF p
    <2>5. Follows(p)
      BY <1>2, <1>8, <2>1, <2>3, FollowsAlike DEF Poll
    <2>6. Rests(p)
      BY <1>2, <1>8, <2>1, <2>3 DEF Rests
    <2> QED
      BY <1>3, <2>1, <2>3, <2>4, <2>5, <2>6
  <1>9. CASE Cancel
    <2> DEFINE w == [POLL2 |-> "POLL_QUERY1"]
               u == q.unsent \/ q.jm # "START"
               b == [q EXCEPT !.jm = "FAILED", !.status = "FAILED",
                              !.failure = "USER_CANCELLED", !.unsent = u]
    <2>1. /\ TakeReference
          /\ \/ q.jm \in Poll \cup {"SUBMIT"} /\ Apply(Queued(q, "cancel", w))
             \/ /\ q.jm \in {"START", "TWO_PHASE", "TWO_PHASE_COMMITTED", "STAGE_IN"}
                /\ Apply(b)
      BY <1>9 DEF Cancel, Apply
    <2>2. CASE q.jm \in Poll \cup {"SUBMIT"} /\ Apply(Queued(q, "cancel", w))
      <3>1. DOMAIN w = {"POLL2"} /\ w["POLL2"] = "POLL_QUERY1"
        OBVIOUS
      <3> HIDE DEF w, q
      <3> QED
        BY <1>8, <2>1, <2>2, <3>1
    <2>3. CASE q.jm \in {"START", "TWO_PHASE", "TWO_PHASE_COMMITTED", "STAGE_IN"} /\ Apply(b)
      <3>1. b.jm = "FAILED" /\ b.timer = q.timer /\ b.events = q.events
        BY <1>2, <2>1 DEF RequestType
      <3> HIDE DEF b, u, q
      <3>2. Follows(b)
        BY <3>1, FollowsFree DEF Early, Poll
      <3>3. Rests(b)
        BY <1>2, <2>1, <2>3, <3>1 DEF Rests, Final, EndWaits
      <3> QED
        BY <1>3, <2>3, <3>1, <3>2, <3>3
    <2> QED
      BY <2>1, <2>2, <2>3
  <1>10. CASE Signal
    <2> DEFINE w == [POLL2 |-> "POLL_QUERY1", TWO_PHASE |-> "TWO_PHASE_QUERY1"]
    <2>1. Apply(Queued(q, "signal", w)) /\ TakeReference /\ Spend("signal")
      BY <1>10 DEF Signal, Apply
    <2>2. DOMAIN w = {"POLL2", "TWO_PHASE"} /\ w["POLL2"] = "POLL_QUERY1"
      OBVIOUS
    <2>3. ~job.twoPhase
      <3>1. used["signal"] \in Nat
        BY <1>1, MaxAssumption DEF BoundType
      <3>2. used'["signal"] = used["signal"] + 1
        BY <1>1, <2>1, SpendIs
      <3>3. job' = job
        BY <2>1 DEF Apply
      <3> QED
        BY <3>1, <3>2, <3>3 DEF Undisturbed
    <2>4. q.jm # "TWO_PHASE"
      BY <1>2, <2>1, <2>3 DEF Straight, EndWaits
    <2> HIDE DEF w, q
    <2> QED
      BY <1>8, <2>1, <2>2, <2>4
  <1>11. CASE Unregister
    <2> DEFINE c == [q EXCEPT !.contact = FALSE]
               p == IF c.jm = "TWO_PHASE_END" /\ job.twoPhase THEN EndCommitted(c) ELSE c
    <2>1. Apply(p) /\ TakeReference
      BY <1>11 DEF Unregister, Apply
    <2>2. /\ c \in RequestType /\ c.jm = q.jm /\ c.timer = q.timer /\ c.id = q.id
          /\ c.events = q.events /\ c.status = q.status /\ c.jmRestart = q.jmRestart
      BY <1>2, <2>1 DEF RequestType
    <2> HIDE DEF c, q
    <2>3. /\ p.events = c.events
          /\ \/ p = c
             \/ c.jm = "TWO_PHASE_END" /\ p.jm = "TWO_PHASE_END_COMMITTED" /\ p.timer
      BY <2>2 DEF EndCommitted, RequestType
    <2> HIDE DEF p
    <2>4. CASE p = c
      <3>1. Follows(p)
        BY <1>2, <2>1, <2>2, <2>4, FollowsAlike
      <3>2. Rests(p)
        BY <1>2, <2>1, <2>2, <2>4 DEF Rests
      <3> QED
        BY <1>3, <2>1, <2>2, <2>4, <3>1, <3>2
    <2>5. CASE c.jm = "TWO_PHASE_END" /\ p.jm = "TWO_PHASE_END_COMMITTED" /\ p.timer
      <3>1. Follows(p)
        BY <2>5, FollowsFree DEF Early, Poll
      <3> QED
        BY <1>3, <1>4, <2>1, <2>2, <2>3, <2>5, <3>1
    <2> QED
      BY <2>3, <2>4, <2>5
  <1>12. ASSUME NEW k \in {"stop", "restart", "update"}, Spend(k) PROVE FALSE
    <2>1. used[k] \in Nat
      BY <1>1, MaxAssumption DEF BoundType
    <2>2. used'[k] = used[k] + 1
      BY <1>1, <1>12, SpendIs
    <2>3. used'[k] = 0
      BY DEF Undisturbed
    <2> QED
      BY <2>1, <2>2, <2>3
  <1>13. ~StopManager /\ ~StdioUpdate /\ ~ClientRestart
    BY <1>12 DEF StopManager, StdioUpdate, ClientRestart
  <1> QED
    BY <1>5, <1>6, <1>7, <1>9, <1>10, <1>11, <1>13 DEF Client

\* A request that waits for the end of its job knows the job, and has no event left to handle.
LEMMA WaitingDue ==
    ASSUME BasicInv, Told, Awake, r.jm = "POLL2", r.events = <<>>
    PROVE  r.id > 0 /\ EndDue(r.id)
  <1>1. r.status \notin Bad
    BY DEF Told, Tells, Poll
  <1>2. Due(r)
    BY <1>1 DEF Awake, Follows, Poll
  <1> QED
    BY <1>2 DEF Due, EndIn

LEMMA AwakeSwapOut ==
    ASSUME BasicInv, Straight, Told, Awake, SwapOut
    PROVE  Awake'
  <1> USE DEF place, mgr, env, ghosts
  <1>1. /\ r' = NewRequest /\ file' = Written(r) /\ mem' = "stub" /\ scripts = <<>>
        /\ UNCHANGED <<job, scripts, pause, held, resumed, idHash, pos>>
        /\ r.jm \in {"POLL2", "STOP"} /\ r.events = <<>>
        /\ r.jm = "POLL2" => job.mode = "seg"
    BY DEF SwapOut, Referrers
  <1>2. job \in Jobs /\ r \in RequestType
    BY DEF BasicInv, Types
  <1>3. r'.jm = "START" /\ r'.id = NoId
    BY <1>1, <1>2, NewRequestType DEF NoId
  <1>4. file'.state = (IF r.jm = "STOP" THEN r.restart ELSE r.jm) /\ file'.id = r.id
    BY <1>1 DEF Written
  <1>5. Follow(file)'
    <2>1. CASE r.jm = "POLL2"
      <3>1. r.id > 0 /\ EndDue(r.id)
        BY <1>1, <2>1, WaitingDue
      <3> QED
        BY <1>1, <1>4, <2>1, <3>1 DEF Follow, EndDue
    <2>2. CASE r.jm = "STOP"
      <3>1. r.restart \in EndWaits
        BY <2>2 DEF Straight
      <3> QED
        BY <1>4, <2>2, <3>1 DEF Follow, EndWaits, Poll
    <2> QED
      BY <1>1, <2>1, <2>2
  <1>6. Follows(r)'
    BY <1>3 DEF Follows, Poll
  <1>7. pause' = 0
    BY <1>1 DEF Awake
  <1>8. Len(scripts') = 0
    BY <1>1
  <1> QED
    BY <1>1, <1>3, <1>5, <1>6, <1>7, <1>8 DEF Awake

\* What waiting for events and scripts does not look at may change.
LEMMA AwakeAside ==
    ASSUME Awake, mem' = mem, file' = file, r'.jm = r.jm, r'.id = r.id, r'.status = r.status,
           r'.events = r.events, mem = "live" => Rests(r)',
           UNCHANGED <<job, scripts, pause, held, resumed, idHash, pos>>
    PROVE  Awake'
  <1>1. Due(r) => Due(r)'
    BY DEF Due, EndDue
  <1>2. Kept(r.id, r.events) => Kept(r.id, r.events)'
    BY DEF Kept
  <1>3. Follows(r)'
    BY <1>1, <1>2 DEF Awake, Follows
  <1>4. Follow(file) => Follow(file)'
    BY DEF Follow, EndDue
  <1>5. ASSUME NEW k \in 1..Len(scripts), Kept(scripts[k].id, r.events)
        PROVE  Kept(scripts[k].id, r.events)'
    BY <1>5 DEF Kept
  <1> QED
    BY <1>3, <1>4, <1>5 DEF Awake

LEMMA AwakeNext ==
    ASSUME "post" \notin Fails
    PROVE  BasicInv /\ SoloInv /\ TruthInv /\ ToldInv /\ WakeInv /\ [Next]_vars => WakeInv'
  <1> SUFFICES ASSUME BasicInv, SoloInv, TruthInv, ToldInv, WakeInv, [Next]_vars, Unbroken'
               PROVE  Awake'
    BY DEF WakeInv
  <1> USE DEF place, mgr, env, ghosts
  <1>1. Undisturbed /\ used["crash"] = 0 /\ Undisturbed'
    BY UsedGrows, UndisturbedBefore DEF Unbroken
  <1>2. /\ Told /\ Awake /\ OneScript /\ Intended /\ Straight /\ ~loaded
        /\ r.jm \in Early => ~r.jmRestart
        /\ run # "idle" => ~r.timer
    <2>1. Told /\ Awake /\ OneScript /\ Intended /\ Straight /\ (run # "idle" => ~r.timer)
      BY <1>1 DEF ToldInv, WakeInv, Unbroken, SoloInv
    <2>2. Truth
      BY <1>1 DEF TruthInv, Faithful, Undisturbed
    <2> QED
      BY <1>1, <2>1, <2>2 DEF Truth, Honest
  <1>3. job \in Jobs /\ r \in RequestType /\ posts \in Nat
    BY DEF BasicInv, Types
  <1>4. CASE Step /\ ~StepSubmit /\ ~StepDone
    <2>1. /\ run # "idle" /\ UNCHANGED <<job, lrm, pos, idHash, held, resumed>> /\ mem' = mem
      BY <1>4 DEF Step, StepStart, StepTwoPhase, StepRestart, StepTwoPhaseCommitted,
         StepStageInFailed, StepSubmitting, StepPoll1, StepPoll2, StepQuery1,
         StepQuery2, StepClosing, StepCloseOutput, StepFinalStatus, StepTwoPhaseEnd,
         StepCleanUp, StepCacheCleanUp, StepStop, At
    <2>2. scripts = <<>> /\ mem = "live"
      BY <1>2, <2>1 DEF OneScript, BasicInv, Placed
    <2>3. WakeGoal
      BY <1>2, <1>4, <2>1, AwakeEarlySteps, AwakeLateSteps DEF Step
    <2> QED
      BY <2>1, <2>2, <2>3, AwakeStep
  <1>5. CASE StepSubmit \/ StepDone
    BY <1>2, <1>5, AwakeSubmit, AwakeDone
  <1>6. CASE TimerFires \/ CallbackReply
    <2>1. /\ r'.jm = r.jm /\ r'.id = r.id /\ r'.status = r.status /\ r'.events = r.events
          /\ r'.timer \/ run' = "loop"
          /\ UNCHANGED <<job, mem, file, scripts, pause, held, resumed, idHash, pos>>
      BY <1>3, <1>6 DEF TimerFires, CallbackReply, RequestType
    <2>2. Rests(r)'
      BY <2>1 DEF Rests
    <2> QED
      BY <1>2, <2>1, <2>2, AwakeAside
  <1>7. CASE ProcessPendingRestart
    BY <1>2, <1>7 DEF ProcessPendingRestart, BasicInv, Placed
  <1>8. CASE UNCHANGED vars \/ Lrm
    <2>1. UNCHANGED <<job, mem, r, run, posts, file, scripts, pause, held, resumed, idHash, pos>>
      BY <1>8 DEF vars, Lrm, LrmProgress
    <2>2. mem = "live" => Rests(r)'
      BY <1>2, <2>1 DEF Awake, Rests
    <2> QED
      BY <1>2, <2>1, <2>2, AwakeAside
  <1>9. CASE SegResume
    BY <1>2, <1>9, AwakeSegResume
  <1>10. CASE Events
    BY <1>2, <1>10, AwakeScriptDone, AwakeSegEvent DEF Events
  <1>11. CASE Scripts
    BY <1>2, <1>11, AwakeScripts
  <1>12. CASE Client
    BY <1>1, <1>2, <1>12, AwakeClient
  <1>13. CASE SwapOut
    BY <1>2, <1>13, AwakeSwapOut
  <1>14. ~Crash
    <2> SUFFICES ASSUME Spend("crash") PROVE FALSE
      BY DEF Crash
    <2>1. used \in [DOMAIN Max -> Nat] /\ used["crash"] \in Nat
      BY MaxAssumption DEF BasicInv, Types, BoundType
    <2>2. used'["crash"] = used["crash"] + 1
      BY <2>1, SpendIs
    <2> QED
      BY <2>1, <2>2 DEF Unbroken
  <1>15. CASE Orphan \/ ExpireOldJob
    BY <1>2, <1>15, AwakeOrphan, AwakeExpire
  <1> QED
    BY <1>4, <1>5, <1>6, <1>7, <1>8, <1>9, <1>10, <1>11, <1>12, <1>13, <1>14, <1>15
       DEF Next, Manager

\* Unless the process crashed, the client stopped, restarted or updated the job or signalled
\* a two-phase job, or the client could not be reached, a state machine that rests before the
\* job is settled has a timer, a script or a reply to come, or waits, in memory or swapped
\* out, for an event that did not get lost on its way: held back while the submit script
\* runs, resumed after it, and queued with the request.
THEOREM SomethingWakes ==
    ASSUME "post" \notin Fails
    PROVE  Spec => [](Unbroken => SomethingWillWake)
  <1>1. BasicInv /\ SoloInv /\ TruthInv /\ ToldInv /\ WakeInv => (Unbroken => SomethingWillWake)
    <2> SUFFICES ASSUME BasicInv, SoloInv, TruthInv, ToldInv, WakeInv, Unbroken
                 PROVE  SomethingWillWake
      OBVIOUS
    <2>1. Told /\ Awake /\ Straight /\ ~loaded
      <3>1. Truth
        BY DEF Unbroken, TruthInv, Faithful, Undisturbed
      <3> QED
        BY <3>1 DEF ToldInv, WakeInv, Unbroken, SoloInv, Truth, Honest
    <2>2. ASSUME mem = "live", run = "idle", ~Settled
          PROVE  \/ r.timer \/ scripts # <<>> \/ posts > 0
                 \/ r.jm = "POLL2" /\ job.mode # "poll" /\ EndDue(r.id)
      <3>1. Rests(r) /\ (r.jm = "POLL2" /\ r.events = <<>> => EndDue(r.id))
        BY <2>1, <2>2, WaitingDue DEF Awake
      <3> QED
        BY <2>2, <3>1 DEF Rests, Settled, EndWaits
    <2>3. ASSUME mem = "stub", ~pending, ~Settled PROVE EndDue(file.id)
      BY <2>1, <2>3 DEF Awake, Follow, Straight, Settled, EndWaits
    <2> QED
      BY <2>2, <2>3 DEF SomethingWillWake
  <1>2. BasicInv /\ SoloInv /\ TruthInv /\ WaitInv /\ ToldInv /\ [Next]_vars => ToldInv'
    BY ToldNext
  <1>3. BasicInv /\ SoloInv /\ TruthInv /\ ToldInv /\ WakeInv /\ [Next]_vars => WakeInv'
    BY AwakeNext
  <1> QED
    BY <1>1, <1>2, <1>3, BasicNext, BasicInit, SoloInit, SoloNext, TruthInit, TruthNext,
       WaitInit, WaitNext, ToldInit, AwakeInit, PTL DEF Spec
=============================================================================
