-------------------------- MODULE GramJobSubmitProofs -----------------------
(***************************************************************************)
(* Proofs about submission: for a client that leaves the job alone, one    *)
(* script at a time is at work for a request, the state file says SUBMIT   *)
(* when a submit script runs, and a condor job is never submitted twice,   *)
(* however often the job manager crashes.                                  *)
(***************************************************************************)
EXTENDS GramJobProofs

\* Where a request may be while a script is at work for it; FAILED after a cancel.
Working == {"STAGE_IN", "SUBMIT", "POLL1", "POLL_QUERY2", "STAGE_OUT", "FAILED"}

\* The end of a request, from the last status on.
Late == CleanStates \cup {"TWO_PHASE_END", "FAILED_TWO_PHASE", "STOP"}
EndWaits == {"TWO_PHASE_END", "FAILED_TWO_PHASE"}

\* One script at a time, and nothing that could run the state machine beside it.
OneScript ==
    /\ scripts # <<>> => /\ Len(scripts) = 1 /\ ~r.timer /\ run = "idle" /\ posts = 0
                         /\ r.jm \in Working
    /\ posts > 0 => r.jm \in Late
\* The intention to submit is in the state file while the script is at work.
Intended ==
    \A i \in 1..Len(scripts) :
        scripts[i].cmd = "submit" => r.jm = "SUBMIT" /\ file # NoFile /\ file.state = "SUBMIT"
\* The states that only a signal before the commit, a stop or a restart leads to.
Straight ==
    /\ r.jm \notin {"TWO_PHASE_QUERY1", "TWO_PHASE_QUERY2"}
    /\ r.jm \in {"START", "TWO_PHASE"} => ~r.jmRestart
    /\ r.jm = "TWO_PHASE" /\ ~job.twoPhase => run # "idle"
    /\ r.jm = "STOP" => r.restart \in EndWaits
    /\ mem = "stub" /\ ~loaded => file.state \in Poll \cup EndWaits

SoloInv ==
    /\ run # "idle" => ~r.timer
    /\ Undisturbed => OneScript /\ Intended /\ Straight

\* Whoever is left alone after a step was left alone before it.
LEMMA UndisturbedBefore ==
    ASSUME BasicInv, [Next]_vars, Undisturbed'
    PROVE  Undisturbed
  BY UsedGrows DEF Undisturbed

LEMMA SoloInit == Init => SoloInv
  <1> SUFFICES ASSUME Init PROVE SoloInv
    OBVIOUS
  <1>1. /\ r.jm = "START" /\ ~r.jmRestart /\ mem = "live" /\ run = "idle" /\ scripts = <<>>
        /\ posts = 0
    BY NewRequestType DEF Init
  <1> QED
    BY <1>1 DEF SoloInv, OneScript, Intended, Straight

\* A step of the loop may start a script s as the last thing it does.
Starts(s) ==
    /\ scripts' = Append(scripts, s) /\ run' = "idle"
    /\ ~r'.timer /\ posts' = posts
    /\ r'.jm \in Working /\ r.jm \notin Late
    /\ s.cmd = "submit" => r'.jm = "SUBMIT" /\ file' # NoFile /\ file'.state = "SUBMIT"

\* What a step of the loop has to show: the loop starts a script only when it stops.
SoloGoal ==
    /\ run' # "idle" => ~r'.timer
    /\ Undisturbed =>
          /\ scripts' = scripts \/ \E s \in ScriptType : Starts(s)
          /\ posts' > 0 => r'.jm \in Late
          /\ r'.jm \notin {"TWO_PHASE_QUERY1", "TWO_PHASE_QUERY2"}
          /\ r'.jm \in {"START", "TWO_PHASE"} => ~r'.jmRestart
          /\ r'.jm = "TWO_PHASE" /\ ~job.twoPhase => run' # "idle"
          /\ r'.jm = "STOP" => r'.restart \in EndWaits
LEMMA SoloStep ==
    ASSUME BasicInv, SoloInv, run # "idle", UNCHANGED <<job, mem, used>>,
           r'.timer \in BOOLEAN, posts' \in Nat, SoloGoal
    PROVE  SoloInv'
  <1> USE DEF SoloGoal
  <1>1. mem = "live" /\ scripts \in Seq(ScriptType) /\ posts \in Nat /\ r.timer \in BOOLEAN
    BY DEF BasicInv, Placed, Types, RequestType
  <1>2. Undisturbed' => Undisturbed
    BY DEF Undisturbed
  <1>3. ASSUME Undisturbed
        PROVE  OneScript' /\ Intended' /\ Straight'
    <2>1. scripts = <<>> /\ (posts > 0 => r.jm \in Late)
      BY <1>3 DEF SoloInv, OneScript
    <2>2. Straight'
      BY <1>1, <1>3 DEF Straight
    <2>3. CASE scripts' = scripts
      BY <1>3, <2>1, <2>2, <2>3 DEF OneScript, Intended
    <2>4. CASE scripts' # scripts
      <3>1. PICK s \in ScriptType : Starts(s)
        BY <1>3, <2>4
      <3>2. Len(scripts') = 1 /\ scripts'[1] = s
        <4>1. Len(scripts) = 0
          BY <2>1
        <4>2. Len(scripts') = Len(scripts) + 1 /\ scripts'[Len(scripts) + 1] = s
          BY <1>1, <3>1, AppendProperties DEF Starts
        <4> QED
          BY <4>1, <4>2
      <3>3. posts' = 0
        BY <1>1, <2>1, <3>1 DEF Starts
      <3>4. OneScript'
        BY <3>1, <3>2, <3>3 DEF OneScript, Starts
      <3>5. Intended'
        BY <3>1, <3>2 DEF Intended, Starts
      <3> QED
        BY <2>2, <3>4, <3>5
    <2> QED
      BY <2>3, <2>4
  <1> QED
    BY <1>2, <1>3 DEF SoloInv

\* The steps of the state machine that start no script.
LEMMA SoloQuietSteps ==
    ASSUME BasicInv, SoloInv, Step, ~StepDone,
           ~(StepTwoPhaseCommitted \/ StepSubmitting \/ StepPoll2 \/ StepQuery1 \/ StepCloseOutput)
    PROVE  SoloGoal
  <1> USE DEF place, mgr, env, ghosts, At, SoloGoal
  <1>0. /\ run # "idle" /\ ~r.timer /\ r \in RequestType /\ posts \in Nat /\ job \in Jobs
        /\ job.twoPhase \in BOOLEAN
        /\ Undisturbed => (posts > 0 => r.jm \in Late) /\ Straight
    <2>1. run # "idle"
      BY DEF Step, StepStart, StepTwoPhase, StepRestart, StepTwoPhaseCommitted,
         StepStageInFailed, StepSubmitting, StepSubmit, StepPoll1, StepPoll2, StepQuery1,
         StepQuery2, StepClosing, StepCloseOutput, StepFinalStatus, StepTwoPhaseEnd,
         StepCleanUp, StepCacheCleanUp, StepStop, StepDone
    <2> QED
      BY <2>1, JobBooleans DEF BasicInv, Types, SoloInv, OneScript
  <1>1. CASE StepStart
    BY <1>0, <1>1 DEF StepStart, Return, RequestType, Straight, Late, CleanStates
  <1>2. CASE StepTwoPhase
    <2>1. scripts' = scripts /\ posts' = posts
      BY <1>2 DEF StepTwoPhase
    <2>2. CASE job.twoPhase /\ r.extend
      BY <1>0, <1>2, <2>1, <2>2 DEF StepTwoPhase, Return, RequestType, Straight, Late, CleanStates
    <2>3. CASE ~job.twoPhase
      BY <1>0, <1>2, <2>1, <2>3 DEF StepTwoPhase, Return, RequestType, Straight, Late, CleanStates
    <2>4. CASE job.twoPhase /\ ~r.extend
      <3>1. r' = TimedOut /\ run' = "loop" /\ r.jm = "TWO_PHASE"
        BY <1>2, <2>4 DEF StepTwoPhase, Return
      <3>2. ~r'.timer /\ (~r.jmRestart => r'.jm = "FAILED")
        BY <1>0, <3>1 DEF TimedOut, RequestType
      <3> QED
        BY <1>0, <2>1, <3>1, <3>2 DEF Straight, Late, CleanStates
    <2> QED
      BY <2>2, <2>3, <2>4
  <1>3. CASE StepRestart
    <2>1. /\ r' = RestartState /\ r.jm = "TWO_PHASE_COMMITTED" /\ r \in RequestType
          /\ UNCHANGED <<scripts, posts, run>> /\ lrm \in Seq(LrmStates)
      BY <1>3 DEF StepRestart, BasicInv, Types
    <2>2. r'.jm \in {"SUBMIT", "POLL1", "TWO_PHASE_COMMITTED"} /\ r'.timer = r.timer
      BY <2>1, RestartKeeps
    <2> QED
      BY <1>0, <2>1, <2>2 DEF Late, CleanStates
  <1>4. CASE StepStageInFailed
    <2>1. r'.jm = "FAILED" /\ r'.timer = r.timer
      BY <1>0, <1>4 DEF StepStageInFailed, RequestType
    <2> QED
      BY <1>0, <1>4, <2>1 DEF StepStageInFailed, Late, CleanStates
  <1>5. CASE StepSubmit
    <2> DEFINE q == IF r.id = NoId
             THEN [r EXCEPT !.status = "FAILED", !.unsent = TRUE,
                            !.failure = IF @ = "none" THEN "SUBMIT" ELSE @]
             ELSE r
    <2>1. r' = [q EXCEPT !.jm = "POLL1", !.restart = "POLL1"] /\ UNCHANGED <<scripts, posts>>
          /\ r.jm = "SUBMIT"
      BY <1>5 DEF StepSubmit
    <2>2. q.timer = r.timer /\ DOMAIN q = DOMAIN r /\ "jm" \in DOMAIN r
      BY <1>0 DEF RequestType
    <2> HIDE DEF q
    <2>3. r'.jm = "POLL1" /\ r'.timer = r.timer
      BY <2>1, <2>2
    <2> QED
      BY <1>0, <2>1, <2>3 DEF Late, CleanStates
  <1>6. CASE StepPoll1
    <2>1. Types /\ UNCHANGED <<scripts, posts>> /\ r.jm = "POLL1"
      BY <1>6 DEF StepPoll1, BasicInv
    <2>2. PICK q \in RequestType, w \in RequestType,
               j \in {"FAILED", "PRE_CLOSE_OUTPUT", "POLL_QUERY1", "POLL1", "POLL2"},
               u \in BOOLEAN, t \in BOOLEAN :
             /\ r.events = <<>> => q = r
             /\ r.events # <<>> => q = Handled(r)
             /\ w = q \/ w = [q EXCEPT !.restart = "POLL1"]
             /\ file' = file \/ (file' = Written(w) /\ w = [q EXCEPT !.restart = "POLL1"])
             /\ r' = [w EXCEPT !.jm = j, !.unsent = u, !.timer = t]
             /\ told' = told \/ (Notify(w) /\ w.status \notin {"FAILED", "DONE", "STAGE_OUT"})
             /\ run' \in {"idle", "loop"}
             /\ j = "FAILED" => w.status = "FAILED"
             /\ j = "PRE_CLOSE_OUTPUT" => w.status \in {"DONE", "STAGE_OUT"}
             /\ j = "POLL_QUERY1" => w.queries # <<>> /\ run' = "loop"
             /\ t => w.timer \/ (run' = "idle" /\ j = "POLL2")
      BY <1>6, <2>1, Poll1Is
    <2>3. q.timer = r.timer
      BY <1>0, <2>2, HandledKeeps DEF Keeps
    <2>4. w.timer = r.timer
      BY <2>2, <2>3 DEF RequestType
    <2>5. r'.jm = j /\ r'.timer = t
      BY <2>2 DEF RequestType
    <2> QED
      BY <1>0, <2>1, <2>2, <2>4, <2>5 DEF Late, CleanStates
  <1>7. CASE StepQuery2
    <2> DEFINE q == [r EXCEPT !.queries = Tail(@)]
    <2>1. r.jm \in {"POLL_QUERY2", "TWO_PHASE_QUERY2"} /\ UNCHANGED <<scripts, posts>>
      BY <1>7 DEF StepQuery2
    <2>2. q.timer = r.timer /\ DOMAIN q = DOMAIN r /\ "jm" \in DOMAIN r /\ "timer" \in DOMAIN r
      BY <1>0 DEF RequestType
    <2>3. CASE r.jm = "TWO_PHASE_QUERY2"
      <3>1. \E j, b : r' = [q EXCEPT !.jm = j, !.timer = b] /\ run' = IF b THEN "idle" ELSE "loop"
        BY <1>7, <2>3 DEF StepQuery2, Return
      <3> HIDE DEF q
      <3> QED
        BY <1>0, <2>1, <2>2, <2>3, <3>1 DEF Straight
    <2>4. CASE r.jm # "TWO_PHASE_QUERY2"
      <3>1. \E j \in {"POLL_QUERY1", "POLL1", "POLL2"} : r' = [q EXCEPT !.jm = j]
        BY <1>7, <2>4 DEF StepQuery2
      <3> HIDE DEF q
      <3>2. r'.jm \in {"POLL_QUERY1", "POLL1", "POLL2"} /\ r'.timer = r.timer
        BY <2>2, <3>1
      <3> QED
        BY <1>0, <2>1, <3>2 DEF Late, CleanStates
    <2> QED
      BY <2>3, <2>4
  <1>8. CASE StepClosing
    <2> DEFINE w == IF r.unsent THEN [r EXCEPT !.restart = r.jm] ELSE r
               u == w.unsent /\ ~(r.unsent /\ r.status = "STAGE_OUT")
    <2>1. w \in RequestType /\ w.timer = r.timer
      BY <1>0 DEF RequestType
    <2>2. r' = [w EXCEPT !.unsent = u, !.queries = <<>>,
                         !.jm = IF w.jm = "FAILED" THEN "FAILED_CLOSE_OUTPUT" ELSE "CLOSE_OUTPUT"]
          /\ UNCHANGED <<scripts, posts>> /\ r.jm \in {"PRE_CLOSE_OUTPUT", "FAILED"}
      BY <1>8 DEF StepClosing
    <2> HIDE DEF w, u
    <2>3. r'.jm \in {"FAILED_CLOSE_OUTPUT", "CLOSE_OUTPUT"} /\ r'.timer = r.timer
      BY <2>1, <2>2 DEF RequestType
    <2> QED
      BY <1>0, <2>2, <2>3 DEF Late, CleanStates
  <1>9. CASE StepFinalStatus
    <2>1. told \in Statuses \cup {"none"} /\ UNCHANGED scripts
      BY <1>9 DEF BasicInv, Types, StepFinalStatus
    <2>2. PICK s \in {"FAILED", "DONE"}, f \in Failures, t \in BOOLEAN :
             LET j == IF s = "FAILED" THEN "FAILED_TWO_PHASE" ELSE "TWO_PHASE_END" IN
             /\ r' = [r EXCEPT !.unsent = FALSE, !.jm = j, !.status = s, !.failure = f,
                               !.timer = t]
             /\ t => r.timer \/ (run' = "idle" /\ posts' = posts)
      BY <1>0, <1>9, <2>1, FinalStatusIs
    <2>3. r'.jm \in EndWaits /\ r'.timer = t
      BY <1>0, <2>2 DEF RequestType, EndWaits
    <2> QED
      BY <1>0, <2>1, <2>2, <2>3 DEF Late, EndWaits
  <1>10. CASE StepTwoPhaseEnd
    <2>1. \/ r' = [r EXCEPT !.extend = FALSE, !.timer = TRUE] /\ run' = "idle"
          \/ r' = [r EXCEPT !.jm = IF @ = "TWO_PHASE_END" THEN "TWO_PHASE_END_COMMITTED"
                                        ELSE "FAILED_TWO_PHASE_COMMITTED"]
          \/ r' = [r EXCEPT !.restart = r.jm, !.jm = "STOP", !.overdue = TRUE]
      BY <1>10, Zenon DEF StepTwoPhaseEnd
    <2>2. r.jm \in EndWaits /\ UNCHANGED <<scripts, posts>>
      BY <1>10 DEF StepTwoPhaseEnd, EndWaits
    <2> QED
      BY <1>0, <2>1, <2>2 DEF Late, EndWaits, CleanStates, RequestType
  <1>11. CASE StepCleanUp
    <2> DEFINE j == IF r.jm = "FILE_CLEAN_UP" /\ r.status = "FAILED"
                    THEN "FAILED_SCRATCH_CLEAN_UP" ELSE CleanUp[r.jm]
    <2>1. r' = [r EXCEPT !.jm = j] /\ r.jm \in DOMAIN CleanUp /\ UNCHANGED <<scripts, posts>>
      BY <1>11 DEF StepCleanUp
    <2>2. j \in CleanStates
      BY <2>1, CleanUpIs DEF CleanStates
    <2> HIDE DEF j
    <2>3. r'.jm \in CleanStates /\ r'.timer = r.timer
      BY <1>0, <2>1, <2>2 DEF RequestType
    <2> QED
      BY <1>0, <2>1, <2>3 DEF Late, CleanStates
  <1>12. CASE StepCacheCleanUp
    <2>1. r'.jm \in {"DONE", "FAILED_DONE"} /\ r'.timer = r.timer
      BY <1>0, <1>12 DEF StepCacheCleanUp, RequestType
    <2> QED
      BY <1>0, <1>12, <2>1 DEF StepCacheCleanUp, Late, CleanStates
  <1>13. CASE StepStop
    BY <1>0, <1>13 DEF StepStop, Straight
  <1> QED
    BY <1>1, <1>2, <1>3, <1>4, <1>5, <1>6, <1>7, <1>8, <1>9, <1>10, <1>11, <1>12, <1>13
       DEF Step

\* The steps that start a script.
LEMMA SoloScriptSteps ==
    ASSUME BasicInv, SoloInv,
           StepTwoPhaseCommitted \/ StepSubmitting \/ StepPoll2 \/ StepQuery1 \/ StepCloseOutput
    PROVE  SoloGoal
  <1> USE DEF place, mgr, env, ghosts, At
  <1>0. /\ run # "idle" /\ ~r.timer /\ r \in RequestType /\ posts \in Nat /\ job \in Jobs
        /\ FitRequest(r) /\ job.stageIn \in BOOLEAN /\ lrm \in Seq(LrmStates)
        /\ Undisturbed => (posts > 0 => r.jm \in Late) /\ Straight
    <2>1. run # "idle"
      BY DEF StepTwoPhaseCommitted, StepSubmitting, StepPoll2, StepQuery1, StepCloseOutput
    <2> QED
      BY <2>1, JobBooleans DEF BasicInv, Types, Known, FitRequest, SoloInv, OneScript
  <1>1. ASSUME posts' = posts, r.jm \notin Late, r'.jm \in Working, ~r'.timer,
               \/ scripts' = scripts
               \/ /\ run' = "idle"
                  /\ \E c \in Cmds : \E q : /\ FitRequest(q) /\ RunScript(c, q)
                                            /\ c = "submit" => r'.jm = "SUBMIT" /\ file' # NoFile
                                                               /\ file'.state = "SUBMIT"
        PROVE  SoloGoal
    <2>1. scripts' = scripts \/ \E s \in ScriptType : Starts(s)
      <3>1. CASE scripts' # scripts
        <4>0. PICK c \in Cmds : \E q : /\ FitRequest(q) /\ RunScript(c, q)
                                       /\ c = "submit" => r'.jm = "SUBMIT" /\ file' # NoFile
                                                          /\ file'.state = "SUBMIT"
          BY <1>1, <3>1
        <4>1. PICK q : /\ FitRequest(q) /\ RunScript(c, q)
                       /\ c = "submit" => r'.jm = "SUBMIT" /\ file' # NoFile
                                          /\ file'.state = "SUBMIT"
          BY <4>0
        <4> DEFINE s == Script(c, q)
        <4>2. s \in ScriptType /\ s.cmd = c /\ scripts' = Append(scripts, s)
          BY <4>1, ScriptIs DEF RunScript
        <4> HIDE DEF s
        <4>3. Starts(s)
          BY <1>1, <3>1, <4>1, <4>2 DEF Starts
        <4> QED
          BY <4>2, <4>3
      <3> QED
        BY <3>1
    <2>2. Undisturbed => posts' = 0
      BY <1>0, <1>1
    <2> QED
      BY <1>1, <2>1, <2>2 DEF SoloGoal, Working
  <1>2. CASE StepTwoPhaseCommitted
    <2> DEFINE q == IF r.jmRestart THEN RestartState ELSE r
    <2>1. q \in RequestType /\ FitRequest(q) /\ q.timer = r.timer
      BY <1>0, RestartKeeps, LenProperties DEF FitRequest, CondorRecovers
    <2>2. /\ r' = IF job.stageIn THEN [q EXCEPT !.jm = "STAGE_IN", !.status = "STAGE_IN"]
                                  ELSE [q EXCEPT !.jm = "STAGE_IN"]
          /\ IF job.stageIn THEN RunScript("stage_in", r') /\ run' = "idle" ELSE scripts' = scripts
          /\ posts' = posts /\ r.jm = "TWO_PHASE_COMMITTED"
      BY <1>2 DEF StepTwoPhaseCommitted, Return
    <2> HIDE DEF q
    <2>3. FitRequest(r') /\ r'.jm = "STAGE_IN" /\ ~r'.timer
      BY <1>0, <2>1, <2>2, Names DEF FitRequest, RequestType
    <2> QED
      BY <1>0, <1>1, <2>2, <2>3 DEF Cmds, Working, Late, CleanStates
  <1>3. CASE StepSubmitting
    <2> DEFINE q == [r EXCEPT !.jm = "SUBMIT", !.restart = "SUBMIT"]
    <2>1. FitRequest(q) /\ q.jm = "SUBMIT" /\ q.timer = r.timer
      BY <1>0, Names DEF FitRequest, RequestType
    <2>2. /\ r' = [q EXCEPT !.seen = 0] /\ file' = Written(q) /\ RunScript("submit", q)
          /\ run' = "idle" /\ posts' = posts /\ r.jm = "STAGE_IN"
      BY <1>3 DEF StepSubmitting
    <2> HIDE DEF q
    <2>3. r'.jm = "SUBMIT" /\ ~r'.timer /\ file' # NoFile /\ file'.state = "SUBMIT"
      BY <1>0, <2>1, <2>2, WrittenType DEF FitRequest, RequestType
    <2>4. "submit" \in Cmds /\ r'.jm \in Working /\ r.jm \notin Late
      BY <2>2, <2>3 DEF Cmds, Working, Late, CleanStates
    <2> QED
      BY <1>1, <2>1, <2>2, <2>3, <2>4
  <1>4. CASE StepPoll2
    <2>1. /\ \/ r' = [r EXCEPT !.jm = "POLL1"] /\ RunScript("poll", r') /\ run' = "idle"
             \/ /\ r' = [r EXCEPT !.jm = IF r.events # <<>> THEN "POLL1" ELSE "POLL2"]
                /\ scripts' = scripts
          /\ posts' = posts /\ r.jm = "POLL2"
      BY <1>4 DEF StepPoll2
    <2>2. CASE r' = [r EXCEPT !.jm = "POLL1"] /\ RunScript("poll", r') /\ run' = "idle"
      <3>1. FitRequest(r') /\ r'.jm = "POLL1" /\ ~r'.timer
        BY <1>0, <2>2, Names DEF FitRequest, RequestType
      <3> QED
        BY <1>1, <2>1, <2>2, <3>1 DEF Cmds, Working, Late, CleanStates
    <2>3. CASE /\ r' = [r EXCEPT !.jm = IF r.events # <<>> THEN "POLL1" ELSE "POLL2"]
               /\ scripts' = scripts
      <3>1. r'.jm \in {"POLL1", "POLL2"} /\ ~r'.timer
        BY <1>0, <2>3 DEF RequestType
      <3> QED
        BY <1>0, <2>1, <2>3, <3>1 DEF SoloGoal, Late, CleanStates
    <2> QED
      BY <2>1, <2>2, <2>3
  <1>5. CASE StepQuery1
    <2>1. /\ r.jm \in {"POLL_QUERY1", "TWO_PHASE_QUERY1"} /\ posts' = posts /\ run' = "idle"
          /\ RunScript(Head(r.queries), r)
          /\ r' = [r EXCEPT !.jm = IF r.jm = "POLL_QUERY1" THEN "POLL_QUERY2" ELSE "TWO_PHASE_QUERY2"]
      BY <1>5 DEF StepQuery1
    <2>2. Head(r.queries) \in {"cancel", "signal"}
      <3>1. r.queries # <<>>
        BY <1>0, <2>1 DEF BasicInv, Queries
      <3> QED
        BY <1>0, <3>1, HeadTailProperties DEF RequestType, QueryQueue
    <2>3. CASE r.jm = "POLL_QUERY1"
      <3>1. r'.jm = "POLL_QUERY2" /\ ~r'.timer
        BY <1>0, <2>1, <2>3 DEF RequestType
      <3>2. r'.jm \in Working /\ r.jm \notin Late /\ Head(r.queries) \in Cmds
            /\ Head(r.queries) # "submit"
        BY <2>2, <2>3, <3>1 DEF Working, Late, CleanStates, Cmds
      <3> QED
        BY <1>0, <1>1, <2>1, <3>1, <3>2
    <2>4. CASE r.jm = "TWO_PHASE_QUERY1"
      BY <1>0, <2>1, <2>4 DEF SoloGoal, Straight
    <2> QED
      BY <2>1, <2>3, <2>4
  <1>6. CASE StepCloseOutput
    <2>1. posts' = posts /\ r.jm = "CLOSE_OUTPUT"
      BY <1>6 DEF StepCloseOutput
    <2>2. CASE r.status = "FAILED" /\ r.failure = "STAGE_OUT_FAILED"
      <3>1. r' = [r EXCEPT !.jm = "FAILED_CLOSE_OUTPUT"] /\ scripts' = scripts
        BY <1>6, <2>2 DEF StepCloseOutput
      <3>2. r'.jm = "FAILED_CLOSE_OUTPUT" /\ ~r'.timer
        BY <1>0, <3>1 DEF RequestType
      <3> QED
        BY <1>0, <2>1, <3>1, <3>2 DEF SoloGoal, Late, CleanStates
    <2>3. CASE ~(r.status = "FAILED" /\ r.failure = "STAGE_OUT_FAILED")
      <3>1. /\ r' = [r EXCEPT !.jm = "STAGE_OUT", !.unsent = TRUE]
            /\ IF r.todoOut THEN RunScript("stage_out", r') ELSE scripts' = scripts
            /\ run' = IF r.todoOut THEN "idle" ELSE "loop"
        BY <1>6, <2>3 DEF StepCloseOutput, Return
      <3>2. FitRequest(r') /\ r'.jm = "STAGE_OUT" /\ ~r'.timer
        BY <1>0, <3>1, Names DEF FitRequest, RequestType
      <3>3. r'.jm \in Working /\ r.jm \notin Late /\ "stage_out" \in Cmds
        BY <2>1, <3>2 DEF Working, Late, CleanStates, Cmds
      <3> QED
        BY <1>1, <2>1, <3>1, <3>2, <3>3
    <2> QED
      BY <2>2, <2>3
  <1> QED
    BY <1>2, <1>3, <1>4, <1>5, <1>6

\* The end of the state machine: the request is freed, or only its file goes.
LEMMA SoloDone ==
    ASSUME BasicInv, SoloInv, StepDone
    PROVE  SoloInv'
  <1> USE DEF place, mgr, env, ghosts, At
  <1>0. /\ run # "idle" /\ r \in RequestType /\ posts \in Nat /\ r.jm \in Final /\ job \in Jobs
        /\ run' = "idle" /\ UNCHANGED <<job, scripts, posts, used>> /\ mem = "live"
        /\ \/ r' = [r EXCEPT !.queries = <<>>, !.events = <<>>, !.restart = r.jm] /\ mem' = mem
           \/ r' = NewRequest /\ mem' = "gone" /\ ~(posts > 0)
    BY DEF StepDone, BasicInv, Types, Placed
  <1>1. Undisturbed' => Undisturbed
    BY <1>0 DEF Undisturbed
  <1>2. CASE Undisturbed
    <2>1. scripts' = <<>>
      BY <1>0, <1>2 DEF SoloInv, OneScript
    <2>2. r'.jm \in Final \/ (r'.jm = "START" /\ ~r'.jmRestart /\ posts' = 0)
      <3>1. CASE r' = [r EXCEPT !.queries = <<>>, !.events = <<>>, !.restart = r.jm]
        BY <1>0, <3>1 DEF RequestType
      <3>2. CASE r' = NewRequest /\ ~(posts > 0)
        BY <1>0, <3>2, NewRequestType
      <3> QED
        BY <1>0, <3>1, <3>2
    <2> QED
      BY <1>0, <2>1, <2>2 DEF SoloInv, OneScript, Intended, Straight, Final, Late, CleanStates
  <1> QED
    BY <1>0, <1>1, <1>2 DEF SoloInv

LEMMA SoloSteps ==
    ASSUME BasicInv, SoloInv, Step
    PROVE  SoloInv'
  <1>1. BasicInv'
    BY BasicStep
  <1>2. r'.timer \in BOOLEAN /\ posts' \in Nat
    BY <1>1 DEF BasicInv, Types, RequestType
  <1>3. CASE StepDone
    BY <1>3, SoloDone
  <1>4. CASE ~StepDone
    <2>1. SoloGoal
      BY <1>4, SoloQuietSteps, SoloScriptSteps
    <2>2. run # "idle" /\ UNCHANGED <<job, mem, used>>
      BY <1>4 DEF Step, At, place, StepStart, StepTwoPhase, StepRestart, StepTwoPhaseCommitted,
         StepStageInFailed, StepSubmitting, StepSubmit, StepPoll1, StepPoll2, StepQuery1,
         StepQuery2, StepClosing, StepCloseOutput, StepFinalStatus, StepTwoPhaseEnd,
         StepCleanUp, StepCacheCleanUp, StepStop
    <2> QED
      BY <1>2, <2>1, <2>2, SoloStep
  <1> QED
    BY <1>3, <1>4

\* What a request in memory must satisfy beside the scripts and replies it waits for.
Alone(q) ==
    /\ scripts # <<>> => ~q.timer /\ q.jm \in Working
    /\ \A i \in 1..Len(scripts) : scripts[i].cmd = "submit" => q.jm = "SUBMIT"
    /\ posts > 0 => q.jm \in Late
    /\ q.jm \notin {"TWO_PHASE_QUERY1", "TWO_PHASE_QUERY2"}
    /\ q.jm \in {"START", "TWO_PHASE"} => ~q.jmRestart
    /\ q.jm = "TWO_PHASE" => job.twoPhase
    /\ q.jm = "STOP" => q.restart \in EndWaits

LEMMA AloneReferenced ==
    ASSUME BasicInv, SoloInv, Undisturbed, TakeReference
    PROVE  Alone(Referenced)
  <1>1. FitRequest(Referenced) /\ mem \in {"live", "stub"} /\ run = "idle"
    BY ReferencedIs
  <1>2. CASE mem = "live"
    BY <1>1, <1>2, ReferencedIs DEF SoloInv, OneScript, Intended, Straight, Alone
  <1>3. CASE mem = "stub"
    <2>1. /\ scripts = <<>> /\ posts = 0 /\ Referenced = Reloaded /\ file \in FileType
          /\ job \in Jobs /\ pending \in BOOLEAN /\ loaded \in BOOLEAN
      BY <1>3, ReferencedIs DEF BasicInv, Placed, Types
    <2>2. Reloaded.jm \in {"POLL2", "TWO_PHASE_COMMITTED"} \cup EndWaits
      <3>1. Reloaded.jm = IF file.state \in Poll THEN "POLL2"
                          ELSE IF loaded THEN "TWO_PHASE_COMMITTED" ELSE file.state
        BY <2>1, ReloadedType
      <3>2. ~loaded => file.state \in Poll \cup EndWaits
        BY <1>3 DEF SoloInv, Straight
      <3> QED
        BY <3>1, <3>2
    <2> QED
      BY <2>1, <2>2 DEF Alone, EndWaits
  <1> QED
    BY <1>1, <1>2, <1>3

\* A reference is taken, and the request becomes q.
LEMMA SoloReference ==
    ASSUME BasicInv, SoloInv, TakeReference, UNCHANGED <<job, run, scripts, posts, file>>,
           Undisturbed' => Undisturbed /\ Alone(r')
    PROVE  SoloInv'
  <1>1. run = "idle" /\ run' = "idle" /\ mem' = "live"
    BY DEF TakeReference
  <1>2. ASSUME Undisturbed' PROVE OneScript' /\ Intended' /\ Straight'
    <2>1. Undisturbed /\ OneScript /\ Intended /\ Alone(r')
      BY <1>2 DEF SoloInv
    <2>2. scripts' = <<>> \/ posts = 0
      BY <2>1 DEF OneScript
    <2>3. OneScript' /\ Straight'
      BY <1>1, <2>1, <2>2 DEF OneScript, Straight, Alone
    <2>4. Intended'
      BY <2>1 DEF Intended, Alone
    <2> QED
      BY <2>3, <2>4
  <1> QED
    BY <1>1, <1>2 DEF SoloInv

LEMMA SoloDelivered ==
    ASSUME BasicInv, SoloInv, TakeReference, NEW es \in Seq(EventType),
           r' = Delivered(Referenced, es), UNCHANGED <<job, run, scripts, posts, file, used>>
    PROVE  SoloInv'
  <1> DEFINE q == Referenced
             d == Delivered(q, es)
  <1>1. q \in RequestType
    BY ReferencedIs DEF FitRequest
  <1>2. /\ d.jm = q.jm \/ (q.jm = "POLL2" /\ d.jm = "POLL1" /\ d.timer)
        /\ d.timer => q.timer \/ q.jm = "POLL2"
        /\ d.restart = q.restart /\ d.jmRestart = q.jmRestart
    BY <1>1, DeliveredKeeps
  <1>3. ASSUME Undisturbed' PROVE Undisturbed /\ Alone(r')
    <2>1. Undisturbed
      BY <1>3 DEF Undisturbed
    <2>2. Alone(q)
      BY <2>1, AloneReferenced
    <2> HIDE DEF q, d
    <2>3. Alone(d)
      BY <1>2, <2>2 DEF Alone, Working, Late, CleanStates
    <2> QED
      BY <2>1, <2>3 DEF d, q
  <1> QED
    BY <1>3, SoloReference

\* Nothing that the invariant is about.
LEMMA SoloSame ==
    ASSUME SoloInv, UNCHANGED <<job, mem, loaded, r, run, file, scripts, posts, used>>
    PROVE  SoloInv'
  BY DEF SoloInv, OneScript, Intended, Straight, Undisturbed

LEMMA SoloEvents ==
    ASSUME BasicInv, SoloInv,
           TimerFires \/ CallbackReply \/ SegResume \/ ProcessPendingRestart
           \/ Events \/ Scripts \/ Orphan \/ Lrm \/ SwapOut \/ ExpireOldJob
    PROVE  SoloInv'
  <1> USE DEF place, mgr, env, ghosts
  <1>0. /\ r \in RequestType /\ posts \in Nat /\ job \in Jobs /\ scripts \in Seq(ScriptType)
        /\ DOMAIN scripts = 1..Len(scripts) /\ Len(scripts) \in Nat
        /\ \A i \in 1..Len(scripts) : scripts[i] \in ScriptType /\ ScriptKnown(scripts[i])
    <2>1. scripts \in Seq(ScriptType)
      BY DEF BasicInv, Types
    <2>2. /\ DOMAIN scripts = 1..Len(scripts) /\ Len(scripts) \in Nat
          /\ \A i \in 1..Len(scripts) : scripts[i] \in ScriptType
      BY <2>1, LenProperties, ElementOfSeq
    <2> QED
      BY <2>1, <2>2 DEF BasicInv, Types, Known
  <1>1. CASE TimerFires
    <2>1. /\ r.timer /\ ~r'.timer /\ r'.jm = r.jm /\ r'.jmRestart = r.jmRestart
          /\ r'.restart = r.restart /\ run' = "loop" /\ mem = "live"
          /\ UNCHANGED <<job, place, file, scripts, posts, used>>
      BY <1>0, <1>1 DEF TimerFires, RequestType
    <2> QED
      BY <2>1 DEF SoloInv, OneScript, Intended, Straight, Undisturbed
  <1>2. CASE CallbackReply
    <2>1. /\ posts > 0 /\ posts' = posts - 1 /\ r'.jm = r.jm /\ r'.jmRestart = r.jmRestart
          /\ r'.restart = r.restart /\ run = "idle"
          /\ UNCHANGED <<job, place, run, file, scripts, used>>
      BY <1>0, <1>2 DEF CallbackReply, RequestType
    <2> QED
      BY <1>0, <2>1 DEF SoloInv, OneScript, Intended, Straight, Undisturbed
  <1>3. CASE ProcessPendingRestart
    <2>1. TakeReference /\ r' = Referenced /\ UNCHANGED <<job, run, scripts, posts, file, used>>
      BY <1>3 DEF ProcessPendingRestart
    <2>2. Undisturbed' => Undisturbed
      BY <2>1 DEF Undisturbed
    <2> QED
      BY <2>1, <2>2, AloneReferenced, SoloReference
  <1>4. CASE SegResume
    <2>0. resumed \in Seq(EventType)
      BY DEF BasicInv, Types
    <2>1. PICK es \in Seq(EventType) :
             /\ \/ TakeReference /\ r' = Delivered(Referenced, es)
                \/ UNCHANGED <<mem, loaded, pending, r, pause, idHash>>
             /\ UNCHANGED <<job, run, file, scripts, posts, held, env, ghosts, used>>
      BY <1>4, <2>0, SegResumeIs
    <2>2. CASE TakeReference /\ r' = Delivered(Referenced, es)
      BY <2>1, <2>2, SoloDelivered
    <2>3. CASE UNCHANGED <<mem, loaded, pending, r, pause, idHash>>
      BY <2>1, <2>3, SoloSame
    <2> QED
      BY <2>1, <2>2, <2>3
  <1>5. ASSUME NEW i \in DOMAIN lrm, SegEvent(i)
        PROVE  SoloInv'
    <2> DEFINE e == [id |-> i, state |-> LogOf(i)[pos[i] + 1]]
    <2>1. /\ UNCHANGED <<job, run, file, scripts, posts, resumed, lrm, ghosts, used>>
          /\ \/ TakeReference /\ r' = Delivered(Referenced, <<e>>)
             \/ UNCHANGED <<mem, loaded, pending, r, pause, idHash>>
      BY <1>5 DEF SegEvent
    <2>2. CASE TakeReference /\ r' = Delivered(Referenced, <<e>>)
      <3>1. lrm \in Seq(LrmStates) /\ pos \in Seq(Nat) /\ Len(pos) = Len(lrm)
        BY DEF BasicInv, Types
      <3>2. i \in 1..Len(lrm) /\ i \in Nat /\ pos[i] \in Nat /\ pos[i] < Len(LogOf(i))
        BY <1>5, <3>1, LenProperties, ElementOfSeq DEF SegEvent
      <3>3. e \in EventType
        BY <3>1, <3>2, LogEntry DEF EventType
      <3> HIDE DEF e
      <3>4. <<e>> \in Seq(EventType)
        BY <3>3
      <3> QED
        BY <2>1, <2>2, <3>4, SoloDelivered
    <2>3. CASE UNCHANGED <<mem, loaded, pending, r, pause, idHash>>
      BY <2>1, <2>3, SoloSame
    <2> QED
      BY <2>1, <2>2, <2>3
  <1>6. ASSUME NEW i \in DOMAIN scripts, ScriptDone(i)
        PROVE  SoloInv'
    <2> DEFINE q == Applied(r, scripts[i])
    <2>1. /\ r' = [q EXCEPT !.timer = TRUE] /\ scripts' = Without(scripts, i)
          /\ scripts[i].res # "none" /\ run = "idle"
          /\ UNCHANGED <<job, place, run, posts, used>>
      BY <1>6 DEF ScriptDone
    <2>2. q \in RequestType /\ Keeps(q, r)
      BY <1>0, <2>1, AppliedKeeps
    <2> HIDE DEF q
    <2>3. r'.jm = r.jm /\ r'.restart = r.restart /\ r'.jmRestart = r.jmRestart
      BY <2>1, <2>2 DEF Keeps, RequestType
    <2>4. mem = "live"
      BY <1>0, <1>6, EmptySeq DEF BasicInv, Placed, Types
    <2>5. ASSUME Undisturbed PROVE scripts' = <<>> /\ OneScript /\ Straight
      <3>1. OneScript /\ Straight /\ scripts # <<>>
        BY <1>0, <1>6, <2>5, EmptySeq DEF SoloInv
      <3>2. i \in 1..Len(scripts) /\ Len(scripts) = 1
        <4>1. i \in 1..Len(scripts)
          BY <1>0, <1>6
        <4> QED
          BY <3>1, <4>1 DEF OneScript
      <3>3. Without(scripts, i) \in Seq(ScriptType) /\ Len(Without(scripts, i)) = Len(scripts) - 1
        BY <1>0, <3>2, WithoutKeeps
      <3>4. scripts' \in Seq(ScriptType) /\ Len(scripts') = 0
        BY <2>1, <3>2, <3>3
      <3> QED
        BY <3>1, <3>4, EmptySeq
    <2>6. Undisturbed' => Undisturbed
      BY <2>1 DEF Undisturbed
    <2>7. ASSUME Undisturbed PROVE OneScript' /\ Intended' /\ Straight'
      <3>1. scripts' = <<>> /\ OneScript /\ Straight
        BY <2>5, <2>7
      <3> QED
        BY <2>1, <2>3, <2>4, <3>1 DEF OneScript, Intended, Straight
    <2> QED
      BY <2>1, <2>6, <2>7 DEF SoloInv
  <1>7. ASSUME NEW i \in DOMAIN scripts, ScriptRuns(i)
        PROVE  SoloInv'
    <2>1. \E a, b : scripts' = [scripts EXCEPT ![i].id = a, ![i].res = b]
      BY <1>7 DEF ScriptRuns
    <2>2. /\ DOMAIN scripts' = DOMAIN scripts
          /\ \A k \in DOMAIN scripts : scripts'[k].cmd = scripts[k].cmd
      BY <1>0, <2>1 DEF ScriptType
    <2>3. Len(scripts') = Len(scripts) /\ scripts # <<>>
      <3>1. BasicInv'
        BY <1>7, BasicScriptRuns
      <3>2. scripts' \in Seq(ScriptType)
        BY <3>1 DEF BasicInv, Types
      <3> QED
        BY <1>0, <1>7, <2>2, <3>2, LenProperties, EmptySeq
    <2>4. UNCHANGED <<job, place, r, run, file, posts, used>>
      BY <1>7 DEF ScriptRuns
    <2>5. Undisturbed' = Undisturbed /\ (Straight' <=> Straight)
      BY <2>4 DEF Undisturbed, Straight
    <2>6. OneScript => OneScript'
      BY <2>3, <2>4 DEF OneScript
    <2>7. Intended => Intended'
      BY <1>0, <2>2, <2>3, <2>4 DEF Intended
    <2> QED
      BY <2>4, <2>5, <2>6, <2>7 DEF SoloInv
  <1>8. ASSUME NEW i \in DOMAIN lrm, LrmProgress(i)
        PROVE  SoloInv'
    BY <1>8, SoloSame DEF LrmProgress
  <1>9. CASE SwapOut
    <2>1. /\ run = "idle" /\ scripts = <<>> /\ ~(posts > 0) /\ file' = Written(r)
          /\ loaded' = FALSE /\ r' = NewRequest /\ mem' = "stub"
          /\ r.jm \in {"POLL2", "STOP"} /\ UNCHANGED <<job, run, scripts, posts, used>>
      BY <1>9 DEF SwapOut, Referrers
    <2>2. r'.jm = "START" /\ ~r'.jmRestart
      BY <1>0, <2>1, NewRequestType
    <2>3. file'.state = IF r.jm = "STOP" THEN r.restart ELSE r.jm
      BY <1>0, <2>1, WrittenType
    <2>4. Undisturbed' => Undisturbed
      BY <2>1 DEF Undisturbed
    <2>5. Undisturbed => file'.state \in Poll \cup EndWaits
      BY <2>1, <2>3 DEF SoloInv, Straight, Poll
    <2>6. Undisturbed => Straight'
      BY <2>2, <2>5 DEF Straight
    <2>7. OneScript' /\ Intended'
      BY <1>0, <2>1 DEF OneScript, Intended
    <2> QED
      BY <2>1, <2>4, <2>6, <2>7 DEF SoloInv
  <1>10. ASSUME NEW i \in DOMAIN scripts, OrphanSubmit(i)
         PROVE  SoloInv'
    <2>1. \E a, b : scripts' = [scripts EXCEPT ![i].id = a, ![i].res = b]
      BY <1>10 DEF OrphanSubmit
    <2>2. /\ DOMAIN scripts' = DOMAIN scripts
          /\ \A k \in DOMAIN scripts : scripts'[k].cmd = scripts[k].cmd
      BY <1>0, <2>1 DEF ScriptType
    <2>3. Len(scripts') = Len(scripts) /\ scripts # <<>>
      <3>1. BasicInv'
        BY <1>10, BasicOrphan DEF Orphan
      <3>2. scripts' \in Seq(ScriptType)
        BY <3>1 DEF BasicInv, Types
      <3> QED
        BY <1>0, <1>10, <2>2, <3>2, LenProperties, EmptySeq
    <2>4. UNCHANGED <<job, place, r, run, file, posts>>
      BY <1>10 DEF OrphanSubmit
    <2>5. (Undisturbed' => Undisturbed) /\ (Straight' <=> Straight)
      <3>1. Next
        BY <1>10 DEF Next, Orphan
      <3> QED
        BY <2>4, <3>1, UndisturbedBefore DEF Straight
    <2>6. OneScript => OneScript'
      BY <2>3, <2>4 DEF OneScript
    <2>7. Intended => Intended'
      BY <1>0, <2>2, <2>3, <2>4 DEF Intended
    <2> QED
      BY <2>4, <2>5, <2>6, <2>7 DEF SoloInv
  <1>11. CASE ExpireOldJob
    <2> DEFINE z == Referenced
    <2>1. /\ TakeReference
          /\ \/ r' = z
             \/ /\ z.jm \in {"TWO_PHASE_END", "FAILED_TWO_PHASE"}
                /\ r' = [z EXCEPT !.jm = "FAILED_TWO_PHASE_COMMITTED", !.timer = TRUE]
          /\ UNCHANGED <<job, run, scripts, posts, file, used>>
      BY <1>11, ExpireIs
    <2>2. (Undisturbed' => Undisturbed) /\ (Undisturbed => Alone(z)) /\ z \in RequestType
      BY <2>1, AloneReferenced, ReferencedIs DEF Undisturbed, FitRequest
    <2> HIDE DEF z
    <2>3. Undisturbed => Alone(r')
      <3>1. CASE r' = z
        BY <2>2, <3>1
      <3>2. CASE /\ z.jm \in {"TWO_PHASE_END", "FAILED_TWO_PHASE"}
                 /\ r' = [z EXCEPT !.jm = "FAILED_TWO_PHASE_COMMITTED", !.timer = TRUE]
        <4>1. r'.jm = "FAILED_TWO_PHASE_COMMITTED"
          BY <2>2, <3>2 DEF RequestType
        <4> QED
          BY <1>0, <2>2, <3>2, <4>1, EmptySeq DEF Alone, Working, Late, CleanStates
      <3> QED
        BY <2>1, <3>1, <3>2
    <2> QED
      BY <2>1, <2>2, <2>3, SoloReference
  <1> QED
    BY <1>1, <1>2, <1>3, <1>4, <1>5, <1>6, <1>7, <1>8, <1>9, <1>10, <1>11
       DEF Events, Scripts, Orphan, Lrm

\* What a client that leaves the job alone may do.
LEMMA SoloClient ==
    ASSUME BasicInv, SoloInv, Client
    PROVE  SoloInv'
  <1> USE DEF place, mgr, env, ghosts
  <1> DEFINE q == Referenced
  <1>0. ASSUME TakeReference, NEW p, Apply(p), UNCHANGED file,
               Undisturbed' => Undisturbed, Undisturbed /\ Alone(q) => Alone(p)
        PROVE  SoloInv'
    <2>1. r' = p /\ UNCHANGED <<job, run, scripts, posts, file>>
      BY <1>0 DEF Apply
    <2>2. Undisturbed => Alone(q)
      BY <1>0, AloneReferenced
    <2> HIDE DEF q
    <2> QED
      BY <1>0, <2>1, <2>2, SoloReference
  <1>1. job \in Jobs /\ used \in [DOMAIN Max -> Nat] /\ scripts \in Seq(ScriptType)
    BY DEF BasicInv, Types
  <1>2. TakeReference => q \in RequestType
    BY ReferencedIs DEF FitRequest
  <1>3. UNCHANGED used => (Undisturbed' => Undisturbed)
    <2>1. Client => UNCHANGED job
      BY DEF Client, CommitRequest, CommitEnd, CommitExtend, Cancel, Signal, Unregister,
         StopManager, StdioUpdate, ClientRestart, Apply
    <2> QED
      BY <2>1 DEF Undisturbed
  <1>4. Undisturbed' => Undisturbed
    <2>1. Next
      BY DEF Next
    <2> QED
      BY <2>1, UndisturbedBefore
  <1>5. CASE CommitRequest
    <2> DEFINE p == [q EXCEPT !.jm = "TWO_PHASE_COMMITTED", !.timer = TRUE]
    <2>1. /\ Apply(p) /\ TakeReference /\ UNCHANGED file
          /\ q.jm \in {"START", "TWO_PHASE", "TWO_PHASE_QUERY1", "TWO_PHASE_QUERY2"}
      BY <1>5 DEF CommitRequest, Apply
    <2>2. p.jm = "TWO_PHASE_COMMITTED"
      BY <1>2, <2>1 DEF RequestType
    <2>3. Alone(q) => Alone(p)
      <3> HIDE DEF p, q
      <3> QED
        BY <1>1, <2>1, <2>2, EmptySeq DEF Alone, Working, Late, CleanStates
    <2> HIDE DEF p, q
    <2> QED
      BY <1>0, <1>4, <2>1, <2>3
  <1>6. ASSUME NEW c \in RequestType, c.jm \in {"TWO_PHASE_END", "FAILED_TWO_PHASE", "STOP"}
        PROVE  EndCommitted(c).jm \in CleanStates
    BY <1>6 DEF EndCommitted, RequestType, CleanStates
  <1>7. CASE CommitEnd
    <2> DEFINE p == EndCommitted(q)
    <2>1. /\ Apply(p) /\ TakeReference /\ UNCHANGED file
          /\ q.jm \in {"TWO_PHASE_END", "FAILED_TWO_PHASE", "STOP"}
      BY <1>7 DEF CommitEnd, Apply
    <2>2. p.jm \in CleanStates
      BY <1>2, <1>6, <2>1
    <2>3. Alone(q) => Alone(p)
      <3> HIDE DEF p, q
      <3> QED
        BY <1>1, <2>1, <2>2, EmptySeq DEF Alone, Working, Late, CleanStates
    <2> HIDE DEF p, q
    <2> QED
      BY <1>0, <1>4, <2>1, <2>3
  <1>8. CASE CommitExtend
    <2> DEFINE p == [q EXCEPT !.extend = TRUE]
    <2>1. Apply(p) /\ TakeReference /\ UNCHANGED file
      BY <1>8 DEF CommitExtend, Apply
    <2>2. p.jm = q.jm /\ p.timer = q.timer /\ p.restart = q.restart /\ p.jmRestart = q.jmRestart
      BY <1>2, <2>1 DEF RequestType
    <2> HIDE DEF p, q
    <2>3. Alone(q) => Alone(p)
      BY <2>2 DEF Alone
    <2> QED
      BY <1>0, <1>4, <2>1, <2>3
  <1>9. ASSUME TakeReference, NEW query, NEW wakes, DOMAIN wakes \subseteq {"POLL2", "TWO_PHASE"},
               wakes["POLL2"] = "POLL_QUERY1", q.jm = "TWO_PHASE" => "TWO_PHASE" \notin DOMAIN wakes
        PROVE  Alone(q) => Alone(Queued(q, query, wakes))
    <2> DEFINE p == Queued(q, query, wakes)
               a == Append(q.queries, query)
               j == IF q.jm \in DOMAIN wakes THEN wakes[q.jm] ELSE q.jm
               t == q.timer \/ q.jm \in DOMAIN wakes
    <2>1. j = q.jm \/ (q.jm = "POLL2" /\ j = "POLL_QUERY1")
      BY <1>9
    <2>2. t => q.timer \/ q.jm = "POLL2"
      BY <1>9
    <2>3. p = [q EXCEPT !.queries = a, !.jm = j, !.timer = t]
      BY <1>2, <1>9 DEF Queued, RequestType
    <2> HIDE DEF a, j, t, q
    <2>4. p.jm = j /\ p.timer = t /\ p.restart = q.restart /\ p.jmRestart = q.jmRestart
      BY <1>2, <1>9, <2>3 DEF RequestType
    <2> HIDE DEF p
    <2>5. Alone(q) => Alone(p)
      BY <1>1, <2>1, <2>2, <2>4, EmptySeq DEF Alone, Working, Late, CleanStates
    <2> QED
      BY <2>5 DEF p
  <1>10. CASE Cancel
    <2> DEFINE w == [POLL2 |-> "POLL_QUERY1"]
               u == q.unsent \/ q.jm # "START"
               a == Queued(q, "cancel", w)
               b == [q EXCEPT !.jm = "FAILED", !.status = "FAILED",
                              !.failure = "USER_CANCELLED", !.unsent = u]
    <2>1. TakeReference /\ UNCHANGED file
          /\ q.jm \in Poll \cup {"START", "TWO_PHASE", "TWO_PHASE_COMMITTED", "STAGE_IN", "SUBMIT"}
      BY <1>10 DEF Cancel, Apply
    <2>2. (q.jm \in Poll \cup {"SUBMIT"} /\ Apply(a)) \/ (q.jm \notin Poll \cup {"SUBMIT"} /\ Apply(b))
      BY <1>10 DEF Cancel
    <2>3. Alone(q) => Alone(a)
      BY <1>9, <2>1
    <2>4. q.jm \notin Poll \cup {"SUBMIT"} /\ Alone(q) => Alone(b)
      <3>1. b.jm = "FAILED" /\ b.timer = q.timer
        BY <1>2, <2>1 DEF RequestType
      <3> HIDE DEF b, q
      <3> QED
        BY <1>1, <2>1, <3>1, EmptySeq DEF Alone, Working, Late, CleanStates, Poll
    <2> HIDE DEF a, b, q
    <2> QED
      BY <1>0, <1>4, <2>1, <2>2, <2>3, <2>4
  <1>11. CASE Signal
    <2> DEFINE w == [POLL2 |-> "POLL_QUERY1", TWO_PHASE |-> "TWO_PHASE_QUERY1"]
               p == Queued(q, "signal", w)
    <2>1. Apply(p) /\ TakeReference /\ UNCHANGED file /\ Spend("signal") /\ UNCHANGED job
      BY <1>11 DEF Signal, Apply
    <2>2. used'["signal"] > 0
      <3>1. used["signal"] \in Nat
        BY <1>1, MaxAssumption DEF BoundType
      <3>2. used'["signal"] = used["signal"] + 1
        BY <1>1, <2>1, SpendIs
      <3> QED
        BY <3>1, <3>2
    <2>3. CASE job.twoPhase
      <3>1. ~Undisturbed'
        BY <2>1, <2>2, <2>3 DEF Undisturbed
      <3>2. r' = p /\ UNCHANGED <<job, run, scripts, posts, file>>
        BY <2>1 DEF Apply
      <3> QED
        BY <2>1, <3>1, <3>2, SoloReference
    <2>4. CASE ~job.twoPhase
      <3>1. Alone(q) => q.jm # "TWO_PHASE"
        BY <2>4 DEF Alone
      <3>2. Alone(q) => Alone(p)
        <4>1. CASE q.jm # "TWO_PHASE"
          <5>1. DOMAIN w \subseteq {"POLL2", "TWO_PHASE"} /\ w["POLL2"] = "POLL_QUERY1"
            OBVIOUS
          <5> HIDE DEF w
          <5> QED
            BY <1>9, <2>1, <4>1, <5>1
        <4> QED
          BY <3>1, <4>1
      <3> HIDE DEF p, q
      <3> QED
        BY <1>0, <1>4, <2>1, <3>2
    <2> QED
      BY <1>1, <2>3, <2>4, JobBooleans
  <1>12. CASE Unregister
    <2> DEFINE c == [q EXCEPT !.contact = FALSE]
               p == IF c.jm = "TWO_PHASE_END" /\ job.twoPhase THEN EndCommitted(c) ELSE c
    <2>1. Apply(p) /\ TakeReference /\ UNCHANGED file
      BY <1>12 DEF Unregister, Apply
    <2>2. /\ c \in RequestType /\ c.jm = q.jm /\ c.timer = q.timer /\ c.restart = q.restart
          /\ c.jmRestart = q.jmRestart
      BY <1>2, <2>1 DEF RequestType
    <2> HIDE DEF c, q
    <2>3. Alone(q) => Alone(c)
      BY <2>2 DEF Alone
    <2>4. CASE c.jm = "TWO_PHASE_END" /\ job.twoPhase
      <3>1. p = EndCommitted(c) /\ p.jm \in CleanStates
        BY <1>6, <2>2, <2>4
      <3> HIDE DEF p
      <3>2. Alone(q) => Alone(p)
        BY <1>1, <2>2, <2>4, <3>1, EmptySeq DEF Alone, Working, Late, CleanStates
      <3> QED
        BY <1>0, <1>4, <2>1, <3>2 DEF q
    <2>5. CASE ~(c.jm = "TWO_PHASE_END" /\ job.twoPhase)
      <3>1. p = c
        BY <2>5
      <3> QED
        BY <1>0, <1>4, <2>1, <2>3, <3>1 DEF q
    <2> QED
      BY <2>4, <2>5
  <1>13. CASE StopManager \/ StdioUpdate \/ ClientRestart
    <2>1. PICK what \in {"stop", "update", "restart"} : Spend(what)
      BY <1>13 DEF StopManager, StdioUpdate, ClientRestart
    <2>2. used'[what] > 0
      <3>1. used[what] \in Nat
        BY <1>1, MaxAssumption DEF BoundType
      <3>2. used'[what] = used[what] + 1
        BY <1>1, <2>1, SpendIs
      <3> QED
        BY <3>1, <3>2
    <2>3. ~Undisturbed'
      BY <2>2 DEF Undisturbed
    <2>4. run = "idle" /\ run' = run
      BY <1>13 DEF StopManager, StdioUpdate, ClientRestart, Apply, TakeReference
    <2> QED
      BY <2>3, <2>4 DEF SoloInv
  <1> QED
    BY <1>5, <1>7, <1>8, <1>10, <1>11, <1>12, <1>13 DEF Client

LEMMA SoloNext == BasicInv /\ SoloInv /\ [Next]_vars => SoloInv'
  <1> SUFFICES ASSUME BasicInv, SoloInv, [Next]_vars PROVE SoloInv'
    OBVIOUS
  <1>1. CASE Step
    BY <1>1, SoloSteps
  <1>2. CASE TimerFires \/ CallbackReply \/ SegResume \/ ProcessPendingRestart
             \/ Events \/ Scripts \/ Orphan \/ Lrm \/ SwapOut \/ ExpireOldJob
    BY <1>2, SoloEvents
  <1>3. CASE Client
    BY <1>3, SoloClient
  <1>4. CASE Crash
    <2>1. /\ run' = "idle" /\ scripts' = <<>> /\ posts' = 0 /\ r' = NewRequest
          /\ mem' = IF file = NoFile THEN "gone" ELSE "stub"
          /\ loaded' = (file # NoFile)
      BY <1>4 DEF Crash
    <2>2. r'.jm = "START" /\ ~r'.jmRestart
      BY <2>1, NewRequestType DEF BasicInv, Types
    <2>3. Straight'
      BY <2>1, <2>2 DEF Straight
    <2> QED
      BY <2>1, <2>3 DEF SoloInv, OneScript, Intended
  <1>5. CASE UNCHANGED vars
    BY <1>5, SoloSame DEF vars, place
  <1> QED
    BY <1>1, <1>2, <1>3, <1>4, <1>5 DEF Next, Manager

\* Only a submit script that had not run yet adds an LRM job.
LEMMA LrmGrows ==
    ASSUME BasicInv, [Next]_vars
    PROVE  \/ Len(lrm') = Len(lrm)
           \/ /\ Len(lrm') = Len(lrm) + 1
              /\ \E i \in 1..Len(scripts) :
                    /\ ScriptRuns(i) \/ OrphanSubmit(i)
                    /\ scripts[i].cmd = "submit" /\ scripts[i].res = "none"
  <1> USE DEF place, mgr, env, ghosts
  <1>0. lrm \in Seq(LrmStates) /\ scripts \in Seq(ScriptType)
    BY DEF BasicInv, Types
  <1>1. CASE Step
    BY <1>1 DEF Step, StepStart, StepTwoPhase, StepRestart, StepTwoPhaseCommitted,
       StepStageInFailed, StepSubmitting, StepSubmit, StepPoll1, StepPoll2, StepQuery1,
       StepQuery2, StepClosing, StepCloseOutput, StepFinalStatus, StepTwoPhaseEnd,
       StepCleanUp, StepCacheCleanUp, StepStop, StepDone
  <1>2. CASE TimerFires \/ CallbackReply \/ ProcessPendingRestart \/ SwapOut \/ Crash
             \/ UNCHANGED vars \/ SegResume \/ ExpireOldJob
    BY <1>2 DEF TimerFires, CallbackReply, ProcessPendingRestart, SwapOut, Crash, vars, SegResume,
                ExpireOldJob
  <1>3. CASE Client
    BY <1>3 DEF Client, CommitRequest, CommitEnd, CommitExtend, Cancel, Signal, Unregister,
       StopManager, StdioUpdate, ClientRestart, Apply
  <1>4. CASE Events
    BY <1>4 DEF Events, ScriptDone, SegEvent
  <1>5. CASE Lrm
    <2>1. PICK i \in DOMAIN lrm : LrmProgress(i)
      BY <1>5 DEF Lrm
    <2>2. \E n : lrm' = [lrm EXCEPT ![i] = n]
      BY <2>1 DEF LrmProgress
    <2>3. DOMAIN lrm' = DOMAIN lrm
      BY <2>2
    <2>4. BasicInv'
      BY <1>5, BasicLrm DEF Lrm
    <2>5. lrm' \in Seq(LrmStates)
      BY <2>4 DEF BasicInv, Types
    <2> QED
      BY <1>0, <2>3, <2>5, LenProperties
  <1>6. CASE Scripts
    <2>1. PICK i \in DOMAIN scripts : ScriptRuns(i)
      BY <1>6 DEF Scripts
    <2> DEFINE s == scripts[i]
    <2>2. i \in 1..Len(scripts) /\ s.res = "none" /\ s \in ScriptType /\ ScriptKnown(s)
      BY <1>0, <2>1, LenProperties, ElementOfSeq DEF ScriptRuns, BasicInv, Known
    <2>3. PICK res : lrm' = IF res = "ok" /\ s.cmd = "submit" THEN Append(lrm, "PENDING")
                   ELSE IF res = "ok" /\ s.cmd = "cancel" /\ (s.id > 0 /\ ~Ended(lrm[s.id]))
                   THEN [lrm EXCEPT ![s.id] = "FAILED"] ELSE lrm
      BY <2>1, Zenon DEF ScriptRuns
    <2> HIDE DEF s
    <2>4. CASE res = "ok" /\ s.cmd = "submit"
      <3>1. lrm' = Append(lrm, "PENDING") /\ "PENDING" \in LrmStates
        BY <2>3, <2>4 DEF LrmStates
      <3>2. Len(lrm') = Len(lrm) + 1
        BY <1>0, <3>1, AppendProperties
      <3> QED
        BY <2>1, <2>2, <2>4, <3>2 DEF s
    <2>5. CASE ~(res = "ok" /\ s.cmd = "submit") /\ res = "ok" /\ s.cmd = "cancel"
               /\ (s.id > 0 /\ ~Ended(lrm[s.id]))
      <3>1. lrm' = [lrm EXCEPT ![s.id] = "FAILED"]
        BY <2>3, <2>5
      <3>2. DOMAIN lrm' = DOMAIN lrm
        BY <3>1
      <3>3. BasicInv'
        BY <1>6, BasicScriptRuns DEF Scripts
      <3>4. lrm' \in Seq(LrmStates)
        BY <3>3 DEF BasicInv, Types
      <3> QED
        BY <1>0, <3>2, <3>4, LenProperties
    <2>6. CASE /\ ~(res = "ok" /\ s.cmd = "submit")
               /\ ~(res = "ok" /\ s.cmd = "cancel" /\ (s.id > 0 /\ ~Ended(lrm[s.id])))
      BY <2>3, <2>6, Zenon
    <2> QED
      BY <2>4, <2>5, <2>6
  <1>7. CASE Orphan
    <2>1. PICK i \in DOMAIN scripts : OrphanSubmit(i)
      BY <1>7 DEF Orphan
    <2>2. /\ i \in 1..Len(scripts) /\ scripts[i].res = "none" /\ scripts[i].cmd = "submit"
          /\ lrm' = Append(lrm, "PENDING") /\ "PENDING" \in LrmStates
      BY <1>0, <2>1, LenProperties DEF OrphanSubmit, LrmStates
    <2>3. Len(lrm') = Len(lrm) + 1
      BY <1>0, <2>2, AppendProperties
    <2> QED
      BY <2>1, <2>2, <2>3
  <1> QED
    BY <1>1, <1>2, <1>3, <1>4, <1>5, <1>6, <1>7 DEF Next, Manager

\* Every submission can be found again after a crash: for a client that leaves the job
\* alone, the state file says SUBMIT (globus_gram_job_manager_state_file_write in the
\* STAGE_IN case of the state machine) at the moment the submit script hands the job to
\* the LRM, whatever scripts, events, timers, cancels and crashes do in between.
THEOREM IntentionWritten == Spec => SubmitIntention
  <1> DEFINE P == Len(lrm') > Len(lrm) /\ Undisturbed => file # NoFile /\ file.state = "SUBMIT"
  <1>1. BasicInv /\ SoloInv /\ [Next]_vars => P
    <2> SUFFICES ASSUME BasicInv, SoloInv, [Next]_vars, Len(lrm') > Len(lrm), Undisturbed
                 PROVE  file # NoFile /\ file.state = "SUBMIT"
      OBVIOUS
    <2>1. Len(lrm) \in Nat
      BY LenProperties DEF BasicInv, Types
    <2>2. \E i \in 1..Len(scripts) : scripts[i].cmd = "submit"
      BY <2>1, LrmGrows
    <2> QED
      BY <2>2 DEF SoloInv, Intended
  <1>2. BasicInv /\ SoloInv /\ [Next]_vars => [P]_vars
    BY <1>1
  <1> QED
    BY <1>2, BasicInit, BasicNext, SoloInit, SoloNext, PTL DEF Spec, SubmitIntention

-----------------------------------------------------------------------------
(* No condor job is submitted twice *)

\* The states a request whose job was submitted may restart from: in all of them
\* globus_l_gram_job_manager_set_restart_state finds the job or gives it up.
After == Poll \cup {"SUBMIT", "FAILED", "FAILED_TWO_PHASE"} \cup Closing

\* A condor job without files to stage in, of a client that leaves it alone.
Lonely == Undisturbed /\ job.mode = "condor" /\ ~job.stageIn

\* A submitted request is past its submission, or restarts from a state after it.
Clear(q) ==
    /\ q.jm \notin {"START", "TWO_PHASE"}
    /\ q.jm = "TWO_PHASE_COMMITTED" => q.jmRestart /\ q.restart \in After
    /\ q.jm = "STAGE_IN" => q.status = "FAILED"
Safe(f) == f # NoFile => f.state \in After

Staging ==
    \A i \in 1..Len(scripts) :
        /\ scripts[i].cmd = "stage_in" => job.stageIn
        /\ scripts[i].cmd = "stage_out" => scripts[i].start = "STAGE_OUT"
Submitted ==
    /\ Safe(file)
    /\ mem = "live" => Clear(r)
    /\ \A i \in 1..Len(scripts) : scripts[i].cmd = "submit" => scripts[i].res # "none"

OnceInv ==
    /\ Staging
    /\ Lonely => Len(lrm) <= 1 /\ (lrm # <<>> => Submitted)

LEMMA OnceInit == Init => OnceInv
  BY DEF Init, OnceInv, Staging

\* What a step has to show that submits nothing: it starts no submit script either.
Fine(s) ==
    /\ s.cmd = "stage_in" => job.stageIn
    /\ s.cmd = "stage_out" => s.start = "STAGE_OUT"
    /\ s.cmd = "submit" => ~(Lonely /\ lrm # <<>>)
OnceGoal ==
    /\ scripts' = scripts \/ \E s \in ScriptType : scripts' = Append(scripts, s) /\ Fine(s)
    /\ Lonely /\ lrm # <<>> => Safe(file') /\ (mem' = "live" => Clear(r'))

LEMMA OnceStep ==
    ASSUME BasicInv, OnceInv, UNCHANGED <<job, lrm>>, Undisturbed' => Undisturbed, OnceGoal
    PROVE  OnceInv'
  <1>1. scripts \in Seq(ScriptType)
    BY DEF BasicInv, Types
  <1>2. Lonely' => Lonely
    BY DEF Lonely
  <1>3. CASE scripts' = scripts
    BY <1>2, <1>3 DEF OnceInv, OnceGoal, Staging, Submitted
  <1>4. CASE scripts' # scripts
    <2>1. PICK s \in ScriptType : scripts' = Append(scripts, s) /\ Fine(s)
      BY <1>4 DEF OnceGoal
    <2>2. Len(scripts') = Len(scripts) + 1 /\ Len(scripts) \in Nat
      BY <1>1, <2>1, AppendProperties, LenProperties
    <2>3. \A i \in 1..Len(scripts') : scripts'[i] = s \/ (i \in 1..Len(scripts) /\ scripts'[i] = scripts[i])
      <3>1. /\ \A i \in 1..Len(scripts) : Append(scripts, s)[i] = scripts[i]
            /\ Append(scripts, s)[Len(scripts) + 1] = s
        BY <1>1, AppendProperties
      <3> QED
        BY <2>1, <2>2, <3>1
    <2>4. Staging'
      BY <2>1, <2>3 DEF OnceInv, Staging, Fine
    <2>5. Lonely /\ lrm # <<>> => Submitted'
      BY <2>1, <2>3 DEF OnceInv, OnceGoal, Submitted, Fine
    <2> QED
      BY <1>2, <2>4, <2>5 DEF OnceInv
  <1> QED
    BY <1>3, <1>4

\* set_restart_state, of a request that restarts from a state after the submission.
LEMMA RestartAfter ==
    ASSUME r \in RequestType, r.restart \in After, job.mode = "condor", lrm # <<>>,
           lrm \in Seq(LrmStates)
    PROVE  /\ RestartState.jm \in {"SUBMIT", "POLL1", "TWO_PHASE_COMMITTED"}
           /\ ~RestartFound => RestartState.status = "FAILED"
  <1> USE DEF Poll, Closing, RequestType
  <1> HIDE DEF After
  <1>1. CASE r.restart = "SUBMIT"
    <2>1. CondorRecovers
      BY <1>1 DEF CondorRecovers
    <2>2. /\ ~(r.restart \in Poll) /\ ~(r.restart \in {"FAILED", "FAILED_TWO_PHASE"})
          /\ ~(r.restart \in Closing)
      BY <1>1
    <2>3. RestartState = CondorRequest
      BY <2>1, <2>2, Zenon DEF RestartState
    <2>4. RestartFound
      BY <1>1, <2>1, <2>2, Zenon DEF RestartFound
    <2> QED
      BY <2>3, <2>4 DEF CondorRequest
  <1>2. CASE r.restart # "SUBMIT"
    <2>0. ~CondorRecovers
      BY <1>2 DEF CondorRecovers
    <2>1. CASE r.restart \in Poll
      <3>1. /\ ~(r.restart \in {"FAILED", "FAILED_TWO_PHASE"}) /\ ~(r.restart \in Closing)
        BY <2>1
      <3>2. RestartState = [r EXCEPT !.jm = "SUBMIT"]
        BY <2>0, <2>1, <3>1, Zenon DEF RestartState
      <3>3. RestartFound
        BY <1>2, <2>1, <3>1, Zenon DEF RestartFound
      <3> QED
        BY <3>2, <3>3
    <2>2. CASE r.restart \in {"FAILED", "FAILED_TWO_PHASE"}
      <3>1. ~(r.restart \in Poll) /\ ~(r.restart \in Closing)
        BY <2>2
      <3>2. RestartState = IF r.failure = "STAGE_OUT_FAILED"
            THEN [r EXCEPT !.failure = "none", !.status = "STAGE_OUT",
                           !.unsent = TRUE, !.jm = "POLL1"]
            ELSE IF r.failure = "STAGE_IN_FAILED"
            THEN [r EXCEPT !.failure = "none", !.status = "UNSUBMITTED",
                           !.unsent = TRUE, !.jm = "TWO_PHASE_COMMITTED"]
            ELSE [r EXCEPT !.status = "FAILED", !.unsent = TRUE, !.jm = "POLL1"]
        BY <2>0, <2>2, <3>1, Zenon DEF RestartState
      <3>3. RestartFound = (r.failure \in {"STAGE_IN_FAILED", "STAGE_OUT_FAILED"})
        BY <1>2, <2>2, <3>1, Zenon DEF RestartFound
      <3> QED
        BY <3>2, <3>3
    <2>3. CASE r.restart \in Closing
      <3>1. ~(r.restart \in Poll) /\ ~(r.restart \in {"FAILED", "FAILED_TWO_PHASE"})
        BY <2>3
      <3>2. RestartState = [r EXCEPT !.status = "DONE", !.unsent = TRUE, !.jm = "POLL1"]
        BY <2>0, <2>3, <3>1, Zenon DEF RestartState
      <3>3. RestartFound
        BY <1>2, <2>3, <3>1, Zenon DEF RestartFound
      <3> QED
        BY <3>2, <3>3
    <2> QED
      BY <1>2, <2>1, <2>2, <2>3 DEF After
  <1> QED
    BY <1>1, <1>2

\* The steps of the state machine before and at the submission.
LEMMA OnceEarlySteps ==
    ASSUME BasicInv, SoloInv, OnceInv,
           \/ StepStart \/ StepTwoPhase \/ StepRestart \/ StepTwoPhaseCommitted
           \/ StepStageInFailed \/ StepSubmitting \/ StepSubmit
    PROVE  OnceGoal
  <1> USE DEF place, mgr, env, ghosts, At
  <1> DEFINE B == Lonely /\ lrm # <<>>
  <1>0. /\ run # "idle" /\ mem = "live" /\ r \in RequestType /\ FitRequest(r) /\ job \in Jobs
        /\ job.stageIn \in BOOLEAN /\ lrm \in Seq(LrmStates)
        /\ B => Safe(file) /\ Clear(r) /\ job.mode = "condor" /\ ~job.stageIn
    <2>1. run # "idle"
      BY DEF StepStart, StepTwoPhase, StepRestart, StepTwoPhaseCommitted, StepStageInFailed,
         StepSubmitting, StepSubmit
    <2> QED
      BY <2>1, JobBooleans
         DEF BasicInv, Types, Placed, Known, FitRequest, OnceInv, Submitted, Lonely
  <1>1. CASE StepStart \/ StepTwoPhase
    <2>1. ~B
      BY <1>0, <1>1 DEF StepStart, StepTwoPhase, Clear
    <2> QED
      BY <1>1, <2>1 DEF StepStart, StepTwoPhase, OnceGoal
  <1>2. CASE StepRestart
    <2>1. r' = RestartState /\ r.jm = "TWO_PHASE_COMMITTED" /\ UNCHANGED <<scripts, file>>
      BY <1>2 DEF StepRestart
    <2>2. r'.restart = r.restart /\ r'.jmRestart = r.jmRestart
      BY <1>0, <2>1, RestartKeeps
    <2>3. B => r'.jm \in {"SUBMIT", "POLL1", "TWO_PHASE_COMMITTED"}
      BY <1>0, <2>1, RestartAfter DEF Clear
    <2>4. B => Clear(r')
      BY <1>0, <2>1, <2>2, <2>3 DEF Clear
    <2> QED
      BY <1>0, <2>1, <2>4 DEF OnceGoal
  <1>3. CASE StepTwoPhaseCommitted
    <2> DEFINE q == IF r.jmRestart THEN RestartState ELSE r
    <2>1. q \in RequestType /\ FitRequest(q)
      BY <1>0, RestartKeeps, LenProperties DEF FitRequest, CondorRecovers
    <2>2. B => q.status = "FAILED"
      <3>1. r.jm = "TWO_PHASE_COMMITTED" /\ ~(r.jmRestart /\ RestartFound)
        BY <1>3 DEF StepTwoPhaseCommitted
      <3>2. B => r.jmRestart /\ r.restart \in After
        BY <1>0, <3>1 DEF Clear
      <3> QED
        BY <1>0, <3>1, <3>2, RestartAfter
    <2>3. /\ IF job.stageIn
             THEN /\ r' = [q EXCEPT !.jm = "STAGE_IN", !.status = "STAGE_IN"]
                  /\ RunScript("stage_in", r')
             ELSE r' = [q EXCEPT !.jm = "STAGE_IN"] /\ scripts' = scripts
          /\ UNCHANGED file
      BY <1>3 DEF StepTwoPhaseCommitted
    <2> HIDE DEF q
    <2>4. FitRequest(r') /\ r'.jm = "STAGE_IN" /\ (~job.stageIn => r'.status = q.status)
      BY <1>0, <2>1, <2>3, Names DEF FitRequest, RequestType
    <2>5. B => Clear(r')
      BY <1>0, <2>2, <2>4 DEF Clear
    <2>6. scripts' = scripts \/ \E s \in ScriptType : scripts' = Append(scripts, s) /\ Fine(s)
      <3>1. CASE job.stageIn
        <4> DEFINE s == Script("stage_in", r')
        <4>1. scripts' = Append(scripts, s)
          BY <2>3, <3>1 DEF RunScript
        <4>2. s \in ScriptType /\ s.cmd = "stage_in"
          BY <2>4 DEF Script, ScriptType, FitRequest, RequestType, Cmds
        <4> HIDE DEF s
        <4> QED
          BY <3>1, <4>1, <4>2 DEF Fine
      <3>2. CASE ~job.stageIn
        BY <2>3, <3>2
      <3> QED
        BY <3>1, <3>2
    <2> QED
      BY <1>0, <2>3, <2>5, <2>6 DEF OnceGoal
  <1>4. CASE StepStageInFailed
    <2>1. r'.jm = "FAILED" /\ UNCHANGED <<scripts, file>>
      BY <1>0, <1>4 DEF StepStageInFailed, RequestType
    <2> QED
      BY <1>0, <2>1 DEF OnceGoal, Clear
  <1>5. CASE StepSubmitting
    <2>1. ~B
      BY <1>0, <1>5 DEF StepSubmitting, Clear
    <2> DEFINE q == [r EXCEPT !.jm = "SUBMIT", !.restart = "SUBMIT"]
               s == Script("submit", q)
    <2>2. FitRequest(q)
      BY <1>0, Names DEF FitRequest, RequestType
    <2>3. scripts' = Append(scripts, s)
      BY <1>5 DEF StepSubmitting, RunScript
    <2>4. s \in ScriptType /\ s.cmd = "submit"
      BY <2>2, ScriptIs DEF Cmds
    <2> HIDE DEF s
    <2> QED
      BY <2>1, <2>3, <2>4 DEF OnceGoal, Fine
  <1>6. CASE StepSubmit
    <2> DEFINE q == IF r.id = NoId
             THEN [r EXCEPT !.status = "FAILED", !.unsent = TRUE,
                            !.failure = IF @ = "none" THEN "SUBMIT" ELSE @]
             ELSE r
    <2>1. r' = [q EXCEPT !.jm = "POLL1", !.restart = "POLL1"] /\ UNCHANGED scripts
          /\ file' = Written(r')
      BY <1>6 DEF StepSubmit
    <2>2. q \in RequestType
      BY <1>0, Names DEF RequestType
    <2> HIDE DEF q
    <2>3. r' \in RequestType /\ r'.jm = "POLL1"
      BY <2>1, <2>2, Names DEF RequestType
    <2>4. Written(r').state = "POLL1"
      BY <2>3, WrittenType
    <2> QED
      BY <2>1, <2>3, <2>4 DEF OnceGoal, Clear, Safe, After, Poll
  <1> QED
    BY <1>1, <1>2, <1>3, <1>4, <1>5, <1>6

\* The steps after the submission.
LEMMA OnceLateSteps ==
    ASSUME BasicInv, SoloInv, OnceInv,
           \/ StepPoll1 \/ StepPoll2 \/ StepQuery1 \/ StepQuery2 \/ StepClosing
           \/ StepCloseOutput \/ StepFinalStatus \/ StepTwoPhaseEnd \/ StepCleanUp
           \/ StepCacheCleanUp \/ StepStop \/ StepDone
    PROVE  OnceGoal
  <1> USE DEF place, mgr, env, ghosts, At
  <1> DEFINE B == Lonely /\ lrm # <<>>
             Past == States \ {"START", "TWO_PHASE", "TWO_PHASE_COMMITTED", "STAGE_IN"}
  <1>0. /\ run # "idle" /\ r \in RequestType /\ FitRequest(r) /\ job \in Jobs
        /\ B => Safe(file) /\ Clear(r) /\ Straight
    <2>1. run # "idle" /\ mem = "live"
      BY DEF StepPoll1, StepPoll2, StepQuery1, StepQuery2, StepClosing, StepCloseOutput,
         StepFinalStatus, StepTwoPhaseEnd, StepCleanUp, StepCacheCleanUp, StepStop, StepDone,
         BasicInv, Placed
    <2> QED
      BY <2>1 DEF BasicInv, Types, Known, FitRequest, OnceInv, Submitted, Lonely, SoloInv
  <1>1. ASSUME B => r'.jm \in Past, Safe(file) => Safe(file'),
               \/ scripts' = scripts
               \/ \E c \in Cmds : \E q : /\ FitRequest(q) /\ RunScript(c, q)
                                         /\ c \notin {"stage_in", "submit"}
                                         /\ c = "stage_out" => q.jm = "STAGE_OUT"
        PROVE  OnceGoal
    <2>1. B => Clear(r')
      BY <1>1 DEF Clear
    <2>2. CASE scripts' # scripts
      <3>0. PICK c \in Cmds : \E q : /\ FitRequest(q) /\ RunScript(c, q)
                                     /\ c \notin {"stage_in", "submit"}
                                     /\ c = "stage_out" => q.jm = "STAGE_OUT"
        BY <1>1, <2>2
      <3>1. PICK q : /\ FitRequest(q) /\ RunScript(c, q)
                     /\ c \notin {"stage_in", "submit"}
                     /\ c = "stage_out" => q.jm = "STAGE_OUT"
        BY <3>0
      <3> DEFINE s == Script(c, q)
      <3>2. /\ s \in ScriptType /\ s.cmd = c /\ s.start = q.jm /\ scripts' = Append(scripts, s)
        BY <3>1, ScriptIs DEF RunScript, Script
      <3> HIDE DEF s
      <3>3. Fine(s)
        BY <3>1, <3>2 DEF Fine
      <3> QED
        BY <1>0, <1>1, <2>1, <3>2, <3>3 DEF OnceGoal
    <2> QED
      BY <1>0, <1>1, <2>1, <2>2 DEF OnceGoal
  <1> USE DEF States, Poll
  <1>2. CASE StepPoll1
    <2>1. Types /\ UNCHANGED scripts /\ r.jm = "POLL1"
      BY <1>2 DEF StepPoll1, BasicInv
    <2>2. PICK q \in RequestType, w \in RequestType,
               j \in {"FAILED", "PRE_CLOSE_OUTPUT", "POLL_QUERY1", "POLL1", "POLL2"},
               u \in BOOLEAN, t \in BOOLEAN :
             /\ r.events = <<>> => q = r
             /\ r.events # <<>> => q = Handled(r)
             /\ w = q \/ w = [q EXCEPT !.restart = "POLL1"]
             /\ file' = file \/ (file' = Written(w) /\ w = [q EXCEPT !.restart = "POLL1"])
             /\ r' = [w EXCEPT !.jm = j, !.unsent = u, !.timer = t]
             /\ told' = told \/ (Notify(w) /\ w.status \notin {"FAILED", "DONE", "STAGE_OUT"})
             /\ run' \in {"idle", "loop"}
             /\ j = "FAILED" => w.status = "FAILED"
             /\ j = "PRE_CLOSE_OUTPUT" => w.status \in {"DONE", "STAGE_OUT"}
             /\ j = "POLL_QUERY1" => w.queries # <<>> /\ run' = "loop"
             /\ t => w.timer \/ (run' = "idle" /\ j = "POLL2")
      BY <1>2, <2>1, Poll1Is
    <2>3. q.jm = "POLL1"
      BY <1>0, <2>1, <2>2, HandledKeeps DEF Keeps
    <2>4. w.jm = "POLL1"
      BY <2>2, <2>3 DEF RequestType
    <2>5. Safe(file) => Safe(file')
      BY <2>2, <2>4, WrittenType DEF Safe, After
    <2>6. r'.jm = j
      BY <2>2 DEF RequestType
    <2> QED
      BY <1>1, <2>1, <2>5, <2>6
  <1>3. CASE StepPoll2
    <2>1. /\ \/ r' = [r EXCEPT !.jm = "POLL1"] /\ RunScript("poll", r')
             \/ /\ r' = [r EXCEPT !.jm = IF r.events # <<>> THEN "POLL1" ELSE "POLL2"]
                /\ scripts' = scripts
          /\ file' = file
      BY <1>3 DEF StepPoll2
    <2>2. FitRequest(r') /\ r'.jm \in {"POLL1", "POLL2"}
      BY <1>0, <2>1, Names DEF FitRequest, RequestType
    <2> QED
      BY <1>1, <2>1, <2>2 DEF Cmds
  <1>4. CASE StepQuery1
    <2>1. /\ r.jm \in {"POLL_QUERY1", "TWO_PHASE_QUERY1"} /\ file' = file
          /\ RunScript(Head(r.queries), r)
          /\ r' = [r EXCEPT !.jm = IF r.jm = "POLL_QUERY1" THEN "POLL_QUERY2" ELSE "TWO_PHASE_QUERY2"]
      BY <1>4 DEF StepQuery1
    <2>2. Head(r.queries) \in {"cancel", "signal"}
      <3>1. r.queries # <<>>
        BY <1>0, <2>1 DEF BasicInv, Queries
      <3> QED
        BY <1>0, <3>1, HeadTailProperties DEF RequestType, QueryQueue
    <2>3. r'.jm \in {"POLL_QUERY2", "TWO_PHASE_QUERY2"}
      BY <1>0, <2>1 DEF RequestType
    <2> QED
      BY <1>0, <1>1, <2>1, <2>2, <2>3 DEF Cmds
  <1>5. CASE StepQuery2
    <2> DEFINE q == [r EXCEPT !.queries = Tail(@)]
    <2>1. r.jm \in {"POLL_QUERY2", "TWO_PHASE_QUERY2"} /\ UNCHANGED <<scripts, file>>
      BY <1>5 DEF StepQuery2
    <2>2. DOMAIN q = DOMAIN r /\ "jm" \in DOMAIN r
      BY <1>0 DEF RequestType
    <2>3. B => r'.jm \in {"POLL_QUERY1", "POLL1", "POLL2"}
      <3>1. CASE B
        <4>1. r.jm # "TWO_PHASE_QUERY2"
          BY <1>0, <3>1 DEF Straight
        <4>2. \E j \in {"POLL_QUERY1", "POLL1", "POLL2"} : r' = [q EXCEPT !.jm = j]
          BY <1>5, <4>1 DEF StepQuery2
        <4> HIDE DEF q
        <4> QED
          BY <2>2, <4>2
      <3> QED
        BY <3>1
    <2> QED
      BY <1>1, <2>1, <2>3
  <1>6. CASE StepClosing
    <2> DEFINE w == IF r.unsent THEN [r EXCEPT !.restart = r.jm] ELSE r
               u == w.unsent /\ ~(r.unsent /\ r.status = "STAGE_OUT")
    <2>1. w \in RequestType /\ w.jm = r.jm
      BY <1>0 DEF RequestType
    <2>2. /\ r' = [w EXCEPT !.unsent = u, !.queries = <<>>,
                         !.jm = IF w.jm = "FAILED" THEN "FAILED_CLOSE_OUTPUT" ELSE "CLOSE_OUTPUT"]
          /\ UNCHANGED scripts /\ r.jm \in {"PRE_CLOSE_OUTPUT", "FAILED"}
          /\ file' \in {file, Written(w)}
      BY <1>6 DEF StepClosing
    <2> HIDE DEF w, u
    <2>3. r'.jm \in {"FAILED_CLOSE_OUTPUT", "CLOSE_OUTPUT"}
      BY <2>1, <2>2 DEF RequestType
    <2>4. Safe(file) => Safe(file')
      BY <2>1, <2>2, WrittenType DEF Safe, After, Closing
    <2> QED
      BY <1>1, <2>2, <2>3, <2>4
  <1>7. CASE StepCloseOutput
    <2>1. CASE r.status = "FAILED" /\ r.failure = "STAGE_OUT_FAILED"
      <3>1. r' = [r EXCEPT !.jm = "FAILED_CLOSE_OUTPUT"] /\ UNCHANGED <<scripts, file>>
        BY <1>7, <2>1 DEF StepCloseOutput
      <3>2. r'.jm = "FAILED_CLOSE_OUTPUT"
        BY <1>0, <3>1 DEF RequestType
      <3> QED
        BY <1>1, <3>1, <3>2
    <2>2. CASE ~(r.status = "FAILED" /\ r.failure = "STAGE_OUT_FAILED")
      <3>1. /\ r' = [r EXCEPT !.jm = "STAGE_OUT", !.unsent = TRUE] /\ file' = file
            /\ IF r.todoOut THEN RunScript("stage_out", r') ELSE scripts' = scripts
        BY <1>7, <2>2 DEF StepCloseOutput
      <3>2. FitRequest(r') /\ r'.jm = "STAGE_OUT"
        BY <1>0, <3>1, Names DEF FitRequest, RequestType
      <3> QED
        BY <1>1, <3>1, <3>2 DEF Cmds
    <2> QED
      BY <2>1, <2>2
  <1>8. CASE StepFinalStatus
    <2>1. /\ told \in Statuses \cup {"none"} /\ posts \in Nat /\ UNCHANGED <<scripts, file>>
      BY <1>8 DEF BasicInv, Types, StepFinalStatus
    <2>2. PICK s \in {"FAILED", "DONE"}, f \in Failures, t \in BOOLEAN :
             LET j == IF s = "FAILED" THEN "FAILED_TWO_PHASE" ELSE "TWO_PHASE_END" IN
             r' = [r EXCEPT !.unsent = FALSE, !.jm = j, !.status = s, !.failure = f, !.timer = t]
      BY <1>0, <1>8, <2>1, FinalStatusIs
    <2>3. r'.jm \in {"FAILED_TWO_PHASE", "TWO_PHASE_END"}
      BY <1>0, <2>2 DEF RequestType
    <2> QED
      BY <1>1, <2>1, <2>3
  <1>9. CASE StepTwoPhaseEnd
    <2>1. \/ r' = [r EXCEPT !.extend = FALSE, !.timer = TRUE]
          \/ r' = [r EXCEPT !.jm = IF @ = "TWO_PHASE_END" THEN "TWO_PHASE_END_COMMITTED"
                                        ELSE "FAILED_TWO_PHASE_COMMITTED"]
          \/ r' = [r EXCEPT !.restart = r.jm, !.jm = "STOP", !.overdue = TRUE]
      BY <1>9, Zenon DEF StepTwoPhaseEnd
    <2>2. r.jm \in {"FAILED_TWO_PHASE", "TWO_PHASE_END"} /\ UNCHANGED <<scripts, file>>
      BY <1>9 DEF StepTwoPhaseEnd
    <2>3. r'.jm \in {"FAILED_TWO_PHASE", "TWO_PHASE_END", "TWO_PHASE_END_COMMITTED",
                     "FAILED_TWO_PHASE_COMMITTED", "STOP"}
      BY <1>0, <2>1, <2>2 DEF RequestType
    <2> QED
      BY <1>1, <2>2, <2>3
  <1>10. CASE StepCleanUp
    <2> DEFINE j == IF r.jm = "FILE_CLEAN_UP" /\ r.status = "FAILED"
                    THEN "FAILED_SCRATCH_CLEAN_UP" ELSE CleanUp[r.jm]
    <2>1. r' = [r EXCEPT !.jm = j] /\ r.jm \in DOMAIN CleanUp /\ UNCHANGED <<scripts, file>>
      BY <1>10 DEF StepCleanUp
    <2>2. j \in CleanStates
      BY <2>1, CleanUpIs DEF CleanStates
    <2> HIDE DEF j
    <2>3. r'.jm \in CleanStates
      BY <1>0, <2>1, <2>2 DEF RequestType
    <2> QED
      BY <1>1, <2>1, <2>3 DEF CleanStates
  <1>11. CASE StepCacheCleanUp
    <2>1. r'.jm \in {"DONE", "FAILED_DONE"} /\ UNCHANGED scripts /\ file' = NoFile
      BY <1>0, <1>11 DEF StepCacheCleanUp, RequestType
    <2> QED
      BY <1>1, <2>1 DEF Safe
  <1>12. CASE StepStop
    <2>1. r' = r /\ UNCHANGED scripts /\ r.jm = "STOP" /\ file' = Written(r)
      BY <1>12 DEF StepStop
    <2>2. B => Written(r).state \in EndWaits
      BY <1>0, <2>1, WrittenType DEF Straight
    <2>3. B => Safe(file')
      BY <2>1, <2>2 DEF Safe, After, Closing, EndWaits
    <2> QED
      BY <1>0, <2>1, <2>3 DEF OnceGoal
  <1>13. CASE StepDone
    <2>1. /\ \/ r' = [r EXCEPT !.queries = <<>>, !.events = <<>>, !.restart = r.jm]
             \/ mem' = "gone"
          /\ file' \in {file, NoFile} /\ UNCHANGED scripts /\ r.jm \in Final
      BY <1>13 DEF StepDone
    <2>2. mem' = "gone" \/ r'.jm \in Final
      BY <1>0, <2>1 DEF RequestType
    <2> QED
      BY <1>0, <2>1, <2>2 DEF OnceGoal, Safe, Final, Clear
  <1> QED
    BY <1>2, <1>3, <1>4, <1>5, <1>6, <1>7, <1>8, <1>9, <1>10, <1>11, <1>12, <1>13

LEMMA ClearReferenced ==
    ASSUME BasicInv, SoloInv, OnceInv, TakeReference, Lonely, lrm # <<>>
    PROVE  Clear(Referenced)
  <1>1. mem \in {"live", "stub"} /\ Safe(file) /\ Undisturbed
    BY ReferencedIs DEF OnceInv, Submitted, Lonely
  <1>2. CASE mem = "live"
    BY <1>2, ReferencedIs DEF OnceInv, Submitted
  <1>3. CASE mem = "stub"
    <2>1. /\ Referenced = Reloaded /\ file \in FileType /\ job \in Jobs /\ pending \in BOOLEAN
          /\ loaded \in BOOLEAN
      BY <1>3, ReferencedIs DEF BasicInv, Types
    <2>2. /\ Reloaded.jm = IF file.state \in Poll THEN "POLL2"
                           ELSE IF loaded THEN "TWO_PHASE_COMMITTED" ELSE file.state
          /\ Reloaded.restart = file.state /\ Reloaded.jmRestart
      BY <2>1, ReloadedType
    <2>3. file.state \in After /\ (~loaded => file.state \in Poll \cup EndWaits)
      BY <1>1, <1>3, <2>1, NoFileIsNoFile DEF Safe, SoloInv, Straight
    <2> QED
      BY <2>1, <2>2, <2>3 DEF Clear, EndWaits
  <1> QED
    BY <1>1, <1>2, <1>3

\* A reference is taken, and the request changes as far as it stays past its submission.
LEMMA OnceReference ==
    ASSUME BasicInv, SoloInv, OnceInv, TakeReference, UNCHANGED <<job, lrm, scripts, file>>,
           Undisturbed' => Undisturbed, Lonely /\ Clear(Referenced) => Clear(r')
    PROVE  OnceInv'
  <1>1. Lonely /\ lrm # <<>> => Safe(file') /\ Clear(r')
    BY ClearReferenced DEF OnceInv, Submitted
  <1> QED
    BY <1>1, OnceStep DEF OnceGoal

LEMMA OnceDelivered ==
    ASSUME BasicInv, SoloInv, OnceInv, TakeReference, NEW es \in Seq(EventType),
           r' = Delivered(Referenced, es), UNCHANGED <<job, lrm, scripts, file, used>>
    PROVE  OnceInv'
  <1> DEFINE q == Referenced
             d == Delivered(q, es)
  <1>1. q \in RequestType
    BY ReferencedIs DEF FitRequest
  <1>2. /\ d.jm = q.jm \/ (q.jm = "POLL2" /\ d.jm = "POLL1" /\ d.timer)
        /\ d.restart = q.restart /\ d.jmRestart = q.jmRestart /\ d.status = q.status
    BY <1>1, DeliveredKeeps
  <1>3. Clear(q) => Clear(d)
    <2> HIDE DEF q, d
    <2> QED
      BY <1>2 DEF Clear
  <1>4. Undisturbed' => Undisturbed
    BY DEF Undisturbed
  <1> QED
    BY <1>3, <1>4, OnceReference

\* A request that failed stays failed, whatever a script reports.
LEMMA AppliedFailed ==
    ASSUME NEW q \in RequestType, NEW s \in ScriptType, ScriptKnown(s), s.res # "none",
           q.status = "FAILED"
    PROVE  Applied(q, s).status = "FAILED"
  <1>1. \A new : ~ValidChange(q.status, new)
    <2> TAKE new
    <2>1. /\ ~(q.status \in {"PENDING", "UNSUBMITTED", "STAGE_IN"})
          /\ ~(q.status \in {"ACTIVE", "SUSPENDED"}) /\ ~(q.status = "STAGE_OUT")
      OBVIOUS
    <2> QED
      BY <2>1, Zenon DEF ValidChange
  <1>2. ASSUME NEW p \in RequestType, NEW new, p.status = "FAILED"
        PROVE  Reported(p, new) = p
    <2>1. ~ValidChange(p.status, new)
      BY <1>1, <1>2
    <2> QED
      BY <2>1 DEF Reported
  <1>3. CASE s.res = "die"
    <2>1. Applied(q, s) = [q EXCEPT !.failure = "SCRIPT_STATUS"]
      BY <1>3, Zenon DEF Applied
    <2> QED
      BY <2>1 DEF RequestType
  <1>4. ASSUME NEW why PROVE ScriptFailed(q, s, why).status = "FAILED"
    BY DEF ScriptFailed, RequestType
  <1>5. CASE s.res # "die"
    <2>1. CASE s.cmd = "submit"
      <3>1. ~(s.res = "die") /\ s.cmd # "poll" /\ s.cmd # "stage_in" /\ s.cmd # "stage_out"
            /\ s.cmd # "cancel" /\ s.cmd # "signal"
        BY <1>5, <2>1
      <3>2. Applied(q, s) = IF s.res = "ok" THEN Reported([q EXCEPT !.id = s.id], "PENDING")
                            ELSE ScriptFailed(q, s, "SUBMIT")
        BY <1>5, <2>1, <3>1, Zenon DEF Applied
      <3>3. [q EXCEPT !.id = s.id] \in RequestType /\ [q EXCEPT !.id = s.id].status = "FAILED"
        BY DEF RequestType, ScriptType
      <3> QED
        BY <1>2, <1>4, <3>2, <3>3
    <2>2. CASE s.cmd = "poll"
      <3>1. ~(s.res = "die") /\ s.cmd # "submit" /\ s.cmd # "stage_in" /\ s.cmd # "stage_out"
            /\ s.cmd # "cancel" /\ s.cmd # "signal"
        BY <1>5, <2>2
      <3>2. Applied(q, s) = IF s.res = "err" THEN ScriptFailed(q, s, "SUBMIT")
                            ELSE Reported(q, s.res)
        BY <1>5, <2>2, <3>1, Zenon DEF Applied
      <3> QED
        BY <1>2, <1>4, <3>2
    <2>3. CASE s.cmd = "stage_in"
      <3>1. ~(s.res = "die") /\ s.cmd # "submit" /\ s.cmd # "poll" /\ s.cmd # "stage_out"
            /\ s.cmd # "cancel" /\ s.cmd # "signal"
        BY <1>5, <2>3
      <3>2. Applied(q, s) = IF s.res = "ok" THEN [q EXCEPT !.todoIn = FALSE]
                            ELSE ScriptFailed(q, s, "STAGE_IN_FAILED")
        BY <1>5, <2>3, <3>1, Zenon DEF Applied
      <3> QED
        BY <1>4, <3>2 DEF RequestType
    <2>4. CASE s.cmd = "stage_out"
      <3>1. ~(s.res = "die") /\ s.cmd # "submit" /\ s.cmd # "poll" /\ s.cmd # "stage_in"
            /\ s.cmd # "cancel" /\ s.cmd # "signal"
        BY <1>5, <2>4
      <3>2. Applied(q, s) = IF s.res = "ok" THEN [q EXCEPT !.todoOut = @ /\ q.jm # s.start]
                            ELSE ScriptFailed(q, s, "STAGE_OUT_FAILED")
        BY <1>5, <2>4, <3>1, Zenon DEF Applied
      <3> QED
        BY <1>4, <3>2 DEF RequestType
    <2>5. CASE s.cmd = "cancel"
      <3>1. ~(s.res = "die") /\ s.cmd # "submit" /\ s.cmd # "poll" /\ s.cmd # "stage_in"
            /\ s.cmd # "stage_out" /\ s.cmd # "signal"
        BY <1>5, <2>5
      <3>2. Applied(q, s) = CancelApplied(q, s)
        BY <1>5, <2>5, <3>1, Zenon DEF Applied
      <3> QED
        BY <1>1, <3>2 DEF CancelApplied
    <2>6. CASE s.cmd = "signal"
      <3>1. ~(s.res = "die") /\ s.cmd # "submit" /\ s.cmd # "poll" /\ s.cmd # "stage_in"
            /\ s.cmd # "stage_out" /\ s.cmd # "cancel"
        BY <1>5, <2>6
      <3>2. Applied(q, s) = IF s.res = "ok" /\ ValidChange(q.status, "SUSPENDED")
                            THEN [q EXCEPT !.status = "SUSPENDED", !.unsent = TRUE] ELSE q
        BY <1>5, <2>6, <3>1, Zenon DEF Applied
      <3> QED
        BY <1>1, <3>2
    <2> QED
      BY <2>1, <2>2, <2>3, <2>4, <2>5, <2>6 DEF ScriptType, Cmds
  <1> QED
    BY <1>3, <1>5

LEMMA OnceEvents ==
    ASSUME BasicInv, SoloInv, OnceInv,
           TimerFires \/ CallbackReply \/ SegResume \/ ProcessPendingRestart
           \/ Events \/ SwapOut \/ ExpireOldJob
    PROVE  OnceInv'
  <1> USE DEF place, mgr, env, ghosts
  <1> DEFINE B == Lonely /\ lrm # <<>>
  <1>0. /\ r \in RequestType /\ job \in Jobs /\ scripts \in Seq(ScriptType)
        /\ DOMAIN scripts = 1..Len(scripts)
        /\ \A i \in 1..Len(scripts) : scripts[i] \in ScriptType /\ ScriptKnown(scripts[i])
        /\ Lonely /\ lrm # <<>> => Safe(file) /\ (mem = "live" => Clear(r)) /\ ~job.stageIn
    <2>1. scripts \in Seq(ScriptType)
      BY DEF BasicInv, Types
    <2>2. /\ DOMAIN scripts = 1..Len(scripts)
          /\ \A i \in 1..Len(scripts) : scripts[i] \in ScriptType
      BY <2>1, LenProperties, ElementOfSeq
    <2>3. Lonely /\ lrm # <<>> => Safe(file) /\ (mem = "live" => Clear(r)) /\ ~job.stageIn
      BY DEF OnceInv, Submitted, Lonely
    <2> QED
      BY <2>1, <2>2, <2>3 DEF BasicInv, Types, Known
  <1>1. CASE TimerFires \/ CallbackReply
    <2>1. /\ r'.jm = r.jm /\ r'.jmRestart = r.jmRestart /\ r'.restart = r.restart
          /\ r'.status = r.status /\ UNCHANGED <<job, mem, file, scripts, lrm, used>>
      BY <1>0, <1>1 DEF TimerFires, CallbackReply, RequestType
    <2>2. Undisturbed' => Undisturbed
      BY <2>1 DEF Undisturbed
    <2>3. OnceGoal
      BY <1>0, <2>1 DEF OnceGoal, Clear
    <2> QED
      BY <2>1, <2>2, <2>3, OnceStep
  <1>2. CASE ProcessPendingRestart
    <2>1. TakeReference /\ r' = Referenced /\ UNCHANGED <<job, lrm, scripts, file, used>>
      BY <1>2 DEF ProcessPendingRestart
    <2>2. Undisturbed' => Undisturbed
      BY <2>1 DEF Undisturbed
    <2> QED
      BY <2>1, <2>2, OnceReference
  <1>3. ASSUME UNCHANGED <<mem, r, job, lrm, scripts, file, used>>
        PROVE  OnceInv'
    BY <1>3 DEF OnceInv, Staging, Submitted, Lonely, Undisturbed
  <1>4. CASE SegResume
    <2>0. resumed \in Seq(EventType)
      BY DEF BasicInv, Types
    <2>1. PICK es \in Seq(EventType) :
             /\ \/ TakeReference /\ r' = Delivered(Referenced, es)
                \/ UNCHANGED <<mem, loaded, pending, r, pause, idHash>>
             /\ UNCHANGED <<job, run, file, scripts, posts, held, env, ghosts, used>>
      BY <1>4, <2>0, SegResumeIs
    <2>2. CASE TakeReference /\ r' = Delivered(Referenced, es)
      BY <2>1, <2>2, OnceDelivered
    <2>3. CASE UNCHANGED <<mem, loaded, pending, r, pause, idHash>>
      BY <1>3, <2>1, <2>3
    <2> QED
      BY <2>1, <2>2, <2>3
  <1>5. ASSUME NEW i \in DOMAIN lrm, SegEvent(i)
        PROVE  OnceInv'
    <2> DEFINE e == [id |-> i, state |-> LogOf(i)[pos[i] + 1]]
    <2>1. /\ UNCHANGED <<job, run, file, scripts, posts, resumed, lrm, ghosts, used>>
          /\ \/ TakeReference /\ r' = Delivered(Referenced, <<e>>)
             \/ UNCHANGED <<mem, loaded, pending, r, pause, idHash>>
      BY <1>5 DEF SegEvent
    <2>2. CASE TakeReference /\ r' = Delivered(Referenced, <<e>>)
      <3>1. lrm \in Seq(LrmStates) /\ pos \in Seq(Nat) /\ Len(pos) = Len(lrm)
        BY DEF BasicInv, Types
      <3>2. i \in 1..Len(lrm) /\ i \in Nat /\ pos[i] \in Nat /\ pos[i] < Len(LogOf(i))
        BY <1>5, <3>1, LenProperties, ElementOfSeq DEF SegEvent
      <3>3. e \in EventType
        BY <3>1, <3>2, LogEntry DEF EventType
      <3> HIDE DEF e
      <3>4. <<e>> \in Seq(EventType)
        BY <3>3
      <3> QED
        BY <2>1, <2>2, <3>4, OnceDelivered
    <2>3. CASE UNCHANGED <<mem, loaded, pending, r, pause, idHash>>
      BY <1>3, <2>1, <2>3
    <2> QED
      BY <2>1, <2>2, <2>3
  <1>6. ASSUME NEW i \in DOMAIN scripts, ScriptDone(i)
        PROVE  OnceInv'
    <2> DEFINE s == scripts[i]
               q == Applied(r, s)
               saves == s.res = "ok" /\ s.cmd \in {"stage_in", "stage_out"}
                        /\ r.jm # "STOP" /\ (s.cmd = "stage_out" => r.jm = s.start)
    <2>1. /\ r' = [q EXCEPT !.timer = TRUE] /\ scripts' = Without(scripts, i)
          /\ s.res # "none" /\ file' = (IF saves THEN Written(q) ELSE file)
          /\ UNCHANGED <<job, mem, lrm, used>> /\ i \in 1..Len(scripts)
      BY <1>0, <1>6 DEF ScriptDone
    <2>2. /\ s \in ScriptType /\ ScriptKnown(s)
          /\ s.cmd = "stage_in" => job.stageIn
          /\ s.cmd = "stage_out" => s.start = "STAGE_OUT"
      BY <1>0, <2>1 DEF OnceInv, Staging
    <2>3. q \in RequestType /\ Keeps(q, r) /\ (r.status = "FAILED" => q.status = "FAILED")
      BY <1>0, <2>1, <2>2, AppliedKeeps, AppliedFailed
    <2> HIDE DEF q
    <2>4. /\ r'.jm = r.jm /\ r'.restart = r.restart /\ r'.jmRestart = r.jmRestart
          /\ r.status = "FAILED" => r'.status = "FAILED"
      BY <2>1, <2>3 DEF Keeps, RequestType
    <2>5. B => (mem' = "live" => Clear(r'))
      BY <1>0, <2>1, <2>4 DEF Clear
    <2>6. B => Safe(file')
      <3>1. CASE ~saves
        BY <1>0, <2>1, <3>1
      <3>2. CASE saves /\ B
        <4>1. r.jm = "STAGE_OUT" /\ file' = Written(q)
          BY <1>0, <2>1, <2>2, <3>2
        <4>2. Written(q).state = "STAGE_OUT"
          BY <2>3, <4>1, WrittenType DEF Keeps
        <4> QED
          BY <4>1, <4>2 DEF Safe, After, Closing
      <3> QED
        BY <3>1, <3>2
    <2>7. \A k \in 1..Len(scripts') : \E j \in 1..Len(scripts) : scripts'[k] = scripts[j]
      <3> DEFINE w == Without(scripts, i)
      <3>1. \A k \in 1..Len(w) : \E j \in 1..Len(scripts) : j # i /\ w[k] = scripts[j]
        <4>1. scripts \in Seq(ScriptType) /\ i \in 1..Len(scripts)
          BY <1>0, <2>1
        <4> QED
          BY <4>1, WithoutKeeps
      <3>2. scripts' = w
        BY <2>1
      <3> HIDE DEF w
      <3> QED
        BY <3>1, <3>2
    <2>8. Staging'
      BY <2>1, <2>7 DEF OnceInv, Staging
    <2>9. Lonely' = Lonely
      BY <2>1 DEF Lonely, Undisturbed
    <2>10. B => Submitted'
      BY <2>5, <2>6, <2>7 DEF OnceInv, Submitted
    <2> QED
      BY <2>1, <2>8, <2>9, <2>10 DEF OnceInv
  <1>7. CASE SwapOut
    <2>1. /\ mem = "live" /\ file' = Written(r) /\ mem' = "stub" /\ r.jm \in {"POLL2", "STOP"}
          /\ UNCHANGED <<job, scripts, lrm, used>>
      BY <1>7 DEF SwapOut
    <2>2. file'.state = IF r.jm = "STOP" THEN r.restart ELSE r.jm
      BY <1>0, <2>1, WrittenType
    <2>3. Undisturbed => (r.jm = "STOP" => r.restart \in EndWaits)
      BY DEF SoloInv, Straight
    <2>4. Undisturbed => file'.state \in After
      BY <2>1, <2>2, <2>3 DEF After, Poll, EndWaits, Closing
    <2>5. Undisturbed' => Undisturbed
      BY <2>1 DEF Undisturbed
    <2>6. OnceGoal
      BY <2>1, <2>4 DEF OnceGoal, Safe, Lonely
    <2> QED
      BY <2>1, <2>5, <2>6, OnceStep
  <1>8. CASE ExpireOldJob
    <2> DEFINE z == Referenced
    <2>1. /\ TakeReference
          /\ \/ r' = z
             \/ r' = [z EXCEPT !.jm = "FAILED_TWO_PHASE_COMMITTED", !.timer = TRUE]
          /\ UNCHANGED <<job, lrm, scripts, file, used>>
      BY <1>8, ExpireIs
    <2>2. (Undisturbed' => Undisturbed) /\ z \in RequestType
      BY <2>1, ReferencedIs DEF Undisturbed, FitRequest
    <2>3. Clear(z) => Clear(r')
      <3> HIDE DEF z
      <3>1. CASE r' = z
        BY <3>1
      <3>2. CASE r' = [z EXCEPT !.jm = "FAILED_TWO_PHASE_COMMITTED", !.timer = TRUE]
        <4>1. r'.jm = "FAILED_TWO_PHASE_COMMITTED"
          BY <2>2, <3>2 DEF RequestType
        <4> QED
          BY <4>1 DEF Clear
      <3> QED
        BY <2>1, <3>1, <3>2
    <2> QED
      BY <2>1, <2>2, <2>3, OnceReference
  <1> QED
    BY <1>1, <1>2, <1>4, <1>5, <1>6, <1>7, <1>8 DEF Events

\* A script runs: the job may be submitted, for the first time.
LEMMA OnceScripts ==
    ASSUME BasicInv, SoloInv, OnceInv, Scripts \/ Orphan
    PROVE  OnceInv'
  <1> USE DEF place, mgr, env, ghosts
  <1>0. /\ scripts \in Seq(ScriptType) /\ DOMAIN scripts = 1..Len(scripts) /\ lrm \in Seq(LrmStates)
        /\ \A i \in 1..Len(scripts) : scripts[i] \in ScriptType
    <2>1. scripts \in Seq(ScriptType) /\ lrm \in Seq(LrmStates)
      BY DEF BasicInv, Types
    <2> QED
      BY <2>1, LenProperties, ElementOfSeq
  <1>1. PICK i \in DOMAIN scripts : ScriptRuns(i) \/ OrphanSubmit(i)
    BY DEF Scripts, Orphan
  <1>2. UNCHANGED <<job, mem, r, file>> /\ scripts[i].res = "none"
    BY <1>1 DEF ScriptRuns, OrphanSubmit
  <1>3. PICK a, b : scripts' = [scripts EXCEPT ![i].id = a, ![i].res = b]
                    /\ (scripts[i].cmd = "submit" => b # "none")
    <2>1. PICK res \in {"ok", "err", "die"} :
             scripts' = [scripts EXCEPT
                ![i].id = IF scripts[i].cmd = "submit" THEN Len(lrm) + 1 ELSE scripts[i].id,
                ![i].res = IF scripts[i].cmd = "poll" /\ res = "ok" THEN lrm[scripts[i].id] ELSE res]
      <3>1. CASE ScriptRuns(i)
        BY <3>1 DEF ScriptRuns
      <3>2. CASE OrphanSubmit(i)
        <4>1. PICK res \in {"err", "die"} :
                 scripts' = [scripts EXCEPT ![i].id = Len(lrm) + 1, ![i].res = res]
          BY <3>2 DEF OrphanSubmit
        <4>2. scripts[i].cmd = "submit"
          BY <3>2 DEF OrphanSubmit
        <4> QED
          BY <4>1, <4>2
      <3> QED
        BY <1>1, <3>1, <3>2
    <2> DEFINE b == IF scripts[i].cmd = "poll" /\ res = "ok" THEN lrm[scripts[i].id] ELSE res
    <2>2. scripts[i].cmd = "submit" => b # "none"
      BY <2>1
    <2> QED
      BY <2>1, <2>2
  <1>4. /\ DOMAIN scripts' = DOMAIN scripts
        /\ \A k \in DOMAIN scripts : /\ scripts'[k].cmd = scripts[k].cmd
                                     /\ scripts'[k].start = scripts[k].start
                                     /\ k # i => scripts'[k].res = scripts[k].res
        /\ scripts'[i].res = b
    BY <1>0, <1>3 DEF ScriptType
  <1>5. Len(scripts') = Len(scripts)
    <2>1. BasicInv'
      BY BasicScriptRuns, BasicOrphan DEF Scripts
    <2>2. scripts' \in Seq(ScriptType)
      BY <2>1 DEF BasicInv, Types
    <2> QED
      BY <1>0, <1>4, <2>2, LenProperties
  <1>6. Staging'
    BY <1>0, <1>2, <1>4, <1>5 DEF OnceInv, Staging
  <1>7. Lonely' => Lonely
    <2>1. Next
      BY DEF Next
    <2> QED
      BY <1>2, <2>1, UndisturbedBefore DEF Lonely
  <1>8. \A k \in 1..Len(scripts') :
           scripts'[k].cmd = "submit" /\ scripts[k].res # "none" => scripts'[k].res # "none"
    BY <1>0, <1>2, <1>4, <1>5
  <1>9. CASE lrm = <<>>
    <2>1. Len(lrm) = 0
      BY <1>9
    <2>2. CASE lrm' = <<>>
      BY <1>6, <1>7, <2>2 DEF OnceInv
    <2>3. CASE lrm' # <<>> /\ Lonely
      <3>1. Len(lrm') # 0
        <4>1. BasicInv'
          BY BasicScriptRuns, BasicOrphan DEF Scripts
        <4>2. lrm' \in Seq(LrmStates)
          BY <4>1 DEF BasicInv, Types
        <4> QED
          BY <2>3, <4>2, EmptySeq
      <3>2. Len(lrm') = 1 /\ \E k \in 1..Len(scripts) : scripts[k].cmd = "submit"
        <4>1. Next
          BY DEF Next
        <4> QED
          BY <2>1, <3>1, <4>1, LrmGrows
      <3>3. r.jm = "SUBMIT" /\ file.state = "SUBMIT" /\ Len(scripts) = 1
        <4>1. Intended /\ OneScript /\ scripts # <<>>
          BY <2>3, <3>2, EmptySeq DEF Lonely, SoloInv
        <4> QED
          BY <3>2, <4>1 DEF Intended, OneScript
      <3>4. i = 1
        <4>1. i \in 1..Len(scripts)
          BY <1>0, <1>1
        <4> QED
          BY <3>3, <4>1
      <3>5. Submitted'
        <4>1. Safe(file') /\ Clear(r')
          BY <1>2, <3>3 DEF Safe, After, Clear
        <4>2. \A k \in 1..Len(scripts') : k = i
          BY <1>5, <3>3, <3>4
        <4>3. \A k \in 1..Len(scripts') : scripts'[k].cmd = "submit" => scripts'[k].res # "none"
          BY <1>0, <1>3, <1>4, <1>5, <4>2
        <4> QED
          BY <4>1, <4>3 DEF Submitted
      <3> QED
        BY <1>6, <1>7, <3>2, <3>5 DEF OnceInv
    <2> QED
      BY <1>6, <1>7, <2>2, <2>3 DEF OnceInv
  <1>10. CASE lrm # <<>>
    <2>1. ASSUME Lonely PROVE Len(lrm') <= 1 /\ Submitted'
      <3>1. Submitted /\ Len(lrm) <= 1
        BY <1>10, <2>1 DEF OnceInv
      <3>2. Len(lrm') = Len(lrm)
        <4>1. Next
          BY DEF Next
        <4> QED
          BY <3>1, <4>1, LrmGrows DEF Submitted
      <3>3. Submitted'
        BY <1>2, <1>5, <1>8, <1>4, <1>0, <3>1 DEF Submitted
      <3> QED
        BY <3>1, <3>2, <3>3
    <2> QED
      BY <1>6, <1>7, <2>1 DEF OnceInv
  <1> QED
    BY <1>9, <1>10

LEMMA OnceClient ==
    ASSUME BasicInv, SoloInv, OnceInv, Client
    PROVE  OnceInv'
  <1> USE DEF place, mgr, env, ghosts
  <1> DEFINE q == Referenced
  <1>0. Undisturbed' => Undisturbed
    <2>1. Next
      BY DEF Next
    <2> QED
      BY <2>1, UndisturbedBefore
  <1>1. ASSUME NEW p, Apply(p), UNCHANGED file, Lonely /\ Clear(q) => Clear(p)
        PROVE  OnceInv'
    <2>1. TakeReference /\ r' = p /\ UNCHANGED <<job, lrm, scripts, file>>
      BY <1>1 DEF Apply
    <2> QED
      BY <1>0, <1>1, <2>1, OnceReference
  <1>2. TakeReference => q \in RequestType
    BY ReferencedIs DEF FitRequest
  <1>3. ASSUME NEW c \in RequestType, c.jm \in {"TWO_PHASE_END", "FAILED_TWO_PHASE", "STOP"}
        PROVE  Clear(EndCommitted(c))
    <2>1. EndCommitted(c).jm \in {"TWO_PHASE_END_COMMITTED", "FAILED_TWO_PHASE_COMMITTED"}
      BY <1>3 DEF EndCommitted, RequestType
    <2> QED
      BY <2>1 DEF Clear
  <1>4. ASSUME TakeReference, NEW query, NEW wakes, DOMAIN wakes \subseteq {"POLL2", "TWO_PHASE"},
               wakes["POLL2"] = "POLL_QUERY1"
        PROVE  Clear(q) => Clear(Queued(q, query, wakes))
    <2> DEFINE p == Queued(q, query, wakes)
               a == Append(q.queries, query)
               j == IF q.jm \in DOMAIN wakes THEN wakes[q.jm] ELSE q.jm
               t == q.timer \/ q.jm \in DOMAIN wakes
    <2>1. q.jm # "TWO_PHASE" => j = q.jm \/ j = "POLL_QUERY1"
      BY <1>4
    <2>2. p = [q EXCEPT !.queries = a, !.jm = j, !.timer = t]
      BY <1>2, <1>4 DEF Queued, RequestType
    <2> HIDE DEF a, j, t, q
    <2>3. p.jm = j /\ p.status = q.status /\ p.restart = q.restart /\ p.jmRestart = q.jmRestart
      BY <1>2, <1>4, <2>2 DEF RequestType
    <2> HIDE DEF p
    <2>4. Clear(q) => Clear(p)
      BY <2>1, <2>3 DEF Clear
    <2> QED
      BY <2>4 DEF p
  <1>5. CASE CommitRequest
    <2> DEFINE p == [q EXCEPT !.jm = "TWO_PHASE_COMMITTED", !.timer = TRUE]
    <2>1. /\ Apply(p) /\ TakeReference /\ UNCHANGED file
          /\ q.jm \in {"START", "TWO_PHASE", "TWO_PHASE_QUERY1", "TWO_PHASE_QUERY2"}
      BY <1>5 DEF CommitRequest, Apply
    <2>2. Lonely => Alone(q)
      BY <2>1, AloneReferenced DEF Lonely
    <2>3. Lonely => ~Clear(q)
      <3> HIDE DEF q
      <3> QED
        BY <2>1, <2>2 DEF Clear, Alone
    <2> HIDE DEF p
    <2> QED
      BY <1>1, <2>1, <2>3
  <1>6. CASE CommitEnd
    <2> DEFINE p == EndCommitted(q)
    <2>1. /\ Apply(p) /\ TakeReference /\ UNCHANGED file
          /\ q.jm \in {"TWO_PHASE_END", "FAILED_TWO_PHASE", "STOP"}
      BY <1>6 DEF CommitEnd, Apply
    <2>2. Clear(p)
      BY <1>2, <1>3, <2>1
    <2> HIDE DEF p
    <2> QED
      BY <1>1, <2>1, <2>2
  <1>7. CASE CommitExtend
    <2> DEFINE p == [q EXCEPT !.extend = TRUE]
    <2>1. Apply(p) /\ TakeReference /\ UNCHANGED file
      BY <1>7 DEF CommitExtend, Apply
    <2>2. p.jm = q.jm /\ p.status = q.status /\ p.restart = q.restart /\ p.jmRestart = q.jmRestart
      BY <1>2, <2>1 DEF RequestType
    <2>3. Clear(q) => Clear(p)
      <3> HIDE DEF p, q
      <3> QED
        BY <2>2 DEF Clear
    <2> HIDE DEF p
    <2> QED
      BY <1>1, <2>1, <2>3
  <1>8. CASE Cancel
    <2> DEFINE w == [POLL2 |-> "POLL_QUERY1"]
               u == q.unsent \/ q.jm # "START"
               a == Queued(q, "cancel", w)
               b == [q EXCEPT !.jm = "FAILED", !.status = "FAILED",
                              !.failure = "USER_CANCELLED", !.unsent = u]
    <2>1. TakeReference /\ UNCHANGED file /\ (Apply(a) \/ Apply(b))
      BY <1>8 DEF Cancel, Apply
    <2>2. Clear(q) => Clear(a)
      BY <1>4, <2>1
    <2>3. b.jm = "FAILED"
      BY <1>2, <2>1 DEF RequestType
    <2> HIDE DEF a, b
    <2>4. Clear(b)
      BY <2>3 DEF Clear
    <2> QED
      BY <1>1, <2>1, <2>2, <2>4
  <1>9. CASE Signal
    <2> DEFINE w == [POLL2 |-> "POLL_QUERY1", TWO_PHASE |-> "TWO_PHASE_QUERY1"]
               p == Queued(q, "signal", w)
    <2>1. Apply(p) /\ TakeReference /\ UNCHANGED file
      BY <1>9 DEF Signal, Apply
    <2>2. Clear(q) => Clear(p)
      <3>1. DOMAIN w \subseteq {"POLL2", "TWO_PHASE"} /\ w["POLL2"] = "POLL_QUERY1"
        OBVIOUS
      <3> HIDE DEF w
      <3> QED
        BY <1>4, <2>1, <3>1
    <2> HIDE DEF p
    <2> QED
      BY <1>1, <2>1, <2>2
  <1>10. CASE Unregister
    <2> DEFINE c == [q EXCEPT !.contact = FALSE]
               p == IF c.jm = "TWO_PHASE_END" /\ job.twoPhase THEN EndCommitted(c) ELSE c
    <2>1. Apply(p) /\ TakeReference /\ UNCHANGED file
      BY <1>10 DEF Unregister, Apply
    <2>2. /\ c \in RequestType /\ c.jm = q.jm /\ c.status = q.status /\ c.restart = q.restart
          /\ c.jmRestart = q.jmRestart
      BY <1>2, <2>1 DEF RequestType
    <2>3. Clear(q) => Clear(c)
      <3> HIDE DEF c, q
      <3> QED
        BY <2>2 DEF Clear
    <2>4. c.jm = "TWO_PHASE_END" => Clear(EndCommitted(c))
      BY <1>3, <2>2
    <2> HIDE DEF c
    <2>5. Clear(q) => Clear(p)
      BY <2>3, <2>4
    <2> HIDE DEF p
    <2> QED
      BY <1>1, <2>1, <2>5
  <1>11. CASE StopManager \/ StdioUpdate \/ ClientRestart
    <2>1. PICK what \in {"stop", "update", "restart"} : Spend(what)
      BY <1>11 DEF StopManager, StdioUpdate, ClientRestart
    <2>2. used'[what] > 0
      <3>1. used \in [DOMAIN Max -> Nat]
        BY DEF BasicInv, Types
      <3>2. used[what] \in Nat
        BY <3>1, MaxAssumption DEF BoundType
      <3>3. used'[what] = used[what] + 1
        BY <2>1, <3>1, SpendIs
      <3> QED
        BY <3>2, <3>3
    <2>3. ~Lonely'
      BY <2>2 DEF Undisturbed, Lonely
    <2>4. UNCHANGED <<job, scripts>>
      BY <1>11 DEF StopManager, StdioUpdate, ClientRestart, Apply
    <2> QED
      BY <2>3, <2>4 DEF OnceInv, Staging
  <1> QED
    BY <1>5, <1>6, <1>7, <1>8, <1>9, <1>10, <1>11 DEF Client

LEMMA OnceNext == BasicInv /\ SoloInv /\ OnceInv /\ [Next]_vars => OnceInv'
  <1> SUFFICES ASSUME BasicInv, SoloInv, OnceInv, [Next]_vars PROVE OnceInv'
    OBVIOUS
  <1> USE DEF place, mgr, env, ghosts
  <1>0. Undisturbed' => Undisturbed
    BY UndisturbedBefore
  <1>1. CASE Step
    <2>1. OnceGoal
      BY <1>1, OnceEarlySteps, OnceLateSteps DEF Step
    <2>2. UNCHANGED <<job, lrm>>
      BY <1>1 DEF Step, StepStart, StepTwoPhase, StepRestart, StepTwoPhaseCommitted,
         StepStageInFailed, StepSubmitting, StepSubmit, StepPoll1, StepPoll2, StepQuery1,
         StepQuery2, StepClosing, StepCloseOutput, StepFinalStatus, StepTwoPhaseEnd,
         StepCleanUp, StepCacheCleanUp, StepStop, StepDone
    <2> QED
      BY <1>0, <2>1, <2>2, OnceStep
  <1>2. CASE TimerFires \/ CallbackReply \/ SegResume \/ ProcessPendingRestart
             \/ Events \/ SwapOut \/ ExpireOldJob
    BY <1>2, OnceEvents
  <1>3. CASE Scripts \/ Orphan
    BY <1>3, OnceScripts
  <1>4. CASE Lrm
    <2>1. PICK i \in DOMAIN lrm : LrmProgress(i)
      BY <1>4 DEF Lrm
    <2>2. UNCHANGED <<job, mem, r, file, scripts, used>> /\ \E n : lrm' = [lrm EXCEPT ![i] = n]
      BY <2>1 DEF LrmProgress
    <2>3. lrm # <<>>
      BY <2>1
    <2>4. Len(lrm') = Len(lrm)
      <3>1. UNCHANGED scripts
        BY <2>2
      <3>2. lrm \in Seq(LrmStates) /\ DOMAIN lrm' = DOMAIN lrm
        BY <2>2 DEF BasicInv, Types
      <3>3. BasicInv'
        BY <1>4, BasicLrm DEF Lrm
      <3>4. lrm' \in Seq(LrmStates)
        BY <3>3 DEF BasicInv, Types
      <3> QED
        BY <3>2, <3>4, LenProperties
    <2>5. Lonely' = Lonely
      BY <2>2 DEF Lonely, Undisturbed
    <2> QED
      BY <2>2, <2>3, <2>4, <2>5 DEF OnceInv, Staging, Submitted
  <1>5. CASE Client
    BY <1>5, OnceClient
  <1>6. CASE Crash
    <2>1. /\ scripts' = <<>> /\ mem' = IF file = NoFile THEN "gone" ELSE "stub"
          /\ UNCHANGED <<job, file, lrm>>
      BY <1>6 DEF Crash
    <2>2. Lonely' => Lonely
      BY <1>0, <2>1 DEF Lonely
    <2> QED
      BY <2>1, <2>2 DEF OnceInv, Staging, Submitted
  <1>7. CASE UNCHANGED vars
    BY <1>7 DEF vars, OnceInv, Staging, Submitted, Lonely, Undisturbed
  <1> QED
    BY <1>1, <1>2, <1>3, <1>4, <1>5, <1>6, <1>7 DEF Next, Manager

\* However often the job manager crashes, whenever the client cancels and whatever the
\* scripts report: a condor job that stages nothing in, of a client that leaves the job
\* alone, is handed to the LRM at most once, because set_restart_state finds in the
\* condor log what a predecessor submitted and resubmits only when there is nothing.
THEOREM SubmittedOnce == Spec => []SingleSubmit
  <1>1. OnceInv => SingleSubmit
    BY DEF OnceInv, Lonely, SingleSubmit
  <1> QED
    BY <1>1, BasicInit, BasicNext, SoloInit, SoloNext, OnceInit, OnceNext, PTL DEF Spec

=============================================================================
