--------------------------- MODULE GramJobProofs ----------------------------
(***************************************************************************)
(* Proofs about the GRAM job manager's job, for every set of jobs, of      *)
(* failures and of bounds on what the client and crashes do.               *)
(***************************************************************************)
EXTENDS GramJob, SequenceTheorems, FiniteSetTheorems, TLAPS

Cmds == {"stage_in", "stage_out", "submit", "poll", "cancel", "signal"}
LrmStates == {"PENDING", "ACTIVE", "DONE", "FAILED"}
ScriptType == [cmd : Cmds, start : States, id : Int,
               res : {"none", "ok", "err", "die"} \cup LrmStates]
FileType == [state : States, status : Statuses, failure : Failures, id : Int,
             todoIn : BOOLEAN, todoOut : BOOLEAN, contact : BOOLEAN, seen : Nat]

\* What the operators take for granted of the variables.
Types ==
    /\ job \in Jobs /\ r \in RequestType /\ file \in FileType \cup {NoFile}
    /\ mem \in {"live", "stub", "gone"} /\ loaded \in BOOLEAN /\ pending \in BOOLEAN
    /\ run \in {"idle", "loop", "first"}
    /\ scripts \in Seq(ScriptType) /\ posts \in Nat
    /\ pause \in Int /\ held \in Seq(EventType) /\ resumed \in Seq(EventType)
    /\ lrm \in Seq(LrmStates) /\ pos \in Seq(Nat) /\ Len(pos) = Len(lrm)
    /\ idHash \subseteq 1..Len(lrm)
    /\ told \in Statuses \cup {"none"}
    /\ committed \in BOOLEAN /\ ended \in BOOLEAN /\ stagedOut \in BOOLEAN
    /\ used \in [DOMAIN Max -> Nat]

\* Only a request in memory has a state machine, scripts or callbacks; one that is
\* not can be read back, or is gone.
Placed ==
    /\ run # "idle" => mem = "live"
    /\ mem = "stub" => file # NoFile
    /\ mem # "live" => scripts = <<>> /\ posts = 0 /\ r = NewRequest
    /\ pending => mem = "stub" /\ loaded

\* A job id that is used names an LRM job, and only poll scripts report job states.
ScriptKnown(s) ==
    /\ s.res = "none" \/ (s.cmd = "submit" /\ s.res = "ok") => s.id <= Len(lrm)
    /\ s.res \in LrmStates => s.cmd = "poll"
    /\ s.res = "ok" => s.cmd # "poll"
Known ==
    /\ r.id <= Len(lrm)
    /\ file # NoFile => file.id <= Len(lrm)
    /\ \A i \in 1..Len(scripts) : ScriptKnown(scripts[i])

\* The state machine runs a query only when there is one.
Queries ==
    r.jm \in {"POLL_QUERY1", "POLL_QUERY2", "TWO_PHASE_QUERY1", "TWO_PHASE_QUERY2"}
        /\ r.queries = <<>>
    => run = "idle" /\ ~r.timer /\ scripts = <<>> /\ posts = 0

BasicInv == Types /\ Placed /\ Known /\ Queries

-----------------------------------------------------------------------------
(* What the model's operators return *)

\* The members of the two kinds of states that the provers must tell apart.
LEMMA NoFileIsNoFile == \A q \in FileType : q # NoFile
  BY DEF FileType, NoFile, States, Poll

LEMMA NewRequestType ==
    ASSUME job \in Jobs
    PROVE  /\ NewRequest \in RequestType
           /\ NewRequest.jm = "START" /\ NewRequest.restart = "START"
           /\ NewRequest.status = "UNSUBMITTED" /\ NewRequest.failure = "none"
           /\ NewRequest.id = 0 /\ NewRequest.events = <<>> /\ NewRequest.timer
           /\ NewRequest.todoOut = job.stageOut /\ ~NewRequest.jmRestart
           /\ NewRequest.queries = <<>>
  BY JobsAssumption DEF NewRequest, RequestType, EventQueue, QueryQueue, JobType, States, Poll, Statuses,
     Failures, NoId

LEMMA WrittenType ==
    ASSUME NEW q \in RequestType
    PROVE  /\ Written(q) \in FileType /\ Written(q) # NoFile
           /\ Written(q).state = IF q.jm = "STOP" THEN q.restart ELSE q.jm
           /\ Written(q).status = q.status /\ Written(q).failure = q.failure
           /\ Written(q).id = q.id /\ Written(q).todoOut = q.todoOut
  BY NoFileIsNoFile DEF Written, RequestType, FileType

LEMMA ReloadedType ==
    ASSUME job \in Jobs, file \in FileType, pending \in BOOLEAN, loaded \in BOOLEAN
    PROVE  /\ Reloaded \in RequestType
           /\ Reloaded.jm = IF file.state \in Poll THEN "POLL2"
                            ELSE IF loaded THEN "TWO_PHASE_COMMITTED" ELSE file.state
           /\ Reloaded.restart = file.state /\ Reloaded.status = file.status
           /\ Reloaded.failure = file.failure /\ Reloaded.jmRestart
           /\ Reloaded.id = file.id /\ Reloaded.todoOut = file.todoOut
           /\ Reloaded.events = <<>> /\ Reloaded.queries = <<>>
           /\ Reloaded.timer = pending
  <1> DEFINE j == IF file.state \in Poll THEN "POLL2"
                  ELSE IF loaded THEN "TWO_PHASE_COMMITTED" ELSE file.state
  <1>1. j \in States
    BY DEF FileType, States, Poll
  <1>2. NewRequest \in RequestType /\ NewRequest.events = <<>> /\ NewRequest.queries = <<>>
    BY NewRequestType
  <1>3. Reloaded = [NewRequest EXCEPT
        !.jm = j, !.restart = file.state, !.status = file.status,
        !.failure = file.failure, !.jmRestart = TRUE, !.id = file.id,
        !.todoIn = file.todoIn, !.todoOut = file.todoOut,
        !.contact = file.contact, !.seen = file.seen, !.timer = pending]
    BY DEF Reloaded
  <1> HIDE DEF j
  <1>4. Reloaded \in RequestType
    BY <1>1, <1>2, <1>3 DEF RequestType, FileType
  <1>5. /\ Reloaded.jm = j /\ Reloaded.restart = file.state /\ Reloaded.status = file.status
        /\ Reloaded.failure = file.failure /\ Reloaded.jmRestart
        /\ Reloaded.id = file.id /\ Reloaded.todoOut = file.todoOut
        /\ Reloaded.events = <<>> /\ Reloaded.queries = <<>> /\ Reloaded.timer = pending
    BY <1>2, <1>3 DEF RequestType
  <1> QED
    BY <1>4, <1>5 DEF j

LEMMA ReportedType ==
    ASSUME NEW q \in RequestType, NEW new \in Statuses
    PROVE  /\ Reported(q, new) \in RequestType
           /\ \E s \in Statuses, u \in BOOLEAN :
                 /\ Reported(q, new) = [q EXCEPT !.unsent = u, !.status = s]
                 /\ s \in {"DONE", "STAGE_OUT"} => q.status = s \/ new \in {"DONE", "STAGE_OUT"}
  <1>1. CASE ValidChange(q.status, new)
    <2> DEFINE s == IF new = "DONE" /\ job.stageOut THEN "STAGE_OUT" ELSE new
    <2>1. s \in Statuses /\ (s \in {"DONE", "STAGE_OUT"} => new \in {"DONE", "STAGE_OUT"})
      BY DEF Statuses
    <2>2. Reported(q, new) = [q EXCEPT !.unsent = TRUE, !.status = s]
      BY <1>1 DEF Reported
    <2> HIDE DEF s
    <2>3. [q EXCEPT !.unsent = TRUE, !.status = s] \in RequestType
      BY <2>1 DEF RequestType
    <2> QED
      BY <2>1, <2>2, <2>3
  <1>2. CASE ~ValidChange(q.status, new)
    <2>1. Reported(q, new) = q
      BY <1>2 DEF Reported
    <2>2. q = [q EXCEPT !.unsent = q.unsent, !.status = q.status]
      BY DEF RequestType
    <2> QED
      BY <2>1, <2>2 DEF RequestType
  <1> QED
    BY <1>1, <1>2

\* Two requests that differ only in what reports of scripts and the LRM change.
Keeps(p, q) ==
    /\ p.jm = q.jm /\ p.restart = q.restart /\ p.jmRestart = q.jmRestart
    /\ p.extend = q.extend /\ p.contact = q.contact /\ p.queries = q.queries
    /\ p.timer = q.timer
Over == {"DONE", "STAGE_OUT"}

LEMMA ReportedKeeps ==
    ASSUME NEW q \in RequestType, NEW new \in Statuses
    PROVE  /\ Reported(q, new) \in RequestType /\ Keeps(Reported(q, new), q)
           /\ Reported(q, new).failure = q.failure /\ Reported(q, new).id = q.id
           /\ Reported(q, new).todoOut = q.todoOut /\ Reported(q, new).events = q.events
           /\ Reported(q, new).status \in Over => q.status \in Over \/ new \in Over
  <1>1. PICK s \in Statuses, u \in BOOLEAN :
                /\ Reported(q, new) = [q EXCEPT !.unsent = u, !.status = s]
                /\ s \in {"DONE", "STAGE_OUT"} => q.status = s \/ new \in {"DONE", "STAGE_OUT"}
    BY ReportedType
  <1> QED
    BY <1>1 DEF RequestType, Keeps, Over

\* An event is taken from the queue, and may empty the job id.
LEMMA HandledKeeps ==
    ASSUME NEW q \in RequestType, q.events # <<>>
    PROVE  /\ Handled(q) \in RequestType /\ Keeps(Handled(q), q)
           /\ Handled(q).failure = q.failure /\ Handled(q).todoOut = q.todoOut
           /\ Handled(q).id \in {q.id, EmptyId} /\ Handled(q).events = Tail(q.events)
           /\ Handled(q).status \in Over => q.status \in Over \/ Head(q.events).state = "DONE"
  <1> DEFINE e == Head(q.events)
             q1 == [q EXCEPT !.events = Tail(@), !.seen = @ + 1,
                             !.id = IF Ended(e.state) /\ e.id = @ THEN EmptyId ELSE @]
  <1>1. e \in EventType /\ Tail(q.events) \in Seq(EventType)
    BY HeadTailProperties DEF RequestType, EventQueue
  <1>2. Handled(q) \in {q1, Reported(q1, e.state)}
    BY DEF Handled
  <1>3. /\ q1 \in RequestType /\ Keeps(q1, q) /\ q1.id \in {q.id, EmptyId}
        /\ q1.failure = q.failure /\ q1.todoOut = q.todoOut
        /\ q1.events = Tail(q.events) /\ q1.status = q.status
    <2> DEFINE i == IF Ended(e.state) /\ e.id = q.id THEN EmptyId ELSE q.id
               t == Tail(q.events)
               n == q.seen + 1
    <2>1. n \in Nat /\ i \in {q.id, EmptyId} /\ i \in Int /\ t \in EventQueue
      BY <1>1 DEF RequestType, EmptyId, EventQueue
    <2>2. q1 = [q EXCEPT !.events = t, !.seen = n, !.id = i]
      BY DEF RequestType
    <2> HIDE DEF i, t, n, q1, e
    <2>3. q1 \in RequestType
      BY <2>1, <2>2 DEF RequestType
    <2>4. /\ Keeps(q1, q) /\ q1.id = i /\ q1.failure = q.failure
          /\ q1.todoOut = q.todoOut /\ q1.events = t /\ q1.status = q.status
      BY <2>2 DEF RequestType, Keeps
    <2> QED
      BY <2>1, <2>3, <2>4 DEF t
  <1>4. e.state \in Statuses /\ (e.state \in Over => e.state = "DONE")
    BY <1>1 DEF EventType, Statuses, Over
  <1> HIDE DEF e, q1
  <1>5. Keeps(Reported(q1, e.state), q)
    BY <1>3, <1>4, ReportedKeeps DEF Keeps
  <1> QED
    BY <1>2, <1>3, <1>4, <1>5, ReportedKeeps DEF e

\* A script's report changes the status, the failure, the job id and the lists.
LEMMA AppliedKeeps ==
    ASSUME NEW q \in RequestType, NEW s \in ScriptType, ScriptKnown(s), s.res # "none"
    PROVE  /\ Applied(q, s) \in RequestType /\ Keeps(Applied(q, s), q)
           /\ Applied(q, s).events = q.events
           /\ Applied(q, s).id = q.id
              \/ (s.cmd = "submit" /\ s.res = "ok" /\ Applied(q, s).id = s.id)
           /\ Applied(q, s).status \in Over => q.status \in Over \/ s.res = "DONE"
           /\ Applied(q, s).failure = "STAGE_OUT_FAILED" =>
                 q.failure = "STAGE_OUT_FAILED" \/ s.cmd = "stage_out"
           /\ q.todoOut /\ ~Applied(q, s).todoOut => s.cmd = "stage_out" /\ s.res = "ok"
  <1> DEFINE P(p) ==
           /\ p \in RequestType /\ Keeps(p, q) /\ p.events = q.events
           /\ p.id = q.id \/ (s.cmd = "submit" /\ s.res = "ok" /\ p.id = s.id)
           /\ p.status \in Over => q.status \in Over \/ s.res = "DONE"
           /\ p.failure = "STAGE_OUT_FAILED" =>
                 q.failure = "STAGE_OUT_FAILED" \/ s.cmd = "stage_out"
           /\ q.todoOut /\ ~p.todoOut => s.cmd = "stage_out" /\ s.res = "ok"
  <1>1. P(q)
    BY DEF Keeps, RequestType, ScriptType
  <1>2. ASSUME NEW why \in {"SUBMIT", "STAGE_IN_FAILED", "STAGE_OUT_FAILED"},
               why = "STAGE_OUT_FAILED" => s.cmd = "stage_out"
        PROVE  P(ScriptFailed(q, s, why))
    <2>1. CASE q.jm = s.start
      BY <1>2, <2>1 DEF ScriptFailed, RequestType, ScriptType, Statuses, Failures, Keeps, Over
    <2>2. CASE q.jm # s.start
      BY <2>2, <1>1 DEF ScriptFailed
    <2> QED
      BY <2>1, <2>2
  <1>3. CASE s.res = "die"
    <2>1. Applied(q, s) = [q EXCEPT !.failure = "SCRIPT_STATUS"]
      BY <1>3, Zenon DEF Applied
    <2> QED
      BY <2>1 DEF RequestType, ScriptType, Failures, Keeps, Over
  <1>4. CASE s.res # "die" /\ s.cmd = "submit"
    <2>1. Applied(q, s) = IF s.res = "ok" THEN Reported([q EXCEPT !.id = s.id], "PENDING")
                                          ELSE ScriptFailed(q, s, "SUBMIT")
      BY <1>4, Zenon DEF Applied
    <2>2. [q EXCEPT !.id = s.id] \in RequestType /\ Keeps([q EXCEPT !.id = s.id], q)
      BY DEF RequestType, ScriptType, Keeps
    <2>3. s.res = "ok" => P(Reported([q EXCEPT !.id = s.id], "PENDING"))
      BY <1>4, <2>2, ReportedKeeps DEF Keeps, Over, Statuses, RequestType, ScriptType
    <2>4. P(ScriptFailed(q, s, "SUBMIT"))
      BY <1>2
    <2> QED
      BY <2>1, <2>3, <2>4
  <1>5. CASE s.res # "die" /\ s.cmd = "poll"
    <2>1. Applied(q, s) = IF s.res = "err" THEN ScriptFailed(q, s, "SUBMIT")
                                           ELSE Reported(q, s.res)
      BY <1>5, Zenon DEF Applied
    <2>2. s.res # "err" => s.res \in LrmStates
      BY <1>5 DEF ScriptType, ScriptKnown
    <2>3. s.res # "err" => P(Reported(q, s.res))
      BY <1>5, <2>2, ReportedKeeps DEF LrmStates, Over, Statuses, ScriptType
    <2>4. P(ScriptFailed(q, s, "SUBMIT"))
      BY <1>2
    <2> QED
      BY <2>1, <2>3, <2>4
  <1>6. CASE s.res # "die" /\ s.cmd = "stage_in"
    <2>1. Applied(q, s) = IF s.res = "ok" THEN [q EXCEPT !.todoIn = FALSE]
                                          ELSE ScriptFailed(q, s, "STAGE_IN_FAILED")
      BY <1>6, Zenon DEF Applied
    <2>2. P([q EXCEPT !.todoIn = FALSE])
      BY DEF RequestType, ScriptType, Keeps, Over
    <2>3. P(ScriptFailed(q, s, "STAGE_IN_FAILED"))
      BY <1>2
    <2> QED
      BY <2>1, <2>2, <2>3
  <1>7. CASE s.res # "die" /\ s.cmd = "stage_out"
    <2>1. Applied(q, s) = IF s.res = "ok" THEN [q EXCEPT !.todoOut = @ /\ q.jm # s.start]
                                          ELSE ScriptFailed(q, s, "STAGE_OUT_FAILED")
      BY <1>7, Zenon DEF Applied
    <2>2. s.res = "ok" => P([q EXCEPT !.todoOut = @ /\ q.jm # s.start])
      BY <1>7 DEF RequestType, ScriptType, Keeps, Over
    <2>3. P(ScriptFailed(q, s, "STAGE_OUT_FAILED"))
      BY <1>2, <1>7
    <2> QED
      BY <2>1, <2>2, <2>3
  <1>8. CASE s.res # "die" /\ s.cmd = "cancel"
    <2>1. Applied(q, s) = CancelApplied(q, s)
      BY <1>8, Zenon DEF Applied
    <2>2. CancelApplied(q, s) \in
             {q, [q EXCEPT !.status = "FAILED", !.failure = "USER_CANCELLED", !.unsent = TRUE]}
      BY DEF CancelApplied
    <2>3. P([q EXCEPT !.status = "FAILED", !.failure = "USER_CANCELLED", !.unsent = TRUE])
      BY DEF RequestType, ScriptType, Statuses, Failures, Keeps, Over
    <2> QED
      BY <1>1, <2>1, <2>2, <2>3
  <1>9. CASE s.res # "die" /\ s.cmd = "signal"
    <2>1. Applied(q, s) = IF s.res = "ok" /\ ValidChange(q.status, "SUSPENDED")
                          THEN [q EXCEPT !.status = "SUSPENDED", !.unsent = TRUE] ELSE q
      BY <1>9, Zenon DEF Applied
    <2>2. P([q EXCEPT !.status = "SUSPENDED", !.unsent = TRUE])
      BY DEF RequestType, ScriptType, Statuses, Keeps, Over
    <2> QED
      BY <1>1, <2>1, <2>2
  <1> QED
    BY <1>3, <1>4, <1>5, <1>6, <1>7, <1>8, <1>9 DEF ScriptType, Cmds

\* What the restart logic makes of a request: it continues in one of four states, and
\* only from the states after the end of the LRM job does it conclude that it is done.
LEMMA RestartKeeps ==
    ASSUME r \in RequestType, lrm \in Seq(LrmStates)
    PROVE  /\ RestartState \in RequestType
           /\ RestartState.jm \in {r.jm, "SUBMIT", "POLL1", "TWO_PHASE_COMMITTED"}
           /\ RestartState.restart = r.restart /\ RestartState.events = r.events
           /\ RestartState.queries = r.queries /\ RestartState.timer = r.timer
           /\ RestartState.todoOut = r.todoOut /\ RestartState.contact = r.contact
           /\ RestartState.jmRestart = r.jmRestart
           /\ RestartState.id = r.id
              \/ (CondorRecovers /\ RestartState.id = Len(lrm))
           /\ RestartState.failure = "STAGE_OUT_FAILED" => r.failure = "STAGE_OUT_FAILED"
           /\ RestartState.status \in Over =>
                 r.status \in Over \/ r.failure = "STAGE_OUT_FAILED" \/ r.restart \in Closing
           /\ RestartState.jm = "SUBMIT" /\ r.jm # "SUBMIT" => RestartFound
           /\ RestartState.jm = "TWO_PHASE_COMMITTED" /\ RestartFound =>
                 r.restart \in {"FAILED", "FAILED_TWO_PHASE"} \/ r.jm = "TWO_PHASE_COMMITTED"
  <1> DEFINE P(p) ==
           /\ p \in RequestType
           /\ p.jm \in {r.jm, "SUBMIT", "POLL1", "TWO_PHASE_COMMITTED"}
           /\ p.restart = r.restart /\ p.events = r.events
           /\ p.queries = r.queries /\ p.timer = r.timer
           /\ p.todoOut = r.todoOut /\ p.contact = r.contact
           /\ p.jmRestart = r.jmRestart
           /\ p.id = r.id \/ (CondorRecovers /\ p.id = Len(lrm))
           /\ p.failure = "STAGE_OUT_FAILED" => r.failure = "STAGE_OUT_FAILED"
           /\ p.status \in Over =>
                 r.status \in Over \/ r.failure = "STAGE_OUT_FAILED" \/ r.restart \in Closing
           /\ p.jm = "SUBMIT" /\ r.jm # "SUBMIT" => RestartFound
           /\ p.jm = "TWO_PHASE_COMMITTED" /\ RestartFound =>
                 r.restart \in {"FAILED", "FAILED_TWO_PHASE"} \/ r.jm = "TWO_PHASE_COMMITTED"
  <1>1. CASE CondorRecovers
    <2> r.restart \notin Poll /\ r.restart \notin {"FAILED", "FAILED_TWO_PHASE"}
          /\ r.restart \notin Closing
      BY <1>1 DEF CondorRecovers, Poll, Closing
    <2>1. RestartState = CondorRequest
      BY <1>1, Zenon DEF RestartState
    <2>2. RestartFound
      BY <1>1 DEF RestartFound, CondorRecovers
    <2> DEFINE n == Len(lrm)
    <2>3. n \in Int
      BY LenProperties
    <2>4. CondorRequest = [r EXCEPT !.id = n, !.status = "PENDING", !.jm = "SUBMIT"]
      BY DEF CondorRequest
    <2> HIDE DEF n
    <2>5. CondorRequest \in RequestType
      BY <2>3, <2>4 DEF RequestType, Statuses, States
    <2>6. P(CondorRequest)
      BY <1>1, <2>2, <2>4, <2>5 DEF RequestType, Over, n
    <2> QED
      BY <2>1, <2>6
  <1>2. CASE ~CondorRecovers /\ r.restart \in Poll
    <2> r.restart \notin {"FAILED", "FAILED_TWO_PHASE"} /\ r.restart \notin Closing
      BY <1>2 DEF Poll, Closing
    <2>1. RestartState = [r EXCEPT !.jm = "SUBMIT"]
      BY <1>2, Zenon DEF RestartState
    <2>2. RestartFound
      BY <1>2 DEF RestartFound, Poll
    <2>3. [r EXCEPT !.jm = "SUBMIT"] \in RequestType
      BY DEF RequestType, States
    <2> QED
      BY <2>1, <2>2, <2>3 DEF RequestType
  <1>3. CASE ~CondorRecovers /\ r.restart \in {"FAILED", "FAILED_TWO_PHASE"}
    <2>1. r.restart \notin Poll /\ r.restart \notin Closing
      BY <1>3 DEF Poll, Closing
    <2>2. RestartState =
            IF r.failure = "STAGE_OUT_FAILED"
            THEN [r EXCEPT !.failure = "none", !.status = "STAGE_OUT",
                           !.unsent = TRUE, !.jm = "POLL1"]
            ELSE IF r.failure = "STAGE_IN_FAILED"
            THEN [r EXCEPT !.failure = "none", !.status = "UNSUBMITTED",
                           !.unsent = TRUE, !.jm = "TWO_PHASE_COMMITTED"]
            ELSE [r EXCEPT !.status = "FAILED", !.unsent = TRUE, !.jm = "POLL1"]
      BY <1>3, <2>1, Zenon DEF RestartState
    <2> "none" \in Failures /\ {"STAGE_OUT", "UNSUBMITTED", "FAILED"} \subseteq Statuses
          /\ {"POLL1", "TWO_PHASE_COMMITTED"} \subseteq States
      BY DEF States, Statuses, Failures, Poll
    <2>3. /\ [r EXCEPT !.failure = "none", !.status = "STAGE_OUT",
                           !.unsent = TRUE, !.jm = "POLL1"] \in RequestType
          /\ [r EXCEPT !.failure = "none", !.status = "UNSUBMITTED",
                           !.unsent = TRUE, !.jm = "TWO_PHASE_COMMITTED"] \in RequestType
          /\ [r EXCEPT !.status = "FAILED", !.unsent = TRUE, !.jm = "POLL1"] \in RequestType
      BY DEF RequestType
    <2>4. CASE r.failure = "STAGE_OUT_FAILED"
      BY <2>2, <2>3, <2>4 DEF RequestType, Over
    <2>5. CASE r.failure = "STAGE_IN_FAILED"
      BY <1>3, <2>2, <2>3, <2>5 DEF RequestType, Over
    <2>6. CASE r.failure \notin {"STAGE_OUT_FAILED", "STAGE_IN_FAILED"}
      BY <2>2, <2>3, <2>6 DEF RequestType, Over
    <2> QED
      BY <2>4, <2>5, <2>6
  <1>4. CASE ~CondorRecovers /\ r.restart \in Closing
    <2>1. r.restart \notin Poll /\ r.restart \notin {"FAILED", "FAILED_TWO_PHASE"}
      BY <1>4 DEF Poll, Closing
    <2>2. RestartState = [r EXCEPT !.status = "DONE", !.unsent = TRUE, !.jm = "POLL1"]
      BY <1>4, <2>1, Zenon DEF RestartState
    <2>3. [r EXCEPT !.status = "DONE", !.unsent = TRUE, !.jm = "POLL1"] \in RequestType
      BY DEF RequestType, States, Statuses, Poll
    <2> QED
      BY <1>4, <2>2, <2>3 DEF RequestType, Over
  <1>5. CASE /\ ~CondorRecovers /\ r.restart \notin Poll
             /\ r.restart \notin {"FAILED", "FAILED_TWO_PHASE"} /\ r.restart \notin Closing
    <2>1. RestartState = r
      BY <1>5, Zenon DEF RestartState
    <2> QED
      BY <2>1 DEF RequestType
  <1> QED
    BY <1>1, <1>2, <1>3, <1>4, <1>5

\* Events are appended, and wake a request that waits for them.
LEMMA DeliveredKeeps ==
    ASSUME NEW q \in RequestType, NEW es \in Seq(EventType)
    PROVE  /\ Delivered(q, es) \in RequestType
           /\ Delivered(q, es).events = q.events \o es
           /\ Delivered(q, es).jm = q.jm
              \/ (q.jm = "POLL2" /\ Delivered(q, es).jm = "POLL1" /\ Delivered(q, es).timer)
           /\ Delivered(q, es).timer => q.timer \/ q.jm = "POLL2"
           /\ Delivered(q, es).restart = q.restart /\ Delivered(q, es).status = q.status
           /\ Delivered(q, es).failure = q.failure /\ Delivered(q, es).id = q.id
           /\ Delivered(q, es).todoOut = q.todoOut /\ Delivered(q, es).queries = q.queries
           /\ Delivered(q, es).contact = q.contact
           /\ Delivered(q, es).jmRestart = q.jmRestart
  <1> DEFINE woken == es # <<>> /\ q.jm = "POLL2"
             all == q.events \o es
             j == IF woken THEN "POLL1" ELSE q.jm
             t == q.timer \/ woken
  <1>1. all \in EventQueue
    BY ConcatProperties DEF RequestType, EventQueue
  <1>2. j \in States /\ t \in BOOLEAN
    BY DEF RequestType, States, Poll
  <1>3. Delivered(q, es) = [q EXCEPT !.events = all, !.timer = t, !.jm = j]
    BY DEF Delivered, RequestType
  <1>4. j = q.jm \/ (q.jm = "POLL2" /\ j = "POLL1" /\ t)
    OBVIOUS
  <1>5. t => q.timer \/ q.jm = "POLL2"
    OBVIOUS
  <1> HIDE DEF all, j, t
  <1>6. Delivered(q, es) \in RequestType
    BY <1>1, <1>2, <1>3 DEF RequestType
  <1> QED
    BY <1>3, <1>4, <1>5, <1>6 DEF RequestType, all

\* One script is taken from the queue.
LEMMA WithoutKeeps ==
    ASSUME NEW S, NEW s \in Seq(S), NEW i \in 1..Len(s)
    PROVE  /\ Without(s, i) \in Seq(S) /\ Len(Without(s, i)) = Len(s) - 1
           /\ \A k \in 1..Len(Without(s, i)) :
                 \E j \in 1..Len(s) : j # i /\ Without(s, i)[k] = s[j]
  <1> DEFINE a == SubSeq(s, 1, i - 1)
             b == SubSeq(s, i + 1, Len(s))
  <1>1. Len(s) \in Nat /\ i \in Int /\ 1 <= i /\ i <= Len(s)
    BY LenProperties
  <1>2. a \in Seq(S) /\ Len(a) = i - 1 /\ \A k \in 1..(i - 1) : a[k] = s[k]
    BY <1>1, SubSeqProperties
  <1>3. b \in Seq(S) /\ Len(b) = Len(s) - i /\ \A k \in 1..(Len(s) - i) : b[k] = s[i + k]
    <2>1. CASE i < Len(s)
      BY <1>1, <2>1, SubSeqProperties
    <2>2. CASE i = Len(s)
      <3>1. b = <<>>
        BY <1>1, <2>2, SubSeqEmpty
      <3> QED
        BY <1>1, <2>2, <3>1
    <2> QED
      BY <1>1, <2>1, <2>2
  <1> HIDE DEF a, b
  <1>4. /\ a \o b \in Seq(S) /\ Len(a \o b) = Len(s) - 1
        /\ \A k \in 1..(Len(s) - 1) :
              (a \o b)[k] = IF k <= i - 1 THEN a[k] ELSE b[k - (i - 1)]
    <2>1. /\ a \o b \in Seq(S) /\ Len(a \o b) = Len(a) + Len(b)
          /\ \A k \in 1..(Len(a) + Len(b)) :
                (a \o b)[k] = IF k <= Len(a) THEN a[k] ELSE b[k - Len(a)]
      BY <1>2, <1>3, ConcatProperties
    <2>2. Len(a) + Len(b) = Len(s) - 1
      BY <1>1, <1>2, <1>3
    <2> QED
      BY <1>2, <2>1, <2>2
  <1>5. ASSUME NEW k \in 1..(Len(s) - 1)
        PROVE  \E j \in 1..Len(s) : j # i /\ (a \o b)[k] = s[j]
    <2>1. CASE k <= i - 1
      <3>1. (a \o b)[k] = s[k] /\ k \in 1..Len(s) /\ k # i
        BY <1>1, <1>2, <1>4, <2>1
      <3> QED
        BY <3>1
    <2>2. CASE ~(k <= i - 1)
      <3>1. (a \o b)[k] = b[k - (i - 1)] /\ k - (i - 1) \in 1..(Len(s) - i)
        BY <1>1, <1>4, <2>2
      <3>2. b[k - (i - 1)] = s[i + (k - (i - 1))]
        BY <1>3, <3>1
      <3>3. i + (k - (i - 1)) = k + 1 /\ k + 1 \in 1..Len(s) /\ k + 1 # i
        BY <1>1, <2>2
      <3> QED
        BY <3>1, <3>2, <3>3
    <2> QED
      BY <2>1, <2>2
  <1> QED
    BY <1>4, <1>5 DEF Without, a, b

\* The log of an LRM job.
LEMMA LogEntry ==
    ASSUME lrm \in Seq(LrmStates), NEW i \in 1..Len(lrm), NEW p \in Nat, p < Len(LogOf(i))
    PROVE  /\ LogOf(i)[p + 1] \in {"ACTIVE", "DONE", "FAILED"}
           /\ LogOf(i)[p + 1] # "ACTIVE" => lrm[i] = LogOf(i)[p + 1]
  <1>1. lrm[i] \in LrmStates
    BY ElementOfSeq
  <1>2. CASE lrm[i] = "PENDING"
    <2>1. LogOf(i) = <<>>
      BY <1>2, Zenon DEF LogOf
    <2> QED
      BY <2>1
  <1>3. CASE lrm[i] = "ACTIVE"
    <2>1. LogOf(i) = <<"ACTIVE">>
      BY <1>3, Zenon DEF LogOf
    <2> QED
      BY <2>1
  <1>4. CASE lrm[i] \in {"DONE", "FAILED"}
    <2>1. lrm[i] # "PENDING" /\ lrm[i] # "ACTIVE"
      BY <1>4
    <2>2. LogOf(i) = <<"ACTIVE", lrm[i]>>
      BY <2>1, Zenon DEF LogOf
    <2> QED
      BY <1>4, <2>2
  <1> QED
    BY <1>1, <1>2, <1>3, <1>4 DEF LrmStates

\* One entry of a sequence is changed.
LEMMA SeqExcept ==
    ASSUME NEW S, NEW s \in Seq(S), NEW i \in DOMAIN s, NEW e \in S
    PROVE  /\ [s EXCEPT ![i] = e] \in Seq(S) /\ Len([s EXCEPT ![i] = e]) = Len(s)
           /\ DOMAIN [s EXCEPT ![i] = e] = DOMAIN s
  BY LenProperties

-----------------------------------------------------------------------------
(* The basic invariant: types, and what the state machine takes for granted *)

\* The constants of the protocol, for proofs that need not look at the whole sets.
LEMMA Names ==
    /\ "POLL1" \in States /\ "POLL2" \in States /\ "POLL_QUERY1" \in States
    /\ "POLL_QUERY2" \in States /\ "START" \in States /\ "TWO_PHASE" \in States
    /\ "TWO_PHASE_QUERY1" \in States /\ "TWO_PHASE_QUERY2" \in States
    /\ "TWO_PHASE_COMMITTED" \in States /\ "STAGE_IN" \in States /\ "SUBMIT" \in States
    /\ "PRE_CLOSE_OUTPUT" \in States /\ "CLOSE_OUTPUT" \in States /\ "STAGE_OUT" \in States
    /\ "TWO_PHASE_END" \in States /\ "TWO_PHASE_END_COMMITTED" \in States
    /\ "FILE_CLEAN_UP" \in States /\ "SCRATCH_CLEAN_UP" \in States
    /\ "CACHE_CLEAN_UP" \in States /\ "DONE" \in States /\ "FAILED" \in States
    /\ "FAILED_CLOSE_OUTPUT" \in States /\ "FAILED_TWO_PHASE" \in States
    /\ "FAILED_TWO_PHASE_COMMITTED" \in States /\ "FAILED_FILE_CLEAN_UP" \in States
    /\ "FAILED_SCRATCH_CLEAN_UP" \in States /\ "FAILED_CACHE_CLEAN_UP" \in States
    /\ "FAILED_DONE" \in States /\ "STOP" \in States
    /\ "STAGE_IN" \in Statuses /\ "DONE" \in Statuses /\ "FAILED" \in Statuses
    /\ "none" \in Failures /\ "COMMIT_TIMED_OUT" \in Failures
    /\ "STAGE_IN_FAILED" \in Failures /\ "STAGE_OUT_FAILED" \in Failures
    /\ "SUBMIT" \in Failures /\ "USER_CANCELLED" \in Failures
  BY DEF States, Poll, Statuses, Failures

LEMMA NoQueries == <<>> \in QueryQueue /\ <<>> \in EventQueue
  BY EmptySeq DEF QueryQueue, EventQueue

LEMMA JobBooleans ==
    ASSUME job \in Jobs
    PROVE  /\ job.twoPhase \in BOOLEAN /\ job.stageIn \in BOOLEAN
           /\ job.stageOut \in BOOLEAN /\ job.contact \in BOOLEAN
           /\ job.mode \in {"seg", "condor", "poll"}
  BY JobsAssumption DEF JobType

\* A step of a request in memory that is neither freed nor read back.
QueryStates == {"POLL_QUERY1", "POLL_QUERY2", "TWO_PHASE_QUERY1", "TWO_PHASE_QUERY2"}
FitRequest(q) == q \in RequestType /\ q.id <= Len(lrm)
FitFile(f) == f \in FileType \cup {NoFile} /\ (f # NoFile => f.id <= Len(lrm))
FitScripts ==
    \/ scripts' = scripts
    \/ \E s \in ScriptType : ScriptKnown(s) /\ scripts' = Append(scripts, s)
    \/ \E i \in 1..Len(scripts) : scripts' = Without(scripts, i)
    \/ scripts' = <<>>

LEMMA AppendScript ==
    ASSUME NEW s \in ScriptType, ScriptKnown(s), scripts \in Seq(ScriptType),
           \A i \in 1..Len(scripts) : ScriptKnown(scripts[i])
    PROVE  /\ Append(scripts, s) \in Seq(ScriptType) /\ Append(scripts, s) # <<>>
           /\ \A i \in 1..Len(Append(scripts, s)) : ScriptKnown(Append(scripts, s)[i])
           /\ Len(Append(scripts, s)) = Len(scripts) + 1
           /\ \A i \in 1..Len(Append(scripts, s)) :
                 Append(scripts, s)[i] = s
                 \/ (i \in 1..Len(scripts) /\ Append(scripts, s)[i] = scripts[i])
  <1>1. /\ Append(scripts, s) \in Seq(ScriptType) /\ Append(scripts, s) # <<>>
        /\ Len(Append(scripts, s)) = Len(scripts) + 1
        /\ \A i \in 1..Len(scripts) : Append(scripts, s)[i] = scripts[i]
        /\ Append(scripts, s)[Len(scripts) + 1] = s
    BY AppendProperties
  <1>2. Len(scripts) \in Nat
    BY LenProperties
  <1>3. ASSUME NEW i \in 1..(Len(scripts) + 1)
        PROVE  i = Len(scripts) + 1 \/ i \in 1..Len(scripts)
    BY <1>2
  <1> QED
    BY <1>1, <1>3

LEMMA BasicsAnywhere ==
    ASSUME Types, Known, Placed', job' = job,
           mem' \in {"live", "stub", "gone"}, loaded' \in BOOLEAN, pending' \in BOOLEAN,
           lrm' \in Seq(LrmStates), Len(lrm') = Len(lrm), pos' \in Seq(Nat), Len(pos') = Len(pos),
           FitRequest(r'), FitFile(file'), FitScripts,
           run' \in {"idle", "loop", "first"}, posts' \in Nat, pause' \in Int,
           held' \in Seq(EventType), resumed' \in Seq(EventType), idHash' \subseteq 1..Len(lrm),
           told' \in Statuses \cup {"none"}, committed' \in BOOLEAN, ended' \in BOOLEAN,
           stagedOut' \in BOOLEAN, used' \in [DOMAIN Max -> Nat], Queries'
    PROVE  BasicInv'
  <1>1. scripts' \in Seq(ScriptType) /\ \A i \in 1..Len(scripts') : ScriptKnown(scripts'[i])
    <2>1. CASE scripts' = scripts
      BY <2>1 DEF Types, Known
    <2>2. CASE \E s \in ScriptType : ScriptKnown(s) /\ scripts' = Append(scripts, s)
      BY <2>2, AppendScript DEF Types, Known
    <2>3. CASE \E i \in 1..Len(scripts) : scripts' = Without(scripts, i)
      BY <2>3, WithoutKeeps DEF Types, Known
    <2>4. CASE scripts' = <<>>
      BY <2>4, EmptySeq
    <2> QED
      BY <2>1, <2>2, <2>3, <2>4 DEF FitScripts
  <1>2. Types'
    BY <1>1 DEF Types, FitRequest, FitFile
  <1>3. Known'
    BY <1>1 DEF Known, FitRequest, FitFile, ScriptKnown
  <1> QED
    BY <1>2, <1>3 DEF BasicInv

LEMMA Basics ==
    ASSUME Types, Placed, Known, mem = "live",
           UNCHANGED <<job, mem, loaded, pending, lrm, pos>>,
           FitRequest(r'), FitFile(file'), FitScripts,
           run' \in {"idle", "loop", "first"}, posts' \in Nat, pause' \in Int,
           held' \in Seq(EventType), resumed' \in Seq(EventType), idHash' \subseteq 1..Len(lrm),
           told' \in Statuses \cup {"none"}, committed' \in BOOLEAN, ended' \in BOOLEAN,
           stagedOut' \in BOOLEAN, used' \in [DOMAIN Max -> Nat], Queries'
    PROVE  BasicInv'
  <1>1. Placed'
    BY DEF Placed
  <1>2. /\ mem' \in {"live", "stub", "gone"} /\ loaded' \in BOOLEAN /\ pending' \in BOOLEAN
        /\ lrm' \in Seq(LrmStates) /\ Len(lrm') = Len(lrm)
        /\ pos' \in Seq(Nat) /\ Len(pos') = Len(pos)
    BY DEF Types
  <1> QED
    BY <1>1, <1>2, BasicsAnywhere

\* The next state of a clean-up is one more of the clean-up, or the last of them.
CleanStates == {"TWO_PHASE_END_COMMITTED", "FILE_CLEAN_UP", "SCRATCH_CLEAN_UP",
                "CACHE_CLEAN_UP", "DONE", "FAILED_TWO_PHASE_COMMITTED",
                "FAILED_FILE_CLEAN_UP", "FAILED_SCRATCH_CLEAN_UP", "FAILED_CACHE_CLEAN_UP",
                "FAILED_DONE"}
LEMMA CleanUpIs ==
    ASSUME NEW j \in DOMAIN CleanUp
    PROVE  /\ CleanUp[j] \in States /\ CleanUp[j] \notin QueryStates
           /\ j \in CleanStates /\ CleanUp[j] \in CleanStates
  <1>1. j \in {"TWO_PHASE_END_COMMITTED", "FAILED_TWO_PHASE_COMMITTED", "FILE_CLEAN_UP",
               "FAILED_FILE_CLEAN_UP", "SCRATCH_CLEAN_UP", "FAILED_SCRATCH_CLEAN_UP"}
    BY DEF CleanUp
  <1>2. /\ CleanUp["TWO_PHASE_END_COMMITTED"] = "FILE_CLEAN_UP"
        /\ CleanUp["FAILED_TWO_PHASE_COMMITTED"] = "FAILED_FILE_CLEAN_UP"
        /\ CleanUp["FILE_CLEAN_UP"] = "SCRATCH_CLEAN_UP"
        /\ CleanUp["FAILED_FILE_CLEAN_UP"] = "FAILED_SCRATCH_CLEAN_UP"
        /\ CleanUp["SCRATCH_CLEAN_UP"] = "CACHE_CLEAN_UP"
        /\ CleanUp["FAILED_SCRATCH_CLEAN_UP"] = "FAILED_CACHE_CLEAN_UP"
    BY DEF CleanUp
  <1> QED
    BY <1>1, <1>2, Names DEF QueryStates, CleanStates

\* The steps that change the request, the loop and what the client was told only.
LEMMA BasicQuietSteps ==
    ASSUME BasicInv,
           \/ StepStart \/ StepTwoPhase \/ StepRestart \/ StepStageInFailed
           \/ StepQuery2 \/ StepTwoPhaseEnd \/ StepCleanUp
    PROVE  BasicInv'
  <1> USE NoQueries, Names DEF place, mgr, env, ghosts, At
  <1>0. /\ mem = "live" /\ run # "idle" /\ Types /\ Placed /\ Known /\ r \in RequestType
        /\ r.id <= Len(lrm) /\ job.twoPhase \in BOOLEAN /\ lrm \in Seq(LrmStates)
        /\ pause \in Int /\ run \in {"idle", "loop", "first"}
    <2>1. run # "idle"
      BY DEF StepStart, StepTwoPhase, StepRestart, StepStageInFailed, StepQuery2,
             StepTwoPhaseEnd, StepCleanUp
    <2> QED
      BY <2>1, JobBooleans DEF BasicInv, Types, Placed, Known
  <1> DEFINE Fits == /\ FitRequest(r') /\ run' \in {"idle", "loop", "first"}
                     /\ pause' \in Int /\ Queries'
                     /\ UNCHANGED <<job, mem, loaded, pending, file, scripts, posts, held,
                                    resumed, idHash, lrm, pos, told, committed, ended,
                                    stagedOut, used>>
  <1>1. Fits => BasicInv'
    <2> SUFFICES ASSUME Fits PROVE BasicInv'
      OBVIOUS
    <2>1. FitFile(file') /\ FitScripts
      BY <1>0 DEF FitFile, FitScripts, Types, Known
    <2>2. /\ posts' \in Nat /\ held' \in Seq(EventType) /\ resumed' \in Seq(EventType)
          /\ idHash' \subseteq 1..Len(lrm) /\ told' \in Statuses \cup {"none"}
          /\ committed' \in BOOLEAN /\ ended' \in BOOLEAN /\ stagedOut' \in BOOLEAN
          /\ used' \in [DOMAIN Max -> Nat]
      BY <1>0 DEF Types
    <2> QED
      BY <1>0, <2>1, <2>2, Basics
  <1>2. CASE StepStart
    <2>1. r' = [r EXCEPT !.jm = "TWO_PHASE", !.timer = job.twoPhase]
      BY <1>2 DEF StepStart
    <2>2. FitRequest(r') /\ r'.jm = "TWO_PHASE"
      BY <1>0, <2>1 DEF FitRequest, RequestType
    <2> QED
      BY <1>0, <1>1, <1>2, <2>2 DEF StepStart, Return, Queries
  <1>3. CASE StepTwoPhase
    <2>1. r' \in {[r EXCEPT !.extend = FALSE, !.timer = TRUE],
                  [r EXCEPT !.jm = "TWO_PHASE_COMMITTED"], [r EXCEPT !.jm = "STOP", !.overdue = TRUE],
                  [r EXCEPT !.jm = "FAILED", !.failure = "COMMIT_TIMED_OUT", !.unsent = TRUE]}
      BY <1>3 DEF StepTwoPhase, TimedOut
    <2>2. FitRequest(r') /\ r'.jm \notin QueryStates
      <3>1. r.jm = "TWO_PHASE"
        BY <1>3 DEF StepTwoPhase
      <3>2. CASE r' = [r EXCEPT !.extend = FALSE, !.timer = TRUE]
        BY <1>0, <3>1, <3>2 DEF FitRequest, RequestType, QueryStates
      <3>3. CASE r' \in {[r EXCEPT !.jm = "TWO_PHASE_COMMITTED"], [r EXCEPT !.jm = "STOP", !.overdue = TRUE]}
        BY <1>0, <3>3 DEF FitRequest, RequestType, QueryStates
      <3>4. CASE r' = [r EXCEPT !.jm = "FAILED", !.failure = "COMMIT_TIMED_OUT", !.unsent = TRUE]
        BY <1>0, <3>4 DEF FitRequest, RequestType, QueryStates
      <3> QED
        BY <2>1, <3>2, <3>3, <3>4
    <2> QED
      BY <1>0, <1>1, <1>3, <2>2 DEF StepTwoPhase, Return, Queries, QueryStates
  <1>4. CASE StepRestart
    <2>1. r' = RestartState /\ pause' = IF CondorRecovers THEN pause + 1 ELSE pause
      BY <1>4 DEF StepRestart
    <2>2. r' \in RequestType /\ r'.jm \notin QueryStates
      BY <1>0, <1>4, <2>1, RestartKeeps DEF QueryStates, StepRestart
    <2>3. r'.id <= Len(lrm)
      BY <1>0, <2>1, RestartKeeps, LenProperties
    <2> QED
      BY <1>0, <1>1, <1>4, <2>1, <2>2, <2>3
         DEF StepRestart, FitRequest, Queries, QueryStates
  <1>5. CASE StepStageInFailed
    <2>1. \E f \in Failures : r' = [r EXCEPT !.jm = "FAILED", !.failure = f]
      BY <1>0, <1>5 DEF StepStageInFailed, RequestType
    <2>2. FitRequest(r') /\ r'.jm = "FAILED"
      BY <1>0, <2>1 DEF FitRequest, RequestType
    <2> QED
      BY <1>0, <1>1, <1>5, <2>2 DEF StepStageInFailed, Queries
  <1>6. CASE StepQuery2
    <2> DEFINE t == Tail(r.queries)
    <2>1. r.jm \in QueryStates /\ r.queries # <<>>
      BY <1>0, <1>6 DEF StepQuery2, BasicInv, Queries, QueryStates
    <2>2. t \in QueryQueue
      BY <1>0, <2>1, HeadTailProperties DEF RequestType, QueryQueue
    <2>3. \E j \in States, b \in BOOLEAN :
             /\ r' = [r EXCEPT !.queries = t, !.jm = j, !.timer = b]
             /\ j \in QueryStates => t # <<>>
      <3> DEFINE q == [r EXCEPT !.queries = Tail(@)]
                 more == q.queries # <<>>
                 j2 == IF more THEN "TWO_PHASE_QUERY1" ELSE "TWO_PHASE"
                 jp == IF more THEN "POLL_QUERY1"
                                     ELSE IF q.unsent \/ q.events # <<>> THEN "POLL1"
                                     ELSE "POLL2"
      <3>0. q \in RequestType /\ q.queries = t /\ q.timer = r.timer /\ q = [r EXCEPT !.queries = t]
        BY <1>0, <2>2 DEF RequestType
      <3>1. /\ j2 \in States /\ (j2 \in QueryStates => t # <<>>)
            /\ jp \in States /\ (jp \in QueryStates => t # <<>>)
        BY <3>0 DEF QueryStates
      <3>2. \/ r' = [q EXCEPT !.jm = j2, !.timer = ~more]
            \/ r' = [q EXCEPT !.jm = jp]
        BY <1>6 DEF StepQuery2
      <3> HIDE DEF q, j2, jp, t, more
      <3>3. CASE r' = [q EXCEPT !.jm = jp]
        <4>1. r' = [r EXCEPT !.queries = t, !.jm = jp, !.timer = r.timer]
          BY <1>0, <3>0, <3>3 DEF RequestType
        <4> QED
          BY <1>0, <3>1, <4>1 DEF RequestType
      <3>4. CASE r' = [q EXCEPT !.jm = j2, !.timer = ~more]
        <4>1. r' = [r EXCEPT !.queries = t, !.jm = j2, !.timer = ~more]
          BY <1>0, <3>0, <3>4 DEF RequestType
        <4> QED
          BY <1>0, <3>1, <4>1 DEF RequestType
      <3> QED
        BY <3>2, <3>3, <3>4
    <2>4. PICK j \in States, b \in BOOLEAN :
             /\ r' = [r EXCEPT !.queries = t, !.jm = j, !.timer = b]
             /\ j \in QueryStates => t # <<>>
      BY <2>3
    <2> HIDE DEF t
    <2>5. FitRequest(r') /\ r'.jm = j /\ r'.queries = t
      BY <1>0, <2>2, <2>4 DEF FitRequest, RequestType
    <2>6. Queries'
      BY <2>4, <2>5 DEF Queries, QueryStates
    <2> QED
      BY <1>0, <1>1, <1>6, <2>5, <2>6 DEF StepQuery2, Return
  <1>7. CASE StepTwoPhaseEnd
    <2>1. /\ r' \in {[r EXCEPT !.extend = FALSE, !.timer = TRUE],
                     [r EXCEPT !.jm = IF @ = "TWO_PHASE_END" THEN "TWO_PHASE_END_COMMITTED"
                                        ELSE "FAILED_TWO_PHASE_COMMITTED"],
                     [r EXCEPT !.restart = r.jm, !.jm = "STOP", !.overdue = TRUE]}
          /\ run' \in {"idle", "loop"}
      BY <1>7, Zenon DEF StepTwoPhaseEnd
    <2>2. FitRequest(r') /\ r'.jm \notin QueryStates
      BY <1>0, <1>7, <2>1 DEF FitRequest, RequestType, QueryStates, StepTwoPhaseEnd
    <2> QED
      BY <1>0, <1>1, <1>7, <2>1, <2>2 DEF StepTwoPhaseEnd, Queries, QueryStates
  <1>8. CASE StepCleanUp
    <2>1. \E j \in States : j \notin QueryStates /\ r' = [r EXCEPT !.jm = j]
      <3> DEFINE j == IF r.jm = "FILE_CLEAN_UP" /\ r.status = "FAILED"
                      THEN "FAILED_SCRATCH_CLEAN_UP" ELSE CleanUp[r.jm]
      <3>1. r' = [r EXCEPT !.jm = j] /\ r.jm \in DOMAIN CleanUp
        BY <1>8 DEF StepCleanUp
      <3>2. j \in States /\ j \notin QueryStates
        BY <3>1, CleanUpIs DEF QueryStates
      <3> QED
        BY <3>1, <3>2
    <2>2. FitRequest(r') /\ r'.jm \notin QueryStates
      BY <1>0, <2>1 DEF FitRequest, RequestType
    <2> QED
      BY <1>0, <1>1, <1>8, <2>2 DEF StepCleanUp, Queries, QueryStates
  <1> QED
    BY <1>2, <1>3, <1>4, <1>5, <1>6, <1>7, <1>8

\* A script that is queued is of the right type and knows of LRM jobs only.
LEMMA ScriptIs ==
    ASSUME NEW q, FitRequest(q), NEW cmd \in Cmds
    PROVE  /\ Script(cmd, q) \in ScriptType /\ ScriptKnown(Script(cmd, q))
           /\ Script(cmd, q).cmd = cmd /\ Script(cmd, q).res = "none"
           /\ RunScript(cmd, q) => FitScripts /\ scripts' = Append(scripts, Script(cmd, q))
  BY DEF Script, ScriptType, ScriptKnown, FitRequest, RequestType, LrmStates, RunScript, FitScripts

LEMMA NotifyIs ==
    ASSUME NEW q \in RequestType, told \in Statuses \cup {"none"}, Notify(q)
    PROVE  told' \in {told, "FAILED", q.status} /\ told' \in Statuses \cup {"none"}
  BY Names DEF Notify, RequestType

LEMMA FinalNotifyIs ==
    ASSUME NEW q \in RequestType, posts \in Nat, told \in Statuses \cup {"none"}, FinalNotify(q)
    PROVE  /\ told' \in {told, q.status} /\ told' \in Statuses \cup {"none"}
           /\ posts' \in {posts, posts + 1}
           /\ r' = q \/ (r' = [q EXCEPT !.timer = TRUE] /\ posts' = posts /\ ~q.contact)
  BY DEF FinalNotify, RequestType

LEMMA WrittenFits ==
    ASSUME NEW q, FitRequest(q)
    PROVE  FitFile(Written(q))
  BY WrittenType DEF FitRequest, FitFile

\* The steps that run a script, write the state file or tell the client.
LEMMA BasicLoudSteps ==
    ASSUME BasicInv,
           \/ StepTwoPhaseCommitted \/ StepSubmitting \/ StepPoll2 \/ StepQuery1
           \/ StepClosing \/ StepCloseOutput \/ StepCacheCleanUp \/ StepStop
    PROVE  BasicInv'
  <1> USE NoQueries, Names DEF place, mgr, env, ghosts, At
  <1>0. /\ mem = "live" /\ run # "idle" /\ Types /\ Placed /\ Known /\ r \in RequestType
        /\ r.id <= Len(lrm) /\ job.twoPhase \in BOOLEAN /\ job.stageIn \in BOOLEAN
        /\ lrm \in Seq(LrmStates) /\ FitRequest(r) /\ FitFile(file)
        /\ pause \in Int /\ run \in {"idle", "loop", "first"}
        /\ told \in Statuses \cup {"none"}
    <2>1. run # "idle"
      BY DEF StepTwoPhaseCommitted, StepSubmitting, StepPoll2, StepQuery1, StepClosing,
             StepCloseOutput, StepCacheCleanUp, StepStop
    <2> QED
      BY <2>1, JobBooleans DEF BasicInv, Types, Placed, Known, FitRequest, FitFile
  <1> DEFINE Fits == /\ FitRequest(r') /\ (r'.jm \notin QueryStates \/ r'.queries # <<>>)
                     /\ run' \in {"idle", "loop", "first"} /\ pause' \in Int
                     /\ FitFile(file') /\ FitScripts /\ told' \in Statuses \cup {"none"}
                     /\ UNCHANGED <<job, mem, loaded, pending, posts, held,
                                    resumed, idHash, lrm, pos, committed, ended,
                                    stagedOut, used>>
  <1>1. Fits => BasicInv'
    <2> SUFFICES ASSUME Fits PROVE BasicInv'
      OBVIOUS
    <2>1. Queries'
      BY DEF Queries, QueryStates
    <2>2. /\ posts' \in Nat /\ held' \in Seq(EventType) /\ resumed' \in Seq(EventType)
          /\ idHash' \subseteq 1..Len(lrm)
          /\ committed' \in BOOLEAN /\ ended' \in BOOLEAN /\ stagedOut' \in BOOLEAN
          /\ used' \in [DOMAIN Max -> Nat]
      BY <1>0 DEF Types
    <2> QED
      BY <1>0, <2>1, <2>2, Basics
  <1> USE DEF Cmds
  <1>2. CASE StepTwoPhaseCommitted
    <2> DEFINE q == IF r.jmRestart THEN RestartState ELSE r
    <2>1. FitRequest(q)
      BY <1>0, RestartKeeps, LenProperties DEF FitRequest
    <2> HIDE DEF q
    <2>2. CASE job.stageIn
      <3>1. r' = [q EXCEPT !.jm = "STAGE_IN", !.status = "STAGE_IN"]
            /\ Notify(r') /\ RunScript("stage_in", r')
        BY <1>2, <2>2 DEF StepTwoPhaseCommitted, q
      <3>2. FitRequest(r') /\ r'.jm = "STAGE_IN"
        BY <2>1, <3>1 DEF FitRequest, RequestType
      <3>3. FitScripts
        BY <3>1, <3>2, ScriptIs
      <3>4. told' \in Statuses \cup {"none"}
        <4>1. r' \in RequestType
          BY <3>2 DEF FitRequest
        <4> QED
          BY <1>0, <3>1, <4>1, NotifyIs
      <3> QED
        BY <1>0, <1>1, <1>2, <3>2, <3>3, <3>4 DEF StepTwoPhaseCommitted, Return, QueryStates
    <2>3. CASE ~job.stageIn
      <3>1. r' = [q EXCEPT !.jm = "STAGE_IN"] /\ UNCHANGED <<told, scripts>>
        BY <1>2, <2>3 DEF StepTwoPhaseCommitted, q
      <3>2. FitRequest(r') /\ r'.jm = "STAGE_IN"
        BY <2>1, <3>1 DEF FitRequest, RequestType
      <3> QED
        BY <1>0, <1>1, <1>2, <3>1, <3>2 DEF StepTwoPhaseCommitted, Return, QueryStates, FitScripts
    <2> QED
      BY <2>2, <2>3
  <1>3. CASE StepSubmitting
    <2> DEFINE q == [r EXCEPT !.jm = "SUBMIT", !.restart = "SUBMIT"]
    <2>1. /\ r' = [q EXCEPT !.seen = 0] /\ file' = Written(q) /\ RunScript("submit", q)
          /\ pause' = pause + 1 /\ run' = "idle"
          /\ UNCHANGED <<job, place, posts, held, resumed, idHash, env, ghosts, used>>
      BY <1>3 DEF StepSubmitting
    <2>2. FitRequest(q) /\ q.jm = "SUBMIT"
      BY <1>0 DEF FitRequest, RequestType
    <2> HIDE DEF q
    <2>3. FitRequest(r') /\ r'.jm = "SUBMIT"
      BY <2>1, <2>2 DEF FitRequest, RequestType
    <2>4. FitScripts /\ FitFile(file')
      BY <2>1, <2>2, ScriptIs, WrittenFits
    <2> QED
      BY <1>0, <1>1, <2>1, <2>3, <2>4 DEF QueryStates
  <1>4. CASE StepPoll2
    <2>1. CASE job.mode = "poll"
      <3>1. r' = [r EXCEPT !.jm = "POLL1"] /\ RunScript("poll", r') /\ run' = "idle"
        BY <1>4, <2>1 DEF StepPoll2
      <3>2. FitRequest(r') /\ r'.jm = "POLL1"
        BY <1>0, <3>1 DEF FitRequest, RequestType
      <3>3. FitScripts
        BY <3>1, <3>2, ScriptIs
      <3> QED
        BY <1>0, <1>1, <1>4, <3>1, <3>2, <3>3 DEF StepPoll2, QueryStates
    <2>2. CASE job.mode # "poll"
      <3>1. \E j \in {"POLL1", "POLL2"} : r' = [r EXCEPT !.jm = j]
        BY <1>4, <2>2 DEF StepPoll2
      <3>2. FitRequest(r') /\ r'.jm \in {"POLL1", "POLL2"}
        BY <1>0, <3>1 DEF FitRequest, RequestType
      <3> QED
        BY <1>0, <1>1, <1>4, <2>2, <3>2 DEF StepPoll2, QueryStates, Return, FitScripts
    <2> QED
      BY <2>1, <2>2
  <1>5. CASE StepQuery1
    <2>1. r.queries # <<>>
      BY <1>0, <1>5 DEF StepQuery1, BasicInv, Queries
    <2>2. Head(r.queries) \in Cmds
      BY <1>0, <2>1, HeadTailProperties DEF RequestType, QueryQueue
    <2>3. FitScripts
      BY <1>0, <1>5, <2>2, ScriptIs DEF StepQuery1
    <2>4. \E j \in {"POLL_QUERY2", "TWO_PHASE_QUERY2"} : r' = [r EXCEPT !.jm = j]
      BY <1>5 DEF StepQuery1
    <2>5. FitRequest(r') /\ r'.queries = r.queries
      BY <1>0, <2>4 DEF FitRequest, RequestType
    <2> QED
      BY <1>0, <1>1, <1>5, <2>1, <2>3, <2>5 DEF StepQuery1
  <1>6. CASE StepClosing
    <2> DEFINE w == IF r.unsent THEN [r EXCEPT !.restart = r.jm] ELSE r
               toldNow == r.unsent /\ r.status = "STAGE_OUT"
               u == w.unsent /\ ~toldNow
               j == IF w.jm = "FAILED" THEN "FAILED_CLOSE_OUTPUT" ELSE "CLOSE_OUTPUT"
    <2>1. FitRequest(w)
      BY <1>0 DEF FitRequest, RequestType
    <2>2. r' = [w EXCEPT !.unsent = u, !.queries = <<>>, !.jm = j]
      BY <1>6 DEF StepClosing
    <2>3. file' \in {file, Written(w)} /\ (told' = told \/ Notify(w))
      BY <1>6 DEF StepClosing
    <2>4. u \in BOOLEAN /\ j \in {"FAILED_CLOSE_OUTPUT", "CLOSE_OUTPUT"}
      BY <2>1 DEF FitRequest, RequestType
    <2> HIDE DEF w, u, j
    <2>5. FitRequest(r') /\ r'.jm \notin QueryStates
      BY <2>1, <2>2, <2>4 DEF FitRequest, RequestType, QueryStates
    <2>6. told' \in Statuses \cup {"none"}
      BY <1>0, <2>1, <2>3, NotifyIs DEF FitRequest
    <2>7. FitFile(file')
      BY <1>0, <2>1, <2>3, WrittenFits
    <2> QED
      BY <1>0, <1>1, <1>6, <2>5, <2>6, <2>7 DEF StepClosing, FitScripts
  <1>7. CASE StepCloseOutput
    <2>1. r' \in {[r EXCEPT !.jm = "FAILED_CLOSE_OUTPUT"],
                  [r EXCEPT !.jm = "STAGE_OUT", !.unsent = TRUE]}
      BY <1>7 DEF StepCloseOutput
    <2>2. FitRequest(r') /\ r'.jm \notin QueryStates
      BY <1>0, <2>1 DEF FitRequest, RequestType, QueryStates
    <2>3. scripts' = scripts \/ RunScript("stage_out", r')
      BY <1>7 DEF StepCloseOutput
    <2>4. FitScripts
      BY <2>2, <2>3, ScriptIs DEF FitScripts
    <2> QED
      BY <1>0, <1>1, <1>7, <2>2, <2>4 DEF StepCloseOutput, Return
  <1>8. CASE StepCacheCleanUp
    <2>1. \E j \in {"DONE", "FAILED_DONE"} : r' = [r EXCEPT !.queries = <<>>, !.jm = j]
      BY <1>8 DEF StepCacheCleanUp
    <2>2. FitRequest(r') /\ r'.jm \notin QueryStates
      BY <1>0, <2>1 DEF FitRequest, RequestType, QueryStates
    <2> QED
      BY <1>0, <1>1, <1>8, <2>2 DEF StepCacheCleanUp, FitScripts, FitFile
  <1>9. CASE StepStop
    <2>1. told' \in Statuses \cup {"none"}
      BY <1>0, <1>9, NotifyIs DEF StepStop
    <2>2. FitFile(file')
      BY <1>0, <1>9, WrittenFits DEF StepStop
    <2> QED
      BY <1>0, <1>1, <1>9, <2>1, <2>2 DEF StepStop, FitScripts, QueryStates
  <1> QED
    BY <1>2, <1>3, <1>4, <1>5, <1>6, <1>7, <1>8, <1>9

LEMMA BasicSubmit ==
    ASSUME BasicInv, StepSubmit
    PROVE  BasicInv'
  <1> USE NoQueries, Names DEF place, mgr, env, ghosts, At
  <1>0. /\ mem = "live" /\ Types /\ Placed /\ Known /\ FitRequest(r)
        /\ pause \in Int /\ held \in Seq(EventType) /\ resumed \in Seq(EventType)
        /\ idHash \subseteq 1..Len(lrm) /\ lrm \in Seq(LrmStates)
    BY DEF BasicInv, Types, Placed, Known, FitRequest, StepSubmit
  <1> DEFINE q == IF r.id = NoId
             THEN [r EXCEPT !.status = "FAILED", !.unsent = TRUE,
                            !.failure = IF @ = "none" THEN "SUBMIT" ELSE @]
             ELSE r
  <1>1. FitRequest(q)
    <2> DEFINE f == IF r.failure = "none" THEN "SUBMIT" ELSE r.failure
    <2>1. q = r \/ q = [r EXCEPT !.status = "FAILED", !.unsent = TRUE, !.failure = f]
      OBVIOUS
    <2>2. f \in Failures
      BY <1>0 DEF FitRequest, RequestType
    <2> HIDE DEF f, q
    <2> QED
      BY <1>0, <2>1, <2>2 DEF FitRequest, RequestType
  <1>2. /\ r' = [q EXCEPT !.jm = "POLL1", !.restart = "POLL1"]
        /\ file' = Written(r') /\ run' = "first" /\ Resume
        /\ idHash' = IF r.id > 0 THEN idHash \cup {r.id} ELSE idHash
        /\ UNCHANGED <<job, place, scripts, posts, env, ghosts, used>>
    BY DEF StepSubmit
  <1> HIDE DEF q
  <1>3. FitRequest(r') /\ r'.jm = "POLL1"
    BY <1>1, <1>2 DEF FitRequest, RequestType
  <1>4. FitFile(file')
    BY <1>2, <1>3, WrittenFits
  <1>5. idHash' \subseteq 1..Len(lrm)
    <2>1. Len(lrm) \in Nat /\ r.id \in Int /\ r.id <= Len(lrm)
      BY <1>0, LenProperties DEF FitRequest, RequestType
    <2>2. r.id > 0 => r.id \in 1..Len(lrm)
      BY <2>1
    <2> QED
      BY <1>0, <1>2, <2>2
  <1>6. pause' \in Int /\ held' \in Seq(EventType) /\ resumed' \in Seq(EventType)
    <2>1. <<>> \in Seq(EventType)
      BY EmptySeq
    <2>2. resumed \o held \in Seq(EventType)
      BY <1>0, ConcatProperties
    <2>3. /\ pause' = pause - 1 /\ held' \in {held, <<>>}
          /\ resumed' \in {resumed, resumed \o held}
      BY <1>2 DEF Resume
    <2>4. pause' \in Int
      BY <1>0, <2>3
    <2>5. held' \in Seq(EventType)
      BY <1>0, <2>1, <2>3, Zenon
    <2>6. resumed' \in Seq(EventType)
      BY <1>0, <2>2, <2>3, Zenon
    <2> QED
      BY <2>4, <2>5, <2>6
  <1>7. Queries' /\ FitScripts
    BY <1>2, <1>3 DEF Queries, FitScripts
  <1>8. /\ posts' \in Nat /\ told' \in Statuses \cup {"none"}
        /\ committed' \in BOOLEAN /\ ended' \in BOOLEAN /\ stagedOut' \in BOOLEAN
        /\ used' \in [DOMAIN Max -> Nat] /\ run' \in {"idle", "loop", "first"}
    BY <1>0, <1>2 DEF Types
  <1> QED
    BY <1>0, <1>2, <1>3, <1>4, <1>5, <1>6, <1>7, <1>8, Basics

\* What POLL1 leaves: the request after its oldest event, in the state that follows.
LEMMA Poll1Is ==
    ASSUME Types, StepPoll1
    PROVE  \E q, w \in RequestType, j \in {"FAILED", "PRE_CLOSE_OUTPUT", "POLL_QUERY1",
                                          "POLL1", "POLL2"},
              u \in BOOLEAN, t \in BOOLEAN :
             /\ r.events = <<>> => q = r
             /\ r.events # <<>> => q = Handled(r)
             /\ w = q \/ w = [q EXCEPT !.restart = "POLL1"]
             /\ file' = file \/ (file' = Written(w) /\ w = [q EXCEPT !.restart = "POLL1"])
             /\ r' = [w EXCEPT !.jm = j, !.unsent = u, !.timer = t]
             /\ told' = told \/ (Notify(w) /\ w.status \notin {"FAILED", "DONE", "STAGE_OUT"})
             /\ run' \in {"idle", "loop"}
             /\ j = "FAILED" => w.status = "FAILED"
             /\ j = "PRE_CLOSE_OUTPUT" => w.status \in {"DONE", "STAGE_OUT"}
             /\ j = "POLL_QUERY1" => w.queries # <<>> /\ run' = "loop"
             /\ t => w.timer \/ (run' = "idle" /\ j = "POLL2")
  <1> DEFINE q == IF r.events # <<>> THEN Handled(r) ELSE r
             w == IF q.unsent THEN [q EXCEPT !.restart = "POLL1"] ELSE q
             quiet == [w EXCEPT !.unsent = FALSE]
             F(p, j, u, t) ==
                 /\ p = [w EXCEPT !.jm = j, !.unsent = u, !.timer = t]
                 /\ told' = told \/ (Notify(w) /\ w.status \notin {"FAILED", "DONE", "STAGE_OUT"})
                 /\ run' \in {"idle", "loop"}
                 /\ j = "FAILED" => w.status = "FAILED"
                 /\ j = "PRE_CLOSE_OUTPUT" => w.status \in {"DONE", "STAGE_OUT"}
                 /\ j = "POLL_QUERY1" => w.queries # <<>> /\ run' = "loop"
                 /\ t => w.timer \/ (run' = "idle" /\ j = "POLL2")
  <1>1. r \in RequestType /\ q \in RequestType
    BY HandledKeeps DEF Types
  <1>2. w \in RequestType /\ (w = q \/ w = [q EXCEPT !.restart = "POLL1"])
    BY <1>1, Names DEF RequestType
  <1>3. file' = file \/ (file' = Written(w) /\ w = [q EXCEPT !.restart = "POLL1"])
    BY DEF StepPoll1
  <1>4. CASE w.status = "FAILED"
    <2>1. w.status \notin {"DONE", "STAGE_OUT"}
      BY <1>4
    <2>2. r' = [w EXCEPT !.jm = "FAILED"] /\ run' = "loop" /\ UNCHANGED told
      BY <1>4, <2>1, Zenon DEF StepPoll1
    <2> HIDE DEF w
    <2>3. r' = [w EXCEPT !.jm = "FAILED", !.unsent = w.unsent, !.timer = w.timer]
      BY <1>2, <2>2 DEF RequestType
    <2>4. w.unsent \in BOOLEAN /\ w.timer \in BOOLEAN
      BY <1>2 DEF RequestType
    <2>5. F(r', "FAILED", w.unsent, w.timer)
      BY <1>4, <2>2, <2>3
    <2> QED
      BY <1>1, <1>2, <1>3, <2>4, <2>5 DEF w
  <1>5. CASE w.status \in {"DONE", "STAGE_OUT"}
    <2>1. w.status # "FAILED"
      BY <1>5
    <2>2. r' = [w EXCEPT !.jm = "PRE_CLOSE_OUTPUT"] /\ run' = "loop" /\ UNCHANGED told
      BY <1>5, <2>1, Zenon DEF StepPoll1
    <2> HIDE DEF w
    <2>3. r' = [w EXCEPT !.jm = "PRE_CLOSE_OUTPUT", !.unsent = w.unsent, !.timer = w.timer]
      BY <1>2, <2>2 DEF RequestType
    <2>4. w.unsent \in BOOLEAN /\ w.timer \in BOOLEAN
      BY <1>2 DEF RequestType
    <2>5. F(r', "PRE_CLOSE_OUTPUT", w.unsent, w.timer)
      BY <1>5, <2>2, <2>3
    <2> QED
      BY <1>1, <1>2, <1>3, <2>4, <2>5 DEF w
  <1>6. CASE w.status \notin {"FAILED", "DONE", "STAGE_OUT"}
    <2>1. w.status # "FAILED" /\ w.status \notin {"DONE", "STAGE_OUT"}
      BY <1>6
    <2>2. /\ IF w.unsent THEN Notify(w) ELSE UNCHANGED told
          /\ IF w.queries # <<>>
             THEN r' = [quiet EXCEPT !.jm = "POLL_QUERY1"] /\ run' = "loop"
             ELSE IF job.mode = "poll"
             THEN /\ r' = [quiet EXCEPT !.jm = "POLL2", !.timer = run # "first"]
                  /\ Return(run # "first")
             ELSE /\ r' = [quiet EXCEPT !.jm = IF w.events # <<>> THEN "POLL1" ELSE "POLL2"]
                  /\ Return(w.events = <<>>)
      BY <2>1, Zenon DEF StepPoll1
    <2>3. told' = told \/ (Notify(w) /\ w.status \notin {"FAILED", "DONE", "STAGE_OUT"})
      BY <1>6, <2>2
    <2> HIDE DEF w
    <2>4. w.timer \in BOOLEAN
      BY <1>2 DEF RequestType
    <2>5. CASE w.queries # <<>>
      <3>1. r' = [w EXCEPT !.jm = "POLL_QUERY1", !.unsent = FALSE, !.timer = w.timer]
        BY <1>2, <2>2, <2>5 DEF RequestType
      <3>2. F(r', "POLL_QUERY1", FALSE, w.timer)
        BY <2>2, <2>3, <2>5, <3>1
      <3> QED
        BY <1>1, <1>2, <1>3, <2>4, <3>2 DEF w
    <2>6. CASE w.queries = <<>> /\ job.mode = "poll"
      <3> DEFINE t == run # "first"
      <3>1. r' = [w EXCEPT !.jm = "POLL2", !.unsent = FALSE, !.timer = t]
        BY <1>2, <2>2, <2>6 DEF RequestType
      <3>2. F(r', "POLL2", FALSE, t)
        BY <2>2, <2>3, <2>6, <3>1 DEF Return
      <3> QED
        BY <1>1, <1>2, <1>3, <3>2 DEF w
    <2>7. CASE w.queries = <<>> /\ job.mode # "poll"
      <3> DEFINE j == IF w.events # <<>> THEN "POLL1" ELSE "POLL2"
      <3>1. r' = [w EXCEPT !.jm = j, !.unsent = FALSE, !.timer = w.timer]
        BY <1>2, <2>2, <2>7 DEF RequestType
      <3>2. F(r', j, FALSE, w.timer)
        BY <2>2, <2>3, <2>7, <3>1 DEF Return
      <3>3. j \in {"POLL1", "POLL2"}
        OBVIOUS
      <3> QED
        BY <1>1, <1>2, <1>3, <2>4, <3>2, <3>3 DEF w
    <2> QED
      BY <2>5, <2>6, <2>7
  <1> QED
    BY <1>4, <1>5, <1>6

LEMMA BasicPoll1 ==
    ASSUME BasicInv, StepPoll1
    PROVE  BasicInv'
  <1> USE NoQueries, Names DEF place, mgr, env, ghosts
  <1>0. /\ mem = "live" /\ Types /\ Placed /\ Known /\ FitRequest(r) /\ FitFile(file)
        /\ told \in Statuses \cup {"none"} /\ Len(lrm) \in Nat
    BY LenProperties DEF BasicInv, Types, Placed, Known, FitRequest, FitFile, StepPoll1
  <1>1. UNCHANGED <<job, place, scripts, posts, mgr, env, committed, ended, stagedOut, used>>
    BY DEF StepPoll1
  <1>2. PICK q \in RequestType, w \in RequestType,
             j \in {"FAILED", "PRE_CLOSE_OUTPUT", "POLL_QUERY1", "POLL1", "POLL2"},
             u \in BOOLEAN, t \in BOOLEAN :
             /\ r.events = <<>> => q = r
             /\ r.events # <<>> => q = Handled(r)
             /\ w = q \/ w = [q EXCEPT !.restart = "POLL1"]
             /\ file' = file \/ (file' = Written(w) /\ w = [q EXCEPT !.restart = "POLL1"])
             /\ r' = [w EXCEPT !.jm = j, !.unsent = u, !.timer = t]
             /\ told' = told \/ (Notify(w) /\ w.status \notin {"FAILED", "DONE", "STAGE_OUT"})
             /\ run' \in {"idle", "loop"}
             /\ j = "FAILED" => w.status = "FAILED"
             /\ j = "PRE_CLOSE_OUTPUT" => w.status \in {"DONE", "STAGE_OUT"}
             /\ j = "POLL_QUERY1" => w.queries # <<>> /\ run' = "loop"
             /\ t => w.timer \/ (run' = "idle" /\ j = "POLL2")
    BY <1>0, Poll1Is
  <1>3. q.id <= Len(lrm)
    BY <1>0, <1>2, HandledKeeps DEF FitRequest, EmptyId
  <1>4. FitRequest(w)
    BY <1>2, <1>3 DEF FitRequest, RequestType
  <1>5. FitRequest(r') /\ r'.jm = j /\ r'.queries = w.queries
    BY <1>2, <1>4 DEF FitRequest, RequestType
  <1>6. FitFile(file') /\ told' \in Statuses \cup {"none"}
    BY <1>0, <1>2, <1>4, WrittenFits, NotifyIs
  <1>7. Queries' /\ FitScripts
    BY <1>1, <1>2, <1>5 DEF Queries, FitScripts
  <1>8. /\ posts' \in Nat /\ pause' \in Int /\ held' \in Seq(EventType)
        /\ resumed' \in Seq(EventType) /\ idHash' \subseteq 1..Len(lrm)
        /\ committed' \in BOOLEAN /\ ended' \in BOOLEAN /\ stagedOut' \in BOOLEAN
        /\ used' \in [DOMAIN Max -> Nat] /\ run' \in {"idle", "loop", "first"}
    BY <1>0, <1>1, <1>2 DEF Types
  <1> QED
    BY <1>0, <1>1, <1>5, <1>6, <1>7, <1>8, Basics

\* The request a job's end leaves.
LEMMA FinalStatusIs ==
    ASSUME r \in RequestType, posts \in Nat, told \in Statuses \cup {"none"}, StepFinalStatus
    PROVE  \E s \in {"FAILED", "DONE"}, f \in Failures, t \in BOOLEAN :
             LET j == IF s = "FAILED" THEN "FAILED_TWO_PHASE" ELSE "TWO_PHASE_END" IN
             /\ r' = [r EXCEPT !.unsent = FALSE, !.jm = j, !.status = s, !.failure = f,
                               !.timer = t]
             /\ s = "DONE" => r.jm = "STAGE_OUT" /\ ~r.todoOut
             /\ s = "FAILED" => r.jm = "FAILED_CLOSE_OUTPUT" \/ r.todoOut
             /\ f = r.failure \/ (f = "STAGE_OUT_FAILED" /\ r.jm = "STAGE_OUT")
             /\ told' \in {told, s} /\ posts' \in {posts, posts + 1}
             /\ posts' # posts => run' = "idle"
             /\ t => r.timer \/ (run' = "idle" /\ posts' = posts)
  <1> DEFINE failed == r.jm = "FAILED_CLOSE_OUTPUT" \/ r.todoOut
             j == IF failed THEN "FAILED_TWO_PHASE" ELSE "TWO_PHASE_END"
             s == IF failed THEN "FAILED" ELSE "DONE"
             f == IF r.jm = "STAGE_OUT" /\ r.todoOut /\ r.failure = "none"
                             THEN "STAGE_OUT_FAILED" ELSE r.failure
             q == [r EXCEPT !.unsent = FALSE, !.jm = j, !.status = s, !.failure = f]
  <1>1. /\ IF r.unsent /\ job.twoPhase THEN FinalNotify(q)
           ELSE /\ r' = q /\ UNCHANGED posts
                /\ IF r.unsent THEN Notify(q) ELSE UNCHANGED told
        /\ Return(r.unsent /\ job.twoPhase)
        /\ r.jm \in {"STAGE_OUT", "FAILED_CLOSE_OUTPUT"}
    BY DEF StepFinalStatus, At
  <1>2. /\ f \in Failures /\ s \in {"FAILED", "DONE"}
        /\ j = IF s = "FAILED" THEN "FAILED_TWO_PHASE" ELSE "TWO_PHASE_END"
        /\ s = "DONE" => r.jm = "STAGE_OUT" /\ ~r.todoOut
        /\ s = "FAILED" => r.jm = "FAILED_CLOSE_OUTPUT" \/ r.todoOut
        /\ f = r.failure \/ (f = "STAGE_OUT_FAILED" /\ r.jm = "STAGE_OUT")
    BY <1>1, Names DEF RequestType
  <1> HIDE DEF s, f, j, failed
  <1>3. q \in RequestType /\ q.status = s /\ q.timer = r.timer /\ q.jm # "STOP"
    BY <1>2, Names DEF RequestType
  <1>4. /\ told' \in {told, s} /\ posts' \in {posts, posts + 1}
        /\ posts' # posts => run' = "idle"
        /\ r' = q \/ (r' = [q EXCEPT !.timer = TRUE] /\ run' = "idle" /\ posts' = posts)
    <2>1. CASE r.unsent /\ job.twoPhase
      BY <1>1, <1>3, <2>1, FinalNotifyIs DEF Return
    <2>2. CASE ~(r.unsent /\ job.twoPhase)
      BY <1>1, <1>3, <2>2 DEF Notify
    <2> QED
      BY <2>1, <2>2
  <1>5. CASE r' = q
    <2>1. r' = [r EXCEPT !.unsent = FALSE, !.jm = j, !.status = s, !.failure = f,
                         !.timer = r.timer]
      BY <1>5 DEF RequestType
    <2>2. r.timer \in BOOLEAN
      BY DEF RequestType
    <2> QED
      BY <1>2, <1>4, <2>1, <2>2
  <1>6. CASE r' = [q EXCEPT !.timer = TRUE] /\ run' = "idle" /\ posts' = posts
    <2>1. r' = [r EXCEPT !.unsent = FALSE, !.jm = j, !.status = s, !.failure = f,
                         !.timer = TRUE]
      BY <1>6 DEF RequestType
    <2> QED
      BY <1>2, <1>4, <1>6, <2>1
  <1> QED
    BY <1>4, <1>5, <1>6

LEMMA BasicFinalStatus ==
    ASSUME BasicInv, StepFinalStatus
    PROVE  BasicInv'
  <1> USE Names DEF place, mgr, env, ghosts
  <1>0. /\ mem = "live" /\ Types /\ Placed /\ Known /\ FitRequest(r) /\ FitFile(file)
        /\ told \in Statuses \cup {"none"} /\ posts \in Nat
    BY DEF BasicInv, Types, Placed, Known, FitRequest, FitFile, StepFinalStatus, At
  <1>1. UNCHANGED <<job, place, file, scripts, mgr, env, committed, ended, stagedOut, used>>
        /\ run' \in {"idle", "loop"}
    BY DEF StepFinalStatus, Return
  <1>2. PICK s \in {"FAILED", "DONE"}, f \in Failures, t \in BOOLEAN :
             LET j == IF s = "FAILED" THEN "FAILED_TWO_PHASE" ELSE "TWO_PHASE_END" IN
             /\ r' = [r EXCEPT !.unsent = FALSE, !.jm = j, !.status = s, !.failure = f,
                               !.timer = t]
             /\ told' \in {told, s} /\ posts' \in {posts, posts + 1}
    BY <1>0, FinalStatusIs DEF FitRequest
  <1>3. FitRequest(r') /\ r'.jm \in {"FAILED_TWO_PHASE", "TWO_PHASE_END"}
    <2> DEFINE j == IF s = "FAILED" THEN "FAILED_TWO_PHASE" ELSE "TWO_PHASE_END"
    <2>1. r' = [r EXCEPT !.unsent = FALSE, !.jm = j, !.status = s, !.failure = f, !.timer = t]
      BY <1>2
    <2>2. j \in {"FAILED_TWO_PHASE", "TWO_PHASE_END"}
      OBVIOUS
    <2> HIDE DEF j
    <2> QED
      BY <1>0, <2>1, <2>2 DEF FitRequest, RequestType
  <1>4. FitScripts /\ FitFile(file') /\ posts' \in Nat /\ Queries'
    BY <1>0, <1>1, <1>2, <1>3 DEF FitScripts, FitFile, Queries
  <1>5. /\ pause' \in Int /\ held' \in Seq(EventType)
        /\ resumed' \in Seq(EventType) /\ idHash' \subseteq 1..Len(lrm)
        /\ committed' \in BOOLEAN /\ ended' \in BOOLEAN /\ stagedOut' \in BOOLEAN
        /\ used' \in [DOMAIN Max -> Nat] /\ run' \in {"idle", "loop", "first"}
        /\ told' \in Statuses \cup {"none"}
    BY <1>0, <1>1, <1>2 DEF Types
  <1> QED
    BY <1>0, <1>1, <1>3, <1>4, <1>5, Basics

LEMMA BasicDone ==
    ASSUME BasicInv, StepDone
    PROVE  BasicInv'
  <1> USE NoQueries, Names DEF place, mgr, env, ghosts
  <1>0. /\ mem = "live" /\ Types /\ Placed /\ Known /\ FitRequest(r) /\ FitFile(file)
        /\ job \in Jobs /\ run # "idle" /\ Len(lrm) \in Nat /\ r.jm \in Final
    BY LenProperties
       DEF BasicInv, Types, Placed, Known, FitRequest, FitFile, StepDone, At
  <1>1. /\ file' \in {file, NoFile} /\ idHash' \subseteq idHash /\ run' = "idle"
        /\ UNCHANGED <<job, loaded, pending, scripts, posts, pause, held, resumed,
                      env, ghosts, used>>
        /\ IF r.timer \/ scripts # <<>> \/ posts > 0
           THEN /\ r' = [r EXCEPT !.queries = <<>>, !.events = <<>>, !.restart = r.jm]
                /\ mem' = mem
           ELSE r' = NewRequest /\ mem' = "gone"
    BY DEF StepDone
  <1>2. FitFile(file') /\ idHash' \subseteq 1..Len(lrm)
    BY <1>0, <1>1 DEF FitFile, Types
  <1>3. CASE r.timer \/ scripts # <<>> \/ posts > 0
    <2>1. r' = [r EXCEPT !.queries = <<>>, !.events = <<>>, !.restart = r.jm] /\ mem' = mem
      BY <1>1, <1>3
    <2>2. FitRequest(r') /\ r'.jm = r.jm
      BY <1>0, <2>1 DEF FitRequest, RequestType
    <2>3. FitScripts /\ Queries'
      BY <1>0, <1>1, <2>2 DEF FitScripts, Queries, Final
    <2>4. /\ pause' \in Int /\ held' \in Seq(EventType) /\ resumed' \in Seq(EventType)
          /\ committed' \in BOOLEAN /\ ended' \in BOOLEAN /\ stagedOut' \in BOOLEAN
          /\ used' \in [DOMAIN Max -> Nat] /\ run' \in {"idle", "loop", "first"}
          /\ told' \in Statuses \cup {"none"} /\ posts' \in Nat
      BY <1>0, <1>1 DEF Types
    <2> QED
      BY <1>0, <1>1, <1>2, <2>1, <2>2, <2>3, <2>4, Basics
  <1>4. CASE ~(r.timer \/ scripts # <<>> \/ posts > 0)
    <2>1. r' = NewRequest /\ mem' = "gone" /\ NewRequest' = NewRequest
      BY <1>1, <1>4 DEF NewRequest
    <2>2. scripts = <<>> /\ posts = 0 /\ ~pending
      BY <1>0, <1>4 DEF Types, Placed
    <2>3. NewRequest \in RequestType /\ NewRequest.id = 0 /\ NewRequest.jm = "START"
      BY <1>0, NewRequestType
    <2>4. Types'
      BY <1>0, <1>1, <1>2, <2>1, <2>3 DEF Types, FitFile
    <2>5. Placed'
      BY <1>1, <2>1, <2>2 DEF Placed
    <2>6. Known'
      BY <1>0, <1>1, <1>2, <2>1, <2>2, <2>3 DEF Known, FitFile
    <2>7. Queries'
      BY <2>1, <2>3 DEF Queries
    <2> QED
      BY <2>4, <2>5, <2>6, <2>7 DEF BasicInv
  <1> QED
    BY <1>3, <1>4

LEMMA BasicStep ==
    ASSUME BasicInv, Step
    PROVE  BasicInv'
  BY BasicQuietSteps, BasicLoudSteps, BasicSubmit, BasicPoll1, BasicFinalStatus, BasicDone
     DEF Step

LEMMA BasicCallbacks ==
    ASSUME BasicInv,
           TimerFires \/ CallbackReply \/ \E i \in DOMAIN scripts : ScriptDone(i)
    PROVE  BasicInv'
  <1> USE DEF place, mgr, env, ghosts
  <1>0. /\ Types /\ Placed /\ Known /\ FitRequest(r) /\ FitFile(file) /\ posts \in Nat
        /\ scripts \in Seq(ScriptType) /\ DOMAIN scripts = 1..Len(scripts)
        /\ \A i \in 1..Len(scripts) : ScriptKnown(scripts[i]) /\ scripts[i] \in ScriptType
    <2>1. scripts \in Seq(ScriptType)
      BY DEF BasicInv, Types
    <2>2. DOMAIN scripts = 1..Len(scripts) /\ \A i \in 1..Len(scripts) : scripts[i] \in ScriptType
      BY <2>1, LenProperties, ElementOfSeq
    <2> QED
      BY <2>1, <2>2 DEF BasicInv, Types, Known, FitRequest, FitFile
  <1> DEFINE Fits ==
          /\ mem = "live" /\ FitRequest(r') /\ FitFile(file') /\ FitScripts /\ posts' \in Nat
          /\ (r.jm \in QueryStates /\ r.queries = <<>> => r'.jm \notin QueryStates)
          /\ run' \in {"idle", "loop"} /\ r'.jm = r.jm /\ r'.queries = r.queries
          /\ UNCHANGED <<job, mem, loaded, pending, pause, held, resumed, idHash, lrm, pos, told,
                         committed, ended, stagedOut, used>>
  <1>1. Fits => BasicInv'
    <2> SUFFICES ASSUME Fits PROVE BasicInv'
      OBVIOUS
    <2>1. Queries'
      BY DEF Queries, QueryStates
    <2>2. /\ pause' \in Int /\ held' \in Seq(EventType) /\ resumed' \in Seq(EventType)
          /\ idHash' \subseteq 1..Len(lrm) /\ told' \in Statuses \cup {"none"}
          /\ committed' \in BOOLEAN /\ ended' \in BOOLEAN /\ stagedOut' \in BOOLEAN
          /\ used' \in [DOMAIN Max -> Nat]
      BY <1>0 DEF Types
    <2> QED
      BY <1>0, <2>1, <2>2, Basics
  <1>2. CASE TimerFires
    <2>1. r' = [r EXCEPT !.timer = FALSE] /\ r.timer /\ mem = "live"
      BY <1>2 DEF TimerFires
    <2>2. FitRequest(r') /\ r'.jm = r.jm /\ r'.queries = r.queries
      BY <1>0, <2>1 DEF FitRequest, RequestType
    <2>3. ~(r.jm \in QueryStates /\ r.queries = <<>>)
      BY <2>1 DEF BasicInv, Queries, QueryStates
    <2> QED
      BY <1>0, <1>1, <1>2, <2>1, <2>2, <2>3 DEF TimerFires, FitScripts
  <1>3. CASE CallbackReply
    <2>1. r' = [r EXCEPT !.timer = TRUE] /\ posts > 0 /\ posts' = posts - 1
      BY <1>3 DEF CallbackReply
    <2>2. FitRequest(r') /\ r'.jm = r.jm /\ r'.queries = r.queries
      BY <1>0, <2>1 DEF FitRequest, RequestType
    <2>3. ~(r.jm \in QueryStates /\ r.queries = <<>>)
      BY <1>0, <2>1 DEF BasicInv, Queries, QueryStates
    <2>4. posts' \in Nat /\ mem = "live"
      BY <1>0, <2>1 DEF Types, Placed
    <2> QED
      BY <1>0, <1>1, <1>3, <2>2, <2>3, <2>4 DEF CallbackReply, FitScripts
  <1>4. ASSUME NEW i \in DOMAIN scripts, ScriptDone(i)
        PROVE  BasicInv'
    <2> DEFINE q == Applied(r, scripts[i])
    <2>0. scripts[i] \in ScriptType /\ ScriptKnown(scripts[i]) /\ scripts[i].res # "none"
      BY <1>0, <1>4 DEF ScriptDone
    <2>1. /\ r' = [q EXCEPT !.timer = TRUE] /\ file' \in {file, Written(q)}
          /\ scripts' = Without(scripts, i) /\ run = "idle"
          /\ UNCHANGED <<job, place, run, posts, mgr, env, ghosts, used>>
      BY <1>4 DEF ScriptDone
    <2>2. FitRequest(q) /\ q.jm = r.jm /\ q.queries = r.queries
      <3>1. /\ q \in RequestType /\ Keeps(q, r)
            /\ q.id = r.id
               \/ (scripts[i].cmd = "submit" /\ scripts[i].res = "ok" /\ q.id = scripts[i].id)
        BY <1>0, <2>0, AppliedKeeps DEF FitRequest
      <3> HIDE DEF q
      <3> QED
        BY <1>0, <2>0, <3>1 DEF Keeps, FitRequest, ScriptKnown
    <2> HIDE DEF q
    <2>3. FitRequest(r') /\ r'.jm = r.jm /\ r'.queries = r.queries
      BY <2>1, <2>2 DEF FitRequest, RequestType
    <2>4. FitFile(file') /\ FitScripts
      BY <1>0, <2>1, <2>2, WrittenFits DEF FitScripts
    <2>5. scripts # <<>>
      BY <1>0
    <2>6. ~(r.jm \in QueryStates /\ r.queries = <<>>)
      BY <2>5 DEF BasicInv, Queries, QueryStates
    <2>7. mem = "live"
      BY <1>0, <2>5 DEF Placed
    <2> QED
      BY <1>0, <1>1, <2>1, <2>3, <2>4, <2>6, <2>7
  <1> QED
    BY <1>2, <1>3, <1>4

\* An LRM job that is submitted, or changes its state.
LEMMA BasicLrm ==
    ASSUME BasicInv, \E i \in DOMAIN lrm : LrmProgress(i)
    PROVE  BasicInv'
  <1> USE DEF place, mgr, env, ghosts
  <1>0. Types /\ Placed /\ Known /\ Queries /\ lrm \in Seq(LrmStates)
    BY DEF BasicInv, Types
  <1>1. PICK i \in DOMAIN lrm : LrmProgress(i)
    OBVIOUS
  <1>2. PICK n \in LrmStates : lrm' = [lrm EXCEPT ![i] = n]
    <2>1. lrm[i] = "PENDING" => lrm' = [lrm EXCEPT ![i] = "ACTIVE"]
      BY <1>1 DEF LrmProgress
    <2>2. lrm[i] = "ACTIVE" => \E n \in {"DONE", "FAILED"} : lrm' = [lrm EXCEPT ![i] = n]
      BY <1>1 DEF LrmProgress
    <2>3. lrm[i] \notin {"PENDING", "ACTIVE"} => FALSE
      BY <1>1 DEF LrmProgress
    <2> QED
      BY <2>1, <2>2, <2>3 DEF LrmStates
  <1>3. lrm' \in Seq(LrmStates) /\ Len(lrm') = Len(lrm)
    BY <1>0, <1>2, SeqExcept
  <1>4. UNCHANGED <<job, mem, loaded, pending, r, run, file, scripts, posts, pause, held, resumed,
                    idHash, pos, told, committed, ended, stagedOut, used>>
    BY <1>1 DEF LrmProgress
  <1>5. Placed' /\ Queries'
    BY <1>0, <1>4 DEF Placed, Queries, NewRequest
  <1>6. Types'
    BY <1>0, <1>3, <1>4 DEF Types
  <1>7. Known'
    BY <1>0, <1>3, <1>4 DEF Known, ScriptKnown
  <1> QED
    BY <1>5, <1>6, <1>7 DEF BasicInv

LEMMA BasicScriptRuns ==
    ASSUME BasicInv, \E i \in DOMAIN scripts : ScriptRuns(i)
    PROVE  BasicInv'
  <1> USE DEF place, mgr, env, ghosts
  <1>0. /\ Types /\ Placed /\ Known /\ Queries /\ lrm \in Seq(LrmStates) /\ pos \in Seq(Nat)
        /\ scripts \in Seq(ScriptType) /\ DOMAIN scripts = 1..Len(scripts)
        /\ \A i \in 1..Len(scripts) : scripts[i] \in ScriptType /\ ScriptKnown(scripts[i])
        /\ Len(lrm) \in Nat /\ DOMAIN lrm = 1..Len(lrm) /\ Len(pos) = Len(lrm)
    <2>1. scripts \in Seq(ScriptType) /\ lrm \in Seq(LrmStates)
      BY DEF BasicInv, Types
    <2>2. DOMAIN scripts = 1..Len(scripts) /\ \A i \in 1..Len(scripts) : scripts[i] \in ScriptType
      BY <2>1, LenProperties, ElementOfSeq
    <2>3. DOMAIN lrm = 1..Len(lrm) /\ Len(lrm) \in Nat
      BY <2>1, LenProperties
    <2> QED
      BY <2>1, <2>2, <2>3 DEF BasicInv, Types, Known
  <1>1. PICK i \in DOMAIN scripts : ScriptRuns(i)
    OBVIOUS
  <1> DEFINE s == scripts[i]
             running == s.id > 0 /\ ~Ended(lrm[s.id])
             hopeless == (s.cmd = "signal" /\ ~running) \/ (s.cmd = "poll" /\ s.id <= 0)
             id == IF s.cmd = "submit" THEN Len(lrm) + 1 ELSE s.id
             R(res) == IF s.cmd = "poll" /\ res = "ok" THEN lrm[s.id] ELSE res
  <1>2. PICK res \in {IF hopeless THEN "err" ELSE "ok"} \cup (Fails \cap {"err", "die"}) :
         /\ scripts' = [scripts EXCEPT ![i].id = id, ![i].res = R(res)]
         /\ lrm' = IF res = "ok" /\ s.cmd = "submit" THEN Append(lrm, "PENDING")
                   ELSE IF res = "ok" /\ s.cmd = "cancel" /\ running
                   THEN [lrm EXCEPT ![s.id] = "FAILED"] ELSE lrm
         /\ pos' = IF res = "ok" /\ s.cmd = "submit" THEN Append(pos, 0) ELSE pos
         /\ stagedOut' = (stagedOut \/ (s.cmd = "stage_out" /\ res = "ok"))
    BY <1>1 DEF ScriptRuns
  <1>3. /\ s.res = "none" /\ s \in ScriptType /\ s.id <= Len(lrm) /\ s.id \in Int
        /\ UNCHANGED <<job, mem, loaded, pending, r, run, file, posts, pause, held, resumed,
                       idHash, told, committed, ended, used>>
    BY <1>0, <1>1 DEF ScriptRuns, ScriptKnown, ScriptType
  <1>4. res \in {"ok", "err", "die"} /\ (res = "ok" => ~hopeless)
    BY <1>2
  <1>5. s.cmd = "poll" /\ res = "ok" => lrm[s.id] \in LrmStates
    <2> SUFFICES ASSUME s.cmd = "poll", res = "ok" PROVE lrm[s.id] \in LrmStates
      OBVIOUS
    <2>1. s.id \in 1..Len(lrm)
      BY <1>0, <1>3, <1>4
    <2> QED
      BY <1>0, <2>1, ElementOfSeq
  <1> DEFINE v == R(res)
  <1>6. /\ v \in {"ok", "err", "die"} \cup LrmStates
        /\ v \in LrmStates => s.cmd = "poll"
        /\ v = "ok" => s.cmd # "poll" /\ res = "ok"
    BY <1>4, <1>5 DEF LrmStates
  <1>7. id \in Int /\ (s.cmd = "submit" /\ v = "ok" => id = Len(lrm) + 1)
    BY <1>0, <1>3
  <1> DEFINE n == [s EXCEPT !.id = id, !.res = v]
  <1>8. scripts' = [scripts EXCEPT ![i] = n]
    BY <1>0, <1>2, <1>3 DEF ScriptType
  <1>9. s.cmd \in Cmds /\ s.start \in States
    BY <1>3 DEF ScriptType
  <1> HIDE DEF s, id, v, R, running, hopeless
  <1>10. n \in ScriptType /\ n.id = id /\ n.res = v /\ n.cmd = s.cmd
    BY <1>3, <1>6, <1>7, <1>9 DEF ScriptType
  <1>11. scripts' \in Seq(ScriptType) /\ Len(scripts') = Len(scripts)
         /\ \A k \in 1..Len(scripts) : scripts'[k] = IF k = i THEN n ELSE scripts[k]
    <2> HIDE DEF n
    <2>1. scripts' \in Seq(ScriptType) /\ Len(scripts') = Len(scripts)
      BY <1>0, <1>8, <1>10, SeqExcept
    <2> QED
      BY <1>0, <1>8, <2>1
  <1>12. /\ lrm' \in Seq(LrmStates) /\ pos' \in Seq(Nat) /\ Len(pos') = Len(lrm')
         /\ Len(lrm') = IF res = "ok" /\ s.cmd = "submit" THEN Len(lrm) + 1 ELSE Len(lrm)
    <2>1. "PENDING" \in LrmStates /\ "FAILED" \in LrmStates /\ 0 \in Nat
      BY DEF LrmStates
    <2>2. CASE res = "ok" /\ s.cmd = "submit"
      BY <1>0, <1>2, <2>1, <2>2, AppendProperties
    <2>3. CASE ~(res = "ok" /\ s.cmd = "submit") /\ (res = "ok" /\ s.cmd = "cancel" /\ running)
      <3>1. lrm' = [lrm EXCEPT ![s.id] = "FAILED"] /\ pos' = pos
        BY <1>2, <2>3
      <3>2. s.id \in DOMAIN lrm
        BY <1>0, <1>3, <2>3 DEF running
      <3> QED
        BY <1>0, <2>1, <2>3, <3>1, <3>2, SeqExcept
    <2>4. CASE ~(res = "ok" /\ s.cmd = "submit") /\ ~(res = "ok" /\ s.cmd = "cancel" /\ running)
      BY <1>0, <1>2, <2>4
    <2> QED
      BY <2>2, <2>3, <2>4
  <1>13. Types'
    <2>1. stagedOut' \in BOOLEAN
      BY <1>0, <1>2 DEF Types
    <2>2. idHash' \subseteq 1..Len(lrm')
      BY <1>0, <1>3, <1>12 DEF Types
    <2> QED
      BY <1>0, <1>3, <1>11, <1>12, <2>1, <2>2 DEF Types
  <1>14. scripts # <<>> /\ scripts' # <<>>
    BY <1>0, <1>11
  <1>15. Placed' /\ Queries'
    BY <1>0, <1>3, <1>14 DEF Placed, Queries, NewRequest
  <1>16. Known'
    <2>1. Len(lrm') \in Nat /\ Len(lrm) <= Len(lrm')
      BY <1>0, <1>12
    <2>2. r.id <= Len(lrm') /\ (file # NoFile => file.id <= Len(lrm'))
      <3>1. r.id \in Int /\ (file # NoFile => file.id \in Int)
        BY <1>0 DEF Types, RequestType, FileType
      <3> QED
        BY <1>0, <2>1, <3>1 DEF Known
    <2>3. ASSUME NEW k \in 1..Len(scripts)
          PROVE  /\ scripts'[k].res = "none" \/ (scripts'[k].cmd = "submit" /\ scripts'[k].res = "ok")
                       => scripts'[k].id <= Len(lrm')
                 /\ scripts'[k].res \in LrmStates => scripts'[k].cmd = "poll"
                 /\ scripts'[k].res = "ok" => scripts'[k].cmd # "poll"
      <3>1. CASE k = i
        <4>1. scripts'[k] = n
          BY <1>11, <3>1
        <4>2. n.res # "none"
          BY <1>6, <1>10 DEF LrmStates
        <4>3. n.cmd = "submit" /\ n.res = "ok" => n.id <= Len(lrm')
          BY <1>0, <1>6, <1>7, <1>10, <1>12
        <4> HIDE DEF n
        <4> QED
          BY <1>6, <1>10, <4>1, <4>2, <4>3
      <3>2. CASE k # i
        <4>1. scripts'[k] = scripts[k] /\ scripts[k].id \in Int /\ ScriptKnown(scripts[k])
          BY <1>0, <1>11, <3>2 DEF ScriptType
        <4> QED
          BY <1>0, <2>1, <4>1 DEF ScriptKnown
      <3> QED
        BY <3>1, <3>2
    <2> QED
      BY <1>3, <1>11, <2>2, <2>3 DEF Known, ScriptKnown
  <1> QED
    BY <1>13, <1>15, <1>16 DEF BasicInv

\* The request that a reference finds, in memory or in its state file.
LEMMA ReferencedIs ==
    ASSUME BasicInv, TakeReference
    PROVE  /\ FitRequest(Referenced)
           /\ Referenced.jm \in QueryStates /\ Referenced.queries = <<>> =>
                 ~Referenced.timer /\ scripts = <<>> /\ posts = 0
           /\ mem = "live" => Referenced = r
           /\ mem = "stub" => Referenced = Reloaded /\ file \in FileType
           /\ mem \in {"live", "stub"} /\ run = "idle" /\ pause' \in Int
           /\ Referenced.timer => r.timer \/ mem = "stub"
  <1>1. mem \in {"live", "stub"} /\ run = "idle" /\ pause' \in Int
    BY DEF TakeReference, BasicInv, Types
  <1>2. CASE mem = "live"
    BY <1>1, <1>2 DEF Referenced, BasicInv, Types, Known, FitRequest, Queries, QueryStates
  <1>3. CASE mem = "stub"
    <2>1. file \in FileType /\ file # NoFile /\ job \in Jobs /\ pending \in BOOLEAN
          /\ loaded \in BOOLEAN /\ scripts = <<>> /\ posts = 0
      BY <1>3 DEF BasicInv, Types, Placed
    <2>2. FitRequest(Reloaded)
      BY <2>1, ReloadedType DEF BasicInv, Known, FitRequest
    <2>3. Reloaded.jm \in QueryStates => ~Reloaded.timer
      <3>1. Reloaded.jm = IF file.state \in Poll THEN "POLL2"
                          ELSE IF loaded THEN "TWO_PHASE_COMMITTED" ELSE file.state
        BY <2>1, ReloadedType
      <3>2. Reloaded.timer = pending /\ (pending => loaded)
        BY <2>1, ReloadedType DEF BasicInv, Placed
      <3> QED
        BY <3>1, <3>2 DEF QueryStates
    <2> QED
      BY <1>1, <1>3, <2>1, <2>2, <2>3 DEF Referenced
  <1> QED
    BY <1>1, <1>2, <1>3

\* A reference is taken, and the request becomes q.
LEMMA BasicReference ==
    ASSUME BasicInv, TakeReference, NEW q, r' = q, FitRequest(q), FitFile(file'),
           q.jm \in QueryStates /\ q.queries = <<>> => ~q.timer /\ scripts = <<>> /\ posts = 0,
           held' \in Seq(EventType), resumed' \in Seq(EventType), idHash' \subseteq idHash,
           pos' \in Seq(Nat), Len(pos') = Len(pos),
           UNCHANGED <<job, run, scripts, posts, lrm, told, stagedOut>>,
           committed' \in BOOLEAN, ended' \in BOOLEAN, used' \in [DOMAIN Max -> Nat]
    PROVE  BasicInv'
  <1>1. /\ Types /\ Known /\ mem' = "live" /\ loaded' = FALSE /\ pending' = FALSE
        /\ pause' \in Int /\ run = "idle"
    BY ReferencedIs DEF TakeReference, BasicInv
  <1>2. Placed' /\ Queries'
    BY <1>1 DEF Placed, Queries, QueryStates
  <1>3. FitScripts /\ idHash' \subseteq 1..Len(lrm)
    BY <1>1 DEF FitScripts, Types
  <1>4. /\ run' \in {"idle", "loop", "first"} /\ posts' \in Nat
        /\ lrm' \in Seq(LrmStates) /\ Len(lrm') = Len(lrm)
        /\ told' \in Statuses \cup {"none"} /\ stagedOut' \in BOOLEAN
        /\ mem' \in {"live", "stub", "gone"} /\ loaded' \in BOOLEAN /\ pending' \in BOOLEAN
    BY <1>1 DEF Types
  <1> QED
    BY <1>1, <1>2, <1>3, <1>4, BasicsAnywhere

LEMMA BasicPendingRestart ==
    ASSUME BasicInv, ProcessPendingRestart
    PROVE  BasicInv'
  <1> USE DEF place, mgr, env, ghosts
  <1>1. /\ TakeReference /\ r' = Referenced
        /\ UNCHANGED <<job, run, file, scripts, posts, held, resumed, idHash, env, ghosts, used>>
    BY DEF ProcessPendingRestart
  <1>2. /\ FitFile(file') /\ held' \in Seq(EventType) /\ resumed' \in Seq(EventType)
        /\ pos' \in Seq(Nat) /\ Len(pos') = Len(pos) /\ idHash' \subseteq idHash
        /\ committed' \in BOOLEAN /\ ended' \in BOOLEAN /\ used' \in [DOMAIN Max -> Nat]
    BY <1>1 DEF BasicInv, Types, Known, FitFile
  <1> QED
    BY <1>1, <1>2, ReferencedIs, BasicReference

\* Events that reach the request.
LEMMA BasicDelivered ==
    ASSUME BasicInv, TakeReference, NEW es \in Seq(EventType)
    PROVE  /\ FitRequest(Delivered(Referenced, es))
           /\ Delivered(Referenced, es).jm \in QueryStates
                /\ Delivered(Referenced, es).queries = <<>> =>
                 ~Delivered(Referenced, es).timer /\ scripts = <<>> /\ posts = 0
  <1> DEFINE q == Referenced
  <1>1. /\ FitRequest(q)
        /\ q.jm \in QueryStates /\ q.queries = <<>> => ~q.timer /\ scripts = <<>> /\ posts = 0
    BY ReferencedIs
  <1> HIDE DEF q
  <1>2. /\ Delivered(q, es) \in RequestType /\ Delivered(q, es).id = q.id
        /\ Delivered(q, es).jm = q.jm \/ Delivered(q, es).jm = "POLL1"
        /\ Delivered(q, es).timer => q.timer \/ q.jm = "POLL2"
        /\ Delivered(q, es).queries = q.queries
    BY <1>1, DeliveredKeeps DEF FitRequest
  <1>3. FitRequest(Delivered(q, es))
    BY <1>1, <1>2 DEF FitRequest
  <1>4. Delivered(q, es).jm \in QueryStates /\ Delivered(q, es).queries = <<>> =>
                 ~Delivered(q, es).timer /\ scripts = <<>> /\ posts = 0
    BY <1>1, <1>2 DEF QueryStates
  <1> QED
    BY <1>3, <1>4 DEF q

LEMMA BasicSegEvent ==
    ASSUME BasicInv, NEW i \in DOMAIN lrm, SegEvent(i)
    PROVE  BasicInv'
  <1> USE DEF place, mgr, env, ghosts
  <1>0. /\ Types /\ Placed /\ Known /\ Queries /\ lrm \in Seq(LrmStates) /\ pos \in Seq(Nat)
        /\ i \in 1..Len(lrm) /\ DOMAIN pos = DOMAIN lrm /\ pos[i] \in Nat
    <2>1. Types /\ lrm \in Seq(LrmStates) /\ pos \in Seq(Nat) /\ Len(pos) = Len(lrm)
      BY DEF BasicInv, Types
    <2>2. DOMAIN pos = 1..Len(pos) /\ DOMAIN lrm = 1..Len(lrm)
      BY <2>1, LenProperties
    <2>3. pos[i] \in Nat
      BY <2>1, <2>2, ElementOfSeq
    <2> QED
      BY <2>1, <2>2, <2>3 DEF BasicInv
  <1> DEFINE n == LogOf(i)[pos[i] + 1]
             e == [id |-> i, state |-> n]
  <1>1. /\ pos[i] < Len(LogOf(i)) /\ pos' = [pos EXCEPT ![i] = @ + 1]
        /\ UNCHANGED <<job, run, file, scripts, posts, resumed, lrm, ghosts, used>>
        /\ \/ /\ TakeReference /\ r' = Delivered(Referenced, <<e>>)
              /\ idHash' = StillHashed(<<e>>) /\ UNCHANGED held
           \/ /\ held' = IF pause > 0 THEN Append(held, e) ELSE held
              /\ UNCHANGED <<mem, loaded, pending, r, pause, idHash>>
    BY DEF SegEvent
  <1>2. e \in EventType
    <2>1. n \in {"ACTIVE", "DONE", "FAILED"}
      BY <1>0, <1>1, LogEntry
    <2> HIDE DEF n
    <2> QED
      BY <1>0, <2>1 DEF EventType
  <1> HIDE DEF e
  <1>3. <<e>> \in Seq(EventType)
    BY <1>2
  <1>4. pos' \in Seq(Nat) /\ Len(pos') = Len(pos)
    <2>1. pos[i] + 1 \in Nat
      BY <1>0
    <2> QED
      BY <1>0, <1>1, <2>1, SeqExcept
  <1>5. /\ FitFile(file') /\ resumed' \in Seq(EventType) /\ held \in Seq(EventType)
        /\ committed' \in BOOLEAN /\ ended' \in BOOLEAN /\ used' \in [DOMAIN Max -> Nat]
    BY <1>0, <1>1 DEF Types, Known, FitFile
  <1>6. CASE /\ TakeReference /\ r' = Delivered(Referenced, <<e>>)
             /\ idHash' = StillHashed(<<e>>) /\ UNCHANGED held
    <2>1. idHash' \subseteq idHash
      BY <1>6 DEF StillHashed
    <2> QED
      BY <1>1, <1>3, <1>4, <1>5, <1>6, <2>1, BasicDelivered, BasicReference
  <1>7. CASE /\ held' = IF pause > 0 THEN Append(held, e) ELSE held
             /\ UNCHANGED <<mem, loaded, pending, r, pause, idHash>>
    <2>1. held' \in Seq(EventType)
      BY <1>2, <1>5, <1>7, AppendProperties
    <2>2. Placed' /\ Queries'
      BY <1>0, <1>1, <1>7 DEF Placed, Queries, NewRequest
    <2>3. Types'
      BY <1>0, <1>1, <1>4, <1>7, <2>1 DEF Types
    <2>4. Known'
      BY <1>0, <1>1, <1>7 DEF Known, ScriptKnown
    <2> QED
      BY <2>2, <2>3, <2>4 DEF BasicInv
  <1> QED
    BY <1>1, <1>6, <1>7

\* What the resume callback hands over: kept events, in their order.
LEMMA SegResumeIs ==
    ASSUME resumed \in Seq(EventType), SegResume
    PROVE  \E es \in Seq(EventType) :
             /\ \A k \in DOMAIN es : \E j \in DOMAIN resumed : es[k] = resumed[j]
             /\ run = "idle" /\ resumed' = <<>>
             /\ \/ /\ TakeReference /\ r' = Delivered(Referenced, es)
                   /\ idHash' = StillHashed(es)
                \/ UNCHANGED <<mem, loaded, pending, r, pause, idHash>>
             /\ UNCHANGED <<job, run, file, scripts, posts, held, env, ghosts, used>>
  <1> DEFINE due == { k \in DOMAIN resumed : resumed[k].id \in idHash }
             c == Cardinality(due)
  <1>1. PICK f \in [1..c -> due] :
       LET es == [k \in 1..c |-> resumed[f[k]]] IN
       /\ run = "idle" /\ resumed # <<>>
       /\ resumed' = <<>>
       /\ \/ /\ es # <<>>
             /\ TakeReference
             /\ r' = Delivered(Referenced, es)
             /\ idHash' = StillHashed(es)
          \/ /\ es = <<>>
             /\ UNCHANGED <<mem, loaded, pending, r, pause, idHash>>
       /\ UNCHANGED <<job, run, file, scripts, posts, held, env, ghosts, used>>
    BY DEF SegResume
  <1>2. c \in Nat
    <2>1. DOMAIN resumed = 1..Len(resumed) /\ Len(resumed) \in Nat
      BY LenProperties
    <2>2. IsFiniteSet(1..Len(resumed))
      BY <2>1, FS_Interval
    <2>3. IsFiniteSet(due)
      BY <2>1, <2>2, FS_Subset
    <2> QED
      BY <2>3, FS_CardinalityType
  <1>3. \A k \in DOMAIN resumed : resumed[k] \in EventType
    BY LenProperties, ElementOfSeq
  <1> DEFINE es == [k \in 1..c |-> resumed[f[k]]]
  <1>4. \A k \in 1..c : f[k] \in DOMAIN resumed
    BY <1>1
  <1> HIDE DEF c, due
  <1>5. es \in [1..c -> EventType]
    BY <1>3, <1>4
  <1>6. es \in Seq(EventType) /\ \A k \in DOMAIN es : es[k] = resumed[f[k]] /\ f[k] \in DOMAIN resumed
    BY <1>2, <1>4, <1>5, SeqDef
  <1>7. /\ run = "idle" /\ resumed' = <<>>
        /\ \/ /\ TakeReference /\ r' = Delivered(Referenced, es)
              /\ idHash' = StillHashed(es)
           \/ UNCHANGED <<mem, loaded, pending, r, pause, idHash>>
        /\ UNCHANGED <<job, run, file, scripts, posts, held, env, ghosts, used>>
    BY <1>1
  <1> HIDE DEF es
  <1> QED
    BY <1>6, <1>7

LEMMA BasicSegResume ==
    ASSUME BasicInv, SegResume
    PROVE  BasicInv'
  <1> USE DEF place, mgr, env, ghosts
  <1>0. Types /\ Placed /\ Known /\ Queries /\ resumed \in Seq(EventType)
    BY DEF BasicInv, Types
  <1>1. PICK es \in Seq(EventType) :
             /\ resumed' = <<>>
             /\ \/ /\ TakeReference /\ r' = Delivered(Referenced, es)
                   /\ idHash' = StillHashed(es)
                \/ UNCHANGED <<mem, loaded, pending, r, pause, idHash>>
             /\ UNCHANGED <<job, run, file, scripts, posts, held, env, ghosts, used>>
    BY <1>0, SegResumeIs
  <1>2. /\ FitFile(file') /\ resumed' \in Seq(EventType) /\ held' \in Seq(EventType)
        /\ committed' \in BOOLEAN /\ ended' \in BOOLEAN /\ used' \in [DOMAIN Max -> Nat]
        /\ pos' \in Seq(Nat) /\ Len(pos') = Len(pos)
    BY <1>0, <1>1, EmptySeq DEF Types, Known, FitFile
  <1>3. CASE TakeReference /\ r' = Delivered(Referenced, es) /\ idHash' = StillHashed(es)
    <2>1. idHash' \subseteq idHash
      BY <1>3 DEF StillHashed
    <2> QED
      BY <1>1, <1>2, <1>3, <2>1, BasicDelivered, BasicReference
  <1>4. CASE UNCHANGED <<mem, loaded, pending, r, pause, idHash>>
    <2>1. Placed' /\ Queries'
      BY <1>0, <1>1, <1>4 DEF Placed, Queries, NewRequest
    <2>2. Types'
      BY <1>0, <1>1, <1>2, <1>4 DEF Types
    <2>3. Known'
      BY <1>0, <1>1, <1>4 DEF Known, ScriptKnown
    <2> QED
      BY <2>1, <2>2, <2>3 DEF BasicInv
  <1> QED
    BY <1>1, <1>3, <1>4

LEMMA SpendIs ==
    ASSUME used \in [DOMAIN Max -> Nat],
           NEW what \in {"crash", "cancel", "signal", "stop", "restart", "update",
                         "extend", "unregister", "orphan"},
           Spend(what)
    PROVE  /\ used' \in [DOMAIN Max -> Nat] /\ used'[what] = used[what] + 1
           /\ \A k \in DOMAIN Max : k \notin {what, "total"} => used'[k] = used[k]
  <1> DEFINE D == DOMAIN Max
             a == used[what] + 1
             b == used["total"] + 1
  <1>1. what \in D /\ "total" \in D /\ what # "total"
    BY MaxAssumption DEF BoundType
  <1>2. used' = [used EXCEPT ![what] = a, !["total"] = b]
    BY DEF Spend
  <1>3. a \in Nat /\ b \in Nat
    BY <1>1
  <1> HIDE DEF D, a, b
  <1>4. used \in [D -> Nat]
    BY DEF D
  <1>5. used' \in [D -> Nat] /\ used'[what] = a
        /\ \A k \in D : k \notin {what, "total"} => used'[k] = used[k]
    BY <1>1, <1>2, <1>3, <1>4
  <1> QED
    BY <1>5 DEF D, a

LEMMA BasicOrphan ==
    ASSUME BasicInv, Orphan
    PROVE  BasicInv'
  <1> USE DEF place, mgr, env, ghosts
  <1>0. /\ Types /\ Placed /\ Known /\ Queries /\ lrm \in Seq(LrmStates) /\ pos \in Seq(Nat)
        /\ scripts \in Seq(ScriptType) /\ DOMAIN scripts = 1..Len(scripts)
        /\ \A i \in 1..Len(scripts) : scripts[i] \in ScriptType /\ ScriptKnown(scripts[i])
        /\ Len(lrm) \in Nat /\ Len(pos) = Len(lrm) /\ used \in [DOMAIN Max -> Nat]
    <2>1. scripts \in Seq(ScriptType) /\ lrm \in Seq(LrmStates)
      BY DEF BasicInv, Types
    <2>2. DOMAIN scripts = 1..Len(scripts) /\ \A i \in 1..Len(scripts) : scripts[i] \in ScriptType
      BY <2>1, LenProperties, ElementOfSeq
    <2>3. Len(lrm) \in Nat
      BY <2>1, LenProperties
    <2> QED
      BY <2>1, <2>2, <2>3 DEF BasicInv, Types, Known
  <1>1. PICK i \in DOMAIN scripts : OrphanSubmit(i)
    BY DEF Orphan
  <1> DEFINE s == scripts[i]
             id == Len(lrm) + 1
  <1>2. PICK res \in {"err", "die"} :
         scripts' = [scripts EXCEPT ![i].id = id, ![i].res = res]
    BY <1>1 DEF OrphanSubmit
  <1>3. /\ s.res = "none" /\ s.cmd = "submit" /\ s \in ScriptType
        /\ lrm' = Append(lrm, "PENDING") /\ pos' = Append(pos, 0) /\ Spend("orphan")
        /\ UNCHANGED <<job, mem, loaded, pending, r, run, file, posts, pause, held, resumed,
                       idHash, told, committed, ended, stagedOut>>
    BY <1>0, <1>1 DEF OrphanSubmit
  <1> DEFINE n == [s EXCEPT !.id = id, !.res = res]
  <1>4. scripts' = [scripts EXCEPT ![i] = n]
    BY <1>0, <1>2, <1>3 DEF ScriptType
  <1>5. s.cmd \in Cmds /\ s.start \in States /\ id \in Int
    BY <1>0, <1>3 DEF ScriptType
  <1> HIDE DEF s, id
  <1>6. n \in ScriptType /\ n.res = res /\ n.cmd = "submit"
    BY <1>2, <1>3, <1>5 DEF ScriptType
  <1>7. scripts' \in Seq(ScriptType) /\ Len(scripts') = Len(scripts)
        /\ \A k \in 1..Len(scripts) : scripts'[k] = IF k = i THEN n ELSE scripts[k]
    <2> HIDE DEF n
    <2>1. scripts' \in Seq(ScriptType) /\ Len(scripts') = Len(scripts)
      BY <1>0, <1>4, <1>6, SeqExcept
    <2> QED
      BY <1>0, <1>4, <2>1
  <1>8. /\ lrm' \in Seq(LrmStates) /\ pos' \in Seq(Nat) /\ Len(pos') = Len(lrm')
        /\ Len(lrm') = Len(lrm) + 1
    <2>1. "PENDING" \in LrmStates /\ 0 \in Nat
      BY DEF LrmStates
    <2> QED
      BY <1>0, <1>3, <2>1, AppendProperties
  <1>9. Types'
    <2>1. used' \in [DOMAIN Max -> Nat]
      BY <1>0, <1>3, SpendIs
    <2>2. idHash' \subseteq 1..Len(lrm')
      BY <1>0, <1>3, <1>8 DEF Types
    <2> QED
      BY <1>0, <1>3, <1>7, <1>8, <2>1, <2>2 DEF Types
  <1>10. scripts # <<>> /\ scripts' # <<>>
    BY <1>0, <1>7
  <1>11. Placed' /\ Queries'
    BY <1>0, <1>3, <1>10 DEF Placed, Queries, NewRequest
  <1>12. Known'
    <2>1. Len(lrm') \in Nat /\ Len(lrm) <= Len(lrm')
      BY <1>0, <1>8
    <2>2. r.id <= Len(lrm') /\ (file # NoFile => file.id <= Len(lrm'))
      <3>1. r.id \in Int /\ (file # NoFile => file.id \in Int)
        BY <1>0 DEF Types, RequestType, FileType
      <3> QED
        BY <1>0, <2>1, <3>1 DEF Known
    <2>3. ASSUME NEW k \in 1..Len(scripts)
          PROVE  /\ scripts'[k].res = "none" \/ (scripts'[k].cmd = "submit" /\ scripts'[k].res = "ok")
                       => scripts'[k].id <= Len(lrm')
                 /\ scripts'[k].res \in LrmStates => scripts'[k].cmd = "poll"
                 /\ scripts'[k].res = "ok" => scripts'[k].cmd # "poll"
      <3>1. CASE k = i
        <4>1. scripts'[k] = n
          BY <1>7, <3>1
        <4> HIDE DEF n
        <4> QED
          BY <1>2, <1>6, <4>1 DEF LrmStates
      <3>2. CASE k # i
        <4>1. scripts'[k] = scripts[k] /\ scripts[k].id \in Int /\ ScriptKnown(scripts[k])
          BY <1>0, <1>7, <3>2 DEF ScriptType
        <4> QED
          BY <1>0, <2>1, <4>1 DEF ScriptKnown
      <3> QED
        BY <3>1, <3>2
    <2> QED
      BY <1>3, <1>7, <2>2, <2>3 DEF Known, ScriptKnown
  <1> QED
    BY <1>9, <1>11, <1>12 DEF BasicInv

\* What such a submission leaves: one more LRM job, and a script that reports no id.
LEMMA OrphanIs ==
    ASSUME BasicInv, Orphan
    PROVE  /\ \E i \in 1..Len(scripts) :
                /\ scripts[i].cmd = "submit" /\ scripts[i].res = "none"
                /\ scripts'[i].cmd = "submit" /\ scripts'[i].start = scripts[i].start
                /\ scripts'[i].res \in Fails \cap {"err", "die"}
                /\ \A k \in 1..Len(scripts) : k # i => scripts'[k] = scripts[k]
           /\ Len(scripts') = Len(scripts) /\ scripts # <<>> /\ scripts' # <<>>
           /\ Len(lrm) \in Nat /\ Len(lrm') = Len(lrm) + 1 /\ lrm'[Len(lrm) + 1] = "PENDING"
           /\ \A k \in 1..Len(lrm) : lrm'[k] = lrm[k]
           /\ Len(pos') = Len(lrm') /\ \A k \in 1..Len(lrm) : pos'[k] = pos[k]
           /\ used["orphan"] \in Nat /\ used'["orphan"] = used["orphan"] + 1
           /\ \A k \in {"crash", "cancel", "signal", "stop", "restart", "update"} :
                 used'[k] = used[k]
           /\ UNCHANGED <<job, mem, loaded, pending, expires, r, run, file, posts, pause, held,
                          resumed, idHash, told, committed, ended, stagedOut>>
  <1> USE DEF place, mgr, env, ghosts
  <1>0. /\ scripts \in Seq(ScriptType) /\ lrm \in Seq(LrmStates) /\ pos \in Seq(Nat)
        /\ used \in [DOMAIN Max -> Nat] /\ Len(pos) = Len(lrm)
    BY DEF BasicInv, Types
  <1>1. DOMAIN scripts = 1..Len(scripts) /\ Len(lrm) \in Nat /\ Len(scripts) \in Nat
    BY <1>0, LenProperties
  <1>2. PICK i \in 1..Len(scripts) : OrphanSubmit(i)
    BY <1>1 DEF Orphan
  <1>3. PICK res \in Fails \cap {"err", "die"} :
         scripts' = [scripts EXCEPT ![i].id = Len(lrm) + 1, ![i].res = res]
    BY <1>2 DEF OrphanSubmit
  <1>4. scripts[i] \in ScriptType /\ scripts[i].cmd = "submit" /\ scripts[i].res = "none"
    BY <1>0, <1>2, ElementOfSeq DEF OrphanSubmit
  <1>5. /\ scripts'[i].cmd = "submit" /\ scripts'[i].start = scripts[i].start
        /\ scripts'[i].res = res
    BY <1>1, <1>3, <1>4 DEF ScriptType
  <1>6. \A k \in 1..Len(scripts) : k # i => scripts'[k] = scripts[k]
    BY <1>1, <1>3
  <1>7. Len(scripts') = Len(scripts) /\ scripts # <<>> /\ scripts' # <<>>
    <2> DEFINE n == [scripts[i] EXCEPT !.id = Len(lrm) + 1, !.res = res]
    <2>1. scripts' = [scripts EXCEPT ![i] = n]
      BY <1>1, <1>3, <1>4 DEF ScriptType
    <2>2. Len(lrm) + 1 \in Int /\ res \in {"err", "die"}
      BY <1>1
    <2>3. n \in ScriptType
      BY <1>4, <2>2 DEF ScriptType
    <2> HIDE DEF n
    <2>4. Len(scripts') = Len(scripts) /\ scripts' \in Seq(ScriptType)
      BY <1>0, <1>1, <2>1, <2>3, SeqExcept
    <2> QED
      BY <1>0, <1>1, <2>4
  <1>8. /\ lrm' = Append(lrm, "PENDING") /\ pos' = Append(pos, 0) /\ Spend("orphan")
        /\ UNCHANGED <<job, mem, loaded, pending, expires, r, run, file, posts, pause, held,
                       resumed, idHash, told, committed, ended, stagedOut>>
    BY <1>2 DEF OrphanSubmit
  <1>9. /\ Len(lrm') = Len(lrm) + 1 /\ lrm'[Len(lrm) + 1] = "PENDING"
        /\ \A k \in 1..Len(lrm) : lrm'[k] = lrm[k]
        /\ Len(pos') = Len(lrm') /\ \A k \in 1..Len(lrm) : pos'[k] = pos[k]
    <2>1. "PENDING" \in LrmStates /\ 0 \in Nat
      BY DEF LrmStates
    <2> QED
      BY <1>0, <1>8, <2>1, AppendProperties
  <1>10. /\ used["orphan"] \in Nat /\ used'["orphan"] = used["orphan"] + 1
         /\ \A k \in {"crash", "cancel", "signal", "stop", "restart", "update"} :
                used'[k] = used[k]
    <2>1. DOMAIN Max = {"crash", "cancel", "signal", "stop", "restart", "update",
                        "extend", "unregister", "orphan", "total"}
      BY MaxAssumption DEF BoundType
    <2>2. /\ used'["orphan"] = used["orphan"] + 1
          /\ \A k \in DOMAIN Max : k \notin {"orphan", "total"} => used'[k] = used[k]
      BY <1>0, <1>8, SpendIs
    <2> QED
      BY <1>0, <2>1, <2>2
  <1> QED
    BY <1>1, <1>3, <1>4, <1>5, <1>6, <1>7, <1>8, <1>9, <1>10

LEMMA QueuedIs ==
    ASSUME NEW q, FitRequest(q), NEW query \in {"cancel", "signal"}, NEW wakes,
           \A k \in DOMAIN wakes : wakes[k] \in States
    PROVE  FitRequest(Queued(q, query, wakes)) /\ Queued(q, query, wakes).queries # <<>>
  <1> DEFINE a == Append(q.queries, query)
             j == IF q.jm \in DOMAIN wakes THEN wakes[q.jm] ELSE q.jm
             t == q.timer \/ q.jm \in DOMAIN wakes
  <1>1. a \in QueryQueue /\ a # <<>>
    BY AppendProperties DEF FitRequest, RequestType, QueryQueue
  <1>2. j \in States /\ t \in BOOLEAN
    BY DEF FitRequest, RequestType
  <1>3. Queued(q, query, wakes) = [q EXCEPT !.queries = a, !.jm = j, !.timer = t]
    BY DEF Queued, FitRequest, RequestType
  <1> HIDE DEF a, j, t
  <1> QED
    BY <1>1, <1>2, <1>3 DEF FitRequest, RequestType

LEMMA RestagedIs ==
    ASSUME NEW q \in RequestType, job \in Jobs
    PROVE  /\ Restaged(q) \in RequestType
           /\ \E a \in BOOLEAN, b \in BOOLEAN :
                 Restaged(q) = [q EXCEPT !.todoIn = a, !.todoOut = b]
  <1> DEFINE a == job.stageIn /\ ~q.jmRestart
             b == job.stageOut /\ ~q.jmRestart
  <1>1. a \in BOOLEAN /\ b \in BOOLEAN
    OBVIOUS
  <1>2. Restaged(q) = [q EXCEPT !.todoIn = a, !.todoOut = b]
    BY DEF Restaged
  <1> HIDE DEF a, b
  <1> QED
    BY <1>1, <1>2 DEF RequestType

LEMMA BasicClient ==
    ASSUME BasicInv, Client
    PROVE  BasicInv'
  <1> USE Names DEF env
  <1> DEFINE z == Referenced
             Ok(q) == /\ FitRequest(q)
                      /\ q.jm \in QueryStates /\ q.queries = <<>> =>
                            ~q.timer /\ scripts = <<>> /\ posts = 0
  <1>0. /\ used \in [DOMAIN Max -> Nat] /\ FitFile(file) /\ job \in Jobs /\ job.contact \in BOOLEAN
        /\ committed \in BOOLEAN /\ ended \in BOOLEAN /\ Types
    BY JobBooleans DEF BasicInv, Types, Known, FitFile
  <1>1. ASSUME TakeReference PROVE Ok(z)
    BY <1>1, ReferencedIs
  <1>2. ASSUME NEW q, Apply(q), Ok(q), FitFile(file'), committed' \in BOOLEAN, ended' \in BOOLEAN,
               used' \in [DOMAIN Max -> Nat]
        PROVE  BasicInv'
    <2>1. /\ TakeReference /\ r' = q
          /\ UNCHANGED <<job, run, scripts, posts, held, resumed, idHash, env, told, stagedOut>>
      BY <1>2 DEF Apply
    <2>2. /\ held' \in Seq(EventType) /\ resumed' \in Seq(EventType) /\ idHash' \subseteq idHash
          /\ pos' \in Seq(Nat) /\ Len(pos') = Len(pos)
      BY <1>0, <2>1 DEF Types
    <2> QED
      BY <1>2, <2>1, <2>2, BasicReference
  <1>3. CASE CommitRequest
    <2>1. Apply([z EXCEPT !.jm = "TWO_PHASE_COMMITTED", !.timer = TRUE])
          /\ committed' = TRUE /\ UNCHANGED <<file, ended, used>>
      BY <1>3 DEF CommitRequest
    <2>2. Ok(z)
      BY <1>1, <2>1 DEF Apply
    <2> HIDE DEF z
    <2>3. Ok([z EXCEPT !.jm = "TWO_PHASE_COMMITTED", !.timer = TRUE])
      BY <2>2 DEF FitRequest, RequestType, QueryStates
    <2> QED
      BY <1>0, <1>2, <2>1, <2>3
  <1>4. CASE CommitEnd
    <2>1. Apply(EndCommitted(z)) /\ ended' = TRUE /\ UNCHANGED <<file, committed, used>>
      BY <1>4 DEF CommitEnd
    <2>2. Ok(z)
      BY <1>1, <2>1 DEF Apply
    <2> HIDE DEF z
    <2>3. Ok(EndCommitted(z))
      BY <2>2 DEF EndCommitted, FitRequest, RequestType, QueryStates
    <2> QED
      BY <1>0, <1>2, <2>1, <2>3
  <1>5. CASE CommitExtend
    <2>1. Apply([z EXCEPT !.extend = TRUE]) /\ Spend("extend") /\ UNCHANGED <<file, committed, ended>>
      BY <1>5 DEF CommitExtend
    <2>2. Ok(z)
      BY <1>1, <2>1 DEF Apply
    <2> HIDE DEF z
    <2>3. Ok([z EXCEPT !.extend = TRUE])
      BY <2>2 DEF FitRequest, RequestType, QueryStates
    <2> QED
      BY <1>0, <1>2, <2>1, <2>3, SpendIs
  <1>6. CASE Cancel
    <2> DEFINE a == Queued(z, "cancel", [POLL2 |-> "POLL_QUERY1"])
               b == [z EXCEPT !.jm = "FAILED", !.status = "FAILED",
                            !.failure = "USER_CANCELLED",
                            !.unsent = @ \/ z.jm # "START"]
    <2>1. (Apply(a) \/ Apply(b)) /\ Spend("cancel") /\ UNCHANGED <<file, committed, ended>>
      BY <1>6 DEF Cancel
    <2>2. Ok(z)
      BY <1>1, <2>1 DEF Apply
    <2> HIDE DEF z
    <2>3. Ok(a)
      BY <2>2, QueuedIs
    <2>4. Ok(b)
      <3> DEFINE u == z.unsent \/ z.jm # "START"
      <3>1. b = [z EXCEPT !.jm = "FAILED", !.status = "FAILED",
                            !.failure = "USER_CANCELLED", !.unsent = u]
        OBVIOUS
      <3>2. u \in BOOLEAN
        OBVIOUS
      <3> HIDE DEF u
      <3> QED
        BY <2>2, <3>1, <3>2 DEF FitRequest, RequestType, QueryStates
    <2> HIDE DEF a, b
    <2> QED
      BY <1>0, <1>2, <2>1, <2>3, <2>4, SpendIs
  <1>7. CASE Signal
    <2> DEFINE a == Queued(z, "signal", [POLL2 |-> "POLL_QUERY1", TWO_PHASE |-> "TWO_PHASE_QUERY1"])
    <2>1. Apply(a) /\ Spend("signal") /\ UNCHANGED <<file, committed, ended>>
      BY <1>7 DEF Signal
    <2>2. Ok(z)
      BY <1>1, <2>1 DEF Apply
    <2> HIDE DEF z
    <2>3. Ok(a)
      BY <2>2, QueuedIs
    <2> HIDE DEF a
    <2> QED
      BY <1>0, <1>2, <2>1, <2>3, SpendIs
  <1>8. CASE Unregister
    <2> DEFINE q == [z EXCEPT !.contact = FALSE]
    <2>1. (Apply(q) \/ (q.jm = "TWO_PHASE_END" /\ Apply(EndCommitted(q))))
          /\ Spend("unregister") /\ UNCHANGED <<file, committed, ended>>
      BY <1>8 DEF Unregister
    <2>2. Ok(z)
      BY <1>1, <2>1 DEF Apply
    <2> HIDE DEF z
    <2>3. Ok(q)
      BY <2>2 DEF FitRequest, RequestType, QueryStates
    <2> HIDE DEF q
    <2>4. Ok(EndCommitted(q))
      BY <2>3 DEF EndCommitted, FitRequest, RequestType, QueryStates
    <2> QED
      BY <1>0, <1>2, <2>1, <2>3, <2>4, SpendIs
  <1>9. CASE StopManager
    <2> DEFINE c == IF z.jm = "STOP" THEN z.restart ELSE z.jm
               t == z.timer \/ z.jm = "POLL2"
               b == [z EXCEPT !.jm = "STOP", !.unsent = TRUE, !.overdue = FALSE,
                            !.restart = c, !.timer = t]
    <2>1. Apply(b) /\ Spend("stop") /\ UNCHANGED <<file, committed, ended>>
      BY <1>9 DEF StopManager
    <2>2. Ok(z)
      BY <1>1, <2>1 DEF Apply
    <2> HIDE DEF z
    <2>3. c \in States /\ t \in BOOLEAN
      BY <2>2 DEF FitRequest, RequestType
    <2> HIDE DEF c, t
    <2>4. Ok(b)
      BY <2>2, <2>3 DEF FitRequest, RequestType, QueryStates
    <2> HIDE DEF b
    <2> QED
      BY <1>0, <1>2, <2>1, <2>4, SpendIs
  <1>10. CASE StdioUpdate
    <2>1. Apply(Restaged(z)) /\ Spend("update") /\ file' = Written(r')
          /\ UNCHANGED <<committed, ended>>
      BY <1>10 DEF StdioUpdate
    <2>2. Ok(z)
      BY <1>1, <2>1 DEF Apply
    <2> HIDE DEF z
    <2>3. PICK a \in BOOLEAN, b \in BOOLEAN :
              Restaged(z) = [z EXCEPT !.todoIn = a, !.todoOut = b]
      BY <1>0, <2>2, RestagedIs DEF FitRequest
    <2>4. Ok(Restaged(z))
      BY <2>2, <2>3 DEF FitRequest, RequestType
    <2>5. FitFile(file')
      BY <2>1, <2>4, WrittenFits DEF Apply
    <2> QED
      BY <1>0, <1>2, <2>1, <2>4, <2>5, SpendIs
  <1>11. CASE ClientRestart
    <2> DEFINE q == Restaged(z)
               a == [q EXCEPT !.contact = job.contact, !.jm = "START", !.jmRestart = TRUE,
                            !.unsent = TRUE, !.timer = TRUE]
               b == [q EXCEPT !.contact = job.contact, !.jm = "START", !.jmRestart = TRUE]
               c == [q EXCEPT !.contact = job.contact]
    <2>1. (Apply(a) \/ Apply(b) \/ Apply(c)) /\ Spend("restart") /\ file' = Written(q)
          /\ UNCHANGED <<committed, ended>>
      BY <1>11 DEF ClientRestart
    <2>2. Ok(z)
      BY <1>1, <2>1 DEF Apply
    <2> HIDE DEF z
    <2>3. PICK d \in BOOLEAN, e \in BOOLEAN :
              q = [z EXCEPT !.todoIn = d, !.todoOut = e]
      BY <1>0, <2>2, RestagedIs DEF FitRequest
    <2>4. Ok(q)
      BY <2>2, <2>3 DEF FitRequest, RequestType
    <2>5. FitFile(file')
      BY <2>1, <2>4, WrittenFits
    <2> HIDE DEF q
    <2>6. Ok(a) /\ Ok(b) /\ Ok(c)
      BY <1>0, <2>4 DEF FitRequest, RequestType, QueryStates
    <2> HIDE DEF a, b, c
    <2> QED
      BY <1>0, <1>2, <2>1, <2>5, <2>6, SpendIs
  <1> QED
    BY <1>3, <1>4, <1>5, <1>6, <1>7, <1>8, <1>9, <1>10, <1>11 DEF Client

LEMMA BasicSwapOut ==
    ASSUME BasicInv, SwapOut
    PROVE  BasicInv'
  <1> USE DEF place, mgr, env, ghosts
  <1>0. Types /\ Known /\ Placed /\ FitRequest(r) /\ job \in Jobs /\ posts \in Nat
    BY DEF BasicInv, Types, Known, FitRequest
  <1>1. /\ mem = "live" /\ run = "idle" /\ file' = Written(r) /\ mem' = "stub" /\ loaded' = FALSE
        /\ r' = NewRequest /\ scripts = <<>> /\ posts = 0 /\ NewRequest' = NewRequest
        /\ UNCHANGED <<job, pending, run, scripts, posts, mgr, env, ghosts, used>>
    BY <1>0 DEF SwapOut, Referrers, NewRequest
  <1>2. FitFile(file') /\ file' # NoFile
    BY <1>0, <1>1, WrittenFits, WrittenType DEF FitRequest
  <1>3. FitRequest(r') /\ r'.jm = "START"
    <2>1. 0 <= Len(lrm)
      BY <1>0, LenProperties DEF Types
    <2> QED
      BY <1>0, <1>1, <2>1, NewRequestType DEF FitRequest
  <1>4. Placed' /\ Queries'
    BY <1>0, <1>1, <1>2, <1>3 DEF Placed, Queries
  <1>5. /\ run' \in {"idle", "loop", "first"} /\ posts' \in Nat
        /\ lrm' \in Seq(LrmStates) /\ Len(lrm') = Len(lrm)
        /\ pos' \in Seq(Nat) /\ Len(pos') = Len(pos)
        /\ told' \in Statuses \cup {"none"} /\ stagedOut' \in BOOLEAN
        /\ mem' \in {"live", "stub", "gone"} /\ loaded' \in BOOLEAN /\ pending' \in BOOLEAN
        /\ committed' \in BOOLEAN /\ ended' \in BOOLEAN /\ used' \in [DOMAIN Max -> Nat]
        /\ held' \in Seq(EventType) /\ resumed' \in Seq(EventType)
        /\ idHash' \subseteq 1..Len(lrm) /\ pause' \in Int
    BY <1>0, <1>1 DEF Types
  <1>6. FitScripts
    BY <1>1 DEF FitScripts
  <1> QED
    BY <1>0, <1>1, <1>2, <1>3, <1>4, <1>5, <1>6, BasicsAnywhere

\* The expiry of a job takes a reference, and commits the end for the client if it is
\* waited for.
LEMMA ExpireIs ==
    ASSUME BasicInv, ExpireOldJob
    PROVE  /\ TakeReference /\ (mem = "live" => ~Referrers)
           /\ \/ r' = Referenced /\ ended' = ended
              \/ /\ Referenced.jm \in {"TWO_PHASE_END", "FAILED_TWO_PHASE"}
                 /\ r' = [Referenced EXCEPT !.jm = "FAILED_TWO_PHASE_COMMITTED", !.timer = TRUE]
                 /\ ended' = TRUE
           /\ UNCHANGED <<job, run, file, scripts, posts, held, resumed, idHash, lrm, pos, told,
                          committed, stagedOut, used>>
  <1> DEFINE fake == Referenced.jm \in {"TWO_PHASE_END", "FAILED_TWO_PHASE"}
  <1>1. /\ r' = IF fake
                THEN [Referenced EXCEPT !.jm = "FAILED_TWO_PHASE_COMMITTED", !.timer = TRUE]
                ELSE Referenced
        /\ ended' = (ended \/ fake)
        /\ TakeReference /\ (mem = "live" => ~Referrers)
        /\ UNCHANGED <<job, run, file, scripts, posts, held, resumed, idHash, env, told,
                       committed, stagedOut, used>>
    BY Zenon DEF ExpireOldJob
  <1>2. CASE fake
    BY <1>1, <1>2, Zenon DEF env
  <1>3. CASE ~fake
    <2>0. ended \in BOOLEAN
      BY DEF BasicInv, Types
    <2>1. ended' = ended
      BY <1>1, <1>3, <2>0
    <2> QED
      BY <1>1, <1>3, <2>1, Zenon DEF env
  <1> QED
    BY <1>2, <1>3

LEMMA BasicExpire ==
    ASSUME BasicInv, ExpireOldJob
    PROVE  BasicInv'
  <1> DEFINE z == Referenced
  <1>1. /\ TakeReference
        /\ \/ r' = z /\ ended' = ended
           \/ /\ r' = [z EXCEPT !.jm = "FAILED_TWO_PHASE_COMMITTED", !.timer = TRUE]
              /\ ended' = TRUE
        /\ UNCHANGED <<job, run, file, scripts, posts, held, resumed, idHash, lrm, pos, told,
                       committed, stagedOut, used>>
    BY ExpireIs
  <1>2. /\ FitRequest(z)
        /\ z.jm \in QueryStates /\ z.queries = <<>> => ~z.timer /\ scripts = <<>> /\ posts = 0
    BY <1>1, ReferencedIs
  <1>3. /\ FitFile(file') /\ held' \in Seq(EventType) /\ resumed' \in Seq(EventType)
        /\ pos' \in Seq(Nat) /\ Len(pos') = Len(pos) /\ idHash' \subseteq idHash
        /\ committed' \in BOOLEAN /\ ended' \in BOOLEAN /\ used' \in [DOMAIN Max -> Nat]
    BY <1>1 DEF BasicInv, Types, Known, FitFile
  <1> HIDE DEF z
  <1> DEFINE q == r'
  <1>4. /\ FitRequest(q)
        /\ q.jm \in QueryStates /\ q.queries = <<>> => ~q.timer /\ scripts = <<>> /\ posts = 0
    <2>1. CASE r' = z
      BY <1>2, <2>1
    <2>2. CASE r' = [z EXCEPT !.jm = "FAILED_TWO_PHASE_COMMITTED", !.timer = TRUE]
      <3>1. /\ [z EXCEPT !.jm = "FAILED_TWO_PHASE_COMMITTED", !.timer = TRUE] \in RequestType
            /\ q.jm = "FAILED_TWO_PHASE_COMMITTED" /\ q.id = z.id
        BY <1>2, <2>2 DEF FitRequest, RequestType, States
      <3> QED
        BY <1>2, <2>2, <3>1 DEF FitRequest, QueryStates
    <2> QED
      BY <1>1, <2>1, <2>2
  <1>5. r' = q
    OBVIOUS
  <1> HIDE DEF q
  <1> QED
    BY <1>1, <1>3, <1>4, <1>5, BasicReference

LEMMA BasicCrash ==
    ASSUME BasicInv, Crash
    PROVE  BasicInv'
  <1> USE DEF ghosts
  <1>0. /\ Types /\ Known /\ Placed /\ job \in Jobs /\ FitFile(file) /\ Len(lrm) \in Nat
        /\ pos \in Seq(Nat) /\ used \in [DOMAIN Max -> Nat]
    BY LenProperties DEF BasicInv, Types, Known, FitFile
  <1> DEFINE waits == file # NoFile /\ job.mode # "poll" /\ file.state \in Poll
  <1>1. /\ run' = "idle" /\ scripts' = <<>> /\ posts' = 0 /\ r' = NewRequest
        /\ pause' = 0 /\ held' = <<>> /\ resumed' = <<>>
        /\ mem' = (IF file = NoFile THEN "gone" ELSE "stub")
        /\ loaded' = (file # NoFile)
        /\ pending' = (file # NoFile /\ ~waits)
        /\ idHash' = (IF waits /\ file.id > 0 THEN {file.id} ELSE {})
        /\ Spend("crash") /\ UNCHANGED <<job, file, lrm, ghosts>>
        /\ NewRequest' = NewRequest
    BY DEF Crash, NewRequest
  <1>2. pos' \in Seq(Nat) /\ Len(pos') = Len(pos)
    <2>1. PICK k \in 0..(IF file = NoFile THEN 0 ELSE file.seen) :
             pos' = [i \in DOMAIN pos |-> IF i = Len(lrm) THEN k ELSE 0]
      BY DEF Crash
    <2>2. k \in Nat
      BY <1>0 DEF FitFile, FileType
    <2>3. DOMAIN pos = 1..Len(pos) /\ Len(pos) \in Nat
      BY <1>0, LenProperties
    <2>4. pos' \in [1..Len(pos) -> Nat]
      BY <2>1, <2>2, <2>3
    <2>5. pos' \in Seq(Nat)
      BY <2>3, <2>4, SeqDef
    <2> QED
      BY <2>3, <2>4, <2>5, LenProperties
  <1>3. idHash' \subseteq 1..Len(lrm)
    BY <1>0, <1>1 DEF FitFile, FileType
  <1>4. FitRequest(r') /\ r'.jm = "START"
    BY <1>0, <1>1, NewRequestType DEF FitRequest
  <1>5. Placed' /\ Queries'
    BY <1>1, <1>4 DEF Placed, Queries
  <1>6. /\ run' \in {"idle", "loop", "first"} /\ posts' \in Nat
        /\ lrm' \in Seq(LrmStates) /\ Len(lrm') = Len(lrm)
        /\ told' \in Statuses \cup {"none"} /\ stagedOut' \in BOOLEAN
        /\ mem' \in {"live", "stub", "gone"} /\ loaded' \in BOOLEAN /\ pending' \in BOOLEAN
        /\ committed' \in BOOLEAN /\ ended' \in BOOLEAN
        /\ held' \in Seq(EventType) /\ resumed' \in Seq(EventType) /\ pause' \in Int
    BY <1>0, <1>1, EmptySeq DEF Types
  <1>7. FitScripts /\ FitFile(file') /\ used' \in [DOMAIN Max -> Nat] /\ job' = job
    BY <1>0, <1>1, SpendIs DEF FitScripts
  <1> QED
    BY <1>0, <1>2, <1>3, <1>4, <1>5, <1>6, <1>7, BasicsAnywhere

LEMMA BasicInit == Init => BasicInv
  <1> SUFFICES ASSUME Init PROVE BasicInv
    OBVIOUS
  <1>1. /\ job \in Jobs /\ NewRequest \in RequestType /\ NewRequest.id = 0 /\ NewRequest.jm = "START"
    BY NewRequestType DEF Init
  <1>2. /\ Written(NewRequest) \in FileType /\ Written(NewRequest) # NoFile
        /\ Written(NewRequest).id = 0
    BY <1>1, WrittenType
  <1>3. Types
    <2>1. used \in [DOMAIN Max -> Nat] /\ committed \in BOOLEAN
      BY <1>1, JobBooleans DEF Init
    <2>2. /\ <<>> \in Seq(ScriptType) /\ <<>> \in Seq(EventType) /\ <<>> \in Seq(LrmStates)
          /\ <<>> \in Seq(Nat)
      BY EmptySeq
    <2>3. Len(lrm) = 0 /\ Len(pos) = 0
      BY DEF Init
    <2>4. /\ job \in Jobs /\ r \in RequestType /\ file \in FileType /\ mem = "live"
          /\ loaded = FALSE /\ pending = FALSE /\ run = "idle" /\ posts = 0 /\ pause = 0
          /\ told = "none" /\ ended = FALSE /\ stagedOut = FALSE /\ idHash = {}
      BY <1>1, <1>2 DEF Init
    <2>5. /\ scripts \in Seq(ScriptType) /\ held \in Seq(EventType) /\ resumed \in Seq(EventType)
          /\ lrm \in Seq(LrmStates) /\ pos \in Seq(Nat)
      BY <2>2, Zenon DEF Init
    <2>6. /\ posts \in Nat /\ pause \in Int /\ Len(pos) = Len(lrm)
      BY <2>3, <2>4
    <2>7. idHash \subseteq 1..Len(lrm)
      BY <2>4
    <2>8. /\ mem \in {"live", "stub", "gone"} /\ run \in {"idle", "loop", "first"}
          /\ told \in Statuses \cup {"none"} /\ file \in FileType \cup {NoFile}
      BY <2>4
    <2>9. /\ loaded \in BOOLEAN /\ pending \in BOOLEAN /\ ended \in BOOLEAN
          /\ stagedOut \in BOOLEAN
      BY <2>4
    <2> QED
      BY <2>1, <2>4, <2>5, <2>6, <2>7, <2>8, <2>9, Zenon DEF Types
  <1>4. Placed /\ Known /\ Queries
    BY <1>1, <1>2 DEF Init, Placed, Known, Queries
  <1> QED
    BY <1>3, <1>4 DEF BasicInv

LEMMA BasicStutter ==
    ASSUME BasicInv, UNCHANGED vars
    PROVE  BasicInv'
  <1>1. NewRequest' = NewRequest
    BY DEF vars, NewRequest
  <1> QED
    BY <1>1 DEF vars, BasicInv, Types, Placed, Known, ScriptKnown, Queries

LEMMA BasicNext ==
    ASSUME BasicInv, [Next]_vars
    PROVE  BasicInv'
  BY BasicStep, BasicCallbacks, BasicPendingRestart, BasicSegResume, BasicSegEvent,
     BasicScriptRuns, BasicLrm, BasicClient, BasicSwapOut, BasicCrash, BasicStutter,
     BasicOrphan, BasicExpire
     DEF Next, Manager, Events, Scripts, Lrm

LEMMA BasicHolds == Spec => []BasicInv
  BY BasicInit, BasicNext, PTL DEF Spec

\* Only the swap, the expiry and a crash touch the expiration time.
LEMMA ExpiryHolds == Spec => [](expires \in BOOLEAN)
  <1> DEFINE E == expires \in BOOLEAN
  <1>1. Init => E
    BY DEF Init
  <1>2. E /\ [Next]_vars => E'
    <2> SUFFICES ASSUME E, [Next]_vars PROVE E'
      OBVIOUS
    <2> USE DEF place
    <2>1. CASE Step
      BY <2>1 DEF Step, StepStart, StepTwoPhase, StepRestart, StepTwoPhaseCommitted,
         StepStageInFailed, StepSubmitting, StepSubmit, StepPoll1, StepPoll2, StepQuery1,
         StepQuery2, StepClosing, StepCloseOutput, StepFinalStatus, StepTwoPhaseEnd,
         StepCleanUp, StepCacheCleanUp, StepStop, StepDone, DoneLoops
    <2>2. CASE TimerFires \/ ProcessPendingRestart \/ SegResume \/ CallbackReply
      BY <2>2 DEF TimerFires, ProcessPendingRestart, SegResume, CallbackReply
    <2>3. CASE Events \/ Scripts \/ Orphan \/ Lrm
      BY <2>3 DEF Events, Scripts, Orphan, Lrm, ScriptDone, SegEvent, ScriptRuns,
                  OrphanSubmit, LrmProgress
    <2>4. CASE Client
      BY <2>4 DEF Client, CommitRequest, CommitEnd, CommitExtend, Cancel, Signal, Unregister,
                  StopManager, StdioUpdate, ClientRestart, Apply
    <2>5. CASE SwapOut \/ ExpireOldJob \/ Crash
      BY <2>5 DEF SwapOut, ExpireOldJob, Crash
    <2>6. CASE UNCHANGED vars
      BY <2>6 DEF vars
    <2> QED
      BY <2>1, <2>2, <2>3, <2>4, <2>5, <2>6 DEF Next, Manager
  <1> QED
    BY <1>1, <1>2, PTL DEF Spec

\* Types; the loop of the state machine runs only for a request in memory, and a stub
\* has a state file to be read back from.
THEOREM TypeCorrect == Spec => []TypeOK
  <1>1. BasicInv /\ expires \in BOOLEAN => TypeOK
    <2>1. lrm \in Seq(LrmStates) => DOMAIN lrm = 1..Len(lrm)
      BY LenProperties
    <2> QED
      BY <2>1 DEF BasicInv, Types, Placed, TypeOK
  <1> QED
    BY <1>1, BasicHolds, ExpiryHolds, PTL

\* No step takes back what a client, a crash or a script did; only a crash counts as one.
LEMMA UsedGrows ==
    ASSUME BasicInv, [Next]_vars
    PROVE  /\ job' = job /\ (committed => committed')
           /\ \A k \in {"crash", "cancel", "signal", "stop", "restart", "update", "orphan"} :
                 /\ used[k] \in Nat /\ used'[k] \in Nat /\ used[k] <= used'[k]
  <1> USE DEF place, mgr, env, ghosts
  <1> DEFINE K == {"crash", "cancel", "signal", "stop", "restart", "update", "orphan"}
             G == /\ job' = job /\ (committed => committed')
                  /\ \A k \in K : used[k] \in Nat /\ used'[k] \in Nat /\ used[k] <= used'[k]
  <1>1. used \in [DOMAIN Max -> Nat] /\ K \subseteq DOMAIN Max /\ \A k \in K : used[k] \in Nat
    <2>1. used \in [DOMAIN Max -> Nat]
      BY DEF BasicInv, Types
    <2>2. K \subseteq DOMAIN Max
      BY MaxAssumption DEF BoundType
    <2> QED
      BY <2>1, <2>2
  <1>2. ASSUME used' = used, committed' = committed \/ committed' = TRUE, job' = job
        PROVE  G
    <2>1. \A k \in K : used'[k] = used[k]
      BY <1>2
    <2> HIDE DEF K
    <2>2. \A k \in K : used[k] \in Nat /\ used'[k] \in Nat /\ used[k] <= used'[k]
      BY <1>1, <2>1
    <2>3. committed => committed'
      BY <1>2, Zenon
    <2> QED
      BY <1>2, <2>2, <2>3
  <1>3. CASE Step
    BY <1>2, <1>3 DEF Step, StepStart, StepTwoPhase, StepRestart, StepTwoPhaseCommitted,
       StepStageInFailed, StepSubmitting, StepSubmit, StepPoll1, StepPoll2, StepQuery1,
       StepQuery2, StepClosing, StepCloseOutput, StepFinalStatus, StepTwoPhaseEnd,
       StepCleanUp, StepCacheCleanUp, StepStop, StepDone
  <1>4. CASE TimerFires \/ ProcessPendingRestart \/ SegResume \/ CallbackReply \/ SwapOut
             \/ ExpireOldJob
    BY <1>2, <1>4 DEF TimerFires, ProcessPendingRestart, SegResume, CallbackReply, SwapOut,
                      ExpireOldJob
  <1>5. CASE Events \/ Scripts \/ Lrm
    BY <1>2, <1>5 DEF Events, Scripts, Lrm, ScriptDone, SegEvent, ScriptRuns, LrmProgress
  <1>6. ASSUME NEW w \in K \cup {"extend", "unregister"}, Spend(w),
               committed' = committed, job' = job
        PROVE  G
    <2>1. /\ used' \in [DOMAIN Max -> Nat] /\ used'[w] = used[w] + 1
          /\ \A k \in DOMAIN Max : k \notin {w, "total"} => used'[k] = used[k]
      BY <1>1, <1>6, SpendIs
    <2>2. ASSUME NEW k \in K
          PROVE  used'[k] \in Nat /\ used[k] <= used'[k]
      <3>1. CASE k = w
        BY <1>1, <2>1, <3>1
      <3>2. CASE k # w
        <4>1. used'[k] = used[k]
          BY <1>1, <2>1, <3>2
        <4> QED
          BY <1>1, <4>1
      <3> QED
        BY <3>1, <3>2
    <2> QED
      BY <1>1, <1>6, <2>2
  <1>7. CASE CommitRequest \/ CommitEnd
    BY <1>2, <1>7 DEF CommitRequest, CommitEnd, Apply
  <1>8. CASE Cancel \/ Signal \/ Unregister \/ StopManager \/ StdioUpdate \/ ClientRestart
                \/ CommitExtend \/ Crash \/ Orphan
    <2>1. \E w \in K \cup {"extend", "unregister"} : Spend(w)
      BY <1>8 DEF Cancel, Signal, Unregister, StopManager, StdioUpdate, ClientRestart,
                  CommitExtend, Crash, Orphan, OrphanSubmit
    <2>2. committed' = committed /\ job' = job
      BY <1>8 DEF Cancel, Signal, Unregister, StopManager, StdioUpdate, ClientRestart,
                  CommitExtend, Apply, Crash, Orphan, OrphanSubmit
    <2> QED
      BY <1>6, <2>1, <2>2
  <1>9. CASE UNCHANGED vars
    BY <1>2, <1>9 DEF vars
  <1> QED
    BY <1>3, <1>4, <1>5, <1>7, <1>8, <1>9 DEF Next, Manager, Client

=============================================================================
