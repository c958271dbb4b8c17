------------------------------ MODULE XioTimer ------------------------------
(***************************************************************************)
(* The timer of Globus XIO (xio/src/globus_xio_timeout.c) and the periodic *)
(* callback of the callback library that drives it                         *)
(* (common/source/library/globus_callback_threads.c).                      *)
(*                                                                         *)
(* Clients register one entry per operation.  A periodic callback, the     *)
(* poller, examines the entries under timer->mutex and moves those that    *)
(* made no progress for a whole period to a list of its own; it calls      *)
(* their callbacks without the mutex and puts the refused ones back.  The  *)
(* periodic is paused when unregister_timeout empties timer->op_list and   *)
(* resumed by the next registration.  If a timer callback blocks, the      *)
(* callback library queues the periodic again, so that a second poller may *)
(* run while the first one is still inside the callback.                   *)
(*                                                                         *)
(* Time is relative: left[d] is what is left until abs_timeout of d's      *)
(* entry, and age[p] how long ago the poller p read its clock.  Both, and  *)
(* idle[d], stop at Period.  Registration sets abs_timeout to now, an      *)
(* examination sets it one period after the `now' its poller read before   *)
(* it took the mutex, and Tick lets time pass.                             *)
(***************************************************************************)
EXTENDS Integers, FiniteSets

CONSTANTS
    Op,          \* operations: the datum of a timer entry
    Poller,      \* threads that can run the poller at the same time
    CbResults,   \* what the clients' timer callbacks may return
    MayBlock,    \* can a timer callback block its thread?
    Period,      \* entry->rel_timeout, in ticks
    NoOp         \* no entry

ASSUME OpAssumption == NoOp \notin Op
ASSUME CbAssumption == CbResults \subseteq BOOLEAN
ASSUME PeriodAssumption == Period \in Nat \ {0}

VARIABLES
    opList,      \* timer->op_list
    running,     \* timer->running
    progress,    \* *entry->progress_ptr, a flag of the operation
    left,        \* entry->abs_timeout - now (0: expired)
    isPeriodic,  \* callback_info->is_periodic (FALSE: the periodic is paused)
    inQueue,     \* callback_info->in_queue # GLOBUS_L_CALLBACK_QUEUE_NONE
    restarted,   \* restart_info.restarted of a polling thread
    unreg,       \* "none", "set" (unregister_callback # NULL) or "kicked"
                 \*   (globus_l_callback_cancel_kickout_cb is registered)
    pc,          \* where a polling thread is
    sawDue,      \* the entries expired at the `now' a poller has read
    age,         \* the time since a poller read that `now'
    callList,    \* call_list of a poller
    cur,         \* the entry whose callback a poller is calling
    phase,       \* globus_i_xio_timer_destroy: "active", "waiting", "destroyed"
    held,        \* does the timer hold a reference on the operation?
    idle,        \* history: the time since the operation last made progress
    lag          \* history: how old the reading was that set abs_timeout

timer == <<opList, running>>
periodic == <<isPeriodic, inQueue, restarted, unreg>>
poller == <<pc, sawDue, age, callList, cur>>
history == <<idle, lag>>
vars == <<opList, running, progress, left, isPeriodic, inQueue, restarted,
          unreg, pc, sawDue, age, callList, cur, phase, held, idle, lag>>

Pc == {"idle", "scan", "loop", "cb", "reinsert"}

\* The types of the timer's fields, of the periodic callback and of the pollers' locals.
TypeOK ==
    /\ opList \subseteq Op
    /\ running \in BOOLEAN
    /\ progress \in [Op -> BOOLEAN]
    /\ left \in [Op -> 0..Period]
    /\ isPeriodic \in BOOLEAN
    /\ inQueue \in BOOLEAN
    /\ restarted \in [Poller -> BOOLEAN]
    /\ unreg \in {"none", "set", "kicked", "called"}
    /\ pc \in [Poller -> Pc]
    /\ sawDue \in [Poller -> SUBSET Op]
    /\ age \in [Poller -> 0..Period]
    /\ callList \in [Poller -> SUBSET Op]
    /\ cur \in [Poller -> Op \cup {NoOp}]
    /\ phase \in {"active", "waiting", "destroyed"}
    /\ held \in [Op -> BOOLEAN]
    /\ idle \in [Op -> 0..Period]
    /\ lag \in [Op -> 0..Period]

\* globus_i_xio_timer_init registers the periodic with an infinite period:
\* it starts life as a oneshot that never becomes ready.
Init ==
    /\ opList = {}
    /\ running = FALSE
    /\ progress = [d \in Op |-> FALSE]
    /\ left = [d \in Op |-> 0]
    /\ isPeriodic = FALSE
    /\ inQueue = FALSE
    /\ restarted = [p \in Poller |-> FALSE]
    /\ unreg = "none"
    /\ pc = [p \in Poller |-> "idle"]
    /\ sawDue = [p \in Poller |-> {}]
    /\ age = [p \in Poller |-> 0]
    /\ callList = [p \in Poller |-> {}]
    /\ cur = [p \in Poller |-> NoOp]
    /\ phase = "active"
    /\ held = [d \in Op |-> FALSE]
    /\ idle = [d \in Op |-> 0]
    /\ lag = [d \in Op |-> 0]

-----------------------------------------------------------------------------
(* The callback library *)

\* callback_info->running_count > 0
Running == \E p \in Poller : pc[p] # "idle"

\* Fault: a running periodic is queued as well.
ResumeAlwaysQueues ==
    /\ isPeriodic' = TRUE
    /\ inQueue' = TRUE
    /\ UNCHANGED <<restarted, unreg>>

\* globus_callback_adjust_period with a finite period.  A periodic that is
\* running and not queued is left for finish_callback to queue again.
Resume ==
    /\ isPeriodic' = TRUE
    /\ inQueue' = (inQueue \/ ~Running)
    /\ UNCHANGED <<restarted, unreg>>

\* globus_callback_adjust_period with a NULL period.
Pause ==
    /\ isPeriodic' = FALSE
    /\ inQueue' = FALSE
    /\ UNCHANGED <<restarted, unreg>>

\* Fault: the unregister callback does not wait for running callbacks.
UnregisterPeriodicAtOnce ==
    /\ unreg' = "kicked"
    /\ inQueue' = FALSE
    /\ isPeriodic' = FALSE
    /\ UNCHANGED restarted

\* globus_callback_unregister.
UnregisterPeriodic ==
    /\ unreg' = IF Running THEN "set" ELSE "kicked"
    /\ inQueue' = FALSE
    /\ isPeriodic' = (isPeriodic /\ ~Running)
    /\ UNCHANGED restarted

\* Fault: a finished periodic is not queued again.
FinishCallbackNoRequeue(p) ==
    LET last == \A q \in Poller \ {p} : pc[q] = "idle"
    IN  /\ unreg' = IF ~isPeriodic /\ last /\ unreg = "set"
                    THEN "kicked" ELSE unreg
        /\ UNCHANGED <<inQueue, isPeriodic, restarted>>

\* Fault: the last callback to finish does not start the unregister callback.
FinishCallbackNoKickout(p) ==
    /\ inQueue' = (inQueue \/ (isPeriodic /\ ~restarted[p]))
    /\ UNCHANGED <<isPeriodic, restarted, unreg>>

\* globus_l_callback_finish_callback for the thread p.
FinishCallback(p) ==
    LET last == \A q \in Poller \ {p} : pc[q] = "idle"
    IN  /\ unreg' = IF ~isPeriodic /\ last /\ unreg = "set"
                    THEN "kicked" ELSE unreg
        /\ inQueue' = (inQueue \/ (isPeriodic /\ ~restarted[p]))
        /\ UNCHANGED <<isPeriodic, restarted>>

\* globus_l_callback_blocked_cb: a callback that p runs blocks.
BlockedCb(p) ==
    /\ MayBlock
    /\ pc[p] = "cb"
    /\ ~restarted[p]
    /\ restarted' = [restarted EXCEPT ![p] = TRUE]
    /\ inQueue' = (inQueue \/ isPeriodic)
    /\ UNCHANGED <<timer, progress, left, isPeriodic, unreg, poller, phase,
                   held, history>>

-----------------------------------------------------------------------------
(* The timer's interface *)

\* The times of a new entry, and of one that is freed, are zero.
ClearEntry(d) ==
    /\ left' = [left EXCEPT ![d] = 0]
    /\ idle' = [idle EXCEPT ![d] = 0]
    /\ lag' = [lag EXCEPT ![d] = 0]

\* abs_timeout of a new entry is read from the clock before the mutex is taken, so a
\* poller about to scan finds the entry expired if it read its own clock later.
NewDeadline(d) ==
    /\ ClearEntry(d)
    /\ \E S \in SUBSET {p \in Poller : pc[p] = "scan"} :
          sawDue' = [p \in Poller |-> IF p \in S THEN sawDue[p] \cup {d}
                                      ELSE sawDue[p] \ {d}]

\* Fault: the progress flag is not set at registration.
ArmEntryNoProgress(d) == NewDeadline(d) /\ UNCHANGED progress

\* A new entry expires at once and its progress flag is set, so that the first
\* examination starts the first period.
ArmEntry(d) ==
    /\ progress' = [progress EXCEPT ![d] = TRUE]
    /\ NewDeadline(d)

\* globus_i_xio_timer_register_timeout.  The new period is shorter than
\* minimal_delay or not, so a running timer is adjusted or not.
Register(d) ==
    /\ phase = "active"
    /\ ~held[d]
    /\ held' = [held EXCEPT ![d] = TRUE]
    /\ opList' = opList \cup {d}
    /\ ArmEntry(d)
    /\ \/ Resume /\ running' = TRUE
       \/ running /\ UNCHANGED <<running, periodic>>
    /\ UNCHANGED <<pc, age, callList, cur, phase>>

\* Fault: unregister_timeout reports success for an entry a poller has taken.
UnregisterAnywhere(d) ==
    /\ phase = "active"
    /\ held[d]
    /\ opList' = opList \ {d}
    /\ held' = [held EXCEPT ![d] = FALSE]
    /\ UNCHANGED <<running, periodic, progress, left, poller, phase, history>>

\* globus_i_xio_timer_unregister_timeout finds the entry: the client drops
\* the reference.  An entry that is not found belongs to a poller, and the
\* call changes nothing.
Unregister(d) ==
    /\ phase = "active"
    /\ d \in opList
    /\ opList' = opList \ {d}
    /\ held' = [held EXCEPT ![d] = FALSE]
    /\ IF opList' = {}
       THEN Pause /\ running' = FALSE
       ELSE UNCHANGED <<running, periodic>>
    /\ ClearEntry(d)
    /\ UNCHANGED <<progress, poller, phase>>

\* The operation makes progress: its progress flag is set, under no lock of the timer.
Progress(d) ==
    /\ phase = "active"
    /\ held[d]
    /\ progress' = [progress EXCEPT ![d] = TRUE]
    /\ idle' = [idle EXCEPT ![d] = 0]
    /\ UNCHANGED <<timer, left, periodic, poller, phase, held, lag>>

\* One unit of time later, up to the bound Period.
Later(t) == IF t < Period THEN t + 1 ELSE t

\* Time passes, for the entries and for a poller between its clock and the mutex.
Tick ==
    /\ left' = [d \in Op |-> IF held[d] /\ left[d] > 0 THEN left[d] - 1 ELSE left[d]]
    /\ idle' = [d \in Op |-> IF held[d] THEN Later(idle[d]) ELSE idle[d]]
    /\ age' = [p \in Poller |-> IF pc[p] = "scan" THEN Later(age[p]) ELSE age[p]]
    /\ UNCHANGED <<timer, progress, periodic, pc, sawDue, callList, cur,
                   phase, held, lag>>

-----------------------------------------------------------------------------
(* The poller, globus_i_xio_timer_poller_callback *)

\* A thread takes the periodic from the queue; the poller reads the clock.
PollStart(p) ==
    /\ inQueue
    /\ pc[p] = "idle"
    /\ inQueue' = FALSE
    /\ restarted' = [restarted EXCEPT ![p] = FALSE]
    /\ pc' = [pc EXCEPT ![p] = "scan"]
    /\ sawDue' = [sawDue EXCEPT ![p] = {d \in Op : left[d] = 0}]
    /\ age' = [age EXCEPT ![p] = 0]
    /\ UNCHANGED <<timer, progress, left, isPeriodic, unreg, callList, cur,
                   phase, held, history>>

\* The locked loop: an expired entry with progress loses its progress flag,
\* one without moves to call_list; both get a new abs_timeout, a period after
\* the reading of the clock that PollStart made.
PollScan(p) ==
    LET expired == opList \cap sawDue[p]
        silent == {d \in expired : ~progress[d]}
    IN  /\ pc[p] = "scan"
        /\ opList' = opList \ silent
        /\ callList' = [callList EXCEPT ![p] = silent]
        /\ progress' = [d \in Op |-> progress[d] /\ d \notin expired]
        /\ left' = [d \in Op |-> IF d \in expired THEN Period - age[p] ELSE left[d]]
        /\ lag' = [d \in Op |-> IF d \in expired THEN age[p] ELSE lag[d]]
        /\ age' = [age EXCEPT ![p] = 0]
        /\ sawDue' = [q \in Poller |-> IF q = p THEN {} ELSE sawDue[q] \ expired]
        /\ pc' = [pc EXCEPT ![p] = "loop"]
        /\ UNCHANGED <<running, periodic, cur, phase, held, idle>>

\* The poller takes an entry from call_list and calls its timer_cb.
CallTimerCb(p) ==
    /\ pc[p] = "loop"
    /\ \E d \in callList[p] :
          /\ cur' = [cur EXCEPT ![p] = d]
          /\ callList' = [callList EXCEPT ![p] = @ \ {d}]
    /\ pc' = [pc EXCEPT ![p] = "cb"]
    /\ UNCHANGED <<timer, progress, left, periodic, sawDue, age, phase, held, history>>

\* timer_cb returns: TRUE drops the reference and frees the entry.
TimerCbReturns(p, result) ==
    /\ pc[p] = "cb"
    /\ IF result
       THEN /\ held' = [held EXCEPT ![cur[p]] = FALSE]
            /\ cur' = [cur EXCEPT ![p] = NoOp]
            /\ pc' = [pc EXCEPT ![p] = "loop"]
            /\ ClearEntry(cur[p])
       ELSE /\ pc' = [pc EXCEPT ![p] = "reinsert"]
            /\ UNCHANGED <<held, cur, left, history>>
    /\ UNCHANGED <<timer, progress, periodic, sawDue, age, callList, phase>>

\* Fault: the entry is read after it was cleared.
ReinsertCleared(p) ==
    /\ pc[p] = "reinsert"
    /\ cur' = [cur EXCEPT ![p] = NoOp]
    /\ opList' = opList \cup {cur'[p]}
    /\ pc' = [pc EXCEPT ![p] = "loop"]
    /\ UNCHANGED <<running, progress, left, periodic, sawDue, age, callList, phase,
                   held, history>>

\* The refused entry goes back to op_list.  Nothing resumes the periodic.
Reinsert(p) ==
    /\ pc[p] = "reinsert"
    /\ opList' = opList \cup {cur[p]}
    /\ cur' = [cur EXCEPT ![p] = NoOp]
    /\ pc' = [pc EXCEPT ![p] = "loop"]
    /\ UNCHANGED <<running, progress, left, periodic, sawDue, age, callList, phase,
                   held, history>>

\* call_list is empty: the poller returns to the callback library.
PollFinish(p) ==
    /\ pc[p] = "loop"
    /\ callList[p] = {}
    /\ pc' = [pc EXCEPT ![p] = "idle"]
    /\ FinishCallback(p)
    /\ UNCHANGED <<timer, progress, left, sawDue, age, callList, cur, phase, held,
                   history>>

-----------------------------------------------------------------------------
(* globus_i_xio_timer_destroy, when the XIO module is deactivated.  The     *)
(* clients are gone by then.                                                *)

DestroyBegin ==
    /\ phase = "active"
    /\ phase' = "waiting"
    /\ running' = TRUE
    /\ UnregisterPeriodic
    /\ UNCHANGED <<opList, progress, left, poller, held, history>>

\* globus_l_xio_timer_unregister_cb
UnregisterCb ==
    /\ unreg = "kicked"
    /\ unreg' = "called"
    /\ running' = FALSE
    /\ UNCHANGED <<opList, progress, left, isPeriodic, inQueue, restarted,
                   poller, phase, held, history>>

\* The wait loop ends and the mutex is destroyed.
DestroyEnd ==
    /\ phase = "waiting"
    /\ ~running
    /\ phase' = "destroyed"
    /\ UNCHANGED <<timer, progress, left, periodic, poller, held, history>>

-----------------------------------------------------------------------------
Client == \E d \in Op : Register(d) \/ Unregister(d) \/ Progress(d)

Poll(p) ==
    \/ PollStart(p)
    \/ PollScan(p)
    \/ CallTimerCb(p)
    \/ \E result \in CbResults : TimerCbReturns(p, result)
    \/ Reinsert(p)
    \/ PollFinish(p)

Destroy == DestroyBegin \/ UnregisterCb \/ DestroyEnd

Next ==
    \/ Client
    \/ Tick
    \/ \E p \in Poller : Poll(p) \/ BlockedCb(p)
    \/ Destroy

Spec == Init /\ [][Next]_vars

\* A queued callback is run, a callback returns and time passes.
Fairness ==
    /\ WF_vars(Tick)
    /\ WF_vars(\E p \in Poller : PollStart(p))
    /\ \A p \in Poller :
          WF_vars(PollScan(p) \/ CallTimerCb(p) \/ Reinsert(p) \/ PollFinish(p)
                  \/ \E result \in CbResults : TimerCbReturns(p, result))
    /\ WF_vars(UnregisterCb \/ DestroyEnd)

FairSpec == Spec /\ Fairness

-----------------------------------------------------------------------------
(* Properties *)

\* The poller p has the entry of d: in its call_list, or in a callback.
InHand(p, d) == d \in callList[p] \/ cur[p] = d

\* The timer holds a reference on an operation exactly while its entry is in
\* one place, and only one: neither two pollers, nor a poller and a client
\* whose unregister_timeout returned GLOBUS_TRUE, release it twice.
EntryOwnership ==
    \A d \in Op :
       /\ held[d] <=> (d \in opList \/ \E p \in Poller : InHand(p, d))
       /\ d \in opList => \A p \in Poller : ~InHand(p, d)
       /\ \A p, q \in Poller : InHand(p, d) /\ InHand(q, d) => p = q
       /\ \A p \in Poller : ~(d \in callList[p] /\ cur[p] = d)

\* Once globus_i_xio_timer_destroy has destroyed the mutex, no poller runs or
\* can start and the unregister callback is not outstanding.
DestroyedIsQuiescent ==
    phase = "destroyed" => ~Running /\ ~inQueue /\ unreg = "called"

\* At most one poller runs that has not been restarted by a blocking callback;
\* and while one runs the periodic is not queued.
OneUnblockedPoller ==
    \A p \in Poller : pc[p] # "idle" /\ ~restarted[p] =>
       /\ ~inQueue
       /\ \A q \in Poller : pc[q] # "idle" /\ ~restarted[q] => p = q

\* This step takes the entry of d from op_list for its callback.
Taken(d) == d \in opList /\ d \notin opList' /\ held'[d]

\* A poller takes an entry only if a whole period passed since the operation last made
\* progress.  It is not so: the scan counts the new deadline from the clock its poller
\* read before it took the mutex and clears a progress flag that was set since.
TimeoutOnlyWhenQuiet == [][\A d \in Op : Taken(d) => idle[d] = Period]_vars

\* What is true: a timeout comes early by no more than the time the poller whose scan
\* set the deadline spent between reading the clock and that scan, however progress,
\* registrations, refusals and the scans of two pollers interleave.
TimeoutEarlyByLag == [][\A d \in Op : Taken(d) => idle[d] + lag[d] >= Period]_vars

\* An expired entry is eventually examined (a poller found it expired and is about to
\* scan op_list), unless the timer is destroyed.
ExpiredEntryIsExamined ==
    \A d \in Op : (d \in opList /\ left[d] = 0 /\ phase = "active")
                  ~> \/ d \notin opList \/ left[d] > 0 \/ phase # "active"
                     \/ \E p \in Poller : d \in sawDue[p]

\* The same as long as no callback blocks (its poller is restarted) or refuses its
\* timeout (its entry is put back): in both cases the periodic may be lost.
ExaminedIfAccepted ==
    [](\A p \in Poller : ~restarted[p] /\ pc[p] # "reinsert") => ExpiredEntryIsExamined

\* globus_i_xio_timer_destroy terminates.
DestroyTerminates == (phase = "waiting") ~> (phase = "destroyed")

\* Where the entry of d is: in op_list, with a poller, or nowhere.
TimerStatus ==
    [d \in Op |-> IF d \in opList THEN "registered"
                  ELSE IF \E p \in Poller : InHand(p, d) THEN "firing" ELSE "none"]

Service == INSTANCE TimerService WITH status <- TimerStatus, held <- held

\* The timer implements the service its clients are written against: what
\* register_timeout, unregister_timeout and the poller do to an entry and to
\* its reference is a step of TimerService.
ImplementsService == Service!Spec
=============================================================================
