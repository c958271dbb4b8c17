# TLA+ verification of the Grid Community Toolkit: its I/O core and its job manager

The Grid Community Toolkit (GCT) is a collection of C libraries and servers for
grid computing: GridFTP, GRAM, GASS, GSI, MyProxy.  What they share is an
asynchronous I/O core: **Globus XIO** (`src/xio/src`) on top of the **callback
library** of `src/common`.  Every GridFTP transfer, GRAM message and GASS copy is
a sequence of XIO operations whose completion, timeout, cancellation and close
are carried out by different threads.  Above it, the **GRAM job manager**
(`src/gram/jobmanager`) takes a job through staging, submission, polling and clean-up,
and must find it again after a crash.  This project models both with TLA+, checks
them with TLC, and proves with TLAPS the timer's invariants and its refinement, the
reference counts of the server, the counters and the close barrier of a context entry,
and that the job manager submits a job only after its commit and only once, and reports
its end, and cleans up, only when it should.

## 1. Inventory

### The I/O core

| Component | Source | State it keeps | Operations |
|---|---|---|---|
| Callback library | `common/source/library/globus_callback_threads.c` | per callback: queue it is in, `is_periodic`, `running_count`, `unregister_callback`; per thread: `restart_info` | register, adjust period (pause, resume), unregister, poll, blocked callback, finish |
| Timer | `xio/src/globus_xio_timeout.c` | `op_list`, `running`, `minimal_delay`; per entry: `progress_ptr`, `abs_timeout` | register and unregister a timeout, poller, destroy |
| Context and pass layer | `xio/src/globus_xio_pass.c` | per entry: `state`, `outstanding_operations`, `read_operations`, `eof_operations`, `close_op`, `close_started`, `pending_read_queue`, `eof_op_list` | `pass_X`, `finished_X`, `X_delivered` for open, read, write, close; pending reads |
| Kickouts and start of close | `xio/src/globus_xio_driver.c` | `op->ref`, `entry->deliver_type`, `context->ref` | the kickouts, `deliver_op`, `will_block_cb`, `start_close`, `purge_read_eof`, `pass_failed`, `op_destroy`, `handle_dec` |
| Handle | `xio/src/globus_xio_handle.c` | `state`, `ref`, `open_op`, `close_op`, operation lists; per operation `state`, `ref`, `canceled`, `block_timeout` | register open/read/write/close, cancel, timeout callback, the two callbacks and their kickouts, blocking calls |
| Server | `xio/src/globus_xio_server.c` | `state`, `op`, `ref`, `outstanding_operations`; per accept `state`, `ref`, `canceled` | register accept, completion, cancel, timeout, close |
| System select driver | `xio/src/globus_xio_system_select.c` | per descriptor read and write operation, select sets | register, cancel, select loop |
| Attributes, loading, utilities | `globus_xio_attr.c`, `_load.c`, `_util.c` | tables | option handling |
| Builtin drivers | `xio/src/builtins` | mode_e, ordering: buffers by offset; http, tcp, udp, file | driver functions |

How they interact.  The user calls the handle.  The handle allocates an
operation, registers a timeout with the timer and passes the operation to the
first entry of its context.  The entry counts it and calls the driver.  The
driver finishes it, and the entry registers a *kickout* as a oneshot with the
callback library.  The kickout calls the handle's callback, that calls the user,
and afterwards the operation is *delivered* to the entry, which may release
held-back reads or a held-back close.  Meanwhile the timer's poller, another
callback, may find the operation silent and ask the user whether to cancel it.

What is hard:

* four kinds of thread (registering, kickout, poller, closing) use an operation,
  and any of them may be the last one; two reference counts must be exact;
* the poller works on a private list without the lock, and runs twice at the same
  time when a callback blocks;
* a completion may arrive while the user is asked about its timeout, and the
  callback is then made by the poller;
* end of file overtakes data, and must be held back; reads passed meanwhile must
  wait, and must not be forgotten;
* a close must wait for everything passed before it, and three kinds of thread can
  be the one that notices that nothing is left;
* state is checked under a lock and used after it was released.

### The GRAM job manager

| Part | Source (`gram/jobmanager/source`) | State it keeps | Operations |
|---|---|---|---|
| State machine | `globus_gram_job_manager_state.c` | `jobmanager_state`, `restart_state`, `status`, `failure_code`, `unsent_status_change` | one case per state; restart from a state file |
| State file | `..._state_file.c`, `..._request.c` | what a request is read back from | write, read, request init |
| Scripts | `..._script.c`, `..._staging.c` | queue of scripts, staging lists | stage in, submit, poll, cancel, signal, stage out, clean-up, and their reports |
| Scheduler events | `..._seg.c` | `seg_pause_count`, held events, hash of job ids | event, pause, resume, handling in the polling states |
| Queries | `..._query.c` | `pending_queries` | cancel, signals, the two commits and their extension, stop, stdio update, unregister |
| Callbacks | `..._contact.c` | queue of state callbacks | notify, reply |
| Manager | `globus_gram_job_manager.c`, `startup_socket.c`, `main.c` | requests in memory or only as a name, pending restarts | add and remove reference, swap out, load all state files, client's restart |

The manager has one thread, so its callbacks are atomic; what interleaves are the
client, the scripts, the local resource manager (LRM), timeouts, and crashes.

What is hard: the LRM job is outside the program, so a crash between two writes of
the state file must not submit it twice, forget it or report it wrongly; a client may
commit, cancel, signal or restart in any state; events arrive before the id they
belong to is known; every state that waits needs something that will wake it.

### Above and beside

| Component | Source | Status |
|---|---|---|
| Globus I/O compatibility layer | `src/io/compat` | not modelled: call-by-call translation to XIO |
| GridFTP control, client, server | `src/gridftp` | not modelled; state machines above XIO, candidates |
| gfork | `src/gridftp/gfork` | not modelled; table-driven supervisor, planned |
| GRAM client, protocol, gatekeeper | `src/gram` | not modelled: framing and request/reply I/O |
| GASS cache, copy, transfer | `src/gass` | not modelled; the cache's lock protocol is a candidate |
| GSI, callouts | `src/gsi`, `src/callout` | not modelled: cryptography, parsing, dynamic loading |
| GSI-OpenSSH, MyProxy | `src/gsi_openssh`, `src/myproxy` | third-party code with patches |
| Loadable drivers, packaging | `src/xio/drivers`, `src/packaging` | wrappers of libraries; build files |

## 2. Modules

```
TimerService  <----refines----  XioTimer  <--EXTENDS--  XioTimerProofs    (TLAPS)
     |                              \--EXTENDS--  MCXioTimer         (TLC)
     | the timer a handle sees; the server's timer by INSTANCE
     +---- XioServer   <--EXTENDS--  MCXioServer    (TLC),  XioServerProofs  (TLAPS)
     +---- XioHandle   <--EXTENDS--  MCXioHandle    (TLC),  XioHandleProofs  (TLAPS)
               | its first context entry, in detail
           XioContext  <--EXTENDS--  MCXioContext   (TLC),  XioContextProofs (TLAPS)

GramJob  <--EXTENDS--  MCGramJob (TLC),  GramJobProofs (TLAPS)
                                            <--EXTENDS--  GramJobCommitProofs
                                            <--EXTENDS--  GramJobSubmitProofs
                                                   <--EXTENDS--  GramJobEndProofs
```

The line references of every definition are in `PROJECT.json`, under `map`.
Definitions named `...AtOnce`, `...Blindly`, `...Forgets` and the like, marked
`Fault:`, are deliberately wrong variants; they are used to see that a property
can fail, and no specification contains them.

**TimerService** is the abstract specification: a timeout is `none`, `registered`
or `firing`, and the timer holds a reference on the operation exactly while it is one
of the last two; a client can take back, and release, only a registered one.

**XioTimer** has the timer and the part of the callback library that drives it.
`opList`, `running`, `progress`, `left` are the fields of the timer and of its
entries; `isPeriodic`, `inQueue`, `restarted`, `unreg` those of the periodic
callback; `pc`, `sawDue`, `age`, `callList`, `cur` are the locals of a poller.  `held`,
the reference the timer holds on an operation, `idle`, the time since it last made
progress, and `lag`, how old the clock reading was from which its deadline was counted,
are history variables.  A critical section is one action, reading the clock before
locking (`PollStart`, `PollScan`) is a step of its own.  Time is relative and advances
with `Tick`: `left[d]` is `abs_timeout - now`, and `age[p]` the time since the poller `p`
read its clock; both stop at `Period`, the period of an entry in ticks, beyond which the
code does not tell times apart.  A scan counts the new deadline from that reading, as the
code does, so `left` becomes `Period - age[p]`.

**XioContext** is one entry of a context with its user above and its driver below.
Every critical section of `context->mutex` is an action.  Data is reduced to: a
read finished with data, or with end of file; a pass failed.  `passOwes` and `late`
record a delivery that a pass has taken over from the kickout in whose callback it
runs (`deliver_type`).  `aborted` is set where a `globus_assert` fails.

**XioHandle** is a handle with one open, one close and some data operations.  It has
`handle->state`, `handle->ref`, `op->state`, `op->ref`, `op->canceled`, the poller's
question (`asking`) and a first context entry reduced to what open and close see.
Its timer is the one TimerService specifies, which is why the refinement matters, with
one more value: a timeout that its callback `refused` goes back to the timer in a step of
its own (`PutBack`), because the poller takes the timer's mutex after the callback has
released the handle's.
A register function is one action up to the driver's function; the race between its
check and its pass is in XioContext.  `conf` selects what may happen: which
operations are timed, which passes may fail, whether the user closes during the
open (`eager`) or while another thread is inside a register function (`hasty`), whether
callbacks block.

**XioServer** is a server with several accepts.  `sstate`, `sref`, `sop`,
`outstanding` are the fields of `globus_i_xio_server_t`; `ost`, `oref`, `canceled`
those of an operation; `reg` is the thread in `register_accept`, `at` the way of the
accept to the driver, its kickout and the user's callback, `asking` the poller in the
user's timeout callback, `closing` the close kickout.  It is composed with
TimerService: `RegisterAccept`, `AcceptCallback`, `RegisterFails` and the timeout
actions take a step of the timer (`T!Register`, `T!Withdraw`, `T!Fire`, `T!Accept`,
`T!Retry`) in the same step, and RefsExact counts the reference the timer holds.  A
refused timeout (`declined`) is put back by a later step, `PutBack`, as in XioHandle.
Every critical section of `server->mutex` is an action.  `conf` says whether accepts
are timed, whether the driver may refuse one, and whether the user may close the
server before `register_accept` returned.

**GramJob** is one job of a job manager.  `r` is `globus_gram_jobmanager_request_t`
reduced to what control depends on; `file` is the state file; `mem`, `loaded` and
`pending` say what the manager knows of the job (in memory, only by name, to be
restarted).  `run` is the loop of `state_machine_callback`: each iteration (`Step...`,
one action for each case of the switch) is atomic and only a crash comes between two.
`scripts` are the queued and running scripts; a script takes effect outside
(`ScriptRuns`) and reports later (`ScriptDone`), so that a crash between the two leaves
a job that nobody heard of.  `lrm` are the LRM's jobs and `pos` how much of each one's
log was delivered (external, from how the code uses them).  `pause`, `held`, `resumed`
and `idHash` are the event handling of `seg.c`.  `Crash` loses everything but `file`
and `lrm` and does what `request_load_all_from_dir` does; `Reloaded` is what the next
reference reads.  Delays are abstracted: a registered timer may fire at any time.
`SwapOut` gives a request that stopped because its end was not committed (`overdue`) an
expiration time (`expires`), and `ExpireOldJob` is the periodic `expire_old_jobs`: it
reads such a job back and commits its end in the client's place.  `ScriptRuns` is what
`JobManager.pm` and the LRM modules (`fork.pm` is the one mapped) do outside;
`OrphanSubmit` is a submit script that fails or is killed after the LRM took the job.
`told`, `committed`, `ended`, `stagedOut` are history variables.

## 3. Runs

Passing runs (with the type invariants of the timer, the context entry, the handle and the job):

| Run | What it checks | Instance |
|---|---|---|
| `timer` | `EntryOwnership` (one owner per entry), `OneUnblockedPoller`, `TimeoutEarlyByLag`, `DestroyedIsQuiescent`, `ImplementsService`, `ExaminedIfAccepted`, `DestroyTerminates` | 2 operations, 2 pollers, a period of 2 ticks, callbacks accept, refuse, block |
| `context` | `CountersExact`, `NoAssertFails`, `CloseBarrier`, `EofAfterData`, `EveryOpReturns`, `CloseCompletes` | 3 reads, 1 write, `MaxLate` 2, a cancelling close |
| `handle_lifecycle` | `NoFault`, `OpRefsExact`, `HandleRefsExact`, `CalledOnce`, `CloseAfterUntimedData`, `EveryOpCalledBack`, `HandleReclaimed` | open, one data operation, close; three configurations |
| `server` | `RefsExact`, `NoFaultUnlessRefused`, `DriverIdleAtClose`, `ServerReclaimed` | 2 accepts; with timeouts, or with a driver that refuses |
| `gram_job` | `CommitBeforeSubmit`, `SomethingWillWake`, `DoneMeansDone`, `ClientTold`, `FailedMostlyMeansEnded`, `CleanUpAfterCommit`, `Settles`, `AbandonedExpires` | all 24 kinds of job whose client listens; scripts report errors, LRM jobs fail; two of: cancel, signal, extension, unregister, orphan submission |
| `gram_recovery` | `SingleSubmit`, `SubmitIntention`, `RunningJobHasFile`, `RecoveredMeansDone` | a condor, an event-driven two-phase and a polled job; two of: crash (twice), stop, client restart, stdio update, orphan submission; scripts also die, clients are unreachable |

Operations recur (an operation that has returned is registered or passed again) in the
timer and in the context, so behaviours are unbounded there.

Why the bounds are enough.  Timer: two pollers give the overlap that blocking makes
possible, with an entry each; a period of two ticks is the shortest that is longer than the
lag of a poller by a part of it; the safety properties are proved for every size.
Context: three reads are one that meets end of file, one data read it overtook and one
that waits on the pending queue; a write is independent of end of file and shares only
`outstanding_operations`.  `MaxLate` bounds the threads that stand between queueing a
read and delivering its earlier pass.  Handle: operations interact only through the
handle's count and the barrier, so one data operation beside open and close shows every
pair.  The configurations of `handle_lifecycle` are the combinations in which the
properties hold; the others are below.  `HandleReclaimed` and `ServerReclaimed` assume
that the timer examines again an entry that its poller put back after the operation was
over (`Stranded`); without it `CloseReclaims` fails, as shown below.  Server: an accept overlaps with its successor
(registered in its callback) and with one whose timeout outlives it; two accepts give each
of the two.  The safety properties hold of three at once too (`server_three.cfg`, with the
type invariant), and are proved for any number.  GramJob: the bounds `Max` are on what the client and crashes do,
each kind and in total (2); the manager, the scripts and the LRM are not bounded.  Two
crashes hit a job and its recovery; a client's action and a crash hit in either order.

### Exemptions in GramJob's properties

The clients and crashes of GramJob are allowed more than some properties can bear.
Where the code is known to lose track, the property says so instead of the model
leaving the case out.  `Undisturbed`: no signal to a two-phase job (the reply of one
queued before the commit runs the state machine under the submit script), no
`stop_manager` (a commit in STOP ends any job), no client restart or stdio update (they
empty the staging lists of a request read from its file and write the file in the state
it was reloaded in).  `Trusted` adds: not a polled job (a failing poll script gives the
job up), no submit script that left an LRM job behind without reporting its id, and after a crash only condor, whose log shows a submission nobody recorded,
and no cancel: a job restarted in TWO_PHASE_COMMITTED that is cancelled before
`set_restart_state` looked at the log is given up while its LRM job runs.
`SingleSubmit` is for condor only: for the other kinds the code has no means to see the
job of a submit script whose manager died.

### Violation runs

Each shows a disagreement between the code and what a comment, a test or a document
of the repository says of it; `findings` in `PROJECT.json` quotes the line.

| Run | What TLC finds |
|---|---|
| `timer_refused` | an entry whose timeout was refused is put back into `op_list` of a timer that was paused meanwhile, and is never examined again |
| `context_eof_close` | a close that does not cancel, passed while end of file is delivered: a pending read that meets end of file again fails an assertion of `finished_read` |
| `handle_close_barrier` | a timed data operation completes while the user is asked; the close callback comes before its callback |
| `server_refused` | the driver refuses a timed accept while its timeout is firing; the caller frees the operation the poller is about to use |
| `gram_uncommitted` | the manager crashes before the client's commit; the reloaded request is submitted without it |
| `gram_restage` | a stdio update of a request read back from its file empties the staging lists; the job is DONE and nothing was staged out |

### Other disagreements

The following configurations are kept for the reader; `tlc -config X.cfg M` shows each
of them in seconds.  They are what the passing runs' configurations and the exemptions
above leave out.

| Configuration | Module | What TLC finds |
|---|---|---|
| `timer_blocked` | MCXioTimer | a periodic that is paused and resumed while its only running instance is blocked (and so restarted) is never queued again |
| `timer_stale_clock` | MCXioTimer | an operation makes progress between the poller's clock reading and its scan: the scan clears it and counts the deadline from the reading, so the timeout comes less than a period after the progress |
| `context_race` | MCXioContext | a close between the check of `register_readv` and its pass fails the assertion of `pass_read` |
| `handle_open_timeout` | MCXioHandle | an open fails while the user is asked about its timeout; the close the user requested is passed to an entry that is already closed |
| `handle_failed_pass` | MCXioHandle | a pass fails while its timeout fires; `op->type` is set where the timeout callback reads `op->state`, and the last reference is dropped under an assertion |
| `handle_failed_open` | MCXioHandle | the pass of an open fails; `handle->open_op` still points to the destroyed operation and a cancel uses it |
| `handle_last_reference` | MCXioHandle | the pass of a read fails while another thread closes the handle: the error path of `register_readv` drops the handle's last reference, although its comment says "handle should always have a reference left at this point" (`handle.c:1652, 1776`); the assertion fails, and without assertions nobody destroys the handle |
| `handle_stranded` | MCXioHandle | an operation completes between the refusal of its timeout and the poller's reinsertion: the timer keeps its reference, and the handle is never destroyed if the entry is not examined again |
| `server_stranded` | MCXioServer | the same for an accept and its server |
| `server_eager` | MCXioServer | another thread closes the server while `register_accept` is under way: its own release is the last one and `globus_assert(!free_server)` fails |
| `gram_signal_race` | MCGramJob | a signal sent before the commit: its reply runs the state machine while the submit script is at work, and FAILED is reported of a job that then runs |
| `gram_orphan` | MCGramJob | a submit script dies, or `fork.pm:430-432` reports that the output's streamer did not start, after the LRM took the job: the missing id is taken for a failed submission (`state.c:370-381`), and FAILED is reported of a job that runs |
| `gram_unexpired` | MCGramJob | the end of a cancelled job is not committed and its terminal event arrives in STOP: the reference the event took (`seg.c:289`) is never released, so `expire_old_jobs` never cleans the job up, although `rsl.txt:35` says that it is cleaned up after its expiration |
| `gram_lost_end` | MCGramJob | a crash after the terminal event emptied the job id and before the next write of the state file: the restarted manager waits for an event that is not coming |
| `gram_unreachable` | MCGramJob | the final callback cannot be posted to any contact: its context is freed, and the state machine that was to be restarted with the reply is not |
| `gram_silent_script` | MCGramJob | a stage-in script ends without a report: the job becomes FAILED and the client is not told |

`CHECK_DEADLOCK FALSE` is set throughout: a timer that is destroyed, a handle that
is closed and a user that does nothing more are ends the system really has.

### Fairness

* XioTimer: time passes; a queued callback is run by some thread; a poller's steps
  and its callbacks go on; the unregister callback runs.  This is what the threaded
  callback library gives: its threads take every ready callback.  Callbacks that
  never return would stop the timer in the code too.  `Tick` is fair; how long anything
  takes is not bounded.
* XioContext: the driver finishes what it took, a registered kickout runs, a callback
  returns, a thread goes on after an unlock.  Nothing obliges the user to close or to
  pass.
* XioHandle: as before, and the poller goes on once it has taken an entry.  Nothing
  obliges the user to close, a timer to fire, or a pass to fail.
* XioServer: for each accept, the thread that registers or completes it (`Carry`), its
  user's callback (`Callback`) and the poller that has taken it (`Poller`) go on; the
  close kickout runs (`Close`).  A driver finishes an accept that was cancelled; no
  connection need come, no timeout fire, and the user need not close.
* GramJob: the manager's callbacks and timers (`Manager`), the reports and events it
  reads (`Events`), the scripts (`Scripts`) and the LRM (`Lrm`) go on.  Nothing is assumed
  of the client: `Settles` includes stopping to wait for it.  An unreferenced request is
  swapped out, and the periodic `expire_old_jobs` (one second, `main.c:494-505`) runs.
  Orphan submissions are not fair.

All of it is weak fairness; none is needed on the choice of a result.

## 4. Proofs

TLC checks the instances of section 3; the following holds for every value of the
constants.  Each inductive invariant was checked with TLC before it was proved.

| Module | Theorem | Statement |
|---|---|---|
| XioTimerProofs | `Invariance` | `Spec => []TimerInv` |
| | `TypeCorrect` | `Spec => []TypeOK` |
| | `Ownership` | `Spec => []EntryOwnership` |
| | `OnePoller` | `Spec => []OneUnblockedPoller` |
| | `DestroyQuiescent` | `Spec => []DestroyedIsQuiescent` |
| | `Refinement` | `Spec => ImplementsService` |
| | `EarlyByLag` | `Spec => TimeoutEarlyByLag` |
| XioServerProofs | `TypeCorrect` | `Spec => []TypeOK` |
| | `ReferencesExact` | `Spec => []RefsExact` |
| | `DriverIdle` | `Spec => []DriverIdleAtClose` |
| | `OnlyRefusalFaults` | `Spec => [](~conf.eager => NoFaultUnlessRefused)` |
| XioHandleProofs | `TypeCorrect` | `Spec => [](Safe => TypeOK)` |
| | `NoAssertion` | `Spec => [](Safe => NoFault)` |
| | `OpReferences` | `Spec => [](Safe => OpRefsExact)` |
| | `HandleReferences` | `Spec => [](Safe => HandleRefsExact)` |
| | `CallbackOnce` | `Spec => [](Safe => CalledOnce)` |
| | `CloseCallbackLast` | `Spec => [](Safe => CloseAfterUntimedData)` |
| XioContextProofs | `TypeCorrect` | `Spec => []TypeOK` |
| | `CountersRight` | `Spec => [](NoAssertFails => CountersExact)` |
| | `EndOfFileLast` | `Spec => [](NoAssertFails => EofAfterData)` |
| | `BarrierKept` | if `~RacyUser`: `Spec => [](NoAssertFails => CloseBarrier)` |
| | `NoAssertion` | if `Disciplined`: `Spec => []NoAssertFails` |
| | `DisciplinedSafe` | if `Disciplined`: `Spec => [](CountersExact /\ CloseBarrier /\ EofAfterData)` |
| GramJobProofs | `TypeCorrect` | `Spec => []TypeOK` |
| GramJobCommitProofs | `CommitFirst` | `Spec => [](used["crash"] = 0 => CommitBeforeSubmit)` |
| GramJobSubmitProofs | `IntentionWritten` | `Spec => SubmitIntention` |
| | `SubmittedOnce` | `Spec => []SingleSubmit` |
| GramJobEndProofs | `DoneIsDone` | `Spec => [](Faithful => DoneMeansDone)` |
| | `DoneAfterCrashes` | `Spec => []RecoveredMeansDone` |
| | `FailedIsEnded` | `Spec => []FailedMostlyMeansEnded` |
| | `RunningIsOnFile` | `Spec => []RunningJobHasFile` |
| | `CleanedUpAfterCommit` | `Spec /\ []Patient => CleanUpAfterCommit` |
| | `ClientIsTold` | if neither `die` nor `post` is in `Fails`: `Spec => [](used["crash"] = 0 => ClientTold)` |
| | `SomethingWakes` | if `post` is not in `Fails`: `Spec => [](Unbroken => SomethingWillWake)` |

Assumptions on constants are those the modules state.  XioTimer: `NoOp` is not an
operation, callbacks return a Boolean, a period is at least one tick.  XioServer: finitely many accepts, configurations
of the declared type.  XioHandle: open and close are not data operations, of which there
are finitely many, and configurations are of the declared type.  XioContext: reads and writes are disjoint and finitely many;
`CancelModes` and `RacyUser` are a set of Booleans and a Boolean.  GramJob: `Jobs`, `Fails`
and `Max` are of the declared types, so any number of crashes, cancels, signals and so on.

**Timer.**  The inductive invariant is

    TimerInv == TypeOK /\ PollerState /\ EntryOwnership
                       /\ OneUnblockedPoller /\ DestroyProtocol

`EntryOwnership` is not inductive alone: a scan would overwrite a call list that is
not empty, and a reinsertion would insert `NoOp`; `PollerState` ties a poller's
locals to its place in the loop and excludes both.  `DestroyedIsQuiescent` follows
from `DestroyProtocol`, which says what is true while destruction waits: the
periodic is not queued, the unregister callback has been left to the last running
poller or has been started, and `running` stays set until it ran.  Each conjunct has
a lemma with one step per action.  The refinement maps an entry by where it
is: `registered` (in `op_list`), `firing` (with a poller) or `none`, and keeps the
references as they are.  `StatusIsHeld` uses ownership to say the same in terms of the
references; `ServiceStep` shows that each action is a step of TimerService or a stutter.
`EarlyByLag` rests on `PeriodSplit`: of an entry without progress since its last scan, the
time since the last progress, what is left until the deadline and the lag of that scan
make up at least a period; and an entry that a poller saw expired, and that was not armed
again since, has nothing left.  The lag cannot be dropped: `timer_stale_clock`.

**Server.**  `ServerInv` adds to the types `TimerLink` (the timer's reference and the
user's question), `Stages` (how `op->state` follows an accept from the driver to the
user), `OpRefs` (`op->ref` counts the users), `Protocol` (the accept the driver has is
`server->op` and the server's state waits for it) and `Counts` (`server->ref` and
`outstanding_operations`).  `RefsExact` is not inductive without `Stages` and `Protocol`,
which exclude a second release by the poller.  The proviso `~conf.eager` is needed: the
configuration `server_eager`, where the user closes the server before `register_accept`
returned, shows the assertion that fails otherwise.  `server_refused` shows why a refused
accept is exempt; any refused accept is, timed or not, because its error path leaves it in
`server->op`, where a cancel or a close finds it after it was freed.

**Handle.**  `Safe` is a condition on the configuration, which never changes: no open whose
pass fails, no operation that has a timeout and whose pass fails, no hasty user together
with data operations whose pass fails, and no eager user together with a timeout of the
open or with callbacks that block.  None of it can be dropped: with one data operation TLC
finds a fault in each of the 437 configurations (of 512) that `Safe` excludes and in none
of the others; `handle_failed_open`, `handle_failed_pass`, `handle_last_reference` and
`handle_open_timeout` are four of them.
`HandleInv` is `Safe => Good /\ Patience`: `Patience` says that the handle of a user that
is not hasty is still open while a thread is inside a register function, which the
assertion of `RegisterFails` needs.  `Good` has a part for every operation and a part for the handle.  Of an operation: `Places` (what
`op->state` says of where it is on its way to the driver and back), `Threads` (the
registering thread, the timer and the early delivery), `Called` (the user is asked, or
called by the poller, or called by the kickout) and `Refs`.  Of the handle: `Lifecycle`
(`handle->state` against open and close), `Waiting` (a close that waits for the open),
`DataOpen` (data come between a successful open and the close), `Entry` (the first context
entry) and `Counts`.  `OpRefsExact` needs `Called`, which excludes that poller and kickout
both end the operation; `HandleRefsExact` needs `Lifecycle` for the handle's own reference
and `Entry` for the barrier that starts the close; `NoFault` needs all of it.  Each action
has a lemma (`Keep...`); those that move one operation share `OneOpStep`, `QuietRelease`,
`DataStep` and `OpenStep`.

**Context.**  `read_delivered` is not told what it delivers: it takes the operation for an
end of file when `read_operations` is zero.  So the counters are exact only if end of
file comes last, and end of file comes last only if the counters are exact; `Sound` proves
them together with who holds the dispatch of the pending reads (`EndOfFile`), where open
and close are (`Opening`, `Closing`), the reference (`Referenced`) and what a pass owes
(`Owing`).  `ContextInv` is `TypeOK /\ (aborted \/ Sound)`: a step that fails no assertion
keeps `Sound`, whatever the user does; with a failed assertion the process has ended.
`Disciplined` says that the user neither closes between its check and its pass nor closes
without cancelling.  Neither half can be dropped from `NoAssertion`: `context_race` and
`context_eof_close` are the counterexamples.  The counting is done by lemmas on the
cardinalities of the sets of operations in a state (`CardMove`, `ReadMoves`, `WriteMoves`,
`Tally`).

**Job manager.**  `BasicInv` has the types of everything and that only a request in
memory has a state machine, scripts or callbacks, that job ids name LRM jobs, and that a
query is run only when there is one; the modules on top cite its lemmas on the operators of
GramJob.  `CommitInv` says where a request can be while its client has not committed:
neither it, nor its restart state, nor the state file leaves the states from which nothing
is submitted, and no submit script is queued.  `used["crash"] = 0` is needed: the run
`gram_uncommitted` shows a reloaded request submitted without the commit.  `SoloInv` says
that for a client that leaves the job alone one script is at work at a time, with no
timer and no reply beside it, and that the state file says SUBMIT while it is a submit
script.  `OnceInv` adds, for condor jobs, that whenever the request or the file may lead to
another submission there is no LRM job, or the restart that looks for it in the log is
still to come.

The end of a job rests on five more invariants, each on top of `SoloInv`.  `TruthInv`:
the request, the state file, the scripts and the events claim that the job is done, or
staged out, only when it is.  It holds while `Faithful`: no stop, client restart or update,
and no crash of a two-phase job that was signalled before its commit, because there a late
stage-in script writes TWO_PHASE_END_COMMITTED to the file and the manager restarted from
it takes the job for done.  `WatchInv`: no event reports an end before there is one
(`EventsInv`); and for `Trusted` jobs, while one is at work the request and the file watch
it (its status is not final, its id is known once it is polled, and before that the file
says SUBMIT), and a job that was reported FAILED before its submission is not submitted
after a restart.  `FailedIsEnded` and `RunningIsOnFile` are its two sides; scripts may fail and die, but a
submit script that leaves a job behind is excluded by `Trusted`, and `gram_orphan` shows
why.  `WaitInv`: in
the states that clean up, in STOP when they are what it goes on with, and in the state
file, the client is gone or let the commit time out, or the end was committed, by the client or
by `expire_old_jobs` when it did not (`ended`, in either case); and the
status is final by then, so that a late script changes neither it nor the failure code.
`CleanedUpAfterCommit` is an action property and follows from it.  `Patient` is needed: a
client's restart registers its contact anew, and a script that dies beside the state
machine overwrites the failure code.  `ToldInv`: while nothing crashed and the client
neither stopped, restarted nor updated the job, the status of an ended job has been sent
or is marked as still to be sent in every state from the submission on; POLL2, which
waits without looking at it, never has a final status; and a request is swapped out to its
state file only when its client knows what the file says.  The exclusions are needed: a
manager restarted after a crash does not know whether the last status reached the client,
and TLC finds it cleaned up without one; `gram_silent_script` and `gram_unreachable` are
the counterexamples with a script that dies and a client that cannot be reached.  (The
invariant itself lets a script die, and excuses the missing status then: `Mute`.)

`WakeInv`, on top of `ToldInv`, follows the terminal event of the LRM job.  It holds while
`Unbroken`: no crash, and a client that is `Undisturbed`.  Events are paused exactly
while the request is in SUBMIT; there, from the submit script's success on, the end of the
job is still to be reported, among the held events or in the request's queue; in the poll
states, as long as the status is not final, the id is registered and the end is still to be
reported or in the registered resume callback, or it is in the request's queue.  The resume
callback loses none: the order-preserving choice of due events in `SegResume` is onto
(`SegResumeAll`, by cardinality).  At rest there is a timer, a script or a reply, or an
empty queue in POLL2, whose status `ToldInv` says is not final.  `post` is excluded
because nothing restarts the state machine after a final callback no contact accepts
(`gram_unreachable`), and a crash because the end that a request had already taken from
its queue is not reported again (`gram_lost_end`).  Signals to two-phase jobs are excluded
only by the proof, which needs that one script is at work at a time.

### Only model-checked

* Liveness under fairness, in all modules: out of the prover's reach.
* GramJob: `SomethingWillWake` for two-phase jobs that were signalled (in `gram_job`).

## 5. What is abstracted or left out

* Byte counts, iovecs, offsets, `wait_for` and short transfers: a short transfer is
  passed again by the entry and does not change its counters.
* Stacks of several drivers: one entry is modelled; the protocol between two entries
  is the same one.
* In XioContext: a close passed while the entry is OPENING (`pass.c:460`), which a driver
  may do that gives up its open, and a close cancelled before it is passed
  (`pass.c:420-425, 517-526`), which ends without reaching the driver.
* `minimal_delay` of the timer: a registration adjusts a running periodic or not.
* Callback spaces, priorities, signals, and the callback library's own handle counts.
* In XioHandle: end of file (XioContext has it), handle cntl and attributes, closing
  all handles at deactivation.  Blocking calls are the non-blocking ones and a wait;
  a blocking close of a handle without operations is the action `BlockingCloseUnopened`.
* A cancelled operation is finished by its driver like any other; XIO leaves it to the
  driver how soon.
* In XioServer: the accepted handle, `server_cntl`, closing all servers at deactivation.
  The increments of `op->ref` outside the mutex are atomic.  One driver stands for the
  stack.
* In GramJob: dry runs, failing allocations and writes of the state file, jobs with
  several subjobs, PENDING events, the expiry and renewal of the user's proxy,
  authentication, RSL evaluation, output streaming, and the lock by which two managers
  of a user exclude each other.  Several jobs share a manager only through
  `seg_pause_count` and the event queue; one job shows the pause it causes itself.
  Further: the failure of `register_job_id` after a submission (`state.c:389-394`), which
  needs an id that another job has or a failed allocation; the `job_state_mask` and
  `failed_count` of contacts (`contact.c:880-962`): a contact asks for all states; a
  script that dies in the middle of its report (`script.c:453-590` applies it line by
  line).  The signal CANCEL (`query.c:875`) is one of the signals of `Signal`, for the
  script `signal`, which no LRM module of the repository implements (`JobManager.pm:316-322`
  reports UNIMPLEMENTED); cancelling a job is the query `cancel`.

The parts of section 1 that are not modelled are not all small: the GridFTP control
library, client and server, GASS copy and the OpenSSH and MyProxy sources make up most
of the repository's 680 thousand lines, of which the models cover about one in a
hundred.  The protocol stacks above XIO are state machines that could be modelled the
same way; the security libraries are parsing and cryptography, of which a state machine
shows little; the third-party sources are not the repository's own.

Hazards that no property covers yet are listed with a note under `hazards`.

## 6. Plan

1. Proofs.  GramJob: `SomethingWillWake` for signalled two-phase jobs, without the
   single script of `SoloInv`.
2. XioHandle: the unlocked steps of a blocking close, and the open kickout's use of a
   close operation that `register_close` destroyed.
3. XioStack: two context entries, cancellation through them, and XioShutdown: closing
   every handle and server at deactivation against users' threads.
4. CallbackSpace: oneshots, spaces and polling threads, with the periodic of XioTimer
   as an instance.
5. GramManager: several jobs of a manager, the pause they share and the callback slots;
   two managers and the lock file.
6. mode_e and ordering drivers; GFork; the GridFTP control library's data channel.
7. Abstract specifications: a context entry as a channel with an end-of-file marker and
   a close barrier, which XioContext implements; a job that is submitted at most once
   after its commit, which GramJob implements where `Undisturbed`.
