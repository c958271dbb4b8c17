----------------------------- MODULE XioHandle ------------------------------
(***************************************************************************)
(* An XIO handle (xio/src/globus_xio_handle.c): the state machine of open  *)
(* and close, the life of its operations and the two reference counts that *)
(* keep operations and handle in memory while threads still use them.      *)
(*                                                                         *)
(* An operation is used by the thread that registers it, by the driver,    *)
(* by the kickout that calls the user, and by the timeout poller; any of   *)
(* them may be last.  A timeout that is being asked about (TIMEOUT_PENDING) *)
(* defers the user's callback to the poller's thread.                      *)
(*                                                                         *)
(* The timer is the one TimerService specifies (none, registered, firing); *)
(* an entry whose callback refused the timeout is still the poller's       *)
(* ("refused") until that puts it back under the timer's mutex.            *)
(* Below the handle is the first entry of its context, reduced to what     *)
(* open and close see: XioContext has its end-of-file protocol.  Every     *)
(* critical section of context->mutex is one action, except that a         *)
(* register function is one action up to the call of the driver: a timeout *)
(* does not expire, and the user does not close, between its check and its *)
(* pass (XioContext has the latter race).                                  *)
(***************************************************************************)
EXTENDS Integers, FiniteSets

CONSTANTS
    Data,          \* read and write operations, each registered at most once
    OpenOp,        \* the open operation
    CloseOp,       \* the close operation
    Configs        \* how the handle may be configured and used, see ConfigType

Op == Data \cup {OpenOp, CloseOp}
Kinds == {"open", "close", "data"}

Kind(o) == CASE o = OpenOp -> "open" [] o = CloseOp -> "close" [] OTHER -> "data"

\* timed: the operations with a timeout callback (handle->open_timeout_cb ...);
\* fails: the operations whose pass may return an error; eager: the user may
\* close before the open callback returned; hasty: the user may close while another
\* thread is inside the register function of a read or write; blocks: callbacks may
\* block.
ConfigType == [timed : SUBSET Kinds, fails : SUBSET Kinds,
               eager : BOOLEAN, hasty : BOOLEAN, blocks : BOOLEAN]

ASSUME OpsDistinct ==
    /\ OpenOp # CloseOp /\ OpenOp \notin Data /\ CloseOp \notin Data
    /\ IsFiniteSet(Data)
ASSUME ConfigAssumption == Configs \subseteq ConfigType

VARIABLES
    conf,        \* the configuration, fixed
    hstate,      \* handle->state
    href,        \* handle->ref
    openOp,      \* handle->open_op # NULL
    closeOp,     \* handle->close_op # NULL
    ost,         \* op->state; "NONE": not allocated, "FREED": destroyed
    oref,        \* op->ref
    canceled,    \* op->canceled # 0
    timer,       \* the operation's entry in the timer
    asking,      \* the poller waits for the user's timeout callback
    reg,         \* the registering thread
    at,          \* the operation's way to the driver and back
    early,       \* it was delivered while its callback blocks
    late,        \* its callback runs in the poller's thread
    calls,       \* how often the user was called back
    openOk,      \* result of the driver's open
    cstate,      \* context->entry[0].state
    outstanding, \* context->entry[0].outstanding_operations
    closeStarted,\* context->entry[0].close_started
    deferred,    \* the close waited for the open callback
    inClose,     \* a thread is inside globus_i_xio_driver_start_close
    fault        \* an assertion failed or a destroyed operation was used

refs == <<href, oref, ost>>
timing == <<timer, asking>>
below == <<cstate, outstanding, closeStarted, inClose, openOk>>
links == <<openOp, closeOp>>
vars == <<conf, hstate, href, openOp, closeOp, ost, oref, canceled, timer,
          asking, reg, at, early, late, calls, openOk, cstate, outstanding,
          closeStarted, deferred, inClose, fault>>

HandleStates == {"CLIENT", "OPENING", "OPENING_FAILED", "OPENING_AND_CLOSING",
                 "OPEN", "OPEN_FAILED", "CLOSING", "CLOSED"}

Live(o) == ost[o] \notin {"NONE", "FREED"}

\* The types of the handle's and the operations' fields; no reference count becomes
\* negative.
TypeOK ==
    /\ conf \in Configs
    /\ hstate \in HandleStates
    /\ href \in Nat
    /\ openOp \in BOOLEAN /\ closeOp \in BOOLEAN
    /\ ost \in [Op -> {"NONE", "OPERATING", "TIMEOUT_PENDING",
                       "FINISH_WAITING", "FINISHED", "FREED"}]
    /\ oref \in [Op -> Nat]
    /\ canceled \in [Op -> BOOLEAN]
    /\ timer \in [Op -> {"none", "registered", "firing", "refused"}]
    /\ asking \in [Op -> BOOLEAN]
    /\ reg \in [Op -> {"none", "inPass", "returned", "failed"}]
    /\ at \in [Op -> {"new", "unopened", "deferred", "toPass", "cached",
                      "starting", "driver", "fired", "callback", "closing",
                      "deliver", "done", "failed"}]
    /\ early \in [Op -> BOOLEAN] /\ late \in [Op -> BOOLEAN]
    /\ calls \in [Op -> Nat]
    /\ openOk \in BOOLEAN
    /\ cstate \in {"NONE", "OPENING", "OPEN", "OPEN_FAILED",
                   "OPENING_AND_CLOSING", "CLOSING", "CLOSED"}
    /\ outstanding \in Nat
    /\ closeStarted \in BOOLEAN /\ deferred \in BOOLEAN /\ inClose \in BOOLEAN
    /\ fault \in BOOLEAN

\* globus_xio_handle_create
Init ==
    /\ conf \in Configs
    /\ hstate = "CLIENT"
    /\ href = 1
    /\ openOp = FALSE /\ closeOp = FALSE
    /\ ost = [o \in Op |-> "NONE"]
    /\ oref = [o \in Op |-> 0]
    /\ canceled = [o \in Op |-> FALSE]
    /\ timer = [o \in Op |-> "none"]
    /\ asking = [o \in Op |-> FALSE]
    /\ reg = [o \in Op |-> "none"]
    /\ at = [o \in Op |-> "new"]
    /\ early = [o \in Op |-> FALSE] /\ late = [o \in Op |-> FALSE]
    /\ calls = [o \in Op |-> 0]
    /\ openOk = FALSE
    /\ cstate = "NONE" /\ outstanding = 0
    /\ closeStarted = FALSE /\ deferred = FALSE /\ inClose = FALSE
    /\ fault = FALSE

Insist(cond) == fault' = (fault \/ ~cond)
Timed(o) == Kind(o) \in conf.timed
One(cond) == IF cond THEN 1 ELSE 0

-----------------------------------------------------------------------------
(* References *)

\* GlobusXIOOpDec, and globus_i_xio_op_destroy when it was the last one: o
\* loses k references, s is op->state as the caller leaves it.  The handle
\* loses the operation's reference, and `own' of its own (handle_dec, which
\* insists on a closed handle when none is left).  The caller asserts `cond'.
ReleaseIf(cond, o, k, s, own, hs) ==
    LET n == oref[o] - k
        h == href - own - One(n = 0)
    IN  /\ oref' = [oref EXCEPT ![o] = n]
        /\ ost' = IF n = 0 THEN [s EXCEPT ![o] = "FREED"] ELSE s
        /\ href' = h
        /\ Insist(cond /\ n >= 0 /\ h >= 0 /\ (h = 0 => hs = "CLOSED"))

Release(o, k, s, own, hs) == ReleaseIf(TRUE, o, k, s, own, hs)

\* globus_i_xio_timer_unregister_timeout succeeds: the entry is in the list.
Unregistered(o) == timer[o] = "registered"

\* Fault: cancelling drops the timeout's reference without looking at the timer.
CancelledBlindly(S) ==
    LET hit == {o \in S : ~canceled[o] /\ Timed(o)}
    IN  /\ timer' = [o \in Op |-> IF o \in hit THEN "none" ELSE timer[o]]
        /\ oref' = [o \in Op |-> oref[o] - One(o \in hit)]
        /\ canceled' = [o \in Op |-> canceled[o] \/ (o \in S /\ at[o] \in {"driver", "fired"})]

\* globus_i_xio_operation_cancel(o, -1) for the operations of S.  The flag
\* stays set only for an operation that is below the user.
Cancelled(S) ==
    LET hit == {o \in S : ~canceled[o] /\ Unregistered(o)}
    IN  /\ timer' = [o \in Op |-> IF o \in hit THEN "none" ELSE timer[o]]
        /\ oref' = [o \in Op |-> oref[o] - One(o \in hit)]
        /\ canceled' = [o \in Op |-> canceled[o] \/ (o \in S /\ at[o] \in {"driver", "fired"})]

\* handle->read_op_list and write_op_list
Listed == {o \in Data : at[o] \in {"driver", "fired"} \/ reg[o] = "failed"}

-----------------------------------------------------------------------------
(* The user registers operations *)

\* globus_xio_register_open and globus_l_xio_register_open up to the driver.
\* References: the operation's own, the timeout's, register_open's, and the
\* two of pass_open (`1 for the pass, and one until finished').
RegisterOpen ==
    /\ hstate = "CLIENT"
    /\ hstate' = "OPENING"
    /\ href' = href + 1
    /\ openOp' = TRUE
    /\ ost' = [ost EXCEPT ![OpenOp] = "OPERATING"]
    /\ oref' = [oref EXCEPT ![OpenOp] = 4 + One(Timed(OpenOp))]
    /\ timer' = [timer EXCEPT ![OpenOp] = IF Timed(OpenOp) THEN "registered" ELSE "none"]
    /\ reg' = [reg EXCEPT ![OpenOp] = "inPass"]
    /\ at' = [at EXCEPT ![OpenOp] = "driver"]
    /\ cstate' = "OPENING"
    /\ outstanding' = outstanding + 1
    /\ UNCHANGED <<conf, closeOp, canceled, asking, early, late, calls, openOk,
                   closeStarted, deferred, inClose, fault>>

\* globus_l_xio_register_readv and _writev up to the driver.
RegisterData(o) ==
    /\ ost[o] = "NONE"
    /\ hstate = "OPEN"
    /\ cstate = "OPEN"
    /\ href' = href + 1
    /\ ost' = [ost EXCEPT ![o] = "OPERATING"]
    /\ oref' = [oref EXCEPT ![o] = 4 + One(Timed(o))]
    /\ timer' = [timer EXCEPT ![o] = IF Timed(o) THEN "registered" ELSE "none"]
    /\ reg' = [reg EXCEPT ![o] = "inPass"]
    /\ at' = [at EXCEPT ![o] = "driver"]
    /\ outstanding' = outstanding + 1
    /\ UNCHANGED <<conf, hstate, links, canceled, asking, early, late, calls, openOk,
                   cstate, closeStarted, deferred, inClose, fault>>

\* The end of the pass functions when the driver took the operation.
PassReturns(o) ==
    /\ o # CloseOp
    /\ reg[o] = "inPass"
    /\ reg' = [reg EXCEPT ![o] = "returned"]
    /\ Release(o, 1, ost, 0, hstate)
    /\ UNCHANGED <<conf, hstate, links, canceled, timing, at, early, late, calls,
                   below, deferred>>

\* The end of the register functions.
RegisterReturns(o) ==
    /\ reg[o] = "returned"
    /\ reg' = [reg EXCEPT ![o] = "none"]
    /\ Release(o, 1, ost, 0, hstate)
    /\ UNCHANGED <<conf, hstate, links, canceled, timing, at, early, late, calls,
                   below, deferred>>

\* The driver's function returned an error: globus_i_xio_pass_failed and the
\* end of the pass function.  It starts a close that waited for this one.
PassFails(o) ==
    LET n == outstanding - 1
        close == n = 0 /\ cstate = "CLOSING" /\ ~closeStarted
    IN  /\ o # CloseOp
        /\ Kind(o) \in conf.fails
        /\ reg[o] = "inPass" /\ at[o] = "driver"
        /\ reg' = [reg EXCEPT ![o] = "failed"]
        /\ at' = [at EXCEPT ![o] = "failed",
                            ![CloseOp] = IF close THEN "starting" ELSE @]
        /\ outstanding' = n
        /\ Release(o, 2, ost, 0, hstate)
        /\ UNCHANGED <<conf, hstate, links, canceled, timing, early, late, calls,
                       cstate, closeStarted, inClose, openOk, deferred>>

\* The error path of the register functions.  op->state is left alone, also
\* when the timeout can not be unregistered, and so is handle->open_op.  It asserts that
\* the operation's reference on the handle was not the last one, and destroys no handle.
RegisterFails(o) ==
    LET k == 2 + One(Unregistered(o))
    IN  /\ o # CloseOp
        /\ reg[o] = "failed"
        /\ reg' = [reg EXCEPT ![o] = "none"]
        /\ timer' = [timer EXCEPT ![o] = IF Unregistered(o) THEN "none" ELSE @]
        /\ hstate' = IF o = OpenOp THEN "OPEN_FAILED" ELSE hstate
        /\ ReleaseIf(oref[o] = k => href > 1, o, k, ost, 0, hstate')
        /\ UNCHANGED <<conf, links, canceled, asking, at, early, late, calls, below,
                       deferred>>

\* globus_xio_handle_cancel_operations for one operation: the open and close
\* operations are reached through the handle's pointers.
CancelOperation(o) ==
    /\ hstate # "CLOSED"
    /\ \/ o = OpenOp /\ openOp
       \/ o = CloseOp /\ closeOp
       \/ o \in Listed
    /\ Insist(Live(o))
    /\ Cancelled({o})
    /\ UNCHANGED <<conf, hstate, href, ost, links, asking, reg, at, early, late,
                   calls, below, deferred>>

-----------------------------------------------------------------------------
(* The driver finishes, the user is called, the operation is delivered *)

\* globus_xio_driver_finished_open
FinishedOpen(success) ==
    /\ at[OpenOp] = "driver"
    /\ at' = [at EXCEPT ![OpenOp] = "fired"]
    /\ openOk' = success
    /\ cstate' = IF success THEN "OPEN" ELSE "OPEN_FAILED"
    /\ UNCHANGED <<conf, hstate, refs, links, canceled, timing, reg, early, late,
                   calls, outstanding, closeStarted, inClose, deferred, fault>>

\* globus_xio_driver_finished_read and _write
FinishedData(o) ==
    /\ at[o] = "driver"
    /\ at' = [at EXCEPT ![o] = "fired"]
    /\ UNCHANGED <<conf, hstate, refs, links, canceled, timing, reg, early, late,
                   calls, below, deferred, fault>>

\* The common part of globus_l_xio_open_close_callback and
\* globus_i_xio_read_write_callback, called by the driver's kickout: unless
\* the user is being asked about a timeout, the timeout is unregistered and
\* the user is called (`fire'), by the same thread.
Completed(o) ==
    LET fire == ost[o] # "TIMEOUT_PENDING"
        unreg == fire /\ Unregistered(o)
    IN  /\ at[o] = "fired"
        /\ ost' = [ost EXCEPT ![o] = "FINISH_WAITING"]
        /\ oref' = [oref EXCEPT ![o] = @ - One(unreg)]
        /\ timer' = [timer EXCEPT ![o] = IF unreg THEN "none" ELSE @]
        /\ canceled' = [canceled EXCEPT ![o] = FALSE]
        /\ calls' = [calls EXCEPT ![o] = @ + One(fire)]
        /\ at' = [at EXCEPT ![o] = IF fire THEN "callback"
                                    ELSE IF o = CloseOp THEN "done" ELSE "deliver"]
        /\ UNCHANGED <<conf, href, openOp, asking, reg, early, late, below, deferred>>

\* Fault: the callback is not held back while the user is asked.
HandleCallbackAtOnce(o) ==
    /\ at[o] = "fired"
    /\ ost' = [ost EXCEPT ![o] = "FINISH_WAITING"]
    /\ oref' = [oref EXCEPT ![o] = @ - One(Unregistered(o))]
    /\ timer' = [timer EXCEPT ![o] = IF Unregistered(o) THEN "none" ELSE @]
    /\ canceled' = [canceled EXCEPT ![o] = FALSE]
    /\ calls' = [calls EXCEPT ![o] = @ + 1]
    /\ at' = [at EXCEPT ![o] = "callback"]
    /\ hstate' = IF o = OpenOp /\ hstate = "OPENING"
                 THEN (IF openOk THEN "OPEN" ELSE "OPENING_FAILED") ELSE hstate
    /\ closeOp' = (closeOp /\ o # CloseOp)
    /\ UNCHANGED <<conf, href, openOp, asking, reg, early, late, below, deferred, fault>>

\* globus_l_xio_open_close_callback, globus_i_xio_read_write_callback
HandleCallback(o) ==
    /\ Completed(o)
    /\ hstate' = IF o = OpenOp /\ hstate = "OPENING"
                 THEN (IF openOk THEN "OPEN" ELSE "OPENING_FAILED") ELSE hstate
    /\ closeOp' = (closeOp /\ o # CloseOp)
    /\ Insist(hstate \in CASE o = OpenOp -> {"OPENING", "OPENING_AND_CLOSING"}
                           [] o = CloseOp -> {"CLOSING"}
                           [] OTHER -> {"OPEN", "CLOSING"})

\* A kickout's callback returned, in the kickout's thread or in the poller's.
Returned(o) == (at[o] = "callback" /\ ~late[o]) \/ late[o]

Leave(o) ==
    /\ Returned(o)
    /\ late' = [late EXCEPT ![o] = FALSE]

\* What the kickout does after the callback leaves the thread to do.
AfterCallback(o) ==
    IF late[o] THEN at[o] ELSE IF o = CloseOp THEN "done" ELSE "deliver"

\* globus_l_xio_read_write_callback_kickout after the user's callback.
DataKickoutEnds(o) ==
    /\ Leave(o)
    /\ at' = [at EXCEPT ![o] = AfterCallback(o)]
    /\ Release(o, 1, [ost EXCEPT ![o] = "FINISHED"], 0, hstate)
    /\ UNCHANGED <<conf, hstate, links, canceled, timing, reg, early, calls, below,
                   deferred>>

\* globus_l_xio_open_close_callback_kickout after the user's open callback: a
\* close that arrived meanwhile is passed by this thread ("closing") before it
\* goes on to deliver the open.
OpenKickoutEnds ==
    LET close == hstate = "OPENING_AND_CLOSING"
    IN  /\ Leave(OpenOp)
        /\ openOp' = FALSE
        /\ hstate' = CASE hstate = "OPENING_FAILED" -> "OPEN_FAILED"
                       [] close -> "CLOSING"
                       [] OTHER -> hstate
        /\ at' = [at EXCEPT ![OpenOp] = IF close /\ ~late[OpenOp] THEN "closing"
                                        ELSE AfterCallback(OpenOp),
                            ![CloseOp] = IF close THEN "toPass" ELSE @]
        /\ ReleaseIf(/\ ost[OpenOp] = "FINISH_WAITING"
                     /\ hstate \notin {"CLIENT", "OPENING", "OPEN_FAILED"}
                     /\ close => closeOp,
                     OpenOp, 1, [ost EXCEPT ![OpenOp] = "FINISHED"], 0, hstate')
        /\ UNCHANGED <<conf, closeOp, canceled, timing, reg, early, calls, below,
                       deferred>>

\* ... after the user's close callback: the handle loses its own reference.
CloseKickoutEnds ==
    /\ Leave(CloseOp)
    /\ openOp' = FALSE
    /\ hstate' = "CLOSED"
    /\ at' = [at EXCEPT ![CloseOp] = AfterCallback(CloseOp)]
    /\ ReleaseIf(ost[CloseOp] = "FINISH_WAITING",
                 CloseOp, 1, [ost EXCEPT ![CloseOp] = "FINISHED"], 1, "CLOSED")
    /\ UNCHANGED <<conf, closeOp, canceled, timing, reg, early, calls, below, deferred>>

\* Fault: a delivery starts the close with operations outstanding.
BarrierIgnoresCount(n) == cstate = "CLOSING" /\ ~closeStarted /\ at[CloseOp] = "cached"

\* The close barrier of the *_delivered functions.
BarrierReached(n) ==
    cstate = "CLOSING" /\ n = 0 /\ ~closeStarted /\ at[CloseOp] = "cached"

\* The context's part of globus_xio_driver_open_delivered, _read_delivered and
\* _write_delivered; a is `at' as the caller leaves it.
ContextDelivered(o, a) ==
    LET n == outstanding - 1
        failedOpen == o = OpenOp /\ cstate = "OPENING_AND_CLOSING"
                        /\ n = 0 /\ ~closeStarted /\ at[CloseOp] = "cached"
        start == BarrierReached(n)
    IN  /\ outstanding' = n
        /\ cstate' = CASE o = OpenOp /\ cstate = "OPEN_FAILED" -> "CLOSED"
                       [] o = OpenOp /\ cstate = "OPENING_AND_CLOSING" -> "CLOSING"
                       [] OTHER -> cstate
        /\ closeStarted' = (closeStarted \/ start \/ failedOpen)
        /\ at' = [a EXCEPT ![CloseOp] = IF start THEN "starting"
                                         ELSE IF failedOpen THEN "fired" ELSE @]
        /\ UNCHANGED <<inClose, openOk>>

\* Fault: an operation delivered while its callback blocked is delivered again.
DeliveredAgain(o) ==
    /\ at[o] = "deliver"
    /\ Release(o, 1, ost, 0, hstate)
    /\ ContextDelivered(o, [at EXCEPT ![o] = "done"])
    /\ UNCHANGED <<conf, hstate, links, canceled, timing, reg, early, late, calls,
                   deferred>>

\* The kickout delivers after the callback; its reference goes.
Delivered(o) ==
    /\ at[o] = "deliver"
    /\ Release(o, 1, ost, 0, hstate)
    /\ IF early[o]
       THEN at' = [at EXCEPT ![o] = "done"] /\ UNCHANGED below
       ELSE ContextDelivered(o, [at EXCEPT ![o] = "done"])
    /\ early' = [early EXCEPT ![o] = FALSE]
    /\ UNCHANGED <<conf, hstate, links, canceled, timing, reg, late, calls,
                   deferred>>

\* globus_i_xio_will_block_cb: the callback blocks and is delivered early; the
\* reference taken for it goes with the delivery.
DeliveredEarly(o) ==
    /\ conf.blocks
    /\ o # CloseOp
    /\ at[o] = "callback" /\ ~early[o]
    /\ early' = [early EXCEPT ![o] = TRUE]
    /\ ContextDelivered(o, at)
    /\ UNCHANGED <<conf, hstate, refs, links, canceled, timing, reg, late, calls,
                   deferred, fault>>

-----------------------------------------------------------------------------
(* Timeouts *)

\* The poller takes the entry off the timer's list (XioTimer's PollScan).
TimerFires(o) ==
    /\ Unregistered(o)
    /\ timer' = [timer EXCEPT ![o] = "firing"]
    /\ UNCHANGED <<conf, hstate, refs, links, canceled, asking, reg, at, early, late,
                   calls, below, deferred, fault>>

\* Fault: the timeout's reference is kept.
TimeoutTooLateKeeps(o) ==
    /\ timer[o] = "firing" /\ ~asking[o]
    /\ ost[o] \in {"FINISHED", "FINISH_WAITING"}
    /\ timer' = [timer EXCEPT ![o] = "none"]
    /\ UNCHANGED <<conf, hstate, refs, links, canceled, asking, reg, at, early, late,
                   calls, below, deferred, fault>>

\* globus_l_xio_timeout_callback finds the operation finished.
TimeoutTooLate(o) ==
    /\ timer[o] = "firing" /\ ~asking[o]
    /\ ost[o] \in {"FINISHED", "FINISH_WAITING"}
    /\ timer' = [timer EXCEPT ![o] = "none"]
    /\ Release(o, 1, ost, 0, hstate)
    /\ UNCHANGED <<conf, hstate, links, canceled, asking, reg, at, early, late, calls,
                   below, deferred>>

\* ... operating: it asks the user.
TimeoutAsks(o) ==
    /\ timer[o] = "firing" /\ ~asking[o]
    /\ ost[o] \notin {"FINISHED", "FINISH_WAITING"}
    /\ ost' = [ost EXCEPT ![o] = "TIMEOUT_PENDING"]
    /\ asking' = [asking EXCEPT ![o] = TRUE]
    /\ Insist(ost[o] = "OPERATING")
    /\ UNCHANGED <<conf, hstate, href, oref, links, canceled, timer, reg, at, early,
                   late, calls, below, deferred>>

\* ... operating, and the driver has blocked the timeout: kept for later.
TimeoutBlocked(o) ==
    /\ timer[o] = "firing" /\ ~asking[o]
    /\ ost[o] = "OPERATING"
    /\ timer' = [timer EXCEPT ![o] = "refused"]
    /\ UNCHANGED <<conf, hstate, refs, links, canceled, asking, reg, at, early, late,
                   calls, below, deferred, fault>>

\* Fault: a completion that arrived meanwhile is overlooked.
TimeoutAnsweredForgets(o, cancel) ==
    /\ asking[o]
    /\ asking' = [asking EXCEPT ![o] = FALSE]
    /\ canceled' = [canceled EXCEPT ![o] = @ \/ cancel]
    /\ ost' = IF ost[o] = "FINISH_WAITING" THEN ost ELSE [ost EXCEPT ![o] = "OPERATING"]
    /\ oref' = [oref EXCEPT ![o] = @ - One(cancel)]
    /\ timer' = [timer EXCEPT ![o] = IF cancel THEN "none" ELSE "refused"]
    /\ UNCHANGED <<conf, hstate, href, links, reg, at, early, late, calls, below,
                   deferred, fault>>

\* The user answered: its callback arrived meanwhile and is called now, or the
\* operation goes on, with its timeout removed if the user cancels it.
TimeoutAnswered(o, cancel) ==
    LET waiting == ost[o] = "FINISH_WAITING"
        remove == cancel \/ waiting
    IN  /\ asking[o]
        /\ asking' = [asking EXCEPT ![o] = FALSE]
        /\ canceled' = [canceled EXCEPT ![o] = @ \/ cancel]
        /\ ost' = IF waiting THEN ost ELSE [ost EXCEPT ![o] = "OPERATING"]
        /\ oref' = [oref EXCEPT ![o] = @ - One(remove)]
        /\ timer' = [timer EXCEPT ![o] = IF remove THEN "none" ELSE "refused"]
        /\ Insist(remove => oref[o] > 1)
        /\ late' = [late EXCEPT ![o] = waiting]
        /\ calls' = [calls EXCEPT ![o] = @ + One(waiting)]
        /\ UNCHANGED <<conf, hstate, href, links, reg, at, early, below, deferred>>

\* The poller, back from the callback, puts a refused entry back under timer->mutex
\* (XioTimer's Reinsert).  An operation that completes before can not unregister it.
PutBack(o) ==
    /\ timer[o] = "refused"
    /\ timer' = [timer EXCEPT ![o] = "registered"]
    /\ UNCHANGED <<conf, hstate, refs, links, canceled, asking, reg, at, early, late,
                   calls, below, deferred, fault>>

-----------------------------------------------------------------------------
(* Close *)

Unopened == {"CLIENT", "OPEN_FAILED"}
StillOpening == {"OPENING", "OPENING_FAILED"}

\* The user closes once, and a user that is not eager waits for the open
\* callback to return, one that is not hasty for its calls of register_read and
\* register_write.  A close in any other state of the handle is refused and changes
\* nothing.
MayClose ==
    /\ ost[CloseOp] = "NONE"
    /\ hstate \in Unopened \cup StillOpening \cup {"OPEN"}
    /\ hstate \in StillOpening => conf.eager
    /\ conf.hasty \/ \A o \in Data : reg[o] = "none"

NewCloseOp(s) ==
    /\ closeOp' = TRUE
    /\ ost' = [ost EXCEPT ![CloseOp] = s]

\* globus_l_xio_handle_pre_close before an open, or after a failed one: the
\* close is not passed down, a oneshot fakes it.
CloseUnopened ==
    /\ MayClose
    /\ hstate \in Unopened
    /\ hstate' = "OPENING_AND_CLOSING"
    /\ NewCloseOp("FINISH_WAITING")
    /\ oref' = [oref EXCEPT ![CloseOp] = 1]
    /\ href' = href + 1
    /\ at' = [at EXCEPT ![CloseOp] = "unopened"]
    /\ UNCHANGED <<conf, openOp, canceled, timing, reg, early, late, calls, below,
                   deferred, fault>>

\* globus_l_xio_handle_unopened_close_callback
UnopenedCloseCallback ==
    /\ at[CloseOp] = "unopened"
    /\ hstate' = "CLOSING"
    /\ at' = [at EXCEPT ![CloseOp] = "callback"]
    /\ calls' = [calls EXCEPT ![CloseOp] = @ + 1]
    /\ UNCHANGED <<conf, refs, links, canceled, timing, reg, early, late, below,
                   deferred, fault>>

\* Fault: the close does not wait for the open callback.
CloseOpeningAtOnce(cancel) ==
    /\ MayClose
    /\ hstate \in StillOpening
    /\ hstate' = "CLOSING"
    /\ NewCloseOp("OPERATING")
    /\ deferred' = FALSE
    /\ at' = [at EXCEPT ![CloseOp] = "toPass"]
    /\ oref' = [oref EXCEPT ![CloseOp] = 1]
    /\ UNCHANGED <<conf, href, openOp, canceled, timing, reg, early, late, calls,
                   below, fault>>

\* ... while the open is under way: the close waits for the open callback;
\* without no_cancel the open is cancelled.
CloseOpening(cancel) ==
    /\ MayClose
    /\ hstate \in StillOpening
    /\ hstate' = "OPENING_AND_CLOSING"
    /\ NewCloseOp("OPERATING")
    /\ deferred' = TRUE
    /\ at' = [at EXCEPT ![CloseOp] = "deferred"]
    /\ Insist(hstate = "OPENING" => openOp /\ (cancel => Live(OpenOp)))
    /\ LET hit == IF cancel /\ hstate = "OPENING" /\ ~canceled[OpenOp]
                       /\ Unregistered(OpenOp) THEN {OpenOp} ELSE {}
       IN  /\ timer' = [o \in Op |-> IF o \in hit THEN "none" ELSE timer[o]]
           /\ oref' = [o \in Op |-> IF o = CloseOp THEN 1 ELSE oref[o] - One(o \in hit)]
    /\ canceled' = [canceled EXCEPT ![OpenOp] =
           @ \/ (cancel /\ hstate = "OPENING" /\ at[OpenOp] \in {"driver", "fired"})]
    /\ UNCHANGED <<conf, href, openOp, asking, reg, early, late, calls, below>>

\* ... of an open handle; without no_cancel the data operations are cancelled.
CloseOpen(cancel) ==
    LET hit == {o \in Listed : cancel /\ ~canceled[o] /\ Unregistered(o)}
    IN  /\ MayClose
        /\ hstate = "OPEN"
        /\ hstate' = "CLOSING"
        /\ NewCloseOp("OPERATING")
        /\ at' = [at EXCEPT ![CloseOp] = "toPass"]
        /\ timer' = [o \in Op |-> IF o \in hit THEN "none" ELSE timer[o]]
        /\ oref' = [o \in Op |-> IF o = CloseOp THEN 1 ELSE oref[o] - One(o \in hit)]
        /\ canceled' = [o \in Op |-> canceled[o]
                           \/ (cancel /\ o \in Data /\ at[o] \in {"driver", "fired"})]
        /\ UNCHANGED <<conf, href, openOp, asking, reg, early, late, calls, below,
                       deferred, fault>>

\* globus_xio_close on a handle that was not opened and has no operation left:
\* closed at once, and the handle's own reference goes.
BlockingCloseUnopened ==
    /\ hstate \in Unopened
    /\ ost[CloseOp] = "NONE"
    /\ href = 1
    /\ hstate' = "CLOSED"
    /\ href' = href - 1
    /\ UNCHANGED <<conf, oref, ost, links, canceled, timing, reg, at, early, late,
                   calls, below, deferred, fault>>

\* Fault: the close operation takes no reference of the handle.
RegisterCloseUncounted ==
    LET go == outstanding = 0
    IN  /\ at[CloseOp] = "toPass"
        /\ oref' = [oref EXCEPT ![CloseOp] = @ + 1 + One(Timed(CloseOp))]
        /\ timer' = [timer EXCEPT ![CloseOp] = IF Timed(CloseOp) THEN "registered" ELSE "none"]
        /\ cstate' = CASE cstate = "OPEN" -> "CLOSING"
                       [] cstate \in {"OPEN_FAILED", "OPENING"} -> "OPENING_AND_CLOSING"
                       [] OTHER -> cstate
        /\ Insist(cstate \in {"OPEN", "OPEN_FAILED", "OPENING"} /\ ~closeStarted)
        /\ closeStarted' = (closeStarted \/ go)
        /\ at' = [at EXCEPT ![CloseOp] = IF go THEN "starting" ELSE "cached",
                            ![OpenOp] = IF @ = "closing" THEN "deliver" ELSE @]
        /\ reg' = [reg EXCEPT ![CloseOp] = IF go THEN "inPass" ELSE "returned"]
        /\ UNCHANGED <<conf, hstate, href, ost, links, canceled, asking, early, late, calls,
                       outstanding, inClose, openOk, deferred>>

\* globus_l_xio_register_close and globus_xio_driver_pass_close, by the user's
\* thread or by the open kickout: only now does the operation count as a
\* reference of the handle.
RegisterClose ==
    LET go == outstanding = 0
    IN  /\ at[CloseOp] = "toPass"
        /\ href' = href + 1
        /\ oref' = [oref EXCEPT ![CloseOp] = @ + 1 + One(Timed(CloseOp))]
        /\ timer' = [timer EXCEPT ![CloseOp] = IF Timed(CloseOp) THEN "registered" ELSE "none"]
        /\ cstate' = CASE cstate = "OPEN" -> "CLOSING"
                       [] cstate \in {"OPEN_FAILED", "OPENING"} -> "OPENING_AND_CLOSING"
                       [] OTHER -> cstate
        /\ Insist(cstate \in {"OPEN", "OPEN_FAILED", "OPENING"} /\ ~closeStarted)
        /\ closeStarted' = (closeStarted \/ go)
        /\ at' = [at EXCEPT ![CloseOp] = IF go THEN "starting" ELSE "cached",
                            ![OpenOp] = IF @ = "closing" THEN "deliver" ELSE @]
        /\ reg' = [reg EXCEPT ![CloseOp] = IF go THEN "inPass" ELSE "returned"]
        /\ UNCHANGED <<conf, hstate, ost, links, canceled, asking, early, late, calls,
                       outstanding, inClose, openOk, deferred>>

\* globus_i_xio_driver_start_close calls the driver ...
StartClose ==
    /\ at[CloseOp] = "starting"
    /\ at' = [at EXCEPT ![CloseOp] = "driver"]
    /\ inClose' = TRUE
    /\ oref' = [oref EXCEPT ![CloseOp] = @ + 1]
    /\ UNCHANGED <<conf, hstate, href, ost, links, canceled, timing, reg, early, late,
                   calls, cstate, outstanding, closeStarted, openOk, deferred, fault>>

\* ... and returns; pass_close goes back to register_close.
StartCloseReturns ==
    /\ inClose
    /\ inClose' = FALSE
    /\ reg' = [reg EXCEPT ![CloseOp] = IF @ = "inPass" THEN "returned" ELSE @]
    /\ Release(CloseOp, 1, ost, 0, hstate)
    /\ UNCHANGED <<conf, hstate, links, canceled, timing, at, early, late, calls,
                   cstate, outstanding, closeStarted, openOk, deferred>>

\* globus_xio_driver_finished_close, by the driver, or by start_close when the
\* driver failed and the close had waited for operations.
FinishedClose ==
    /\ at[CloseOp] = "driver"
    /\ at' = [at EXCEPT ![CloseOp] = "fired"]
    /\ cstate' = "CLOSED"
    /\ UNCHANGED <<conf, hstate, refs, links, canceled, timing, reg, early, late, calls,
                   outstanding, closeStarted, inClose, openOk, deferred, fault>>

\* The driver's close failed and the close had not waited: start_close and
\* pass_close return the error.
PassCloseFails ==
    /\ "close" \in conf.fails
    /\ at[CloseOp] = "driver" /\ inClose /\ reg[CloseOp] = "inPass"
    /\ at' = [at EXCEPT ![CloseOp] = "failed"]
    /\ reg' = [reg EXCEPT ![CloseOp] = "failed"]
    /\ inClose' = FALSE
    /\ cstate' = "CLOSED"
    /\ Release(CloseOp, 1, ost, 0, hstate)
    /\ UNCHANGED <<conf, hstate, links, canceled, timing, early, late, calls,
                   outstanding, closeStarted, openOk, deferred>>

\* The error path of globus_l_xio_register_close; the open kickout then hands
\* the operation to open_close_callback, which asserts that it is not closed.
RegisterCloseFails ==
    /\ reg[CloseOp] = "failed"
    /\ reg' = [reg EXCEPT ![CloseOp] = "none"]
    /\ hstate' = "CLOSED"
    /\ timer' = [timer EXCEPT ![CloseOp] = IF Unregistered(CloseOp) THEN "none" ELSE @]
    /\ ReleaseIf(~deferred, CloseOp, 2 + One(Unregistered(CloseOp)), ost, 1, "CLOSED")
    /\ UNCHANGED <<conf, links, canceled, asking, at, early, late, calls, below, deferred>>

-----------------------------------------------------------------------------
UserStep ==
    \/ RegisterOpen
    \/ \E o \in Data : RegisterData(o)
    \/ \E o \in Op : CancelOperation(o)
    \/ CloseUnopened
    \/ BlockingCloseUnopened
    \/ \E cancel \in BOOLEAN : CloseOpening(cancel) \/ CloseOpen(cancel)

RegisterStep(o) ==
    \/ PassReturns(o) \/ RegisterReturns(o)
    \/ PassFails(o) \/ RegisterFails(o)

KickoutStep ==
    \/ \E o \in Op : HandleCallback(o) \/ Delivered(o) \/ DeliveredEarly(o)
    \/ \E o \in Data : DataKickoutEnds(o)
    \/ OpenKickoutEnds
    \/ UnopenedCloseCallback
    \/ CloseKickoutEnds

TimeoutStep(o) ==
    \/ TimerFires(o)
    \/ TimeoutTooLate(o) \/ TimeoutAsks(o) \/ TimeoutBlocked(o)
    \/ PutBack(o)
    \/ \E cancel \in BOOLEAN : TimeoutAnswered(o, cancel)

CloseStep ==
    \/ RegisterClose
    \/ StartClose \/ StartCloseReturns
    \/ FinishedClose
    \/ PassCloseFails \/ RegisterCloseFails

\* A handle that is gone, or that nobody uses, stays as it is.
Next ==
    \/ UserStep
    \/ \E o \in Op : RegisterStep(o) \/ TimeoutStep(o)
    \/ \E success \in BOOLEAN : FinishedOpen(success)
    \/ \E o \in Data : FinishedData(o)
    \/ KickoutStep
    \/ CloseStep

Spec == Init /\ [][Next]_vars

\* Drivers finish what they were given, callbacks return, threads go on, and
\* the poller is run.  The user may never close, and a timer may never fire.
Fairness ==
    /\ \A o \in Op :
          /\ WF_vars(RegisterStep(o))
          /\ WF_vars(HandleCallback(o)) /\ WF_vars(Delivered(o))
          /\ WF_vars(TimeoutTooLate(o) \/ TimeoutAsks(o)) /\ WF_vars(PutBack(o))
          /\ WF_vars(\E cancel \in BOOLEAN : TimeoutAnswered(o, cancel))
    /\ \A o \in Data : WF_vars(FinishedData(o)) /\ WF_vars(DataKickoutEnds(o))
    /\ WF_vars(\E success \in BOOLEAN : FinishedOpen(success))
    /\ WF_vars(OpenKickoutEnds) /\ WF_vars(CloseKickoutEnds)
    /\ WF_vars(UnopenedCloseCallback)
    /\ WF_vars(RegisterClose) /\ WF_vars(StartClose) /\ WF_vars(StartCloseReturns)
    /\ WF_vars(FinishedClose) /\ WF_vars(RegisterCloseFails)

FairSpec == Spec /\ Fairness

-----------------------------------------------------------------------------
(* Properties *)

\* The references of an operation are those of its users: its own until the
\* user's callback has returned (or its registration failed), the timer's, the
\* registering thread's, the kickout's and start_close's.
Holders(o) ==
    LET own == One(Live(o) /\ ost[o] # "FINISHED"
                     /\ ~(at[o] = "failed" /\ reg[o] = "none"))
        timers == One(timer[o] # "none")
        registering == CASE reg[o] = "inPass" /\ o # CloseOp -> 2
                         [] reg[o] = "none" -> 0
                         [] OTHER -> 1
        kickout == One(o # CloseOp /\ at[o] \in {"driver", "fired", "callback", "closing", "deliver"})
        closing == One(o = CloseOp /\ inClose)
    IN  own + timers + registering + kickout + closing

\* op->ref is exact: no user of an operation outlives it, and none keeps it.
OpRefsExact == \A o \in Op : oref[o] = Holders(o) /\ (ost[o] = "FREED" => oref[o] = 0)

\* handle->ref is exact: its own reference until it is closed, and one for
\* every operation that reached the driver or the faked close.  So the handle is
\* destroyed last: no operation, thread or timer is left.
HandleRefsExact ==
    /\ href = One(hstate # "CLOSED")
                + Cardinality({o \in Op : Live(o) /\ at[o] \notin {"new", "deferred", "toPass"}})
    /\ href = 0 => \A o \in Op : /\ ~Live(o) /\ timer[o] = "none" /\ reg[o] = "none"
                                 /\ ~late[o] /\ at[o] \in {"new", "done", "failed"}

\* No globus_assert fails and no destroyed operation is used.
NoFault == ~fault

\* The user is called back once for an operation, whichever of kickout and
\* poller gets there last, and an operation does not go away without it unless
\* its registration returned an error.
CalledOnce ==
    \A o \in Op : /\ calls[o] <= 1
                  /\ ost[o] = "FREED" => calls[o] = 1 \/ at[o] = "failed"

\* The close callback comes after the callback of every data operation
\* (test/close_barrier_test.c: `the close callback occurred prior to all data
\* callbacks returning').
CloseAfterData ==
    calls[CloseOp] > 0 =>
       \A o \in Data : ost[o] # "NONE" /\ at[o] # "failed" => calls[o] = 1

\* It does when data operations have no timeout.
CloseAfterUntimedData == "data" \notin conf.timed => CloseAfterData

\* Every operation is called back or refused, also when its completion crosses
\* a timeout, a cancel or a close.
EveryOpCalledBack ==
    \A o \in Op : (Live(o) /\ calls[o] = 0) ~> (calls[o] = 1 \/ at[o] = "failed")

\* Once the close callback was called the handle is destroyed.
CloseReclaims == (calls[CloseOp] > 0) ~> (href = 0)

\* The operation was over before the poller put its refused timeout back: the timer keeps
\* a reference that only another examination releases.
Stranded(o) == timer[o] = "registered" /\ ost[o] \in {"FINISH_WAITING", "FINISHED"}

\* After the close callback the handle is destroyed, whichever of kickout, register
\* functions, start_close and poller lets go last, as long as the timer examines again
\* what its poller put back too late.
HandleReclaimed == (\A o \in Op : []<>~Stranded(o)) => CloseReclaims
=============================================================================
