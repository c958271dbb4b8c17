----------------------------- MODULE XioContext -----------------------------
(***************************************************************************)
(* One entry of an XIO context (xio/src/globus_xio_pass.c and the kickouts *)
(* of globus_xio_driver.c): the level between a user of a driver (the      *)
(* handle, or the driver above) and the driver below it.                   *)
(*                                                                         *)
(* The user passes operations down; the driver finishes them; a kickout    *)
(* calls the user's callback and then the operation is `delivered'.  The   *)
(* entry counts what is outstanding so that                                *)
(*   - a close reaches the driver only when every operation passed before  *)
(*     it is delivered (the close barrier);                                *)
(*   - an end of file is delivered after the data reads it overtook, and   *)
(*     reads passed while end of file is being delivered wait for it.      *)
(*                                                                         *)
(* Every critical section of context->mutex is one action.  The iovecs,    *)
(* byte counts and results of an operation are abstracted to: data (a      *)
(* completion other than end of file), end of file, or failure of the      *)
(* driver's function.  globus_assert is modelled by `aborted'.             *)
(***************************************************************************)
EXTENDS Integers, FiniteSets

CONSTANTS
    Read,        \* read operations
    Write,       \* write operations
    CancelModes, \* may the user's close cancel the outstanding operations?
    RacyUser,    \* may the user close between its check and the pass?
    MaxLate      \* bound: threads between queueing a read that was passed
                 \*   again and delivering its earlier pass

ASSUME OpAssumption == Read \cap Write = {} /\ IsFiniteSet(Read \cup Write)
ASSUME ModeAssumption == CancelModes \subseteq BOOLEAN /\ RacyUser \in BOOLEAN
ASSUME LateAssumption == MaxLate \in Nat

Op == Read \cup Write

VARIABLES
    cstate,        \* my_context->state
    outstanding,   \* my_context->outstanding_operations
    readOps,       \* my_context->read_operations
    eofOps,        \* my_context->eof_operations
    closeOp,       \* my_context->close_op # NULL
    closeStarted,  \* my_context->close_started
    ref,           \* the references of context->ref this entry accounts for
    openSt,        \* the open operation
    st,            \* where each data operation is
    passOwes,      \* the delivery that pass_read or pass_write makes before it
                   \*   calls the driver: "no", "data" or "eof"
    late,          \* the deliveries of reads that were passed again and queued
    mayFail,       \* the driver's function has neither returned nor finished it
    due,           \* threads about to call pass_pending_reads
    hold,          \* threads inside pass_pending_reads
    closeSt,       \* the close operation
    closeCalls,    \* how often a thread decided to call start_close
    canceling,     \* the close cancelled the outstanding operations
    aborted        \* a globus_assert failed

counters == <<outstanding, readOps, eofOps>>
closing == <<closeOp, closeStarted, ref, closeSt, closeCalls, canceling>>
pendings == <<due, hold>>
vars == <<cstate, outstanding, readOps, eofOps, closeOp, closeStarted, ref,
          openSt, st, passOwes, late, mayFail, due, hold, closeSt, closeCalls, canceling,
          aborted>>

OpenStates == {"OPEN", "EOF_RECEIVED", "EOF_DELIVERED"}
ReceivedStates == {"EOF_RECEIVED", "EOF_RECEIVED_AND_CLOSING"}
DeliveredStates == {"EOF_DELIVERED", "EOF_DELIVERED_AND_CLOSING"}
BarrierStates == {"CLOSING", "EOF_DELIVERED_AND_CLOSING"}

ContextStates ==
    OpenStates \cup ReceivedStates \cup DeliveredStates \cup BarrierStates
      \cup {"NONE", "OPENING", "OPEN_FAILED", "OPENING_AND_CLOSING", "CLOSED"}

\* An operation is with the user ("idle"; "checked": about to be passed), on
\* pending_read_queue, on eof_op_list ("parked"), with the driver, or its
\* kickout is registered ("fired", "firedEof") or calls the user: with data
\* ("dataCb"), with end of file ("eofCb"), or already delivered ("cb").
OpStates == {"idle", "checked", "pending", "parked", "driver", "fired",
             "firedEof", "dataCb", "eofCb", "cb"}
InCallback == {"dataCb", "eofCb", "cb"}
Kind == {"data", "eof"}

\* The types of the entry's fields and of the operations' whereabouts; no thread count
\* becomes negative.
TypeOK ==
    /\ cstate \in ContextStates
    /\ outstanding \in Int /\ readOps \in Int /\ eofOps \in Int
    /\ closeOp \in BOOLEAN /\ closeStarted \in BOOLEAN
    /\ ref \in Int
    /\ openSt \in {"none", "driver", "fired", "callback", "delivered", "failed"}
    /\ st \in [Op -> OpStates]
    /\ passOwes \in [Op -> Kind \cup {"no"}]
    /\ late \in [Kind -> Nat]
    /\ mayFail \in [Op -> BOOLEAN]
    /\ due \in Nat /\ hold \in Nat
    /\ closeSt \in {"none", "passed", "starting", "driver", "done", "refused"}
    /\ closeCalls \in Nat
    /\ canceling \in BOOLEAN
    /\ aborted \in BOOLEAN

Init ==
    /\ cstate = "NONE"
    /\ outstanding = 0 /\ readOps = 0 /\ eofOps = 0
    /\ closeOp = FALSE /\ closeStarted = FALSE
    /\ ref = 0
    /\ openSt = "none"
    /\ st = [o \in Op |-> "idle"]
    /\ passOwes = [o \in Op |-> "no"]
    /\ late = [k \in Kind |-> 0]
    /\ mayFail = [o \in Op |-> FALSE]
    /\ due = 0 /\ hold = 0
    /\ closeSt = "none"
    /\ closeCalls = 0
    /\ canceling = FALSE
    /\ aborted = FALSE

Pending == {o \in Read : st[o] = "pending"}
Parked == {o \in Read : st[o] = "parked"}

\* globus_assert(cond)
Insist(cond) == aborted' = (aborted \/ ~cond)

-----------------------------------------------------------------------------
(* Helpers shared by the handlers *)

\* globus_l_xio_driver_purge_read_eof: the parked reads of f are kicked out.
Purged(f) == [o \in Op |-> IF f[o] = "parked" THEN "firedEof" ELSE f[o]]

\* Fault: the close is started with operations outstanding.
BarrierIgnoresCount(s, n) == s \in BarrierStates /\ ~closeStarted

\* Fault: a close passed while end of file was being delivered is forgotten.
BarrierForgetsEof(s, n) == s = "CLOSING" /\ n = 0 /\ ~closeStarted

\* The end of the critical sections that lower outstanding_operations to n in
\* state s: with nothing outstanding the delayed close is started.
BarrierReached(s, n) == s \in BarrierStates /\ n = 0 /\ ~closeStarted

\* The *_delivered functions mark the close as started under the lock ...
StartIfReached(s, n) ==
    IF BarrierReached(s, n)
    THEN /\ closeStarted' = TRUE
         /\ closeSt' = "starting"
         /\ closeCalls' = closeCalls + 1
         /\ UNCHANGED <<closeOp, ref, canceling>>
    ELSE UNCHANGED closing

\* ... pass_failed does not, and its caller starts the close after the unlock.
StartAfterFailure(s, n) ==
    IF BarrierReached(s, n)
    THEN /\ closeSt' = "starting"
         /\ closeCalls' = closeCalls + 1
         /\ Insist(closeOp)
         /\ UNCHANGED <<closeOp, closeStarted, ref, canceling>>
    ELSE UNCHANGED <<closing, aborted>>

-----------------------------------------------------------------------------
(* open *)

\* globus_xio_driver_pass_open
PassOpen ==
    /\ cstate = "NONE"
    /\ cstate' = "OPENING"
    /\ outstanding' = outstanding + 1
    /\ ref' = ref + 1
    /\ openSt' = "driver"
    /\ UNCHANGED <<readOps, eofOps, closeOp, closeStarted, st, passOwes, late, mayFail,
                   pendings, closeSt, closeCalls, canceling, aborted>>

\* ... when the driver's open function returns an error.
PassOpenFails ==
    /\ openSt = "driver"
    /\ cstate = "OPENING"
    /\ openSt' = "failed"
    /\ outstanding' = outstanding - 1
    /\ ref' = ref - 1
    /\ UNCHANGED <<cstate, readOps, eofOps, closeOp, closeStarted, st, passOwes, late,
                   mayFail, pendings, closeSt, closeCalls, canceling, aborted>>

\* globus_xio_driver_finished_open
FinishedOpen(success) ==
    /\ openSt = "driver"
    /\ openSt' = "fired"
    /\ cstate' = CASE cstate = "OPENING" -> IF success THEN "OPEN" ELSE "OPEN_FAILED"
                   [] cstate = "OPENING_AND_CLOSING" -> "CLOSING"
                   [] OTHER -> cstate
    /\ Insist(cstate \in {"OPENING", "OPENING_AND_CLOSING"})
    /\ UNCHANGED <<counters, st, passOwes, late, mayFail, pendings, closing>>

\* globus_l_xio_driver_open_op_kickout calls the user.
OpenKickout ==
    /\ openSt = "fired"
    /\ openSt' = "callback"
    /\ UNCHANGED <<cstate, counters, st, passOwes, late, mayFail, pendings, closing, aborted>>

\* globus_xio_driver_open_delivered.
OpenDelivered ==
    LET n == outstanding - 1
        closeNow == ~closeStarted /\ n = 0 /\ closeOp
    IN  /\ openSt = "callback"
        /\ openSt' = "delivered"
        /\ outstanding' = n
        /\ cstate' = CASE cstate = "OPEN_FAILED" -> "CLOSED"
                       [] cstate = "OPENING_AND_CLOSING" -> "CLOSING"
                       [] OTHER -> cstate
        /\ closeStarted' = (closeStarted \/
              (closeNow /\ cstate \in BarrierStates \cup {"OPENING_AND_CLOSING"}))
        /\ ref' = IF cstate = "OPEN_FAILED"
                     \/ (cstate = "OPENING_AND_CLOSING" /\ closeNow)
                  THEN ref - 1 ELSE ref
        /\ closeSt' = CASE closeNow /\ cstate = "OPENING_AND_CLOSING" -> "done"
                        [] closeNow /\ cstate \in BarrierStates -> "starting"
                        [] OTHER -> closeSt
        /\ closeCalls' = IF closeNow /\ cstate \in BarrierStates
                         THEN closeCalls + 1 ELSE closeCalls
        /\ Insist(outstanding > 0 /\ cstate \notin {"NONE", "OPENING", "CLOSED"})
        /\ UNCHANGED <<readOps, eofOps, closeOp, canceling, st, passOwes, late, mayFail,
                       pendings>>

-----------------------------------------------------------------------------
(* The user passes reads and writes *)

\* The user finds the level open (globus_l_xio_register_readv and _writev
\* check handle->state under the lock and release it before they pass).
Check(o) ==
    /\ openSt \in {"callback", "delivered"}
    /\ cstate \in OpenStates
    /\ closeSt = "none"
    /\ st[o] = "idle"
    /\ st' = [st EXCEPT ![o] = "checked"]
    /\ UNCHANGED <<cstate, counters, openSt, passOwes, late, mayFail, pendings, closing,
                   aborted>>

\* The first pass of an operation, or its callback passes it again; in both
\* cases the user has not closed.
MayPass(o) == st[o] = "checked" \/ (st[o] \in InCallback /\ closeSt = "none")

\* (bound) A queued read that was passed again occupies one more thread.
ThreadFree(o) == st[o] \in {"dataCb", "eofCb"} => late["data"] + late["eof"] < MaxLate

\* The delivery a pass takes over from the kickout whose callback it is in.
Taken(o) == CASE st[o] = "dataCb" -> "data"
              [] st[o] = "eofCb" -> "eof"
              [] OTHER -> "no"

LateBy(o) == [k \in Kind |-> IF k = Taken(o) THEN late[k] + 1 ELSE late[k]]

\* Fault: reads are not held back while end of file is delivered.
MustWaitIfPending == cstate # "EOF_RECEIVED" /\ Pending # {}

\* A read waits on pending_read_queue while end of file is being delivered and
\* while earlier reads wait.
MustWait ==
    cstate = "EOF_DELIVERED" \/ (cstate # "EOF_RECEIVED" /\ Pending # {})

\* globus_xio_driver_pass_read up to the call of the driver.
PassRead(o) ==
    /\ MayPass(o)
    /\ Insist(cstate \in OpenStates)
    /\ outstanding' = outstanding + 1
    /\ \/ /\ cstate = "EOF_RECEIVED"
          /\ ThreadFree(o)
          /\ st' = [st EXCEPT ![o] = "parked"]
          /\ eofOps' = eofOps + 1
          /\ late' = LateBy(o)
          /\ UNCHANGED <<readOps, mayFail, passOwes>>
       \/ /\ MustWait
          /\ ThreadFree(o)
          /\ st' = [st EXCEPT ![o] = "pending"]
          /\ late' = LateBy(o)
          /\ UNCHANGED <<readOps, eofOps, mayFail, passOwes>>
       \/ /\ cstate # "EOF_RECEIVED" /\ ~MustWait
          /\ st' = [st EXCEPT ![o] = "driver"]
          /\ mayFail' = [mayFail EXCEPT ![o] = TRUE]
          /\ passOwes' = [passOwes EXCEPT ![o] = Taken(o)]
          /\ readOps' = readOps + 1
          /\ UNCHANGED <<eofOps, late>>
    /\ UNCHANGED <<cstate, openSt, pendings, closing>>

\* globus_xio_driver_pass_write up to the call of the driver.
PassWrite(o) ==
    /\ MayPass(o)
    /\ Insist(cstate \in OpenStates)
    /\ outstanding' = outstanding + 1
    /\ st' = [st EXCEPT ![o] = "driver"]
    /\ mayFail' = [mayFail EXCEPT ![o] = TRUE]
    /\ passOwes' = [passOwes EXCEPT ![o] = Taken(o)]
    /\ UNCHANGED <<cstate, readOps, eofOps, openSt, late, pendings, closing>>

\* The driver's function is called once the earlier delivery is made.
WithDriver(o) == st[o] = "driver" /\ passOwes[o] = "no"

\* The driver's function returns success.
PassReturns(o) ==
    /\ mayFail[o]
    /\ passOwes[o] = "no"
    /\ mayFail' = [mayFail EXCEPT ![o] = FALSE]
    /\ UNCHANGED <<cstate, counters, openSt, st, passOwes, late, pendings, closing, aborted>>

\* The driver's function returns an error: globus_i_xio_pass_failed, and for a
\* read the end of pass_read's last critical section.
PassFails(o) ==
    LET n == outstanding - 1
        r == IF o \in Read THEN readOps - 1 ELSE readOps
        back == [st EXCEPT ![o] = "idle"]
    IN  /\ WithDriver(o)
        /\ mayFail[o]
        /\ mayFail' = [mayFail EXCEPT ![o] = FALSE]
        /\ outstanding' = n
        /\ readOps' = r
        /\ st' = IF o \in Read /\ r = 0 /\ cstate \in ReceivedStates
                 THEN Purged(back) ELSE back
        /\ StartAfterFailure(cstate, n)
        /\ UNCHANGED <<cstate, eofOps, openSt, passOwes, late, pendings>>

-----------------------------------------------------------------------------
(* The driver finishes *)

\* globus_xio_driver_finished_write, and globus_xio_driver_finished_read when
\* the result is not end of file.  A short transfer is passed to the driver
\* again (globus_i_xio_repass_read, _write) and changes nothing here.
Finished(o) ==
    /\ WithDriver(o)
    /\ Insist(cstate \notin {"OPENING", "CLOSED"})
    /\ st' = [st EXCEPT ![o] = "fired"]
    /\ mayFail' = [mayFail EXCEPT ![o] = FALSE]
    /\ UNCHANGED <<cstate, counters, openSt, passOwes, late, pendings, closing>>

\* Fault: the read still counts as a data read.
FinishedEofKeepsRead(o) ==
    /\ WithDriver(o)
    /\ cstate' = IF cstate = "OPEN" THEN "EOF_RECEIVED" ELSE cstate
    /\ eofOps' = eofOps + 1
    /\ st' = [st EXCEPT ![o] = IF readOps > 1 THEN "parked" ELSE "firedEof"]
    /\ mayFail' = [mayFail EXCEPT ![o] = FALSE]
    /\ UNCHANGED <<outstanding, readOps, openSt, passOwes, late, pendings,
                   closing, aborted>>

\* Fault: end of file is reported before the data reads that are outstanding.
FinishedEofAtOnce(o) ==
    /\ WithDriver(o)
    /\ cstate' = IF cstate = "OPEN" THEN "EOF_RECEIVED" ELSE cstate
    /\ readOps' = readOps - 1
    /\ eofOps' = eofOps + 1
    /\ st' = [st EXCEPT ![o] = "firedEof"]
    /\ mayFail' = [mayFail EXCEPT ![o] = FALSE]
    /\ UNCHANGED <<outstanding, openSt, passOwes, late, pendings, closing, aborted>>

\* globus_xio_driver_finished_read with end of file.
FinishedEof(o) ==
    LET r == readOps - 1
    IN  /\ WithDriver(o)
        /\ Insist(cstate \in {"OPEN", "CLOSING"} \cup ReceivedStates)
        /\ cstate' = CASE cstate = "OPEN" -> "EOF_RECEIVED"
                       [] cstate = "CLOSING" -> "EOF_RECEIVED_AND_CLOSING"
                       [] OTHER -> cstate
        /\ readOps' = r
        /\ eofOps' = eofOps + 1
        /\ st' = [st EXCEPT ![o] = IF r > 0 THEN "parked" ELSE "firedEof"]
        /\ mayFail' = [mayFail EXCEPT ![o] = FALSE]
        /\ UNCHANGED <<outstanding, openSt, passOwes, late, pendings, closing>>

\* globus_l_xio_driver_op_read_kickout and _write_kickout call the user.
Kickout(o) ==
    /\ st[o] \in {"fired", "firedEof"}
    /\ st' = [st EXCEPT ![o] = IF @ = "fired" THEN "dataCb" ELSE "eofCb"]
    /\ UNCHANGED <<cstate, counters, openSt, passOwes, late, mayFail, pendings,
                   closing, aborted>>

\* The callback returned and its operation was delivered.
CallbackReturns(o) ==
    /\ st[o] = "cb"
    /\ st' = [st EXCEPT ![o] = "idle"]
    /\ UNCHANGED <<cstate, counters, openSt, passOwes, late, mayFail, pendings,
                   closing, aborted>>

-----------------------------------------------------------------------------
(* An operation is delivered when its callback returns, when its callback   *)
(* blocks (globus_i_xio_will_block_cb) or when its callback passes it again *)
(* (globus_i_xio_driver_deliver_op), whichever comes first: deliver_type    *)
(* makes it happen once.  In what follows f is st as the deliverer leaves   *)
(* it.                                                                      *)

\* globus_xio_driver_write_delivered
WriteDelivered(f) ==
    /\ outstanding' = outstanding - 1
    /\ Insist(outstanding > 0
              /\ (BarrierReached(cstate, outstanding - 1) => closeOp))
    /\ StartIfReached(cstate, outstanding - 1)
    /\ st' = f
    /\ UNCHANGED <<cstate, readOps, eofOps, openSt, mayFail, pendings>>

\* Fault: the pending reads are not dispatched.
DueNever(e) == due

\* The last end of file operation: the reads that waited for it are dispatched.
DueAfter(e) == IF e = 0 /\ Pending # {} THEN due + 1 ELSE due

\* globus_xio_driver_read_delivered, when read_operations is zero: `just
\* delivered an eof op'.
EofReadDelivered(f) ==
    LET n == outstanding - 1
        e == eofOps - 1
        delivered == CASE cstate = "EOF_RECEIVED" -> "EOF_DELIVERED"
                       [] cstate = "EOF_RECEIVED_AND_CLOSING" ->
                            "EOF_DELIVERED_AND_CLOSING"
                       [] OTHER -> cstate
        s == IF e = 0 /\ delivered = "EOF_DELIVERED" THEN "OPEN" ELSE delivered
    IN  /\ readOps = 0
        /\ cstate' = s
        /\ eofOps' = e
        /\ due' = DueAfter(e)
        /\ outstanding' = n
        /\ st' = IF cstate \in ReceivedStates THEN Purged(f) ELSE f
        /\ Insist(cstate \in ReceivedStates \cup DeliveredStates /\ n >= 0)
        /\ StartIfReached(s, n)
        /\ UNCHANGED <<readOps, openSt, mayFail, hold>>

\* ... when it is not: one data read less.
DataReadDelivered(f) ==
    LET n == outstanding - 1
        r == readOps - 1
    IN  /\ readOps # 0
        /\ readOps' = r
        /\ outstanding' = n
        /\ st' = IF r = 0 /\ cstate \in ReceivedStates THEN Purged(f) ELSE f
        /\ Insist(n >= 0)
        /\ StartIfReached(cstate, n)
        /\ UNCHANGED <<cstate, eofOps, openSt, mayFail, pendings>>

Delivered(o, f) ==
    \/ o \in Write /\ WriteDelivered(f)
    \/ o \in Read /\ EofReadDelivered(f)
    \/ o \in Read /\ DataReadDelivered(f)

\* By the kickout after the callback, or by will_block_cb during it.
DeliverFromCallback(o) ==
    /\ st[o] \in {"dataCb", "eofCb"}
    /\ Delivered(o, [st EXCEPT ![o] = "cb"])
    /\ UNCHANGED <<passOwes, late>>

\* By a pass that goes on to call the driver.
DeliverFromPass(o) ==
    /\ passOwes[o] # "no"
    /\ passOwes' = [passOwes EXCEPT ![o] = "no"]
    /\ Delivered(o, st)
    /\ UNCHANGED late

\* By a pass_read that queued its operation.
DeliverLate(k) ==
    /\ late[k] > 0
    /\ late' = [late EXCEPT ![k] = @ - 1]
    /\ EofReadDelivered(st) \/ DataReadDelivered(st)
    /\ UNCHANGED passOwes

-----------------------------------------------------------------------------
(* globus_l_xio_pass_pending_reads, called after read_delivered unlocks.    *)

\* Fault: the queue is dispatched without being asked to.
PendingBeginUnasked ==
    /\ due' = due - 1
    /\ hold' = hold + 1
    /\ readOps' = readOps + 1
    /\ UNCHANGED <<cstate, outstanding, eofOps, openSt, st, passOwes, late, mayFail,
                   closing, aborted>>

\* It holds a read operation while it works.
PendingBegin ==
    /\ due > 0
    /\ due' = due - 1
    /\ hold' = hold + 1
    /\ readOps' = readOps + 1
    /\ UNCHANGED <<cstate, outstanding, eofOps, openSt, st, passOwes, late, mayFail,
                   closing, aborted>>

\* A read it dispatched met end of file: the remaining ones are parked.
PendingDump ==
    /\ hold > 0
    /\ Pending # {}
    /\ cstate \in ReceivedStates
    /\ eofOps' = eofOps + Cardinality(Pending)
    /\ st' = [o \in Op |-> IF o \in Pending THEN "parked" ELSE st[o]]
    /\ UNCHANGED <<cstate, outstanding, readOps, openSt, passOwes, late, mayFail, pendings,
                   closing, aborted>>

\* Otherwise the next one goes to the driver; a cancelled one, or one the
\* driver refuses, is finished at once (see Finished and FinishedEof).
PendingDispatch(o) ==
    /\ hold > 0
    /\ o \in Pending
    /\ cstate \notin ReceivedStates
    /\ Insist(cstate # "EOF_DELIVERED")
    /\ readOps' = readOps + 1
    /\ st' = [st EXCEPT ![o] = IF canceling THEN "fired" ELSE "driver"]
    /\ UNCHANGED <<cstate, outstanding, eofOps, openSt, passOwes, late, mayFail, pendings,
                   closing>>

\* The queue is empty: the held read operation is released.
PendingEnd ==
    /\ hold > 0
    /\ Pending = {}
    /\ hold' = hold - 1
    /\ readOps' = readOps - 1
    /\ st' = IF readOps = 1 /\ cstate \in ReceivedStates THEN Purged(st) ELSE st
    /\ UNCHANGED <<cstate, outstanding, eofOps, openSt, passOwes, late, mayFail, due,
                   closing, aborted>>

-----------------------------------------------------------------------------
(* close *)

\* globus_xio_driver_pass_close.  The user may have cancelled its outstanding
\* operations before (globus_i_xio_pre_close).  Left out: a close passed while the entry
\* is OPENING (by a driver that gives up its open from below), and a close that
\* was itself cancelled before it is passed.
PassClose(cancel) ==
    /\ openSt \in {"callback", "delivered"}
    /\ closeSt = "none"
    /\ cstate \in OpenStates \cup {"OPEN_FAILED"}
    /\ RacyUser \/ \A o \in Op : st[o] # "checked"
    /\ cstate' = CASE cstate = "OPEN" -> "CLOSING"
                   [] cstate = "EOF_RECEIVED" -> "EOF_RECEIVED_AND_CLOSING"
                   [] cstate = "EOF_DELIVERED" -> "EOF_DELIVERED_AND_CLOSING"
                   [] cstate = "OPEN_FAILED" -> "OPENING_AND_CLOSING"
    /\ Insist(~closeStarted)
    /\ canceling' = cancel
    /\ IF outstanding = 0
       THEN /\ closeStarted' = TRUE
            /\ closeSt' = "starting"
            /\ closeCalls' = closeCalls + 1
            /\ UNCHANGED closeOp
       ELSE /\ closeOp' = TRUE
            /\ closeSt' = "passed"
            /\ UNCHANGED <<closeStarted, closeCalls>>
    /\ UNCHANGED <<counters, ref, openSt, st, passOwes, late, mayFail, pendings>>

\* globus_i_xio_driver_start_close calls the driver's close function.
StartClose ==
    /\ closeSt = "starting"
    /\ closeSt' = "driver"
    /\ UNCHANGED <<cstate, counters, closeOp, closeStarted, ref, openSt, st,
                   passOwes, late, mayFail, pendings, closeCalls, canceling, aborted>>

\* globus_xio_driver_finished_close, by the driver or by start_close when the
\* driver's function failed and the close was delayed; the close callback runs.
FinishedClose ==
    /\ closeSt = "driver"
    /\ closeSt' = "done"
    /\ cstate' = "CLOSED"
    /\ ref' = ref - 1
    /\ UNCHANGED <<counters, closeOp, closeStarted, openSt, st, passOwes, late, mayFail,
                   pendings, closeCalls, canceling, aborted>>

\* The close function fails and the close was not delayed: pass_close returns
\* the error to the user, and there is no close callback.
PassCloseFails ==
    /\ closeSt = "driver"
    /\ ~closeOp
    /\ closeSt' = "refused"
    /\ cstate' = "CLOSED"
    /\ ref' = ref - 1
    /\ UNCHANGED <<counters, closeOp, closeStarted, openSt, st, passOwes, late, mayFail,
                   pendings, closeCalls, canceling, aborted>>

-----------------------------------------------------------------------------
OpenStep ==
    \/ PassOpen
    \/ PassOpenFails
    \/ \E success \in BOOLEAN : FinishedOpen(success)
    \/ OpenKickout
    \/ OpenDelivered

DriverStep(o) == PassReturns(o) \/ PassFails(o) \/ Finished(o)

Deliver ==
    \/ \E o \in Op : DeliverFromCallback(o) \/ DeliverFromPass(o)
    \/ \E k \in Kind : DeliverLate(k)

PendingStep ==
    \/ PendingBegin
    \/ PendingDump
    \/ \E o \in Read : PendingDispatch(o)
    \/ PendingEnd

CloseStep ==
    \/ \E cancel \in CancelModes : PassClose(cancel)
    \/ StartClose
    \/ FinishedClose
    \/ PassCloseFails

\* (The steps after a failed assertion are of no interest.)
Next ==
    \/ OpenStep
    \/ \E o \in Op : Check(o) \/ DriverStep(o) \/ Kickout(o) \/ CallbackReturns(o)
    \/ \E o \in Read : PassRead(o) \/ FinishedEof(o)
    \/ \E o \in Write : PassWrite(o)
    \/ Deliver
    \/ PendingStep
    \/ CloseStep

Spec == Init /\ [][Next]_vars

\* A driver finishes what it was given, oneshots are run and threads go on.
Fairness ==
    /\ WF_vars(\E success \in BOOLEAN : FinishedOpen(success))
    /\ WF_vars(OpenKickout \/ OpenDelivered)
    /\ \A o \in Read : WF_vars(st[o] = "checked" /\ PassRead(o))
                       /\ WF_vars(PendingDispatch(o))
    /\ \A o \in Write : WF_vars(st[o] = "checked" /\ PassWrite(o))
    /\ \A o \in Op : /\ WF_vars(PassReturns(o))
                     /\ WF_vars(Finished(o) \/ (o \in Read /\ FinishedEof(o)))
                     /\ WF_vars(Kickout(o)) /\ WF_vars(CallbackReturns(o))
                     /\ WF_vars(DeliverFromCallback(o))
                     /\ WF_vars(DeliverFromPass(o))
    /\ \A k \in Kind : WF_vars(DeliverLate(k))
    /\ WF_vars(PendingBegin \/ PendingDump \/ PendingEnd)
    /\ WF_vars(StartClose) /\ WF_vars(FinishedClose)

FairSpec == Spec /\ Fairness

-----------------------------------------------------------------------------
(* Properties *)

Count(S) == Cardinality(S)

\* The counters count what they are named for.  read_operations: the data
\* reads that the driver has or that are not delivered yet, and the threads in
\* pass_pending_reads.  eof_operations: the reads that end of file was decided
\* for.  outstanding_operations: everything not delivered yet.  read_delivered
\* infers from read_operations alone which kind it delivers, so this is what
\* makes that inference right.
CountersExact ==
    /\ readOps = Count({o \in Read : st[o] \in {"driver", "fired", "dataCb"}})
                   + Count({o \in Read : passOwes[o] = "data"})
                   + late["data"] + hold
    /\ eofOps = Count({o \in Read : st[o] \in {"parked", "firedEof", "eofCb"}})
                   + Count({o \in Read : passOwes[o] = "eof"})
                   + late["eof"]
    /\ outstanding = readOps - hold + eofOps + Count(Pending)
                   + Count({o \in Write : st[o] \in {"driver", "fired", "dataCb"}})
                   + Count({o \in Write : passOwes[o] # "no"})
                   + (IF openSt \in {"driver", "fired", "callback"} THEN 1 ELSE 0)

\* No globus_assert of the pass, finished and delivered functions fails.
NoAssertFails == ~aborted

\* The close barrier: once the close is on its way to the driver, nothing that
\* was passed before it is undelivered, and nobody is about to dispatch reads.
\* The driver's close function is called at most once, although three kinds of
\* thread can find the barrier reached and pass_failed does not record it, and
\* the context loses this entry's reference at most once.
CloseBarrier ==
    /\ closeSt \in {"starting", "driver", "done", "refused"} =>
          /\ \A o \in Op : st[o] \in {"idle", "cb"} /\ passOwes[o] = "no"
          /\ \A k \in Kind : late[k] = 0
          /\ openSt = "delivered"
          /\ due = 0
    /\ closeCalls <= 1 /\ ref \in {0, 1}

\* End of file comes last: while an end of file is being delivered no data
\* read is with the driver or undelivered.
EofAfterData ==
    (\E o \in Read : st[o] \in {"firedEof", "eofCb"}) \/ late["eof"] > 0 =>
       /\ \A o \in Read : st[o] \notin {"driver", "fired", "dataCb"}
                           /\ passOwes[o] = "no"
       /\ late["data"] = 0

\* A passed operation is eventually called back (or its pass fails), also when
\* it waits behind an end of file.
EveryOpReturns ==
    \A o \in Op : (st[o] \in {"pending", "parked", "driver", "fired", "firedEof"})
                   ~> (st[o] \in InCallback \cup {"idle"})

\* A close is eventually completed: the barrier is reached and noticed.
CloseCompletes == (closeSt = "passed") ~> (closeSt \in {"done", "refused"})
=============================================================================
