----------------------------- MODULE XioServer ------------------------------
(***************************************************************************)
(* An XIO server (xio/src/globus_xio_server.c): accepts that are           *)
(* registered, completed by the driver, cancelled and timed out, the       *)
(* server's close, and the reference counts of operations and server.      *)
(*                                                                         *)
(* An accept is used by the thread that registers it, by the driver, by    *)
(* the kickout that calls the user, and by the timeout poller.  The user   *)
(* may register the next accept while the callback of the last one runs,   *)
(* so several are alive, of which server->op is the youngest.  Every       *)
(* critical section of server->mutex is one action.  The timer is          *)
(* TimerService itself: its actions are conjuncts of the server's.         *)
(*                                                                         *)
(* One driver is below the server, with or without a cancel callback in    *)
(* place.  The unlocked increments of op->ref (register_accept,            *)
(* will_block_cb) are atomic here.  Left out: the accepted handle,         *)
(* server_cntl and the shutdown of the module.                             *)
(***************************************************************************)
EXTENDS Integers, FiniteSets

CONSTANTS
    Accepts,    \* accept operations, each registered at most once
    None,       \* no operation
    Configs     \* how the server may be used, see ConfigType

\* timed: the server has an accept_timeout; fails: a driver may refuse an
\* accept that was not cancelled; eager: the user may close the server while a
\* call of register_accept has not returned.
ConfigType == [timed : BOOLEAN, fails : BOOLEAN, eager : BOOLEAN]

ASSUME AcceptsAssumption == IsFiniteSet(Accepts) /\ None \notin Accepts
ASSUME ServerConfigAssumption == Configs \subseteq ConfigType

VARIABLES
    conf,        \* the configuration, fixed
    sstate,      \* server->state; "FREED": globus_l_xio_server_destroy ran
    sref,        \* server->ref
    sop,         \* server->op
    outstanding, \* server->outstanding_operations
    ost,         \* op->state; "NONE": not allocated, "FREED"
    oref,        \* op->ref
    canceled,    \* op->canceled # 0
    reg,         \* the registering thread
    at,          \* the accept's way to the driver and back to the user
    asking,      \* the poller waits for the user's timeout callback
    declined,    \* the timeout callback returned GLOBUS_FALSE, and the poller has
                 \*   not yet put the entry back
    timer,       \* the timer's entry for the operation: TimerService's status
    held,        \* TimerService's reference on the operation
    closing,     \* the close's kickout: "none", "due", "callback", "done"
    fault        \* an assertion failed or a freed operation was used

timing == <<timer, held>>
server == <<sstate, sref, sop, outstanding>>
vars == <<conf, sstate, sref, sop, outstanding, ost, oref, canceled, reg, at,
          asking, declined, timer, held, closing, fault>>

T == INSTANCE TimerService WITH Op <- Accepts, status <- timer

Init ==
    /\ conf \in Configs
    /\ sstate = "OPEN" /\ sref = 1 /\ sop = None /\ outstanding = 0
    /\ ost = [a \in Accepts |-> "NONE"]
    /\ oref = [a \in Accepts |-> 0]
    /\ canceled = [a \in Accepts |-> FALSE]
    /\ reg = [a \in Accepts |-> "none"]
    /\ at = [a \in Accepts |-> "new"]
    /\ asking = [a \in Accepts |-> FALSE]
    /\ declined = [a \in Accepts |-> FALSE]
    /\ T!Init
    /\ closing = "none" /\ fault = FALSE

-----------------------------------------------------------------------------
(* References *)

Set(f, a, v) == [f EXCEPT ![a] = v]
Insist(cond) == fault' = (fault \/ ~cond)

\* GlobusXIOOpDec: a loses k references and is left in state s.
DecOp(a, k, s) ==
    /\ oref' = Set(oref, a, oref[a] - k)
    /\ ost' = Set(ost, a, IF oref[a] = k THEN "FREED" ELSE s)

\* GlobusIXIOServerDec of n references in server state s; the last one insists
\* on a closed server and destroys it.
DecServer(n, s) ==
    /\ sref' = sref - n
    /\ sstate' = IF n > 0 /\ sref = n THEN "FREED" ELSE s

\* Fault: the operation's reference on the server is not dropped with it.
ReleaseKeepsServer(a, s) ==
    /\ DecOp(a, 1, ost[a])
    /\ DecServer(0, s)

\* A reference on a is dropped, and with the last one its reference on the
\* server, whose state becomes s.
Release(a, s) ==
    /\ DecOp(a, 1, ost[a])
    /\ DecServer(IF oref[a] = 1 THEN 1 ELSE 0, s)

LastDropIn(a, s) == oref[a] = 1 /\ sref = 1 => s = "CLOSED"

\* An operation is cancelled: its driver, if it can be, is told.
Cancelled(a) ==
    /\ canceled' = Set(canceled, a, TRUE)
    /\ at' = IF at[a] = "driver" THEN Set(at, a, "cancelling") ELSE at

-----------------------------------------------------------------------------
(* Registering an accept *)

\* Fault: an accept is registered while the last one is not completed.
RegisterAcceptAgain(a) ==
    /\ ost[a] = "NONE"
    /\ sstate \in {"OPEN", "COMPLETING", "ACCEPTING"}
    /\ sstate' = "ACCEPTING" /\ sop' = a
    /\ outstanding' = outstanding + 1 /\ sref' = sref + 1
    /\ ost' = Set(ost, a, "OPERATING")
    /\ oref' = Set(oref, a, IF conf.timed THEN 2 ELSE 1)
    /\ IF conf.timed THEN T!Register(a) ELSE UNCHANGED timing
    /\ reg' = Set(reg, a, "registered")
    /\ UNCHANGED <<conf, canceled, at, asking, declined, closing, fault>>

\* globus_l_xio_server_register_accept up to the pass.
RegisterAccept(a) ==
    /\ ost[a] = "NONE"
    /\ sstate \in {"OPEN", "COMPLETING"}
    /\ sstate' = "ACCEPTING" /\ sop' = a
    /\ outstanding' = outstanding + 1 /\ sref' = sref + 1
    /\ ost' = Set(ost, a, "OPERATING")
    /\ oref' = Set(oref, a, IF conf.timed THEN 2 ELSE 1)
    /\ IF conf.timed THEN T!Register(a) ELSE UNCHANGED timing
    /\ reg' = Set(reg, a, "registered")
    /\ UNCHANGED <<conf, canceled, at, asking, declined, closing, fault>>

\* The pass takes a reference; an operation that is already cancelled is not
\* given to the driver.
PassAccept(a) ==
    /\ reg[a] = "registered"
    /\ oref' = Set(oref, a, oref[a] + 1)
    /\ reg' = Set(reg, a, IF canceled[a] THEN "refused" ELSE "inPass")
    /\ UNCHANGED <<conf, server, ost, canceled, at, asking, declined, timing, closing, fault>>

\* The driver's server_accept_func: it takes the accept and can be cancelled,
\* has a connection at once, or refuses.  One that was cancelled since
\* (enable_cancel says so) is refused or finished with an error.
DriverAccept(a) ==
    /\ reg[a] = "inPass" /\ at[a] = "new"
    /\ \/ ~canceled[a] /\ at' = Set(at, a, "driver") /\ UNCHANGED reg
       \/ at' = Set(at, a, "finished") /\ UNCHANGED reg
       \/ /\ canceled[a] \/ conf.fails
          /\ reg' = Set(reg, a, "refused") /\ UNCHANGED at
    /\ UNCHANGED <<conf, server, ost, oref, canceled, asking, declined, timing, closing, fault>>

\* The pass succeeded: register_accept drops its reference and returns.
RegisterReturns(a) ==
    /\ reg[a] = "inPass" /\ at[a] # "new"
    /\ reg' = Set(reg, a, "returned")
    /\ Release(a, sstate)
    /\ Insist(~(oref[a] = 1 /\ sref = 1))
    /\ UNCHANGED <<conf, sop, outstanding, canceled, at, asking, declined, timing, closing>>

\* Its error path: server->state, op and outstanding_operations stay as they
\* are, and a timeout that is firing keeps its reference.
RegisterFails(a) ==
    LET k == IF timer[a] = "registered" THEN 2 ELSE 1 IN
    /\ reg[a] = "refused"
    /\ reg' = Set(reg, a, "failed")
    /\ IF timer[a] = "registered" THEN T!Withdraw(a) ELSE UNCHANGED timing
    /\ DecOp(a, k, "FINISHED") /\ DecServer(1, sstate)
    /\ Insist(oref[a] > k /\ sref > 1)
    /\ UNCHANGED <<conf, sop, outstanding, canceled, at, asking, declined, closing>>

\* The caller, globus_xio_server_register_accept or globus_xio_server_accept,
\* frees the operation.
CallerFrees(a) ==
    /\ reg[a] = "failed" /\ ost[a] # "FREED"
    /\ ost' = Set(ost, a, "FREED")
    /\ UNCHANGED <<conf, server, oref, canceled, reg, at, asking, declined, timing, closing, fault>>

-----------------------------------------------------------------------------
(* Completion *)

\* The driver finishes an accept, when a connection comes or it is cancelled.
FinishedAccept(a) ==
    /\ at[a] \in {"driver", "cancelling"}
    /\ at' = Set(at, a, "finished")
    /\ UNCHANGED <<conf, server, ost, oref, canceled, reg, asking, declined, timing, closing, fault>>

\* globus_i_xio_server_accept_callback: while the user is asked about the
\* timeout the callback is left to the poller.
AcceptCallback(a) ==
    /\ at[a] = "finished"
    /\ at' = Set(at, a, IF ost[a] = "TIMEOUT_PENDING" THEN "cached" ELSE "callback")
    /\ IF timer[a] = "registered"
       THEN T!Withdraw(a) /\ oref' = Set(oref, a, oref[a] - 1)
       ELSE UNCHANGED <<timing, oref>>
    /\ ost' = Set(ost, a, "FINISH_WAITING")
    /\ sstate' = IF sstate = "ACCEPTING" THEN "COMPLETING" ELSE sstate
    /\ Insist(oref'[a] > 0 /\ sstate \in {"ACCEPTING", "CLOSE_PENDING"})
    /\ UNCHANGED <<conf, sref, sop, outstanding, canceled, reg, asking, declined, closing>>

\* globus_l_xio_server_accept_kickout as the poller's oneshot.
AcceptKickout(a) ==
    /\ at[a] = "due"
    /\ at' = Set(at, a, "callback")
    /\ UNCHANGED <<conf, server, ost, oref, canceled, reg, asking, declined, timing, closing, fault>>

\* Fault: a server closed by its last accept is not seen.
PostStateForgets ==
    CASE sstate = "COMPLETING" -> "OPEN"
      [] OTHER -> sstate

\* globus_i_xio_server_post_accept: the server after the callback; a close
\* that waited for the last accept starts.
PostState ==
    CASE sstate = "COMPLETING" -> "OPEN"
      [] sstate = "CLOSE_PENDING" /\ outstanding = 1 -> "CLOSING"
      [] OTHER -> sstate

\* Fault: server->op is cleared although the next accept is registered.
PostAcceptClears ==
    /\ outstanding' = outstanding - 1
    /\ sop' = None
    /\ closing' = IF sstate # "CLOSING" /\ PostState = "CLOSING" THEN "due" ELSE closing

PostAccept ==
    /\ outstanding' = outstanding - 1
    /\ sop' = IF sstate \in {"COMPLETING", "CLOSING", "CLOSED"} THEN None ELSE sop
    /\ closing' = IF sstate # "CLOSING" /\ PostState = "CLOSING" THEN "due" ELSE closing

\* The user's callback returns without having blocked.
CallbackReturns(a) ==
    /\ at[a] = "callback"
    /\ at' = Set(at, a, "done")
    /\ PostAccept /\ Release(a, PostState)
    /\ Insist(ost[a] = "FINISH_WAITING" /\ LastDropIn(a, PostState))
    /\ UNCHANGED <<conf, canceled, reg, asking, declined, timing>>

\* globus_i_xio_server_will_block_cb: post_accept while the callback blocks,
\* with a reference of its own, which post_accept drops.
WillBlock(a) ==
    /\ at[a] = "callback"
    /\ at' = Set(at, a, "blocked")
    /\ PostAccept /\ sstate' = PostState
    /\ Insist(ost[a] = "FINISH_WAITING")
    /\ UNCHANGED <<conf, sref, ost, oref, canceled, reg, asking, declined, timing>>

\* A callback that blocked returns.
BlockedReturns(a) ==
    /\ at[a] = "blocked"
    /\ at' = Set(at, a, "done")
    /\ Release(a, sstate)
    /\ Insist(LastDropIn(a, sstate))
    /\ UNCHANGED <<conf, sop, outstanding, canceled, reg, asking, declined, timing, closing>>

-----------------------------------------------------------------------------
(* globus_l_xio_accept_timeout_callback, in the poller's thread *)

TimerFires(a) ==
    /\ T!Fire({a}) /\ timer[a] = "registered"
    /\ UNCHANGED <<conf, server, ost, oref, canceled, reg, at, asking, declined,
                   closing, fault>>

\* The poller has taken the entry of a and is about to call the timeout callback.
InPoller(a) == timer[a] = "firing" /\ ~asking[a] /\ ~declined[a]

\* The accept is over: the timeout's reference is dropped.
TimeoutTooLate(a) ==
    /\ InPoller(a)
    /\ ost[a] \in {"FINISHED", "FINISH_WAITING"}
    /\ T!Accept(a)
    /\ Release(a, sstate)
    /\ Insist(LastDropIn(a, sstate))
    /\ UNCHANGED <<conf, sop, outstanding, canceled, reg, at, asking, declined, closing>>

\* The operation the timer holds was freed.
TimeoutFreed(a) ==
    /\ timer[a] = "firing" /\ ~declined[a] /\ ost[a] = "FREED"
    /\ fault' = TRUE
    /\ UNCHANGED <<conf, server, ost, oref, canceled, reg, at, asking, declined, timing,
                   closing>>

\* The user is asked, unless the driver blocks timeouts.
TimeoutAsks(a) ==
    /\ InPoller(a) /\ ost[a] = "OPERATING"
    /\ ost' = Set(ost, a, "TIMEOUT_PENDING") /\ asking' = Set(asking, a, TRUE)
    /\ UNCHANGED <<conf, server, oref, canceled, reg, at, declined, timing, closing, fault>>

TimeoutBlocked(a) ==
    /\ InPoller(a) /\ ost[a] = "OPERATING"
    /\ declined' = Set(declined, a, TRUE)
    /\ UNCHANGED <<conf, server, ost, oref, canceled, reg, at, asking, timing, closing, fault>>

\* The user answered: an accept that completed meanwhile gets its callback
\* now, a cancelled one will be finished by its driver.
TimeoutAnswered(a, cancel) ==
    LET completed == ost[a] = "FINISH_WAITING" IN
    /\ asking[a] /\ ost[a] # "FREED"
    /\ asking' = Set(asking, a, FALSE)
    /\ canceled' = IF cancel THEN Set(canceled, a, TRUE) ELSE canceled
    /\ at' = IF completed THEN Set(at, a, "due")
             ELSE IF cancel /\ at[a] = "driver" THEN Set(at, a, "cancelling") ELSE at
    /\ ost' = Set(ost, a, IF completed THEN "FINISH_WAITING" ELSE "OPERATING")
    /\ IF cancel \/ completed
       THEN /\ T!Accept(a)
            /\ oref' = Set(oref, a, oref[a] - 1)
            /\ Insist(oref[a] > 1)
            /\ UNCHANGED declined
       ELSE /\ declined' = Set(declined, a, TRUE)
            /\ UNCHANGED <<oref, fault, timing>>
    /\ UNCHANGED <<conf, server, reg, closing>>

\* The poller, back from the callback, puts the refused entry back under timer->mutex.
\* Until then an accept that completes cannot withdraw it.
PutBack(a) ==
    /\ declined[a]
    /\ declined' = Set(declined, a, FALSE)
    /\ T!Retry(a)
    /\ UNCHANGED <<conf, server, ost, oref, canceled, reg, at, asking, closing, fault>>

-----------------------------------------------------------------------------
(* Cancel and close *)

\* globus_xio_server_cancel_accept
CancelAccept ==
    /\ sstate \in {"ACCEPTING", "COMPLETING"}
    /\ ost[sop] = "FREED" \/ ~canceled[sop]
    /\ Cancelled(sop)
    /\ Insist(ost[sop] # "FREED")
    /\ UNCHANGED <<conf, server, ost, oref, reg, asking, declined, timing, closing>>

\* Fault: the close does not wait for the accept it cancels.
ServerCloseAtOnce ==
    /\ sstate \in {"OPEN", "ACCEPTING", "COMPLETING"}
    /\ conf.eager \/ \A a \in Accepts : reg[a] \in {"none", "returned", "failed"}
    /\ IF sop # None
       THEN Cancelled(sop) /\ Insist(ost[sop] # "FREED")
       ELSE UNCHANGED <<canceled, at, fault>>
    /\ sstate' = "CLOSING" /\ closing' = "due"
    /\ UNCHANGED <<conf, sref, sop, outstanding, ost, oref, reg, asking, declined, timing>>

\* globus_i_xio_server_close
ServerClose ==
    /\ sstate \in {"OPEN", "ACCEPTING", "COMPLETING"}
    /\ conf.eager \/ \A a \in Accepts : reg[a] \in {"none", "returned", "failed"}
    /\ IF sop # None
       THEN Cancelled(sop) /\ Insist(ost[sop] # "FREED")
       ELSE UNCHANGED <<canceled, at, fault>>
    /\ sstate' = IF sstate = "OPEN" THEN "CLOSING" ELSE "CLOSE_PENDING"
    /\ closing' = IF sstate = "OPEN" THEN "due" ELSE closing
    /\ UNCHANGED <<conf, sref, sop, outstanding, ost, oref, reg, asking, declined, timing>>

\* globus_l_xio_server_close_kickout: the user's callback, and its return.
CloseKickout ==
    /\ closing = "due"
    /\ closing' = "callback"
    /\ UNCHANGED <<conf, server, ost, oref, canceled, reg, at, asking, declined, timing, fault>>

CloseReturns ==
    /\ closing = "callback"
    /\ closing' = "done"
    /\ DecServer(1, "CLOSED")
    /\ UNCHANGED <<conf, sop, outstanding, ost, oref, canceled, reg, at, asking, declined,
                   timing, fault>>

\* The threads that carry on what was begun.
Carry(a) ==
    \/ PassAccept(a) \/ DriverAccept(a) \/ RegisterReturns(a) \/ RegisterFails(a)
    \/ CallerFrees(a) \/ AcceptCallback(a) \/ AcceptKickout(a)
    \/ at[a] = "cancelling" /\ FinishedAccept(a)
Callback(a) == CallbackReturns(a) \/ BlockedReturns(a)
Poller(a) ==
    \/ TimeoutTooLate(a) \/ TimeoutFreed(a) \/ TimeoutAsks(a) \/ TimeoutBlocked(a)
    \/ PutBack(a)
    \/ \E cancel \in BOOLEAN : TimeoutAnswered(a, cancel)
Close == CloseKickout \/ CloseReturns

\* A fault stops the program.
Next ==
    /\ ~fault
    /\ \/ \E a \in Accepts :
              \/ RegisterAccept(a) \/ Carry(a) \/ Callback(a) \/ Poller(a)
              \/ FinishedAccept(a) \/ WillBlock(a) \/ TimerFires(a)
       \/ CancelAccept \/ ServerClose \/ Close

Spec == Init /\ [][Next]_vars

\* Threads that are inside the library, and the user's callbacks, run on;
\* nothing is assumed of the user's calls, of connections or of timeouts.
FairSpec ==
    /\ Spec
    /\ \A a \in Accepts : WF_vars(~fault /\ Carry(a)) /\ WF_vars(~fault /\ Callback(a))
                          /\ WF_vars(~fault /\ Poller(a))
    /\ WF_vars(~fault /\ Close)

-----------------------------------------------------------------------------
(* Properties *)

Live(a) == ost[a] \notin {"NONE", "FREED"}
Failed(a) == reg[a] \in {"refused", "failed"}
One(cond) == IF cond THEN 1 ELSE 0

\* The types of the server's and the operations' fields; an accepting server has
\* an operation that cancel_accept can use.
TypeOK ==
    /\ conf \in Configs
    /\ sstate \in {"OPEN", "ACCEPTING", "COMPLETING", "CLOSE_PENDING", "CLOSING",
                   "CLOSED", "FREED"}
    /\ sref \in Nat /\ outstanding \in Nat
    /\ sop \in Accepts \cup {None}
    /\ sstate \in {"ACCEPTING", "COMPLETING"} => sop # None
    /\ ost \in [Accepts -> {"NONE", "OPERATING", "TIMEOUT_PENDING", "FINISH_WAITING",
                            "FINISHED", "FREED"}]
    /\ oref \in [Accepts -> Nat]
    /\ canceled \in [Accepts -> BOOLEAN]
    /\ reg \in [Accepts -> {"none", "registered", "inPass", "refused", "returned", "failed"}]
    /\ at \in [Accepts -> {"new", "driver", "cancelling", "finished", "cached", "due",
                           "callback", "blocked", "done"}]
    /\ asking \in [Accepts -> BOOLEAN]
    /\ declined \in [Accepts -> BOOLEAN]
    /\ timer \in [Accepts -> {"none", "registered", "firing"}]
    /\ held \in [Accepts -> BOOLEAN]
    /\ closing \in {"none", "due", "callback", "done"}
    /\ fault \in BOOLEAN

\* No assertion of globus_xio_server.c fails and no freed operation is used.
NoFault == ~fault

\* The timeout callback's comment: it may come after the pass failed
\* (GLOBUS_XIO_OP_STATE_FINISHED), and finds the operation in memory even then.
TimeoutFindsOperation == \A a \in Accepts : timer[a] = "firing" => ost[a] # "FREED"

\* No fault as long as no accept was refused, by its driver or because it was
\* cancelled before the driver had it.
NoFaultUnlessRefused == fault => \E a \in Accepts : Failed(a)

\* The users of an operation, one reference each: the registering call, the
\* accept until its callback returned, and the timer.
Users(a) ==
    One(reg[a] = "inPass" \/ reg[a] = "refused")
    + One(at[a] # "done" /\ ~(reg[a] = "failed" /\ ost[a] = "FREED")) + One(held[a])

\* op->ref counts the operation's users, whoever finishes first, server->ref the
\* operations and the server itself, and the server is freed after the last of
\* them: no thread is left that would use it.
RefsExact ==
    (\A a \in Accepts : ~Failed(a)) =>
        /\ \A a \in Accepts : Live(a) => oref[a] = Users(a)
        /\ \A a \in Accepts : ost[a] = "FREED" => Users(a) = 0
        /\ sref = One(closing # "done") + Cardinality({a \in Accepts : Live(a)})
        /\ sstate = "FREED" <=> sref = 0
        /\ outstanding = Cardinality({a \in Accepts :
               ost[a] # "NONE" /\ at[a] \notin {"blocked", "done"}})

\* The driver's server_destroy is called (globus_l_xio_close_server) when the driver
\* has no accept of the server any more.
DriverIdleAtClose ==
    closing # "none" => \A a \in Accepts :
        /\ at[a] \notin {"driver", "cancelling", "finished"}
        /\ reg[a] \notin {"registered", "inPass"} \/ at[a] # "new"

\* The accept completed between the refusal of its timeout and PutBack: the timer has an
\* entry, and a reference, that only another examination can release.
Stranded(a) == timer[a] = "registered" /\ ost[a] = "FINISH_WAITING"

\* A server the user closes is destroyed, unless an accept was refused.
CloseReclaims ==
    sstate \in {"CLOSE_PENDING", "CLOSING"} ~>
        (sstate = "FREED" \/ \E a \in Accepts : Failed(a))

\* The same whatever accepts, timeouts, refused timeouts and callbacks were under way, as
\* long as the timer examines again what its poller put back too late.
ServerReclaimed == (\A a \in Accepts : []<>~Stranded(a)) => CloseReclaims
=============================================================================
