---------------------------- MODULE TimerService ----------------------------
(***************************************************************************)
(* What the XIO timer promises its clients (the operations of handles and  *)
(* servers), as globus_i_xio.h declares it: a timeout that is registered   *)
(* for an operation stays with the timer, which holds one reference on the *)
(* operation for it, until exactly one of two things happens.  Either the  *)
(* client takes it back (unregister_timeout returns GLOBUS_TRUE) and drops *)
(* that reference itself, or the timer calls the client's timer_cb and the *)
(* callback accepts the timeout (returns GLOBUS_TRUE), which drops it.     *)
(* While a callback is under way the client cannot take the timeout back.  *)
(***************************************************************************)

CONSTANT Op     \* the operations a timeout can be registered for

VARIABLES
    status,      \* of each operation: "none", "registered" or "firing"
    held         \* does the timer hold a reference on the operation?

vars == <<status, held>>

Init ==
    /\ status = [d \in Op |-> "none"]
    /\ held = [d \in Op |-> FALSE]

\* A client registers a timeout for d.
Register(d) ==
    /\ status[d] = "none"
    /\ status' = [status EXCEPT ![d] = "registered"]
    /\ held' = [held EXCEPT ![d] = TRUE]

\* A client takes the timeout of d back before it fires.
Withdraw(d) ==
    /\ status[d] = "registered"
    /\ status' = [status EXCEPT ![d] = "none"]
    /\ held' = [held EXCEPT ![d] = FALSE]

\* The timer gives a set of expired timeouts to their callbacks.
Fire(S) ==
    /\ \A d \in S : status[d] = "registered"
    /\ status' = [d \in Op |-> IF d \in S THEN "firing" ELSE status[d]]
    /\ UNCHANGED held

\* The callback of d accepts its timeout.
Accept(d) ==
    /\ status[d] = "firing"
    /\ status' = [status EXCEPT ![d] = "none"]
    /\ held' = [held EXCEPT ![d] = FALSE]

\* The callback of d refuses its timeout: the timer keeps watching d.
Retry(d) ==
    /\ status[d] = "firing"
    /\ status' = [status EXCEPT ![d] = "registered"]
    /\ UNCHANGED held

Next ==
    \/ \E d \in Op : Register(d) \/ Withdraw(d) \/ Accept(d) \/ Retry(d)
    \/ \E S \in SUBSET Op : Fire(S)

Spec == Init /\ [][Next]_vars
=============================================================================
