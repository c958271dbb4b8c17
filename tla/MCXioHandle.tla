---------------------------- MODULE MCXioHandle -----------------------------
(* Configurations of XioHandle for TLC. *)
EXTENDS XioHandle

Conf(timed, fails, eager, hasty, blocks) ==
    [timed |-> timed, fails |-> fails, eager |-> eager, hasty |-> hasty, blocks |-> blocks]

\* An eager user whose data operations have timeouts; a patient one whose open
\* and close have, with callbacks that block; and passes that fail on a handle
\* without timeouts, whose user does not close inside register_read or register_write.
SafeConfigs ==
    { Conf({"data"}, {}, TRUE, TRUE, FALSE),
      Conf({"open", "close"}, {}, FALSE, TRUE, TRUE),
      Conf({}, {"data", "close"}, TRUE, FALSE, FALSE) }

\* The open has a timeout and the user may close while it is asked about.
EagerTimedOpen == { Conf({"open"}, {}, TRUE, TRUE, FALSE) }

\* A read or write has a timeout and its pass may fail.
FailingTimedData == { Conf({"data"}, {"data"}, FALSE, FALSE, FALSE) }

\* The pass of a read or write may fail while another thread closes the handle.
HastyClose == { Conf({}, {"data"}, FALSE, TRUE, FALSE) }

\* The pass of the open may fail.
FailingOpen == { Conf({}, {"open"}, FALSE, FALSE, FALSE) }

\* Reads and writes have a timeout, nothing fails.
TimedData == { Conf({"data"}, {}, FALSE, FALSE, FALSE) }
=============================================================================
