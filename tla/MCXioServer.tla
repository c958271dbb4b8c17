----------------------------- MODULE MCXioServer ----------------------------
(* Instances of XioServer for TLC. *)
EXTENDS XioServer, TLC

\* Accepts are interchangeable; used where no liveness is checked.
Symmetry == Permutations(Accepts)

Timed == {[timed |-> TRUE, fails |-> FALSE, eager |-> FALSE]}
Refusing == {[timed |-> FALSE, fails |-> TRUE, eager |-> FALSE]}
Both == Timed \cup Refusing
TimedRefusing == {[timed |-> TRUE, fails |-> TRUE, eager |-> FALSE]}
Eager == {[timed |-> FALSE, fails |-> FALSE, eager |-> TRUE]}
=============================================================================
