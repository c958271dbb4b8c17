----------------------------- MODULE MCXioTimer -----------------------------
(* XioTimer for TLC. *)
EXTENDS XioTimer

\* A timeout callback may accept its timeout or ask for more time.
AnyAnswer == BOOLEAN
=============================================================================
