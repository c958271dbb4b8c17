---------------------------- MODULE MCXioContext ----------------------------
(* XioContext for TLC. *)
EXTENDS XioContext, TLC

\* Reads are interchangeable, and so are writes.
Symmetry == Permutations(Read) \cup Permutations(Write)
=============================================================================
