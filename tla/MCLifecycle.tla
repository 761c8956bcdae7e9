---------------------------- MODULE MCLifecycle ----------------------------
(* Model-checking instances of Lifecycle. *)
EXTENDS Lifecycle, TLC

\* For the safety runs only.
Symmetry == Permutations(Daemons) \cup Permutations(Sockets)
=============================================================================
