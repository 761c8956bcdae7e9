----------------------------- MODULE MCService -----------------------------
(* Model-checking instances of Service. *)
EXTENDS Service, TLC

\* For the safety runs only: calls and values are interchangeable.
Symmetry == Permutations(Requests) \cup Permutations(Values)
=============================================================================
