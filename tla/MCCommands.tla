----------------------------- MODULE MCCommands -----------------------------
(* Model-checking instances of Commands. *)
EXTENDS Commands

\* Names are interchangeable.
Symmetry == Permutations(Names)
=============================================================================
