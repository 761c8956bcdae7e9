------------------------------ MODULE MCStore ------------------------------
(* Model-checking instances of Store. *)
EXTENDS Store, TLC

\* Nothing orders or names the passphrases and the values.
Symmetry == Permutations(Passes \ {EmptyPass}) \cup Permutations(Values)
=============================================================================
