---------------------------- MODULE MCAtomicFile ----------------------------
(* Model-checking instances of AtomicFile. *)
EXTENDS AtomicFile, TLC

\* Nothing orders or names the inodes, the processes or the texts.
Symmetry == Permutations(Inodes) \cup Permutations(Writers)
              \cup Permutations(Contents)
=============================================================================
