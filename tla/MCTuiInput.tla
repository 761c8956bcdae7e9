----------------------------- MODULE MCTuiInput -----------------------------
(* Model-checking instances of TuiInput. *)
EXTENDS TuiInput
=============================================================================
