------------------------------ MODULE MCAccount ------------------------------
(***************************************************************************)
(* Small instances of Account for the model checker.                       *)
(***************************************************************************)
EXTENDS Account, TLC

Interchangeable == Permutations(Tasks)
=============================================================================
