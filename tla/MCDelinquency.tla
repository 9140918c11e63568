---------------------------- MODULE MCDelinquency ----------------------------
(***************************************************************************)
(* Small instances of Delinquency for the model checker.                   *)
(***************************************************************************)
EXTENDS Delinquency, TLC

Interchangeable == Permutations(Cases) \cup Permutations(Bans) \cup Permutations(Clerks)
=============================================================================
