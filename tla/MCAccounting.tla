---------------------------- MODULE MCAccounting ----------------------------
(***************************************************************************)
(* The accounting bot with interchangeable users and rows.                 *)
(***************************************************************************)
EXTENDS Accounting, TLC

Interchangeable == Permutations(Users) \cup Permutations(Values)
=============================================================================
