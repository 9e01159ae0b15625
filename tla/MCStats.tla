------------------------------ MODULE MCStats ------------------------------
(***************************************************************************)
(* Small instances of Stats.  Tasks are interchangeable.                   *)
(***************************************************************************)
EXTENDS Stats, TLC

TaskSymmetry == Permutations(Tasks)
=============================================================================
