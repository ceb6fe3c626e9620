------------------------------ MODULE MCLevels ------------------------------
(* Bounded instances of Levels for TLC.                                     *)
EXTENDS Levels, TLC

TaskSymmetry == Permutations(Tasks)
=============================================================================
