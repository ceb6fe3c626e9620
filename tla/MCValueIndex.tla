---------------------------- MODULE MCValueIndex ----------------------------
(***************************************************************************)
(* The value index for TLC: two compactions beside one flush.              *)
(***************************************************************************)
EXTENDS ValueIndex, TLC

CONSTANTS t1, t2

MCTasks == {t1, t2}
Symmetry == Permutations(MCTasks)

============================================================================
