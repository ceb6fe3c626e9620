------------------------------ MODULE MCDbLogic ------------------------------
(* Instances of DbLogic for TLC. *)
EXTENDS DbLogic, TLC
=============================================================================
