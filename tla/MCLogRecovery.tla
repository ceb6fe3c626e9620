---------------------------- MODULE MCLogRecovery ----------------------------
(* Instances of LogRecovery for TLC. *)
EXTENDS LogRecovery, TLC
=============================================================================
