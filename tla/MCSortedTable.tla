--------------------------- MODULE MCSortedTable ---------------------------
(* Instances of SortedTable for TLC. *)
EXTENDS SortedTable
=============================================================================
