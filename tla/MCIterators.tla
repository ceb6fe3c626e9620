----------------------------- MODULE MCIterators -----------------------------
(* Instances of Iterators for TLC. *)
EXTENDS Iterators

\* The whole store, and a range bounded on both sides, of which one of the outer
\* keys is excluded.
MCRanges == {[min |-> 0, max |-> 0], [min |-> 1, max |-> 3]}
=============================================================================
