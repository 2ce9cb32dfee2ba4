---------------------------- MODULE MCSalesOrder ----------------------------
(* SalesOrder for TLC: orders and clerks are interchangeable model values. *)
EXTENDS SalesOrder, TLC

Symmetry == Permutations(Orders) \cup Permutations(Clerks)
ClerkSymmetry == Permutations(Clerks)
=============================================================================
