---------------------------- MODULE MCWarehouse ----------------------------
(* Warehouse for TLC: locations and green lots are interchangeable. *)
EXTENDS Warehouse, TLC

Symmetry == Permutations(Locations) \cup Permutations(GreenLots)
=============================================================================
