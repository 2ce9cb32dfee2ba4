---------------------------- MODULE MCJobRunner ----------------------------
(* Three calls of one run key. *)
EXTENDS JobRunner, TLC
=============================================================================
