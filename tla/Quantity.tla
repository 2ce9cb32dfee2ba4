------------------------------ MODULE Quantity ------------------------------
(* Sums of quantities, written as cardinalities so that theorems about them *)
(* follow from the theorems about finite sets.                              *)
EXTENDS Naturals, FiniteSets

\* The single units of the quantities q[x].
Units(q) == UNION {{x} \X (1 .. q[x]) : x \in DOMAIN q}

\* The sum of q[x] over its domain.
Total(q) == Cardinality(Units(q))

\* One row of a table of quantities.
Row(q, x, Y) == [y \in Y |-> q[<<x, y>>]]
=============================================================================
