---------------------------- MODULE MCPurchasing ----------------------------
EXTENDS Purchasing, TLC

\* Users and purchases are told apart by what they do only.
Symmetry == Permutations(Users) \cup Permutations(Purchases)
=============================================================================
