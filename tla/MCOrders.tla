------------------------------ MODULE MCOrders ------------------------------
\* Orders on a small instance: see the configurations MCOrders*.cfg.
EXTENDS Orders, TLC

Symmetry == Permutations(Handlers) \cup Permutations(Users) \cup Permutations(OrderNos)
=============================================================================
