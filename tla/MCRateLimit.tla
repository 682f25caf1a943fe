---------------------------- MODULE MCRateLimit ----------------------------
\* The limiter with its constants given by the configurations.
EXTENDS RateLimit, TLC

Symmetry == Permutations(Callers) \cup Permutations(Clients)
=============================================================================
