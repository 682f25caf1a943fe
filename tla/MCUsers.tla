------------------------------ MODULE MCUsers ------------------------------
\* Accounts with their constants given by the configurations.  The sessions
\* and the values of each field are interchangeable.
EXTENDS Users, TLC

Symmetry ==
  Permutations(Sessions) \cup Permutations(Names) \cup Permutations(Emails)
    \cup Permutations(Phones) \cup Permutations(Passwords)
=============================================================================
