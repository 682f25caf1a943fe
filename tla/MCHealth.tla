------------------------------ MODULE MCHealth ------------------------------
\* Registry.Check with its constants given by the configurations.
EXTENDS Health
=============================================================================
