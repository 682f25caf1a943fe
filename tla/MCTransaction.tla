--------------------------- MODULE MCTransaction ---------------------------
\* Do with its constants given by the configuration.
EXTENDS Transaction
=============================================================================
