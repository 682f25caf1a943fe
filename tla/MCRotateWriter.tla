--------------------------- MODULE MCRotateWriter ---------------------------
\* The log writer with its constants given by the configurations.
EXTENDS RotateWriter
=============================================================================
