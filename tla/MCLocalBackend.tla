--------------------------- MODULE MCLocalBackend ---------------------------
EXTENDS LocalBackend

=============================================================================
