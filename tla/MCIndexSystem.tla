--------------------------- MODULE MCIndexSystem ---------------------------
EXTENDS IndexSystem

=============================================================================
