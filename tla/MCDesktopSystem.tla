-------------------------- MODULE MCDesktopSystem --------------------------
EXTENDS DesktopSystem

=============================================================================
