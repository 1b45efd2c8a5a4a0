--------------------------- MODULE MCHostBridge ---------------------------
EXTENDS HostBridge
===========================================================================
