------------------------- MODULE MCPrivilegeLease -------------------------
\* Bounded instance of PrivilegeLease: two concurrent calls that may present
\* the same lease, a second action to mismatch it with, three instants.
EXTENDS PrivilegeLease
CONSTANTS l1, a1, a2, k1, k2
===========================================================================
