-------------------------- MODULE MCDbConnections --------------------------
EXTENDS DbConnections
CONSTANTS t1, t2, a, b

\* 2 is 1 with a blank at its end.
MCTrim(p) == IF p = 2 THEN 1 ELSE p
===========================================================================
