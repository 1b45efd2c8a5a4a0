------------------------- MODULE MCDurableCatalog -------------------------
EXTENDS DurableCatalog
CONSTANTS t1, t2, t3

\* Two scenes: t1 loads and saves, alone, from an empty catalog on; or t2 and
\* t3 load at once when the process is started after a crash.
MCInit ==
    \/ Init /\ live = {t1}
    \/ InitRestarted /\ live = {t2, t3} /\ acked = {1}

MCSpec == MCInit /\ [][Next]_vars
===========================================================================
