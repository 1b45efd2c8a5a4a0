----------------------------- MODULE MCDbQuery -----------------------------
EXTENDS DbQuery
CONSTANTS c1, c2

\* Two scenes.  Where the mode asks for approvals: connections are saved and
\* switched, the SSH session is closed.  Where it does not: the session is open
\* and is closed meanwhile, and the user stays where they are.
MCInit ==
    /\ Init
    /\ IF mode = "safe" THEN session = "closed" /\ moves = 0
       ELSE session = "open" /\ moves = MaxMove /\ ui.sel \in Tunnelled

MCSpec == MCInit /\ [][Next]_vars /\ Fairness
===========================================================================
