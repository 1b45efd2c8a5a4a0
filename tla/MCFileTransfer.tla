-------------------------- MODULE MCFileTransfer --------------------------
(* A send and an upload to one remote path, or two downloads to one local  *)
(* path.                                                                   *)
EXTENDS FileTransfer
CONSTANTS t1, t2

MCInit ==
    /\ Init
    /\ \/ Is(t1, "send") /\ Is(t2, "upload")
       \/ \A t \in Transfer : Is(t, "download")

MCSpec      == MCInit /\ [][Next]_vars
MCStallSpec == MCSpec /\ StallFairness
MCFairSpec  == MCSpec /\ Fairness
===========================================================================
