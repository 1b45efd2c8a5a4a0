-------------------------- MODULE CatalogRegister --------------------------
(***************************************************************************)
(* What a catalog file promises its callers: a load finds the document of  *)
(* the last save that returned, or one of a save tried since.  A save that *)
(* failed, or that a crash cut off, may or may not have happened, and a    *)
(* later crash may still take it back.                                     *)
(***************************************************************************)
CONSTANT Doc     \* documents

VARIABLES
    doc,         \* what a load would find
    acked,       \* the document of the last save that returned
    tried        \* documents of the saves since

Init ==
    /\ acked \in Doc
    /\ doc = acked
    /\ tried = {}

\* A save is called.
Try(d) ==
    /\ tried' = tried \cup {d}
    /\ UNCHANGED acked
    /\ doc' \in {acked} \cup tried'

\* A save is under way, fails, or is cut off.
Waver ==
    /\ doc' \in {acked} \cup tried
    /\ UNCHANGED <<acked, tried>>

\* A save returns.
Ack(d) ==
    /\ d \in tried
    /\ doc' = d /\ acked' = d /\ tried' = {}

Next == \E d \in Doc : Try(d) \/ Ack(d) \/ Waver

Spec == Init /\ [][Next]_<<doc, acked, tried>>
============================================================================
