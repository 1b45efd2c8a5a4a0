--------------------------- MODULE MCSessionLog ---------------------------
(* The session log on a small instance: a new log with reloads, and a log  *)
(* begun by a command-line runtime without.                                *)
EXTENDS SessionLog

MCSpec == SpecFromStart
=============================================================================
