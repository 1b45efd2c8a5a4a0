---------------------------- MODULE MCAgentRun ----------------------------
\* Two runs of one session: one alone with two calls, and two restarts or file
\* errors and one, or the second superseding the first, with one restart.
EXTENDS AgentRun
===========================================================================
