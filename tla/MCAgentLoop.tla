---------------------------- MODULE MCAgentLoop -----------------------------
EXTENDS AgentLoop, TLC

CONSTANTS queen, cron

\* A turn of the Queen long enough for the breaker, one of cron that is long
\* enough to grant an approval or to use one.
Iterations == queen :> 3 @@ cron :> 1
=============================================================================
