--------------------------- MODULE MCAgentSentinel ---------------------------
(* One tick is 15 s: the timer and the pulse ticker have a period of two   *)
(* ticks.  The pulse timeout is shortened from eight ticks to four, which  *)
(* keeps it above the longest branch of the loop and above the interval.   *)
EXTENDS AgentSentinel
=============================================================================
