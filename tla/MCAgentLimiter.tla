--------------------------- MODULE MCAgentLimiter ---------------------------
(* A small instance of AgentLimiter for TLC: unlimited in both spellings, and *)
(* every limit below the number of invocations.                               *)
EXTENDS AgentLimiter

AllLimits == -1..3
=============================================================================
