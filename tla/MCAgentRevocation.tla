------------------------- MODULE MCAgentRevocation -------------------------
(* Small instances of AgentRevocation for TLC. *)
EXTENDS AgentRevocation

CONSTANTS a1, c1, c2

\* Every connection is of the one Agent.
OneAgent == [c \in Chans |-> a1]
=============================================================================
