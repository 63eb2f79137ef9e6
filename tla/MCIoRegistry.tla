----------------------------- MODULE MCIoRegistry -----------------------------
(* A small instance of IoRegistry for TLC. *)
EXTENDS IoRegistry

CONSTANTS a1, c1, c2, b1, b2

\* Every connection, bridge and disconnect is of the one Agent.
OwnerMC == [c \in Chans |-> a1]
AgentOfMC == [b \in Bridges |-> a1]
DTargetMC == [d \in Disconnecters |-> a1]
=============================================================================
