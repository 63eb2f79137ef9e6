------------------------- MODULE MCSessionRegistry -------------------------
(* A small instance of SessionRegistry for TLC. *)
EXTENDS SessionRegistry

CONSTANTS a1, c1, c2

\* Every connection is of the one Agent.
OneAgent == [c \in Chans |-> a1]
=============================================================================
