--------------------------- MODULE MCAgentRunStream ---------------------------
(* Model-checking instances of AgentRunStream. *)
EXTENDS AgentRunStream, TLC

CONSTANTS p1, p2

PublishersSym == Permutations(Publishers)
===============================================================================
