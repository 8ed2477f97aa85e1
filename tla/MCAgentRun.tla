------------------------------ MODULE MCAgentRun ------------------------------
(* Model-checking instances of AgentRun. *)
EXTENDS AgentRun, TLC

CONSTANTS r1, r2, w1, w2

(* Workers are interchangeable (safety runs only). *)
WorkersSym == Permutations(Workers)
===============================================================================
