---------------------------- MODULE MCToolApproval ----------------------------
(* Model-checking instances of ToolApproval. *)
EXTENDS ToolApproval, TLC

CONSTANTS a1, a2, d1, d2, k1, k2, e1, e2
===============================================================================
