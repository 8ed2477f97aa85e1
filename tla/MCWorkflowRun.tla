---------------------------- MODULE MCWorkflowRun ----------------------------
(* Small instances of WorkflowRun. *)
EXTENDS WorkflowRun, TLC

Wire(m, h, n) == [from |-> m, handle |-> h, to |-> n]

\* A start node, a branch, and on one of its sides two pauses in a row; the
\* other side has a node beside each of them.
MCNodes == {"start", "branch", "ask", "vote", "left", "below"}
MCEdges == {Wire("start", "output", "branch"),
            Wire("branch", "true", "ask"), Wire("branch", "false", "left"),
            Wire("ask", "output", "vote"), Wire("left", "output", "below")}

\* Workers and approvers are interchangeable.
Symmetry == Permutations(Workers) \cup Permutations(Approvers)

=============================================================================
