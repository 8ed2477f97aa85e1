----------------------------- MODULE SandboxJob -----------------------------
(***************************************************************************)
(* What the gateway promises the caller of a sandbox command, without      *)
(* workers, placements or messages: a command is sent once, runs at most   *)
(* once, and is given one answer, which says "completed" only if it ran.   *)
(***************************************************************************)
EXTENDS Naturals

CONSTANT Jobs
VARIABLES result,   \* job -> the status of its result record
          runs      \* job -> how often its command was executed

Init == /\ result = [j \in Jobs |-> "none"]
        /\ runs = [j \in Jobs |-> 0]

Moves(j, from, to) == /\ result[j] \in from
                      /\ result' = [result EXCEPT ![j] = to]
                      /\ UNCHANGED runs

\* The queued result is written and the message sent.
Send(j) == Moves(j, {"none"}, "queued")

\* A worker holds the workspace and is about to run it.
Start(j) == Moves(j, {"queued"}, "running")

\* Once at most; the caller may have been told "failed" by then.
Execute(j) == /\ result[j] # "none" /\ runs[j] = 0
              /\ runs' = [runs EXCEPT ![j] = 1]
              /\ UNCHANGED result

\* A failure says nothing about the command's effects.
Fail(j) == Moves(j, {"queued", "running"}, "failed")

Complete(j) == runs[j] = 1 /\ Moves(j, {"running"}, "completed")

Next == \E j \in Jobs : Send(j) \/ Start(j) \/ Execute(j) \/ Fail(j) \/ Complete(j)

Spec == Init /\ [][Next]_<<result, runs>>
=============================================================================
