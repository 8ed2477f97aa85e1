----------------------------- MODULE RunLifecycle -----------------------------
(***************************************************************************)
(* What the durable run store promises of each run, whatever the workers,  *)
(* endpoints, duplicates and sweeps do: the lifecycle of AgentRunStatus    *)
(* (models/agent_run.py).  AgentRun implements it.                         *)
(***************************************************************************)
CONSTANT Runs

VARIABLE status    \* status[r], "absent" before the run is submitted

Init == status = [r \in Runs |-> "absent"]

(* Nothing leaves a terminal status; a stop request is never overtaken by  *)
(* a completion or a park; only a claimed completion completes; a parked   *)
(* run goes on only through the queue; only a run at work is interrupted.  *)
After(s) ==
  CASE s = "absent"     -> {"queued"}
    [] s = "queued"     -> {"running", "stopped", "failed"}
    [] s = "running"    -> {"stopping", "waiting", "completing", "stopped",
                            "failed", "interrupted"}
    [] s = "stopping"   -> {"stopped", "failed", "interrupted"}
    [] s = "waiting"    -> {"queued", "stopped"}
    [] s = "completing" -> {"completed", "failed"}
    [] OTHER            -> {}

Move(r) == \E s \in After(status[r]) : status' = [status EXCEPT ![r] = s]

Next == \E r \in Runs : Move(r)

Spec == Init /\ [][Next]_status
===============================================================================
