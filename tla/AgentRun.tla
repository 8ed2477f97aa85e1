------------------------------- MODULE AgentRun -------------------------------
(***************************************************************************)
(* The durable agent runs of one conversation: the AgentRun rows, the      *)
(* conversation lock in Redis, the Celery messages that carry a run to a   *)
(* worker, the workers executing run_agent_round, the stop, input, answer  *)
(* and approval endpoints, and the sweep that looks for lost workers.      *)
(*   services/agent_run_store.py     rows, lock, sweep, inputs             *)
(*   services/agent_run_worker.py    run_agent_round                       *)
(*   services/agent_loop.py          the loop's safe points                *)
(*   services/agent_submission.py    submission and dispatch               *)
(*   tasks/agent.py                  the task and its safety net           *)
(*   api/v1/endpoints/chat.py        stop, inputs, answers                 *)
(*                                                                         *)
(* A step is one PostgreSQL transaction or one Redis command; what a       *)
(* worker does between two of them (model calls, tools, sandbox) appears   *)
(* only as the nondeterministic outcome of the step.  _transition_active_  *)
(* run, which re-reads the row and retries a lost compare-and-set, is one  *)
(* step: it takes effect at its last compare-and-set.  A tool call that    *)
(* pauses a run is a number; its approval, if it needs one, is reduced to  *)
(* the status of its ToolExecution (module ToolApproval has the details).  *)
(***************************************************************************)
EXTENDS Naturals, FiniteSets

CONSTANTS
  Runs,         \* the runs submitted to the conversation
  Workers,      \* the agent-queue worker processes
  NoRun,        \* no run: the lock is free, the worker is idle
  MaxCalls,     \* bound: tool calls that pause a run
  MaxTurns,     \* max_iterations of the agent loop
  MaxMsgs,      \* bound: copies of one task message in the broker
  Redispatch,   \* TRUE: the IM recovery publishes queued runs again
  LeaseLoss,    \* TRUE: the lock may vanish under a live, stalled worker
  Errors,       \* TRUE: the calls of a worker may raise
  Crash         \* TRUE: processes may be killed between two steps

ASSUME AgentRunAssumption ==
  /\ NoRun \notin Runs
  /\ MaxCalls \in Nat /\ MaxTurns \in Nat /\ MaxMsgs \in Nat
  /\ Redispatch \in BOOLEAN /\ LeaseLoss \in BOOLEAN
  /\ Errors \in BOOLEAN /\ Crash \in BOOLEAN

VARIABLES
  status,     \* status[r]: AgentRun.status, "absent" before submission
  pending,    \* pending[r]: pending_tool_call_id, 0 for none
  marker,     \* marker[r]: resume_tool_approval of worker_payload, 0 for none
  age,        \* age[r]: started_at against the sweep's cutoff
  answer,     \* answer[r]: the canonical assistant message
  exec,       \* exec[r][k]: the ToolExecution of pausing call k
  stopIn,     \* stopIn[r]: a STOP input is queued
  lock,       \* agent:conversation:{id}:active_run
  msgs,       \* msgs[j]: copies of task message j in the broker
  pub,        \* publications under way: the row is committed, the send not
  resume,     \* _schedule_run_resume calls under way, each with the status
              \*   the execution had when its decision or expiry committed
  stopApi,    \* stop requests between the STOPPING update and the input
  cancelApi,  \* what stop requests have to do after the STOPPED commit: <<r, 0>>
              \*   list the open executions of r, <<r, k>> cancel the one of call k
  sweep,      \* sweep[r]: the status the sweep read for r, "none" otherwise,
              \*   and whether it then found the lock not to be r's
  pc,         \* pc[w]: where the worker is in run_agent_round
  wrun,       \* wrun[w]: the run it executes
  wcall,      \* wcall[w]: its payload's approval marker, later the pausing call
  turns,      \* turns[w]: iterations of its loop
  after,      \* after[w]: what follows its finally block
  claimed     \* claimed[w]: it passed claim_queued_run (history)

rowVars    == <<status, pending, marker, age, answer>>
brokerVars == <<msgs, pub>>
apiVars    == <<resume, stopApi, cancelApi>>
workerVars == <<wrun, wcall, turns, after, claimed>>
vars == <<rowVars, exec, stopIn, lock, brokerVars, apiVars, sweep, pc, workerVars>>

Calls   == 1..MaxCalls
Call0   == 0..MaxCalls
Jobs    == Runs \X Call0            \* a task message: the run and its marker

Terminal == {"completed", "stopped", "failed", "interrupted"}
InFlight == {"queued", "running", "stopping", "completing"}
Statuses == {"absent", "waiting"} \cup InFlight \cup Terminal
Decided == {"ready", "cancelled"}
ExecStatuses == {"none", "ask_user", "awaiting", "ready", "executing",
                 "done", "cancelled", "run_stopped"}
NotSwept == <<"none", FALSE>>
Ages == {"unstarted", "fresh", "old"}
Answers == {"none", "draft", "completed", "stopped"}

(* The try block of run_agent_round, and the part that owns the lock. *)
LoopSteps == {"head", "check", "turn", "drain", "last"}
TryBlock  == {"owned", "record", "rebuild", "park", "recheck", "mstop",
              "drop", "stop", "complete", "finalize", "completed"} \cup LoopSteps
Owning    == TryBlock \cup {"executing", "except", "release", "delete"}
BeforeTry == {"load", "claim", "precheck", "prestop", "premark", "acquire", "busy", "lockbusy"}
FailFrom  == [queued |-> "fail_queued", running |-> "fail_running",
              stopping |-> "fail_stopping", completing |-> "fail_completing"]
Safety    == {"safety"} \cup {FailFrom[s] : s \in InFlight}
Labels    == {"idle", "dispatch"} \cup Safety \cup BeforeTry \cup Owning

RowsOK ==
  /\ status \in [Runs -> Statuses]
  /\ pending \in [Runs -> Call0]
  /\ marker \in [Runs -> Call0]
  /\ age \in [Runs -> Ages]
  /\ answer \in [Runs -> Answers]

CallsOK == exec \in [Runs -> [Calls -> ExecStatuses]]

SharedOK ==
  /\ stopIn \in [Runs -> BOOLEAN]
  /\ lock \in Runs \cup {NoRun}
  /\ msgs \in [Jobs -> 0..MaxMsgs]
  /\ pub \subseteq Jobs
  /\ resume \subseteq Runs \X Calls \X Decided
  /\ stopApi \subseteq Runs
  /\ cancelApi \subseteq Runs \X Call0
  /\ sweep \in [Runs -> {"none", "running", "stopping"} \X BOOLEAN]

WorkersOK ==
  /\ pc \in [Workers -> Labels]
  /\ wrun \in [Workers -> Runs \cup {NoRun}]
  /\ wcall \in [Workers -> Call0]
  /\ turns \in [Workers -> 0..MaxTurns]
  /\ after \in [Workers -> {"return", "dispatch", "safety"}]
  /\ claimed \in [Workers -> BOOLEAN]
  /\ \A w \in Workers : pc[w] # "idle" => wrun[w] \in Runs

TypeOK == RowsOK /\ CallsOK /\ SharedOK /\ WorkersOK

Init ==
  /\ status = [r \in Runs |-> "absent"]
  /\ pending = [r \in Runs |-> 0]
  /\ marker = [r \in Runs |-> 0]
  /\ age = [r \in Runs |-> "unstarted"]
  /\ answer = [r \in Runs |-> "none"]
  /\ exec = [r \in Runs |-> [k \in Calls |-> "none"]]
  /\ stopIn = [r \in Runs |-> FALSE]
  /\ lock = NoRun
  /\ msgs = [j \in Jobs |-> 0]
  /\ pub = {}
  /\ resume = {}
  /\ stopApi = {}
  /\ cancelApi = {}
  /\ sweep = [r \in Runs |-> NotSwept]
  /\ pc = [w \in Workers |-> "idle"]
  /\ wrun = [w \in Workers |-> NoRun]
  /\ wcall = [w \in Workers |-> 0]
  /\ turns = [w \in Workers |-> 0]
  /\ after = [w \in Workers |-> "return"]
  /\ claimed = [w \in Workers |-> FALSE]
-----------------------------------------------------------------------------
(* Helpers *)

(* Mutant: the row is saved whatever its status. *)
TransitionBlind(r, allowed, s) == status' = [status EXCEPT ![r] = s]

(* _transition_active_run / transition_run_if_status: set the status if the *)
(* row still has one of the allowed ones, else leave the winner's.          *)
Transition(r, allowed, s) ==
  status' = IF status[r] \in allowed THEN [status EXCEPT ![r] = s] ELSE status

Goto(w, label) == pc' = [pc EXCEPT ![w] = label]

(* run_agent_round returned: the worker is free. *)
Return(w) ==
  /\ pc' = [pc EXCEPT ![w] = "idle"]
  /\ wrun' = [wrun EXCEPT ![w] = NoRun]
  /\ wcall' = [wcall EXCEPT ![w] = 0]
  /\ turns' = [turns EXCEPT ![w] = 0]
  /\ after' = [after EXCEPT ![w] = "return"]
  /\ claimed' = [claimed EXCEPT ![w] = FALSE]

(* Mutant: only approved calls are cancelled. *)
CancelReadyCalls(r, K) ==
  exec' = [exec EXCEPT ![r] =
             [k \in Calls |-> IF k \in K /\ exec[r][k] \in {"ready"}
                              THEN "run_stopped" ELSE exec[r][k]]]

(* cancel_execution with reason run_stopped, for the calls in K. *)
CancelCalls(r, K) ==
  exec' = [exec EXCEPT ![r] =
             [k \in Calls |-> IF k \in K /\ exec[r][k] \in {"awaiting", "ready"}
                              THEN "run_stopped" ELSE exec[r][k]]]

(* queue_agent_run_approval_resume finds the run waiting on call k, whose  *)
(* execution is ready or was cancelled with an error for the model.        *)
Resumable(r, k) ==
  /\ status[r] = "waiting" /\ pending[r] = k /\ k # 0
  /\ exec[r][k] \in Decided

(* The payload marks call k if its execution was read as ready. *)
ResumeMarker(s, k) == IF s = "ready" THEN k ELSE 0

(* Mutant: the payload of the row is not updated. *)
QueueResumeKeepsMarker(r, m) ==
  /\ status' = [status EXCEPT ![r] = "queued"]
  /\ pending' = [pending EXCEPT ![r] = 0]
  /\ UNCHANGED marker

(* The row is queued with marker m in its payload. *)
QueueResume(r, m) ==
  /\ status' = [status EXCEPT ![r] = "queued"]
  /\ pending' = [pending EXCEPT ![r] = 0]
  /\ marker' = [marker EXCEPT ![r] = m]

-----------------------------------------------------------------------------
(* Submission and dispatch *)

(* submit_chat_run: the row is committed as queued, the send follows. *)
Submit(r) ==
  /\ status[r] = "absent"
  /\ status' = [status EXCEPT ![r] = "queued"]
  /\ pub' = pub \cup {<<r, 0>>}
  /\ UNCHANGED <<pending, marker, age, answer, exec, stopIn, lock, msgs, apiVars,
                 sweep, pc, workerVars>>

(* apply_async succeeds. *)
Publish(j) ==
  /\ j \in pub /\ msgs[j] < MaxMsgs
  /\ msgs' = [msgs EXCEPT ![j] = @ + 1]
  /\ pub' = pub \ {j}
  /\ UNCHANGED <<rowVars, exec, stopIn, lock, apiVars, sweep, pc, workerVars>>

(* Mutant: the failed send is only logged. *)
PublishFailsSilently(j) ==
  /\ j \in pub
  /\ UNCHANGED status
  /\ pub' = pub \ {j}
  /\ UNCHANGED <<pending, marker, age, answer, exec, stopIn, lock, msgs, apiVars,
                 sweep, pc, workerVars>>

(* apply_async raises: the queued run is failed with enqueue_failed.  The  *)
(* IM runtimes (Redispatch) log a failed send of their own and leave the   *)
(* run queued for RedispatchQueued.                                        *)
PublishFails(j) ==
  /\ j \in pub
  /\ \/ Transition(j[1], {"queued"}, "failed")
     \/ Redispatch /\ UNCHANGED status
  /\ pub' = pub \ {j}
  /\ UNCHANGED <<pending, marker, age, answer, exec, stopIn, lock, msgs, apiVars,
                 sweep, pc, workerVars>>

(* _dispatch_or_defer of the IM runtimes: a run read as queued is sent     *)
(* again with the payload of its row.                                      *)
RedispatchQueued(r) ==
  /\ Redispatch
  /\ status[r] = "queued"
  /\ pub' = pub \cup {<<r, marker[r]>>}
  /\ UNCHANGED <<rowVars, exec, stopIn, lock, msgs, apiVars, sweep, pc, workerVars>>

-----------------------------------------------------------------------------
(* run_agent_round up to the lock *)

(* The task is received; acks_late = False, so the message is gone. *)
Receive(w, j) ==
  /\ pc[w] = "idle" /\ msgs[j] > 0
  /\ msgs' = [msgs EXCEPT ![j] = @ - 1]
  /\ wrun' = [wrun EXCEPT ![w] = j[1]]
  /\ wcall' = [wcall EXCEPT ![w] = j[2]]
  /\ Goto(w, "load")
  /\ UNCHANGED <<rowVars, exec, stopIn, lock, pub, apiVars, sweep,
                 turns, after, claimed>>

(* get_run: finished, waiting and completing runs are left alone. *)
Load(w) ==
  /\ pc[w] = "load"
  /\ LET s == status[wrun[w]] IN
       \/ /\ s \in Terminal \cup {"waiting", "completing"}
          /\ Return(w)
       \/ /\ s \in {"queued", "running", "stopping"}
          /\ Goto(w, CASE s = "queued"   -> "claim"
                       [] s = "running"  -> "precheck"
                       [] s = "stopping" -> "prestop")
          /\ UNCHANGED workerVars
  /\ UNCHANGED <<rowVars, exec, stopIn, lock, brokerVars, apiVars, sweep>>

(* claim_queued_run: row-locked queued -> running; started_at is set once. *)
Claim(w) ==
  /\ pc[w] = "claim"
  /\ LET r == wrun[w] IN
       \/ /\ status[r] = "queued"
          /\ status' = [status EXCEPT ![r] = "running"]
          /\ age' = [age EXCEPT ![r] = IF @ = "unstarted" THEN "fresh" ELSE @]
          /\ claimed' = [claimed EXCEPT ![w] = TRUE]
          /\ Goto(w, "precheck")
          /\ UNCHANGED <<wrun, wcall, turns, after>>
       \/ /\ status[r] # "queued"
          /\ Return(w)
          /\ UNCHANGED <<status, age>>
  /\ UNCHANGED <<pending, marker, answer, exec, stopIn, lock, brokerVars, apiVars, sweep>>

(* A stop already asked for wins; otherwise on to the lock. *)
PreCheck(w) ==
  /\ pc[w] = "precheck"
  /\ Goto(w, IF stopIn[wrun[w]] THEN "prestop" ELSE "acquire")
  /\ UNCHANGED <<rowVars, exec, stopIn, lock, brokerVars, apiVars, sweep, workerVars>>

(* Stopped before it started: an approved call is cancelled first, in a    *)
(* transaction whose failure is only logged, ...                           *)
PreStop(w) ==
  /\ pc[w] = "prestop"
  /\ CancelCalls(wrun[w], {wcall[w]}) \/ exec' = exec
  /\ Goto(w, "premark")
  /\ UNCHANGED <<rowVars, stopIn, lock, brokerVars, apiVars, sweep, workerVars>>

(* ... then the row is marked; also where Busy found a stop. *)
PreMark(w) ==
  /\ pc[w] = "premark"
  /\ Transition(wrun[w], {"running", "stopping"}, "stopped")
  /\ Return(w)
  /\ UNCHANGED <<pending, marker, age, answer, exec, stopIn, lock, brokerVars, apiVars, sweep>>

(* The agent or the conversation was deleted: context_lost. *)
ContextLost(w) ==
  /\ pc[w] = "acquire"
  /\ Transition(wrun[w], {"running", "stopping"}, "failed")
  /\ Return(w)
  /\ UNCHANGED <<pending, marker, age, answer, exec, stopIn, lock, brokerVars, apiVars, sweep>>

(* Mutant: SET without NX. *)
AcquireBlind(w) ==
  /\ pc[w] = "acquire"
  /\ lock' = wrun[w]
  /\ Goto(w, "owned")
  /\ UNCHANGED <<rowVars, exec, stopIn, brokerVars, apiVars, sweep, workerVars>>

(* acquire_run_lock: SET NX EX with the run id as value. *)
Acquire(w) ==
  /\ pc[w] = "acquire"
  /\ IF lock = NoRun
     THEN lock' = wrun[w] /\ Goto(w, "owned")
     ELSE lock' = lock /\ Goto(w, "busy")
  /\ UNCHANGED <<rowVars, exec, stopIn, brokerVars, apiVars, sweep, workerVars>>

(* The lock is held: a stop wins, otherwise the run is to fail. *)
Busy(w) ==
  /\ pc[w] = "busy"
  /\ Goto(w, IF status[wrun[w]] = "stopping" \/ stopIn[wrun[w]]
             THEN "premark" ELSE "lockbusy")
  /\ UNCHANGED <<rowVars, exec, stopIn, lock, brokerVars, apiVars, sweep, workerVars>>

(* running -> failed as lock_busy; a stop that came in between is left to  *)
(* the sweep.                                                              *)
LockBusy(w) ==
  /\ pc[w] = "lockbusy"
  /\ Transition(wrun[w], {"running"}, "failed")
  /\ Return(w)
  /\ UNCHANGED <<pending, marker, age, answer, exec, stopIn, lock, brokerVars, apiVars, sweep>>
-----------------------------------------------------------------------------
(* The approved call of a resumed run *)

(* The lock is owned.  Without a marker the context is rebuilt; with one, a *)
(* STOP input cancels the call, otherwise the call is executed first.       *)
Owned(w) ==
  /\ pc[w] = "owned"
  /\ LET r == wrun[w]
         k == wcall[w]
     IN \/ /\ k = 0
           /\ Goto(w, "rebuild")
           /\ exec' = exec
        \/ /\ k # 0 /\ stopIn[r]
           /\ CancelCalls(r, {k}) \/ exec' = exec
           /\ Goto(w, "drop")
        \/ /\ k # 0 /\ ~stopIn[r]
           /\ \/ /\ exec[r][k] = "ready"
                 /\ exec' = [exec EXCEPT ![r][k] = "executing"]
                 /\ Goto(w, "executing")
              \/ /\ exec[r][k] = "ready"       \* claim_execution: mismatch
                 /\ exec' = [exec EXCEPT ![r][k] = "cancelled"]
                 /\ Goto(w, "record")
              \/ /\ exec' = exec              \* refused, ready or not: an error result
                 /\ Goto(w, "record")
  /\ UNCHANGED <<rowVars, stopIn, lock, brokerVars, apiVars, sweep, workerVars>>

(* A stop before the approved call or during it: drop the inputs, then     *)
(* MarkStopped.                                                            *)
DropInputs(w) ==
  /\ pc[w] = "drop"
  /\ stopIn' = [stopIn EXCEPT ![wrun[w]] = FALSE]
  /\ Goto(w, "stop")
  /\ UNCHANGED <<rowVars, exec, lock, brokerVars, apiVars, sweep, workerVars>>

(* The call returns, with a result or an error; its outcome is recorded. *)
FinishApproved(w) ==
  /\ pc[w] = "executing"
  /\ exec' = [exec EXCEPT ![wrun[w]][wcall[w]] =
                IF @ = "executing" THEN "done" ELSE @]
  /\ Goto(w, "record")
  /\ UNCHANGED <<rowVars, stopIn, lock, brokerVars, apiVars, sweep, workerVars>>

(* record_resumed_tool_result: only a running row takes the result.  The   *)
(* marker leaves the payload; a stop that came in the meantime is honoured.*)
RecordResult(w) ==
  /\ pc[w] = "record"
  /\ LET r == wrun[w] IN
       \/ /\ status[r] = "running"
          /\ marker' = [marker EXCEPT ![r] = 0]
          /\ wcall' = [wcall EXCEPT ![w] = 0]
          /\ Goto(w, "rebuild")
       \/ /\ status[r] # "running"
          /\ Goto(w, IF status[r] = "stopping" THEN "drop" ELSE "release")
          /\ UNCHANGED <<marker, wcall>>
  /\ UNCHANGED <<status, pending, age, answer, exec, stopIn, lock, brokerVars,
                 apiVars, sweep, wrun, turns, after, claimed>>

-----------------------------------------------------------------------------
(* The agent loop between its safe points *)

(* _rebuild_context, begin_round and the draft message. *)
Rebuild(w) ==
  /\ pc[w] = "rebuild"
  /\ answer' = [answer EXCEPT ![wrun[w]] = IF @ = "none" THEN "draft" ELSE @]
  /\ Goto(w, "head")
  /\ UNCHANGED <<status, pending, marker, age, exec, stopIn, lock, brokerVars,
                 apiVars, sweep, workerVars>>

(* Mutant: the iteration cap is not tested. *)
LoopHeadUncapped(w) ==
  /\ pc[w] = "head"
  /\ turns' = [turns EXCEPT ![w] = @ + 1]
  /\ stopIn' = [stopIn EXCEPT ![wrun[w]] = FALSE]
  /\ Goto(w, "check")
  /\ UNCHANGED <<rowVars, exec, lock, brokerVars, apiVars, sweep,
                 wrun, wcall, after, claimed>>

(* The head of an iteration: over at max_iterations, else every queued     *)
(* input is consumed, a STOP included.                                     *)
LoopHead(w) ==
  /\ pc[w] = "head"
  /\ \/ /\ turns[w] >= MaxTurns
        /\ Goto(w, "complete")
        /\ UNCHANGED <<stopIn, turns>>
     \/ /\ turns[w] < MaxTurns
        /\ turns' = [turns EXCEPT ![w] = @ + 1]
        /\ stopIn' = [stopIn EXCEPT ![wrun[w]] = FALSE]
        /\ Goto(w, "check")
  /\ UNCHANGED <<rowVars, exec, lock, brokerVars, apiVars, sweep,
                 wrun, wcall, after, claimed>>

(* stop_requested: a STOP input is queued (the worker's copy of the row is *)
(* never read again, so STOPPING alone is not seen).                       *)
LoopCheck(w) ==
  /\ pc[w] = "check"
  /\ Goto(w, IF stopIn[wrun[w]] THEN "mstop" ELSE "turn")
  /\ UNCHANGED <<rowVars, exec, stopIn, lock, brokerVars, apiVars, sweep, workerVars>>

(* The model turn and its tools, without a pause: a stop seen between two  *)
(* chunks or tool groups, the deadline, tool results to go on with, the    *)
(* iteration cap, or a final answer with no stop at the first check.       *)
Turn(w) ==
  /\ pc[w] = "turn"
  /\ \/ Goto(w, "mstop")                             \* deadline, or stop seen
     \/ Goto(w, IF turns[w] >= MaxTurns THEN "complete" ELSE "head")
     \/ ~stopIn[wrun[w]] /\ Goto(w, "drain")
  /\ UNCHANGED <<rowVars, exec, stopIn, lock, brokerVars, apiVars, sweep, workerVars>>

(* A tool asks for the user: ask_user, or an execution awaiting approval   *)
(* (create_execution commits before the run is parked).                    *)
TurnPauses(w) ==
  /\ pc[w] = "turn"
  /\ \E k \in Calls, kind \in {"ask_user", "awaiting"} :
       /\ exec[wrun[w]][k] = "none"
       /\ \A i \in Calls : i < k => exec[wrun[w]][i] # "none"
       /\ exec' = [exec EXCEPT ![wrun[w]][k] = kind]
       /\ wcall' = [wcall EXCEPT ![w] = k]
  /\ Goto(w, "park")
  /\ UNCHANGED <<rowVars, stopIn, lock, brokerVars, apiVars, sweep,
                 wrun, turns, after, claimed>>

(* The end of the round: inputs that came since the check start another    *)
(* iteration; then a last check.                                           *)
Drain(w) ==
  /\ pc[w] = "drain"
  /\ stopIn' = [stopIn EXCEPT ![wrun[w]] = FALSE]
  /\ Goto(w, IF stopIn[wrun[w]] THEN "head" ELSE "last")
  /\ UNCHANGED <<rowVars, exec, lock, brokerVars, apiVars, sweep, workerVars>>

LastCheck(w) ==
  /\ pc[w] = "last"
  /\ Goto(w, IF stopIn[wrun[w]] THEN "mstop" ELSE "complete")
  /\ UNCHANGED <<rowVars, exec, stopIn, lock, brokerVars, apiVars, sweep, workerVars>>

-----------------------------------------------------------------------------
(* The outcomes of the loop *)

(* park_run_waiting: only a running row is parked, otherwise it raises. *)
Park(w) ==
  /\ pc[w] = "park"
  /\ LET r == wrun[w] IN
       \/ /\ status[r] = "running"
          /\ status' = [status EXCEPT ![r] = "waiting"]
          /\ pending' = [pending EXCEPT ![r] = wcall[w]]
          /\ marker' = [marker EXCEPT ![r] = 0]
          /\ Goto(w, "recheck")
       \/ /\ status[r] # "running"
          /\ Goto(w, "except")
          /\ UNCHANGED <<status, pending, marker>>
  /\ UNCHANGED <<age, answer, exec, stopIn, lock, brokerVars, apiVars, sweep, workerVars>>

(* Mutant: the park is not followed by the re-check. *)
RecheckSkipped(w) ==
  /\ pc[w] = "recheck"
  /\ Goto(w, "release")
  /\ UNCHANGED <<rowVars, exec, stopIn, lock, brokerVars, apiVars, sweep, workerVars>>

(* queue_agent_run_resume_if_approval_terminal: the decision may have come *)
(* before the park; the resume is dispatched once the lock is released.    *)
Recheck(w) ==
  /\ pc[w] = "recheck"
  /\ LET r == wrun[w]
         k == wcall[w]
         m == ResumeMarker(exec[r][k], k)
     IN IF Resumable(r, k)
        THEN /\ QueueResume(r, m)
             /\ wcall' = [wcall EXCEPT ![w] = m]
             /\ after' = [after EXCEPT ![w] = "dispatch"]
        ELSE UNCHANGED <<status, pending, marker, wcall, after>>
  /\ Goto(w, "release")
  /\ UNCHANGED <<age, answer, exec, stopIn, lock, brokerVars, apiVars, sweep,
                 wrun, turns, claimed>>

(* Stopped by the user or the deadline: drop the inputs, _finalize_stopped, *)
(* then the transition.                                                     *)
FinalizeStopped(w) ==
  /\ pc[w] = "mstop"
  /\ stopIn' = [stopIn EXCEPT ![wrun[w]] = FALSE]
  /\ answer' = [answer EXCEPT ![wrun[w]] = "stopped"]
  /\ Goto(w, "stop")
  /\ UNCHANGED <<status, pending, marker, age, exec, lock, brokerVars, apiVars,
                 sweep, workerVars>>

MarkStopped(w) ==
  /\ pc[w] = "stop"
  /\ Transition(wrun[w], {"running", "stopping"}, "stopped")
  /\ Goto(w, "release")
  /\ UNCHANGED <<pending, marker, age, answer, exec, stopIn, lock, brokerVars,
                 apiVars, sweep, workerVars>>

(* Mutant: the final answer is not written. *)
ClaimCompletionUnwritten(w) ==
  /\ pc[w] = "complete"
  /\ LET r == wrun[w] IN
       \/ /\ status[r] = "running"
          /\ status' = [status EXCEPT ![r] = "completing"]
          /\ Goto(w, "completed")
       \/ /\ status[r] = "stopping"
          /\ Goto(w, "mstop")
          /\ UNCHANGED status
       \/ /\ status[r] \notin {"running", "stopping"}
          /\ Goto(w, "release")
          /\ UNCHANGED status
  /\ UNCHANGED <<pending, marker, age, answer, exec, stopIn, lock, brokerVars,
                 apiVars, sweep, workerVars>>

(* running -> completing claims the completion; a stop that won is served. *)
ClaimCompletion(w) ==
  /\ pc[w] = "complete"
  /\ LET r == wrun[w] IN
       \/ /\ status[r] = "running"
          /\ status' = [status EXCEPT ![r] = "completing"]
          /\ Goto(w, "finalize")
       \/ /\ status[r] = "stopping"
          /\ Goto(w, "mstop")
          /\ UNCHANGED status
       \/ /\ status[r] \notin {"running", "stopping"}
          /\ Goto(w, "release")
          /\ UNCHANGED status
  /\ UNCHANGED <<pending, marker, age, answer, exec, stopIn, lock, brokerVars,
                 apiVars, sweep, workerVars>>

(* drop_pending_inputs and _finalize_completed. *)
FinalizeCompleted(w) ==
  /\ pc[w] = "finalize"
  /\ stopIn' = [stopIn EXCEPT ![wrun[w]] = FALSE]
  /\ answer' = [answer EXCEPT ![wrun[w]] = "completed"]
  /\ Goto(w, "completed")
  /\ UNCHANGED <<status, pending, marker, age, exec, lock, brokerVars, apiVars,
                 sweep, workerVars>>

MarkCompleted(w) ==
  /\ pc[w] = "completed"
  /\ Transition(wrun[w], {"completing"}, "completed")
  /\ Goto(w, "release")
  /\ UNCHANGED <<pending, marker, age, answer, exec, stopIn, lock, brokerVars,
                 apiVars, sweep, workerVars>>
-----------------------------------------------------------------------------
(* Errors, the finally block, the safety net *)

(* A model, tool, sandbox, database or Redis call raises; in the handler   *)
(* itself, the finally block still runs before the task's safety net.      *)
WorkerError(w) ==
  /\ Errors
  /\ \/ pc[w] \in TryBlock /\ Goto(w, "except") /\ UNCHANGED after
     \/ /\ pc[w] = "except" /\ after[w] = "return"
        /\ Goto(w, "release") /\ after' = [after EXCEPT ![w] = "safety"]
     \/ pc[w] \in BeforeTry \cup {"release", "delete"} /\ Goto(w, "safety") /\ UNCHANGED after
  /\ UNCHANGED <<rowVars, exec, stopIn, lock, brokerVars, apiVars, sweep,
                 wrun, wcall, turns, claimed>>

Except(w) ==
  /\ pc[w] = "except"
  /\ Transition(wrun[w], {"running", "stopping", "completing"}, "failed")
  /\ Goto(w, "release")
  /\ UNCHANGED <<pending, marker, age, answer, exec, stopIn, lock, brokerVars,
                 apiVars, sweep, workerVars>>

(* After the lock: return, the deferred resume, or the exception goes on. *)
AfterRelease(w) ==
  IF after[w] = "return" THEN Return(w) ELSE Goto(w, after[w]) /\ UNCHANGED workerVars

(* release_run_lock, the GET: only the run's own value is deleted. *)
ReleaseGet(w) ==
  /\ pc[w] = "release"
  /\ \/ lock = wrun[w] /\ Goto(w, "delete") /\ UNCHANGED workerVars
     \/ lock # wrun[w] /\ AfterRelease(w)
  /\ UNCHANGED <<rowVars, exec, stopIn, lock, brokerVars, apiVars, sweep>>

(* release_run_lock, the DELETE: a command of its own. *)
ReleaseDelete(w) ==
  /\ pc[w] = "delete"
  /\ lock' = NoRun
  /\ AfterRelease(w)
  /\ UNCHANGED <<rowVars, exec, stopIn, brokerVars, apiVars, sweep>>

(* The deferred resume of a call decided before the park. *)
DispatchDeferred(w) ==
  /\ pc[w] = "dispatch"
  /\ LET j == <<wrun[w], wcall[w]>> IN
       \/ /\ msgs[j] < MaxMsgs
          /\ msgs' = [msgs EXCEPT ![j] = @ + 1]
          /\ UNCHANGED status
       \/ /\ Transition(j[1], {"queued"}, "failed")
          /\ UNCHANGED msgs
  /\ Return(w)
  /\ UNCHANGED <<pending, marker, age, answer, exec, stopIn, lock, pub, apiVars, sweep>>

(* Mutant: only started runs are failed. *)
SafetyNetSkipsQueued(w) ==
  /\ pc[w] = "safety"
  /\ LET s == status[wrun[w]] IN
       IF s \in InFlight \ {"queued"}
       THEN Goto(w, FailFrom[s]) /\ UNCHANGED workerVars
       ELSE Return(w)
  /\ UNCHANGED <<rowVars, exec, stopIn, lock, brokerVars, apiVars, sweep>>

(* run_agent_task: when the round raised, a run still in flight ... *)
SafetyNet(w) ==
  /\ pc[w] = "safety"
  /\ LET s == status[wrun[w]] IN
       IF s \in InFlight
       THEN Goto(w, FailFrom[s]) /\ UNCHANGED workerVars
       ELSE Return(w)
  /\ UNCHANGED <<rowVars, exec, stopIn, lock, brokerVars, apiVars, sweep>>

(* ... is failed if its status is still the one read; no second try. *)
SafetyFail(w) ==
  /\ \E s \in InFlight :
       pc[w] = FailFrom[s] /\ Transition(wrun[w], {s}, "failed")
  /\ Return(w)
  /\ UNCHANGED <<pending, marker, age, answer, exec, stopIn, lock, brokerVars, apiVars, sweep>>

-----------------------------------------------------------------------------
(* The endpoints *)

(* stop_waiting_run / stop_queued_run: stopped under the row lock, then    *)
(* cancel_pending_for_run: ListPending, CancelPending.                     *)
StopParked(r) ==
  /\ status[r] \in {"waiting", "queued"}
  /\ status' = [status EXCEPT ![r] = "stopped"]
  /\ pending' = [pending EXCEPT ![r] = 0]
  /\ cancelApi' = cancelApi \cup {<<r, 0>>}
  /\ UNCHANGED <<marker, age, answer, exec, stopIn, lock, brokerVars, resume,
                 stopApi, sweep, pc, workerVars>>

(* The open executions of the run are listed, ... *)
ListPending(r) ==
  /\ <<r, 0>> \in cancelApi
  /\ cancelApi' = (cancelApi \ {<<r, 0>>})
                    \cup {<<r, k>> : k \in {i \in Calls : exec[r][i] \in {"awaiting", "ready"}}}
  /\ UNCHANGED <<rowVars, exec, stopIn, lock, brokerVars, resume, stopApi, sweep,
                 pc, workerVars>>

(* ... then cancelled, each in a transaction of its own. *)
CancelPending(r, k) ==
  /\ <<r, k>> \in cancelApi
  /\ CancelCalls(r, {k})
  /\ cancelApi' = cancelApi \ {<<r, k>>}
  /\ UNCHANGED <<rowVars, stopIn, lock, brokerVars, resume, stopApi, sweep, pc, workerVars>>

(* stop_run on a running or stopping run: running -> stopping ... *)
StopRunning(r) ==
  /\ status[r] \in {"running", "stopping"}
  /\ status' = [status EXCEPT ![r] = "stopping"]
  /\ stopApi' = stopApi \cup {r}
  /\ UNCHANGED <<pending, marker, age, answer, exec, stopIn, lock, brokerVars,
                 resume, cancelApi, sweep, pc, workerVars>>

(* ... then the STOP input, refused on a finished run. *)
EnqueueStop(r) ==
  /\ r \in stopApi
  /\ stopIn' = [stopIn EXCEPT ![r] = @ \/ status[r] \notin Terminal]
  /\ stopApi' = stopApi \ {r}
  /\ UNCHANGED <<rowVars, exec, lock, brokerVars, resume, cancelApi, sweep, pc, workerVars>>

(* post_run_input with delivery "stop": the input alone. *)
PostStopInput(r) ==
  /\ status[r] \notin Terminal \cup {"absent"}
  /\ stopIn' = [stopIn EXCEPT ![r] = TRUE]
  /\ UNCHANGED <<rowVars, exec, lock, brokerVars, apiVars, sweep, pc, workerVars>>

(* Mutant: pending_tool_call_id is not cleared. *)
SubmitAnswersKeepsCall(r) ==
  /\ status[r] = "waiting" /\ pending[r] # 0
  /\ exec[r][pending[r]] = "ask_user"
  /\ status' = [status EXCEPT ![r] = "queued"]
  /\ UNCHANGED pending
  /\ pub' = pub \cup {<<r, marker[r]>>}
  /\ UNCHANGED <<marker, age, answer, exec, stopIn, lock, msgs, apiVars, sweep,
                 pc, workerVars>>

(* submit_user_answers, then the send of the resumed payload. *)
SubmitAnswers(r) ==
  /\ status[r] = "waiting" /\ pending[r] # 0
  /\ exec[r][pending[r]] = "ask_user"
  /\ status' = [status EXCEPT ![r] = "queued"]
  /\ pending' = [pending EXCEPT ![r] = 0]
  /\ pub' = pub \cup {<<r, marker[r]>>}
  /\ UNCHANGED <<marker, age, answer, exec, stopIn, lock, msgs, apiVars, sweep,
                 pc, workerVars>>

-----------------------------------------------------------------------------
(* Tool approvals, seen from the run *)

(* decide_approval commits the last vote or a rejection. *)
Decide(r, k) ==
  /\ exec[r][k] = "awaiting"
  /\ \E s \in Decided : /\ exec' = [exec EXCEPT ![r][k] = s]
                        /\ resume' = resume \cup {<<r, k, s>>}
  /\ UNCHANGED <<rowVars, stopIn, lock, brokerVars, stopApi, cancelApi, sweep, pc, workerVars>>

(* expire_execution: the deadline of an undecided or unclaimed execution. *)
Expire(r, k) ==
  /\ exec[r][k] \in {"awaiting", "ready"}
  /\ exec' = [exec EXCEPT ![r][k] = "cancelled"]
  /\ resume' = resume \cup {<<r, k, "cancelled">>}
  /\ UNCHANGED <<rowVars, stopIn, lock, brokerVars, stopApi, cancelApi, sweep, pc, workerVars>>

(* _schedule_run_resume -> schedule_agent_run_approval_resume: the         *)
(* execution is read first, as the commit left it or as it is now; then    *)
(* the row is locked, queued if it waits on the call, and sent.            *)
ScheduleResume(r, k) ==
  /\ \E s \in Decided :
       /\ <<r, k, s>> \in resume
       /\ resume' = resume \ {<<r, k, s>>}
       /\ \/ /\ Resumable(r, k)
             /\ \E seen \in {s, exec[r][k]} :
                  /\ QueueResume(r, ResumeMarker(seen, k))
                  /\ pub' = pub \cup {<<r, ResumeMarker(seen, k)>>}
          \/ ~Resumable(r, k) /\ UNCHANGED <<status, pending, marker, pub>>
  /\ UNCHANGED <<age, answer, exec, stopIn, lock, msgs, stopApi, cancelApi, sweep,
                 pc, workerVars>>

(* mark_stale_executing_outcome_unknown: a claim nobody will finish. *)
StaleClaim(r, k) ==
  /\ exec[r][k] = "executing" /\ status[r] \in Terminal
  /\ exec' = [exec EXCEPT ![r][k] = "done"]
  /\ UNCHANGED <<rowVars, stopIn, lock, brokerVars, apiVars, sweep, pc, workerVars>>

-----------------------------------------------------------------------------
(* Time, the worker-loss sweep, crashes *)

(* started_at falls behind the cutoff (120 s); nothing ever resets it.     *)
(* The few commands between a claim and the lock take less, except in a    *)
(* worker that stalls (LeaseLoss).                                         *)
GrowOld(r) ==
  /\ age[r] = "fresh"
  /\ LeaseLoss \/ \A w \in Workers : wrun[w] = r => pc[w] \notin BeforeTry
  /\ age' = [age EXCEPT ![r] = "old"]
  /\ UNCHANGED <<status, pending, marker, answer, exec, stopIn, lock, brokerVars,
                 apiVars, sweep, pc, workerVars>>

(* The lease (60 s) runs out: nobody's heartbeat refreshes it, and the few *)
(* commands after the last heartbeat are long over.  With LeaseLoss also   *)
(* under a live owner (Redis restarts, a stalled process).                 *)
LeaseExpires ==
  /\ lock # NoRun
  /\ LeaseLoss \/ \A w \in Workers : pc[w] \in Owning \cup Safety => wrun[w] # lock
  /\ lock' = NoRun
  /\ UNCHANGED <<rowVars, exec, stopIn, brokerVars, apiVars, sweep, pc, workerVars>>

(* Mutant: stopping runs are forgotten. *)
SweepReadsRunning(r) ==
  /\ sweep[r] = NotSwept
  /\ status[r] = "running" /\ age[r] = "old"
  /\ sweep' = [sweep EXCEPT ![r] = <<status[r], FALSE>>]
  /\ UNCHANGED <<rowVars, exec, stopIn, lock, brokerVars, apiVars, pc, workerVars>>

(* mark_expired_runs_interrupted: the rows are read, ... *)
SweepRead(r) ==
  /\ sweep[r] = NotSwept
  /\ status[r] \in {"running", "stopping"} /\ age[r] = "old"
  /\ sweep' = [sweep EXCEPT ![r] = <<status[r], FALSE>>]
  /\ UNCHANGED <<rowVars, exec, stopIn, lock, brokerVars, apiVars, pc, workerVars>>

(* ... then the lock, ... *)
SweepCheck(r) ==
  /\ sweep[r] # NotSwept /\ ~sweep[r][2]
  /\ sweep' = [sweep EXCEPT ![r] = IF lock = r THEN NotSwept ELSE <<sweep[r][1], TRUE>>]
  /\ UNCHANGED <<rowVars, exec, stopIn, lock, brokerVars, apiVars, pc, workerVars>>

(* ... and the row is interrupted if its status is still the one read. *)
SweepMark(r) ==
  /\ sweep[r][2]
  /\ Transition(r, {sweep[r][1]}, "interrupted")
  /\ sweep' = [sweep EXCEPT ![r] = NotSwept]
  /\ UNCHANGED <<pending, marker, age, answer, exec, stopIn, lock, brokerVars,
                 apiVars, pc, workerVars>>

(* A worker process is killed: no handler, no finally block. *)
WorkerDies(w) ==
  /\ Crash /\ pc[w] # "idle"
  /\ Return(w)
  /\ UNCHANGED <<rowVars, exec, stopIn, lock, brokerVars, apiVars, sweep>>

(* An API or scheduler process is killed after its commit. *)
ApiDies ==
  /\ Crash
  /\ \/ \E j \in pub : pub' = pub \ {j} /\ UNCHANGED apiVars
     \/ \E d \in resume : resume' = resume \ {d} /\ UNCHANGED <<pub, stopApi, cancelApi>>
     \/ \E r \in stopApi : stopApi' = stopApi \ {r} /\ UNCHANGED <<pub, resume, cancelApi>>
     \/ \E c \in cancelApi : /\ cancelApi' = {d \in cancelApi : d[1] # c[1]}
                             /\ UNCHANGED <<pub, resume, stopApi>>
  /\ UNCHANGED <<rowVars, exec, stopIn, lock, msgs, sweep, pc, workerVars>>

-----------------------------------------------------------------------------
(* A worker's own next step, when nothing raises. *)
WorkerStep(w) ==
  \/ Load(w) \/ Claim(w) \/ PreCheck(w) \/ PreStop(w) \/ PreMark(w) \/ Acquire(w) \/ Busy(w) \/ LockBusy(w)
  \/ Owned(w) \/ DropInputs(w) \/ FinishApproved(w) \/ RecordResult(w) \/ Rebuild(w)
  \/ LoopHead(w) \/ LoopCheck(w) \/ Turn(w) \/ TurnPauses(w) \/ Drain(w) \/ LastCheck(w)
  \/ Park(w) \/ Recheck(w) \/ FinalizeStopped(w) \/ MarkStopped(w)
  \/ ClaimCompletion(w) \/ FinalizeCompleted(w) \/ MarkCompleted(w)
  \/ Except(w) \/ ReleaseGet(w) \/ ReleaseDelete(w) \/ DispatchDeferred(w) \/ SafetyNet(w) \/ SafetyFail(w)

Dispatching == \E j \in Jobs : Publish(j) \/ PublishFails(j)

Endpoints(r) ==
  \/ Submit(r) \/ RedispatchQueued(r)
  \/ StopParked(r) \/ ListPending(r) \/ StopRunning(r) \/ EnqueueStop(r)
  \/ PostStopInput(r) \/ SubmitAnswers(r)

Approvals(r, k) ==
  \/ Decide(r, k) \/ Expire(r, k) \/ ScheduleResume(r, k) \/ StaleClaim(r, k)
  \/ CancelPending(r, k)

Next ==
  \/ \E w \in Workers : WorkerStep(w) \/ ContextLost(w) \/ WorkerError(w) \/ WorkerDies(w)
  \/ \E w \in Workers, j \in Jobs : Receive(w, j)
  \/ Dispatching
  \/ \E r \in Runs : Endpoints(r) \/ GrowOld(r) \/ SweepRead(r) \/ SweepCheck(r) \/ SweepMark(r)
  \/ \E r \in Runs, k \in Calls : Approvals(r, k)
  \/ LeaseExpires
  \/ ApiDies

(* Processes that are not killed go on; Celery delivers; beat runs both    *)
(* sweeps; leases run out.  Users owe nothing: no fairness for Submit, the *)
(* stop endpoints, answers or decisions.                                   *)
Fairness ==
  /\ \A w \in Workers : WF_vars(WorkerStep(w))
  /\ WF_vars(\E w \in Workers, j \in Jobs : Receive(w, j))
  /\ WF_vars(Dispatching)
  /\ \A r \in Runs :
       /\ WF_vars(ListPending(r)) /\ WF_vars(EnqueueStop(r))
       /\ WF_vars(GrowOld(r))
       /\ WF_vars(SweepRead(r)) /\ WF_vars(SweepCheck(r)) /\ WF_vars(SweepMark(r))
       /\ \A k \in Calls : /\ WF_vars(Expire(r, k)) /\ WF_vars(ScheduleResume(r, k))
                          /\ WF_vars(CancelPending(r, k))
  /\ WF_vars(LeaseExpires)

Spec == Init /\ [][Next]_vars
FairSpec == Spec /\ Fairness
-----------------------------------------------------------------------------
(* Properties *)

(* "One active run per conversation": while leases are not lost, at most   *)
(* one worker is between acquire_run_lock and the end of release_run_lock, *)
(* and the lock names its run, whatever duplicates, errors and kills.      *)
OneActiveWorker ==
  ~LeaseLoss =>
    \A v, w \in Workers :
      /\ pc[w] \in Owning => lock = wrun[w]
      /\ pc[v] \in Owning /\ pc[w] \in Owning => v = w

(* A run is waiting exactly when its row names the call it waits for, and  *)
(* that call is not one that was already answered or executed.             *)
WaitingHasPendingCall ==
  \A r \in Runs :
    /\ status[r] = "waiting" <=> pending[r] # 0
    /\ pending[r] # 0 => exec[r][pending[r]] \in {"ask_user", "awaiting", "ready", "cancelled"}

(* No process killed, and no IM channel to send the run again: a queued    *)
(* run always has its message in the broker, or someone about to send it,  *)
(* or a worker about to claim it or fail it.                               *)
QueuedIsDispatched ==
  ~Crash /\ ~Redispatch => \A r \in Runs : status[r] = "queued" =>
    \/ \E k \in Call0 : <<r, k>> \in pub \/ msgs[<<r, k>>] > 0
    \/ \E w \in Workers : wrun[w] = r /\ (after[w] # "return" \/ pc[w] \in {"load", "claim", "safety", "fail_queued"})

(* Without a second dispatch of the same run, the message on its way to a  *)
(* queued run carries the payload of the row: an approved call is not      *)
(* forgotten and not executed for another resume.                          *)
PayloadIsCurrent ==
  ~Redispatch => \A r \in Runs, k \in Call0 : status[r] = "queued" =>
    /\ <<r, k>> \in pub \/ msgs[<<r, k>>] > 0 => k = marker[r]
    /\ \A w \in Workers : wrun[w] = r /\ pc[w] \in {"load", "claim"} => wcall[w] = marker[r]

(* _cancel_pending_tool_executions: "Stop is terminal: an outstanding      *)
(* approval must not stay actionable".  Once the stop endpoint is through  *)
(* with a run, no approval of it can still be decided.                     *)
StoppedNotActionable ==
  ~Crash /\ ~Redispatch => \A r \in Runs, k \in Calls :
    status[r] = "stopped" /\ <<r, 0>> \notin cancelApi /\ <<r, k>> \notin cancelApi
      => exec[r][k] # "awaiting"

(* dispatch_run: "a duplicate publish never executes the run twice": no    *)
(* worker is in the loop of a run that was already completed.  The code    *)
(* does not keep this promise (run_twice): a duplicate that read RUNNING   *)
(* skips the claim and takes the lock once the first round has released it.*)
NeverExecutedTwice ==
  \A w \in Workers : pc[w] \in LoopSteps => status[wrun[w]] # "completed"

(* A run is completed with its final answer written, and no later step of  *)
(* any process turns that answer back into a stopped one.                  *)
FinalAnswerKept ==
  [][\A r \in Runs :
       /\ status'[r] = "completed" => answer'[r] = "completed"
       /\ answer[r] = "completed" => answer'[r] = "completed"]_vars

(* "Another run is active for this conversation": a run that fails because *)
(* the lock is taken does not fail for a lock of its own.                  *)
BusyWithAnother ==
  [][\A w \in Workers : pc[w] = "lockbusy" /\ status[wrun[w]] = "running"
        /\ status'[wrun[w]] = "failed" => lock # wrun[w]]_vars

-----------------------------------------------------------------------------
(* Liveness, under FairSpec *)

(* No run stays in flight: it finishes or parks, under errors, stops,      *)
(* inputs and decisions at any point.  Holds while no process is killed.   *)
InFlightEnds ==
  \A r \in Runs : (status[r] \in InFlight) ~> (status[r] \notin InFlight)

(* Workers and endpoints may be killed anywhere: a run left running or     *)
(* stopping still ends, by its worker or by the sweep.                     *)
LostWorkerSwept ==
  \A r \in Runs :
    (status[r] \in {"running", "stopping"}) ~> (status[r] \notin {"running", "stopping"})

(* A run parked on a tool approval does not wait forever, even if nobody   *)
(* decides (the expiry task is its caller of last resort) and even if the  *)
(* decision came before the park; unless the parking pass raises after it. *)
ApprovalParkEnds ==
  \A r \in Runs, k \in Calls :
    /\ status[r] = "waiting" /\ pending[r] = k
    /\ \/ exec[r][k] \in {"awaiting", "ready"}
       \/ exec[r][k] = "cancelled" /\ \E w \in Workers : wrun[w] = r /\ pc[w] = "recheck"
    ~> \/ status[r] # "waiting" \/ pending[r] # k
       \/ \E w \in Workers : wrun[w] = r /\ pc[w] = "except"

-----------------------------------------------------------------------------
(* The run lifecycle of RunLifecycle is what the rows go through. *)
Lifecycle == INSTANCE RunLifecycle WITH Runs <- Runs, status <- status
ImplementsLifecycle == Lifecycle!Spec
===============================================================================
