---------------------------- MODULE AgentRunProofs ----------------------------
(***************************************************************************)
(* Theorems about AgentRun for every set of runs and workers, every bound  *)
(* and every choice of faults.                                             *)
(***************************************************************************)
EXTENDS AgentRun, TLAPS

-----------------------------------------------------------------------------
(* Lemmas: what the helpers preserve *)

(* A part of the state that a step leaves alone keeps its type. *)
LEMMA StaysOK ==
  ASSUME TypeOK
  PROVE  /\ UNCHANGED <<status, pending, marker, age, answer>> => RowsOK'
         /\ UNCHANGED exec => CallsOK'
         /\ UNCHANGED <<stopIn, lock, msgs, pub, resume, stopApi, cancelApi, sweep>>
              => SharedOK'
         /\ UNCHANGED <<pc, wrun, wcall, turns, after, claimed>> => WorkersOK'
  BY DEF TypeOK, RowsOK, CallsOK, SharedOK, WorkersOK

(* The labels a worker may be sent to. *)
LEMMA LabelsKnown ==
  /\ TryBlock \subseteq Labels /\ BeforeTry \subseteq Labels /\ Safety \subseteq Labels
  /\ {"idle", "dispatch", "executing", "except", "release", "delete"} \subseteq Labels
  BY DEF Labels, Owning

(* A worker that has a run goes on to another label. *)
LEMMA GotoOK ==
  ASSUME WorkersOK, NEW w \in Workers, NEW l \in Labels, pc[w] # "idle",
         Goto(w, l), UNCHANGED workerVars
  PROVE  WorkersOK'
  BY DEF WorkersOK, Goto, workerVars

(* run_agent_round returns, from anywhere. *)
LEMMA ReturnOK ==
  ASSUME WorkersOK, NEW w \in Workers, Return(w)
  PROVE  WorkersOK'
  BY AgentRunAssumption DEF WorkersOK, Return, Labels, Call0

(* A compare-and-set of the status. *)
LEMMA TransitionOK ==
  ASSUME RowsOK, NEW r \in Runs, NEW allowed, NEW s \in Statuses,
         Transition(r, allowed, s), UNCHANGED <<pending, marker, age, answer>>
  PROVE  RowsOK'
  BY DEF RowsOK, Transition

(* cancel_execution on some of the calls of a run. *)
LEMMA CancelOK ==
  ASSUME CallsOK, NEW r \in Runs, NEW K, CancelCalls(r, K)
  PROVE  CallsOK'
  BY DEF CallsOK, CancelCalls, ExecStatuses

(* One call of one run gets another status. *)
LEMMA CallOK ==
  ASSUME CallsOK, NEW r \in Runs, NEW k, NEW s \in ExecStatuses,
         exec' = [exec EXCEPT ![r][k] = s]
  PROVE  CallsOK'
  BY DEF CallsOK

(* queue_agent_run_approval_resume. *)
LEMMA QueueResumeOK ==
  ASSUME RowsOK, NEW r \in Runs, NEW m \in Call0, QueueResume(r, m),
         UNCHANGED <<age, answer>>
  PROVE  RowsOK'
  BY AgentRunAssumption DEF RowsOK, QueueResume, Statuses, InFlight, Call0

(* The marker a resume carries is a call or none. *)
LEMMA MarkerOK ==
  ASSUME NEW s, NEW k \in Call0
  PROVE  ResumeMarker(s, k) \in Call0
  BY AgentRunAssumption DEF ResumeMarker, Call0

(* A message more or a message less. *)
LEMMA MsgsOK ==
  ASSUME msgs \in [Jobs -> 0..MaxMsgs], NEW j \in Jobs, NEW n \in 0..MaxMsgs,
         msgs' = [msgs EXCEPT ![j] = n]
  PROVE  msgs' \in [Jobs -> 0..MaxMsgs]
  OBVIOUS

-----------------------------------------------------------------------------
(* Type correctness *)

(* Every step keeps the types, and a busy worker keeps a run. *)
LEMMA TypeStep == ASSUME TypeOK, [Next]_vars PROVE TypeOK'
  <1>Load. ASSUME NEW w \in Workers, Load(w) PROVE TypeOK'
    <2>1. WorkersOK'
      <3>1. CASE Return(w)
        BY <3>1, ReturnOK DEF TypeOK
      <3>2. CASE ~Return(w)
        <4>1. PICK l \in {"claim", "precheck", "prestop"} :
                Goto(w, l) /\ UNCHANGED workerVars
          BY <1>Load, <3>2 DEF Load
        <4> QED
          BY <1>Load, <4>1, GotoOK, LabelsKnown DEF TypeOK, Load, BeforeTry
      <3> QED BY <1>Load, <3>1, <3>2 DEF Load
    <2> QED BY <1>Load, StaysOK, <2>1 DEF TypeOK, Load, rowVars, brokerVars,
       apiVars, workerVars
  <1>Claim. ASSUME NEW w \in Workers, Claim(w) PROVE TypeOK'
    <2>1. RowsOK'
      BY <1>Claim, AgentRunAssumption DEF TypeOK, RowsOK, WorkersOK, Claim,
         Goto, Return, Statuses, InFlight, Terminal, Ages, Answers, Call0
    <2>2. WorkersOK'
      <3>1. CASE Return(w)
        BY <3>1, ReturnOK DEF TypeOK
      <3>2. CASE /\ claimed' = [claimed EXCEPT ![w] = TRUE]
                 /\ Goto(w, "precheck")
                 /\ UNCHANGED <<wrun, wcall, turns, after>>
        BY <1>Claim, <3>2 DEF TypeOK, WorkersOK, Claim, Goto, Labels, BeforeTry
      <3> QED BY <1>Claim, <3>1, <3>2 DEF Claim
    <2> QED BY <1>Claim, StaysOK, <2>1, <2>2 DEF TypeOK, Claim, brokerVars,
       apiVars
  <1>PreCheck. ASSUME NEW w \in Workers, PreCheck(w) PROVE TypeOK'
    <2>1. WorkersOK'
      BY <1>PreCheck, AgentRunAssumption DEF TypeOK, RowsOK, WorkersOK,
         PreCheck, Goto, workerVars, Call0, Labels, Owning, TryBlock,
         LoopSteps, BeforeTry, Safety
    <2> QED BY <1>PreCheck, StaysOK, <2>1 DEF TypeOK, PreCheck, rowVars,
       brokerVars, apiVars, workerVars
  <1>PreStop. ASSUME NEW w \in Workers, PreStop(w) PROVE TypeOK'
    <2>1. CallsOK'
      <3>1. wrun[w] \in Runs
        BY <1>PreStop DEF TypeOK, WorkersOK, PreStop
      <3> QED
        BY <1>PreStop, <3>1, CancelOK, StaysOK DEF TypeOK, PreStop
    <2>2. WorkersOK'
      BY <1>PreStop, AgentRunAssumption DEF TypeOK, RowsOK, WorkersOK,
         PreStop, Goto, CancelCalls, workerVars, Call0, Labels, Owning,
         TryBlock, LoopSteps, BeforeTry, Safety
    <2> QED BY <1>PreStop, StaysOK, <2>1, <2>2 DEF TypeOK, PreStop, rowVars,
       brokerVars, apiVars, workerVars
  <1>PreMark. ASSUME NEW w \in Workers, PreMark(w) PROVE TypeOK'
    <2>1. RowsOK'
      BY <1>PreMark, AgentRunAssumption DEF TypeOK, RowsOK, WorkersOK,
         PreMark, Return, Transition, Statuses, InFlight, Terminal, Ages,
         Answers, Call0
    <2>2. WorkersOK'
      BY <1>PreMark, AgentRunAssumption DEF TypeOK, RowsOK, WorkersOK,
         PreMark, Return, Transition, Call0, Labels, Owning, TryBlock,
         LoopSteps, BeforeTry, Safety
    <2> QED BY <1>PreMark, StaysOK, <2>1, <2>2 DEF TypeOK, PreMark,
       brokerVars, apiVars
  <1>Acquire. ASSUME NEW w \in Workers, Acquire(w) PROVE TypeOK'
    <2>1. SharedOK'
      BY <1>Acquire, AgentRunAssumption DEF TypeOK, RowsOK, SharedOK,
         WorkersOK, Acquire, Goto, brokerVars, apiVars, Jobs, Call0, Calls
    <2>2. WorkersOK'
      BY <1>Acquire, AgentRunAssumption DEF TypeOK, RowsOK, WorkersOK,
         Acquire, Goto, workerVars, Call0, Labels, Owning, TryBlock,
         LoopSteps, BeforeTry, Safety
    <2> QED BY <1>Acquire, StaysOK, <2>1, <2>2 DEF TypeOK, Acquire, rowVars,
       brokerVars, apiVars, workerVars
  <1>Busy. ASSUME NEW w \in Workers, Busy(w) PROVE TypeOK'
    <2>1. WorkersOK'
      BY <1>Busy, AgentRunAssumption DEF TypeOK, RowsOK, WorkersOK, Busy,
         Goto, workerVars, Call0, Labels, Owning, TryBlock, LoopSteps,
         BeforeTry, Safety
    <2> QED BY <1>Busy, StaysOK, <2>1 DEF TypeOK, Busy, rowVars, brokerVars,
       apiVars, workerVars
  <1>LockBusy. ASSUME NEW w \in Workers, LockBusy(w) PROVE TypeOK'
    <2>1. RowsOK'
      BY <1>LockBusy, AgentRunAssumption DEF TypeOK, RowsOK, WorkersOK,
         LockBusy, Return, Transition, Statuses, InFlight, Terminal, Ages,
         Answers, Call0
    <2>2. WorkersOK'
      BY <1>LockBusy, AgentRunAssumption DEF TypeOK, RowsOK, WorkersOK,
         LockBusy, Return, Transition, Call0, Labels, Owning, TryBlock,
         LoopSteps, BeforeTry, Safety
    <2> QED BY <1>LockBusy, StaysOK, <2>1, <2>2 DEF TypeOK, LockBusy,
       brokerVars, apiVars
  <1>Owned. ASSUME NEW w \in Workers, Owned(w) PROVE TypeOK'
    <2>1. CallsOK'
      <3>1. wrun[w] \in Runs
        BY <1>Owned DEF TypeOK, WorkersOK, Owned
      <3>2. {"executing", "cancelled"} \subseteq ExecStatuses
        BY DEF ExecStatuses
      <3>3. CASE UNCHANGED exec
        BY <3>3, StaysOK
      <3>4. CASE CancelCalls(wrun[w], {wcall[w]})
        BY <3>1, <3>4, CancelOK DEF TypeOK
      <3>5. CASE \E s \in {"executing", "cancelled"} :
                    exec' = [exec EXCEPT ![wrun[w]][wcall[w]] = s]
        BY <3>1, <3>2, <3>5, CallOK DEF TypeOK
      <3> QED BY <1>Owned, <3>3, <3>4, <3>5 DEF Owned
    <2>2. WorkersOK'
      BY <1>Owned, AgentRunAssumption DEF TypeOK, RowsOK, WorkersOK, Owned,
         Goto, CancelCalls, workerVars, Call0, Labels, Owning, TryBlock,
         LoopSteps, BeforeTry, Safety
    <2> QED BY <1>Owned, StaysOK, <2>1, <2>2 DEF TypeOK, Owned, rowVars,
       brokerVars, apiVars, workerVars
  <1>DropInputs. ASSUME NEW w \in Workers, DropInputs(w) PROVE TypeOK'
    <2>1. SharedOK'
      BY <1>DropInputs, AgentRunAssumption DEF TypeOK, RowsOK, SharedOK,
         WorkersOK, DropInputs, Goto, brokerVars, apiVars, Jobs, Call0, Calls
    <2>2. WorkersOK'
      BY <1>DropInputs, AgentRunAssumption DEF TypeOK, RowsOK, WorkersOK,
         DropInputs, Goto, workerVars, Call0, Labels, Owning, TryBlock,
         LoopSteps, BeforeTry, Safety
    <2> QED BY <1>DropInputs, StaysOK, <2>1, <2>2 DEF TypeOK, DropInputs,
       rowVars, brokerVars, apiVars, workerVars
  <1>FinishApproved. ASSUME NEW w \in Workers, FinishApproved(w) PROVE TypeOK'
    <2>1. CallsOK'
      BY <1>FinishApproved, AgentRunAssumption DEF TypeOK, RowsOK, CallsOK,
         WorkersOK, FinishApproved, Goto, Calls, Call0, ExecStatuses
    <2>2. WorkersOK'
      BY <1>FinishApproved, AgentRunAssumption DEF TypeOK, RowsOK, WorkersOK,
         FinishApproved, Goto, workerVars, Call0, Labels, Owning, TryBlock,
         LoopSteps, BeforeTry, Safety
    <2> QED BY <1>FinishApproved, StaysOK, <2>1, <2>2 DEF TypeOK,
       FinishApproved, rowVars, brokerVars, apiVars, workerVars
  <1>RecordResult. ASSUME NEW w \in Workers, RecordResult(w) PROVE TypeOK'
    <2>1. RowsOK'
      BY <1>RecordResult, AgentRunAssumption DEF TypeOK, RowsOK, WorkersOK,
         RecordResult, Goto, Statuses, InFlight, Terminal, Ages, Answers,
         Call0
    <2>2. WorkersOK'
      BY <1>RecordResult, AgentRunAssumption DEF TypeOK, RowsOK, WorkersOK,
         RecordResult, Goto, Call0, Labels, Owning, TryBlock, LoopSteps,
         BeforeTry, Safety
    <2> QED BY <1>RecordResult, StaysOK, <2>1, <2>2 DEF TypeOK, RecordResult,
       brokerVars, apiVars
  <1>Rebuild. ASSUME NEW w \in Workers, Rebuild(w) PROVE TypeOK'
    <2>1. RowsOK'
      BY <1>Rebuild, AgentRunAssumption DEF TypeOK, RowsOK, WorkersOK,
         Rebuild, Goto, Statuses, InFlight, Terminal, Ages, Answers, Call0
    <2>2. WorkersOK'
      BY <1>Rebuild, AgentRunAssumption DEF TypeOK, RowsOK, WorkersOK,
         Rebuild, Goto, workerVars, Call0, Labels, Owning, TryBlock,
         LoopSteps, BeforeTry, Safety
    <2> QED BY <1>Rebuild, StaysOK, <2>1, <2>2 DEF TypeOK, Rebuild,
       brokerVars, apiVars, workerVars
  <1>LoopHead. ASSUME NEW w \in Workers, LoopHead(w) PROVE TypeOK'
    <2>1. SharedOK'
      BY <1>LoopHead, AgentRunAssumption DEF TypeOK, RowsOK, SharedOK,
         WorkersOK, LoopHead, Goto, brokerVars, apiVars, Jobs, Call0, Calls
    <2>2. WorkersOK'
      BY <1>LoopHead, AgentRunAssumption DEF TypeOK, RowsOK, WorkersOK,
         LoopHead, Goto, Call0, Labels, Owning, TryBlock, LoopSteps,
         BeforeTry, Safety
    <2> QED BY <1>LoopHead, StaysOK, <2>1, <2>2 DEF TypeOK, LoopHead,
       rowVars, brokerVars, apiVars
  <1>LoopCheck. ASSUME NEW w \in Workers, LoopCheck(w) PROVE TypeOK'
    <2>1. WorkersOK'
      BY <1>LoopCheck, AgentRunAssumption DEF TypeOK, RowsOK, WorkersOK,
         LoopCheck, Goto, workerVars, Call0, Labels, Owning, TryBlock,
         LoopSteps, BeforeTry, Safety
    <2> QED BY <1>LoopCheck, StaysOK, <2>1 DEF TypeOK, LoopCheck, rowVars,
       brokerVars, apiVars, workerVars
  <1>Turn. ASSUME NEW w \in Workers, Turn(w) PROVE TypeOK'
    <2>1. WorkersOK'
      BY <1>Turn, AgentRunAssumption DEF TypeOK, RowsOK, WorkersOK, Turn,
         Goto, workerVars, Call0, Labels, Owning, TryBlock, LoopSteps,
         BeforeTry, Safety
    <2> QED BY <1>Turn, StaysOK, <2>1 DEF TypeOK, Turn, rowVars, brokerVars,
       apiVars, workerVars
  <1>TurnPauses. ASSUME NEW w \in Workers, TurnPauses(w) PROVE TypeOK'
    <2>1. CallsOK'
      BY <1>TurnPauses, AgentRunAssumption DEF TypeOK, RowsOK, CallsOK,
         WorkersOK, TurnPauses, Goto, Calls, Call0, ExecStatuses
    <2>2. WorkersOK'
      <3>1. PICK k \in Calls : wcall' = [wcall EXCEPT ![w] = k]
        BY <1>TurnPauses DEF TurnPauses
      <3>2. k \in Call0
        BY AgentRunAssumption DEF Calls, Call0
      <3> QED
        BY <1>TurnPauses, <3>1, <3>2
        DEF TypeOK, WorkersOK, TurnPauses, Goto, Labels, Owning, TryBlock
    <2> QED BY <1>TurnPauses, StaysOK, <2>1, <2>2 DEF TypeOK, TurnPauses,
       rowVars, brokerVars, apiVars
  <1>Drain. ASSUME NEW w \in Workers, Drain(w) PROVE TypeOK'
    <2>1. SharedOK'
      BY <1>Drain, AgentRunAssumption DEF TypeOK, RowsOK, SharedOK,
         WorkersOK, Drain, Goto, brokerVars, apiVars, Jobs, Call0, Calls
    <2>2. WorkersOK'
      BY <1>Drain, AgentRunAssumption DEF TypeOK, RowsOK, WorkersOK, Drain,
         Goto, workerVars, Call0, Labels, Owning, TryBlock, LoopSteps,
         BeforeTry, Safety
    <2> QED BY <1>Drain, StaysOK, <2>1, <2>2 DEF TypeOK, Drain, rowVars,
       brokerVars, apiVars, workerVars
  <1>LastCheck. ASSUME NEW w \in Workers, LastCheck(w) PROVE TypeOK'
    <2>1. WorkersOK'
      BY <1>LastCheck, AgentRunAssumption DEF TypeOK, RowsOK, WorkersOK,
         LastCheck, Goto, workerVars, Call0, Labels, Owning, TryBlock,
         LoopSteps, BeforeTry, Safety
    <2> QED BY <1>LastCheck, StaysOK, <2>1 DEF TypeOK, LastCheck, rowVars,
       brokerVars, apiVars, workerVars
  <1>Park. ASSUME NEW w \in Workers, Park(w) PROVE TypeOK'
    <2>1. RowsOK'
      BY <1>Park, AgentRunAssumption DEF TypeOK, RowsOK, WorkersOK, Park,
         Goto, Statuses, InFlight, Terminal, Ages, Answers, Call0
    <2>2. WorkersOK'
      BY <1>Park, AgentRunAssumption DEF TypeOK, RowsOK, WorkersOK, Park,
         Goto, workerVars, Call0, Labels, Owning, TryBlock, LoopSteps,
         BeforeTry, Safety
    <2> QED BY <1>Park, StaysOK, <2>1, <2>2 DEF TypeOK, Park, brokerVars,
       apiVars, workerVars
  <1>Recheck. ASSUME NEW w \in Workers, Recheck(w) PROVE TypeOK'
    <2>1. RowsOK'
      BY <1>Recheck, AgentRunAssumption DEF TypeOK, RowsOK, WorkersOK,
         Recheck, Goto, Resumable, ResumeMarker, QueueResume, Statuses,
         InFlight, Terminal, Ages, Answers, Call0
    <2>2. WorkersOK'
      BY <1>Recheck, AgentRunAssumption DEF TypeOK, RowsOK, WorkersOK,
         Recheck, Goto, Resumable, ResumeMarker, QueueResume, Call0, Labels,
         Owning, TryBlock, LoopSteps, BeforeTry, Safety
    <2> QED BY <1>Recheck, StaysOK, <2>1, <2>2 DEF TypeOK, Recheck,
       brokerVars, apiVars
  <1>FinalizeStopped. ASSUME NEW w \in Workers, FinalizeStopped(w) PROVE TypeOK'
    <2>1. RowsOK'
      BY <1>FinalizeStopped, AgentRunAssumption DEF TypeOK, RowsOK,
         WorkersOK, FinalizeStopped, Goto, Statuses, InFlight, Terminal,
         Ages, Answers, Call0
    <2>2. SharedOK'
      BY <1>FinalizeStopped, AgentRunAssumption DEF TypeOK, RowsOK, SharedOK,
         WorkersOK, FinalizeStopped, Goto, brokerVars, apiVars, Jobs, Call0,
         Calls
    <2>3. WorkersOK'
      BY <1>FinalizeStopped, AgentRunAssumption DEF TypeOK, RowsOK,
         WorkersOK, FinalizeStopped, Goto, workerVars, Call0, Labels, Owning,
         TryBlock, LoopSteps, BeforeTry, Safety
    <2> QED BY <1>FinalizeStopped, StaysOK, <2>1, <2>2, <2>3 DEF TypeOK,
       FinalizeStopped, brokerVars, apiVars, workerVars
  <1>MarkStopped. ASSUME NEW w \in Workers, MarkStopped(w) PROVE TypeOK'
    <2>1. RowsOK'
      BY <1>MarkStopped, AgentRunAssumption DEF TypeOK, RowsOK, WorkersOK,
         MarkStopped, Goto, Transition, Statuses, InFlight, Terminal, Ages,
         Answers, Call0
    <2>2. WorkersOK'
      BY <1>MarkStopped, AgentRunAssumption DEF TypeOK, RowsOK, WorkersOK,
         MarkStopped, Goto, Transition, workerVars, Call0, Labels, Owning,
         TryBlock, LoopSteps, BeforeTry, Safety
    <2> QED BY <1>MarkStopped, StaysOK, <2>1, <2>2 DEF TypeOK, MarkStopped,
       brokerVars, apiVars, workerVars
  <1>ClaimCompletion. ASSUME NEW w \in Workers, ClaimCompletion(w) PROVE TypeOK'
    <2>1. RowsOK'
      BY <1>ClaimCompletion, AgentRunAssumption DEF TypeOK, RowsOK,
         WorkersOK, ClaimCompletion, Goto, Statuses, InFlight, Terminal,
         Ages, Answers, Call0
    <2>2. WorkersOK'
      BY <1>ClaimCompletion, AgentRunAssumption DEF TypeOK, RowsOK,
         WorkersOK, ClaimCompletion, Goto, workerVars, Call0, Labels, Owning,
         TryBlock, LoopSteps, BeforeTry, Safety
    <2> QED BY <1>ClaimCompletion, StaysOK, <2>1, <2>2 DEF TypeOK,
       ClaimCompletion, brokerVars, apiVars, workerVars
  <1>FinalizeCompleted. ASSUME NEW w \in Workers, FinalizeCompleted(w) PROVE TypeOK'
    <2>1. RowsOK'
      BY <1>FinalizeCompleted, AgentRunAssumption DEF TypeOK, RowsOK,
         WorkersOK, FinalizeCompleted, Goto, Statuses, InFlight, Terminal,
         Ages, Answers, Call0
    <2>2. SharedOK'
      BY <1>FinalizeCompleted, AgentRunAssumption DEF TypeOK, RowsOK,
         SharedOK, WorkersOK, FinalizeCompleted, Goto, brokerVars, apiVars,
         Jobs, Call0, Calls
    <2>3. WorkersOK'
      BY <1>FinalizeCompleted, AgentRunAssumption DEF TypeOK, RowsOK,
         WorkersOK, FinalizeCompleted, Goto, workerVars, Call0, Labels,
         Owning, TryBlock, LoopSteps, BeforeTry, Safety
    <2> QED BY <1>FinalizeCompleted, StaysOK, <2>1, <2>2, <2>3 DEF TypeOK,
       FinalizeCompleted, brokerVars, apiVars, workerVars
  <1>MarkCompleted. ASSUME NEW w \in Workers, MarkCompleted(w) PROVE TypeOK'
    <2>1. RowsOK'
      BY <1>MarkCompleted, AgentRunAssumption DEF TypeOK, RowsOK, WorkersOK,
         MarkCompleted, Goto, Transition, Statuses, InFlight, Terminal, Ages,
         Answers, Call0
    <2>2. WorkersOK'
      BY <1>MarkCompleted, AgentRunAssumption DEF TypeOK, RowsOK, WorkersOK,
         MarkCompleted, Goto, Transition, workerVars, Call0, Labels, Owning,
         TryBlock, LoopSteps, BeforeTry, Safety
    <2> QED BY <1>MarkCompleted, StaysOK, <2>1, <2>2 DEF TypeOK,
       MarkCompleted, brokerVars, apiVars, workerVars
  <1>Except. ASSUME NEW w \in Workers, Except(w) PROVE TypeOK'
    <2>1. RowsOK'
      BY <1>Except, AgentRunAssumption DEF TypeOK, RowsOK, WorkersOK, Except,
         Goto, Transition, Statuses, InFlight, Terminal, Ages, Answers, Call0
    <2>2. WorkersOK'
      BY <1>Except, AgentRunAssumption DEF TypeOK, RowsOK, WorkersOK, Except,
         Goto, Transition, workerVars, Call0, Labels, Owning, TryBlock,
         LoopSteps, BeforeTry, Safety
    <2> QED BY <1>Except, StaysOK, <2>1, <2>2 DEF TypeOK, Except, brokerVars,
       apiVars, workerVars
  <1>ReleaseGet. ASSUME NEW w \in Workers, ReleaseGet(w) PROVE TypeOK'
    <2>1. WorkersOK'
      <3>1. CASE Return(w)
        BY <3>1, ReturnOK DEF TypeOK
      <3>2. CASE ~Return(w)
        <4>1. PICK l \in {"dispatch", "safety", "delete"} :
                Goto(w, l) /\ UNCHANGED workerVars
          BY <1>ReleaseGet, <3>2 DEF TypeOK, WorkersOK, ReleaseGet, AfterRelease
        <4> QED
          BY <1>ReleaseGet, <4>1, GotoOK, LabelsKnown DEF TypeOK, ReleaseGet, Safety
      <3> QED BY <1>ReleaseGet, <3>1, <3>2 DEF ReleaseGet, AfterRelease
    <2> QED BY <1>ReleaseGet, StaysOK, <2>1 DEF TypeOK, ReleaseGet, rowVars,
       brokerVars, apiVars, workerVars
  <1>ReleaseDelete. ASSUME NEW w \in Workers, ReleaseDelete(w) PROVE TypeOK'
    <2>1. SharedOK'
      BY <1>ReleaseDelete, AgentRunAssumption DEF TypeOK, RowsOK, SharedOK,
         WorkersOK, ReleaseDelete, AfterRelease, brokerVars, apiVars, Goto,
         Return, Jobs, Call0, Calls
    <2>2. WorkersOK'
      <3>1. CASE Return(w)
        BY <3>1, ReturnOK DEF TypeOK
      <3>2. CASE ~Return(w)
        <4>1. PICK l \in {"dispatch", "safety"} :
                Goto(w, l) /\ UNCHANGED workerVars
          BY <1>ReleaseDelete, <3>2 DEF TypeOK, WorkersOK, ReleaseDelete, AfterRelease
        <4> QED
          BY <1>ReleaseDelete, <4>1, GotoOK, LabelsKnown DEF TypeOK, ReleaseDelete, Safety
      <3> QED BY <1>ReleaseDelete, <3>1, <3>2 DEF ReleaseDelete, AfterRelease
    <2> QED BY <1>ReleaseDelete, StaysOK, <2>1, <2>2 DEF TypeOK,
       ReleaseDelete, rowVars, brokerVars, apiVars, workerVars
  <1>DispatchDeferred. ASSUME NEW w \in Workers, DispatchDeferred(w) PROVE TypeOK'
    <2>1. RowsOK'
      BY <1>DispatchDeferred, AgentRunAssumption DEF TypeOK, RowsOK,
         WorkersOK, DispatchDeferred, Return, Transition, Statuses, InFlight,
         Terminal, Ages, Answers, Call0
    <2>2. SharedOK'
      <3>1. <<wrun[w], wcall[w]>> \in Jobs
        BY <1>DispatchDeferred DEF TypeOK, WorkersOK, DispatchDeferred, Jobs
      <3>2. msgs' \in [Jobs -> 0..MaxMsgs]
        BY <1>DispatchDeferred, <3>1, AgentRunAssumption
        DEF TypeOK, SharedOK, DispatchDeferred
      <3> QED
        BY <1>DispatchDeferred, <3>2
        DEF TypeOK, SharedOK, DispatchDeferred, apiVars
    <2>3. WorkersOK'
      BY <1>DispatchDeferred, AgentRunAssumption DEF TypeOK, RowsOK,
         WorkersOK, DispatchDeferred, Return, Transition, Call0, Labels,
         Owning, TryBlock, LoopSteps, BeforeTry, Safety
    <2> QED BY <1>DispatchDeferred, StaysOK, <2>1, <2>2, <2>3 DEF TypeOK,
       DispatchDeferred, apiVars
  <1>SafetyNet. ASSUME NEW w \in Workers, SafetyNet(w) PROVE TypeOK'
    <2>1. WorkersOK'
      <3>1. CASE Return(w)
        BY <3>1, ReturnOK DEF TypeOK
      <3>2. CASE ~Return(w)
        <4>1. PICK l \in Safety : Goto(w, l) /\ UNCHANGED workerVars
          BY <1>SafetyNet, <3>2 DEF SafetyNet, Safety
        <4> QED
          BY <1>SafetyNet, <4>1, GotoOK, LabelsKnown DEF TypeOK, SafetyNet
      <3> QED BY <1>SafetyNet, <3>1, <3>2 DEF SafetyNet
    <2> QED BY <1>SafetyNet, StaysOK, <2>1 DEF TypeOK, SafetyNet, rowVars,
       brokerVars, apiVars, workerVars
  <1>SafetyFail. ASSUME NEW w \in Workers, SafetyFail(w) PROVE TypeOK'
    <2>1. RowsOK'
      <3>1. PICK s \in InFlight : Transition(wrun[w], {s}, "failed")
        BY <1>SafetyFail DEF SafetyFail
      <3>2. wrun[w] \in Runs
        BY <1>SafetyFail DEF TypeOK, WorkersOK, SafetyFail, FailFrom, InFlight
      <3>3. "failed" \in Statuses
        BY DEF Statuses, Terminal
      <3> QED
        BY <1>SafetyFail, <3>1, <3>2, <3>3, TransitionOK DEF TypeOK, SafetyFail
    <2>2. WorkersOK'
      BY <1>SafetyFail, AgentRunAssumption DEF TypeOK, RowsOK, WorkersOK,
         SafetyFail, Return, Transition, Call0, Labels, Owning, TryBlock,
         LoopSteps, BeforeTry, Safety
    <2> QED BY <1>SafetyFail, StaysOK, <2>1, <2>2 DEF TypeOK, SafetyFail,
       brokerVars, apiVars
  <1>ContextLost. ASSUME NEW w \in Workers, ContextLost(w) PROVE TypeOK'
    <2>1. RowsOK'
      BY <1>ContextLost, AgentRunAssumption DEF TypeOK, RowsOK, WorkersOK,
         ContextLost, Return, Transition, Statuses, InFlight, Terminal, Ages,
         Answers, Call0
    <2>2. WorkersOK'
      BY <1>ContextLost, AgentRunAssumption DEF TypeOK, RowsOK, WorkersOK,
         ContextLost, Return, Transition, Call0, Labels, Owning, TryBlock,
         LoopSteps, BeforeTry, Safety
    <2> QED BY <1>ContextLost, StaysOK, <2>1, <2>2 DEF TypeOK, ContextLost,
       brokerVars, apiVars
  <1>WorkerError. ASSUME NEW w \in Workers, WorkerError(w) PROVE TypeOK'
    <2>1. WorkersOK'
      BY <1>WorkerError, AgentRunAssumption DEF TypeOK, RowsOK, WorkersOK,
         WorkerError, Goto, Call0, Labels, Owning, TryBlock, LoopSteps,
         BeforeTry, Safety
    <2> QED BY <1>WorkerError, StaysOK, <2>1 DEF TypeOK, WorkerError,
       rowVars, brokerVars, apiVars
  <1>WorkerDies. ASSUME NEW w \in Workers, WorkerDies(w) PROVE TypeOK'
    <2>1. WorkersOK'
      BY <1>WorkerDies, AgentRunAssumption DEF TypeOK, RowsOK, WorkersOK,
         WorkerDies, Return, Call0, Labels, Owning, TryBlock, LoopSteps,
         BeforeTry, Safety
    <2> QED BY <1>WorkerDies, StaysOK, <2>1 DEF TypeOK, WorkerDies, rowVars,
       brokerVars, apiVars
  <1>Receive. ASSUME NEW w \in Workers, NEW j \in Jobs, Receive(w, j) PROVE TypeOK'
    <2>1. SharedOK'
      BY <1>Receive, AgentRunAssumption DEF TypeOK, RowsOK, SharedOK,
         WorkersOK, Receive, Goto, apiVars, Jobs, Call0, Calls
    <2>2. WorkersOK'
      <3>1. j[1] \in Runs /\ j[2] \in Call0
        BY DEF Jobs
      <3> QED
        BY <1>Receive, <3>1 DEF TypeOK, WorkersOK, Receive, Goto, Labels, BeforeTry
    <2> QED BY <1>Receive, StaysOK, <2>1, <2>2 DEF TypeOK, Receive, rowVars,
       apiVars
  <1>Publish. ASSUME NEW j \in Jobs, Publish(j) PROVE TypeOK'
    <2>1. SharedOK'
      BY <1>Publish, AgentRunAssumption DEF TypeOK, RowsOK, SharedOK,
         Publish, apiVars, Jobs, Call0, Calls
    <2> QED BY <1>Publish, StaysOK, <2>1 DEF TypeOK, Publish, rowVars,
       apiVars, workerVars
  <1>PublishFails. ASSUME NEW j \in Jobs, PublishFails(j) PROVE TypeOK'
    <2>1. RowsOK'
      BY <1>PublishFails, AgentRunAssumption DEF TypeOK, RowsOK,
         PublishFails, Transition, Statuses, InFlight, Terminal, Ages,
         Answers, Call0
    <2>2. SharedOK'
      BY <1>PublishFails, AgentRunAssumption DEF TypeOK, RowsOK, SharedOK,
         PublishFails, Transition, apiVars, Jobs, Call0, Calls
    <2> QED BY <1>PublishFails, StaysOK, <2>1, <2>2 DEF TypeOK, PublishFails,
       apiVars, workerVars
  <1>Submit. ASSUME NEW r \in Runs, Submit(r) PROVE TypeOK'
    <2>1. RowsOK'
      BY <1>Submit, AgentRunAssumption DEF TypeOK, RowsOK, Submit, Statuses,
         InFlight, Terminal, Ages, Answers, Call0
    <2>2. SharedOK'
      BY <1>Submit, AgentRunAssumption DEF TypeOK, RowsOK, SharedOK, Submit,
         apiVars, Jobs, Call0, Calls
    <2> QED BY <1>Submit, StaysOK, <2>1, <2>2 DEF TypeOK, Submit, apiVars,
       workerVars
  <1>RedispatchQueued. ASSUME NEW r \in Runs, RedispatchQueued(r) PROVE TypeOK'
    <2>1. SharedOK'
      BY <1>RedispatchQueued, AgentRunAssumption DEF TypeOK, RowsOK,
         SharedOK, RedispatchQueued, apiVars, Jobs, Call0, Calls
    <2> QED BY <1>RedispatchQueued, StaysOK, <2>1 DEF TypeOK,
       RedispatchQueued, rowVars, apiVars, workerVars
  <1>StopParked. ASSUME NEW r \in Runs, StopParked(r) PROVE TypeOK'
    <2>1. RowsOK'
      BY <1>StopParked, AgentRunAssumption DEF TypeOK, RowsOK, StopParked,
         Statuses, InFlight, Terminal, Ages, Answers, Call0
    <2>2. SharedOK'
      BY <1>StopParked, AgentRunAssumption DEF TypeOK, RowsOK, SharedOK,
         StopParked, brokerVars, Jobs, Call0, Calls
    <2> QED BY <1>StopParked, StaysOK, <2>1, <2>2 DEF TypeOK, StopParked,
       brokerVars, workerVars
  <1>ListPending. ASSUME NEW r \in Runs, ListPending(r) PROVE TypeOK'
    <2>1. Calls \subseteq Call0
      BY AgentRunAssumption DEF Calls, Call0
    <2>2. SharedOK'
      BY <1>ListPending, <2>1 DEF TypeOK, SharedOK, ListPending, brokerVars
    <2> QED BY <1>ListPending, StaysOK, <2>2 DEF TypeOK, ListPending,
       rowVars, brokerVars, workerVars
  <1>CancelPending. ASSUME NEW r \in Runs, NEW k \in Calls, CancelPending(r, k)
                    PROVE  TypeOK'
    <2>1. CallsOK'
      BY <1>CancelPending, AgentRunAssumption DEF TypeOK, RowsOK, CallsOK,
         CancelPending, CancelCalls, Calls, Call0, ExecStatuses
    <2>2. SharedOK'
      BY <1>CancelPending DEF TypeOK, SharedOK, CancelPending, brokerVars
    <2> QED BY <1>CancelPending, StaysOK, <2>1, <2>2 DEF TypeOK,
       CancelPending, rowVars, brokerVars, workerVars
  <1>StopRunning. ASSUME NEW r \in Runs, StopRunning(r) PROVE TypeOK'
    <2>1. RowsOK'
      BY <1>StopRunning, AgentRunAssumption DEF TypeOK, RowsOK, StopRunning,
         Statuses, InFlight, Terminal, Ages, Answers, Call0
    <2>2. SharedOK'
      BY <1>StopRunning, AgentRunAssumption DEF TypeOK, RowsOK, SharedOK,
         StopRunning, brokerVars, Jobs, Call0, Calls
    <2> QED BY <1>StopRunning, StaysOK, <2>1, <2>2 DEF TypeOK, StopRunning,
       brokerVars, workerVars
  <1>EnqueueStop. ASSUME NEW r \in Runs, EnqueueStop(r) PROVE TypeOK'
    <2>1. SharedOK'
      BY <1>EnqueueStop, AgentRunAssumption DEF TypeOK, RowsOK, SharedOK,
         EnqueueStop, brokerVars, Jobs, Call0, Calls
    <2> QED BY <1>EnqueueStop, StaysOK, <2>1 DEF TypeOK, EnqueueStop,
       rowVars, brokerVars, workerVars
  <1>PostStopInput. ASSUME NEW r \in Runs, PostStopInput(r) PROVE TypeOK'
    <2>1. SharedOK'
      BY <1>PostStopInput, AgentRunAssumption DEF TypeOK, RowsOK, SharedOK,
         PostStopInput, brokerVars, apiVars, Jobs, Call0, Calls
    <2> QED BY <1>PostStopInput, StaysOK, <2>1 DEF TypeOK, PostStopInput,
       rowVars, brokerVars, apiVars, workerVars
  <1>SubmitAnswers. ASSUME NEW r \in Runs, SubmitAnswers(r) PROVE TypeOK'
    <2>1. RowsOK'
      BY <1>SubmitAnswers, AgentRunAssumption DEF TypeOK, RowsOK,
         SubmitAnswers, Statuses, InFlight, Terminal, Ages, Answers, Call0
    <2>2. SharedOK'
      BY <1>SubmitAnswers, AgentRunAssumption DEF TypeOK, RowsOK, SharedOK,
         SubmitAnswers, apiVars, Jobs, Call0, Calls
    <2> QED BY <1>SubmitAnswers, StaysOK, <2>1, <2>2 DEF TypeOK,
       SubmitAnswers, apiVars, workerVars
  <1>GrowOld. ASSUME NEW r \in Runs, GrowOld(r) PROVE TypeOK'
    <2>1. RowsOK'
      BY <1>GrowOld, AgentRunAssumption DEF TypeOK, RowsOK, GrowOld,
         Statuses, InFlight, Terminal, Ages, Answers, Call0
    <2> QED BY <1>GrowOld, StaysOK, <2>1 DEF TypeOK, GrowOld, brokerVars,
       apiVars, workerVars
  <1>SweepRead. ASSUME NEW r \in Runs, SweepRead(r) PROVE TypeOK'
    <2>1. SharedOK'
      BY <1>SweepRead, AgentRunAssumption DEF TypeOK, RowsOK, SharedOK,
         SweepRead, brokerVars, apiVars, Jobs, Call0, Calls
    <2> QED BY <1>SweepRead, StaysOK, <2>1 DEF TypeOK, SweepRead, rowVars,
       brokerVars, apiVars, workerVars
  <1>SweepCheck. ASSUME NEW r \in Runs, SweepCheck(r) PROVE TypeOK'
    <2>1. SharedOK'
      <3>1. <<sweep[r][1], TRUE>> \in {"none", "running", "stopping"} \X BOOLEAN
        BY DEF TypeOK, SharedOK
      <3>2. NotSwept \in {"none", "running", "stopping"} \X BOOLEAN
        BY DEF NotSwept
      <3> QED
        BY <1>SweepCheck, <3>1, <3>2
        DEF TypeOK, SharedOK, SweepCheck, brokerVars, apiVars
    <2> QED BY <1>SweepCheck, StaysOK, <2>1 DEF TypeOK, SweepCheck, rowVars,
       brokerVars, apiVars, workerVars
  <1>SweepMark. ASSUME NEW r \in Runs, SweepMark(r) PROVE TypeOK'
    <2>1. RowsOK'
      BY <1>SweepMark, AgentRunAssumption DEF TypeOK, RowsOK, SweepMark,
         Transition, Statuses, InFlight, Terminal, Ages, Answers, Call0
    <2>2. SharedOK'
      <3>1. NotSwept \in {"none", "running", "stopping"} \X BOOLEAN
        BY DEF NotSwept
      <3> QED
        BY <1>SweepMark, <3>1 DEF TypeOK, SharedOK, SweepMark, brokerVars, apiVars
    <2> QED BY <1>SweepMark, StaysOK, <2>1, <2>2 DEF TypeOK, SweepMark,
       brokerVars, apiVars, workerVars
  <1>Decide. ASSUME NEW r \in Runs, NEW k \in Calls, Decide(r, k) PROVE TypeOK'
    <2>1. PICK s \in Decided : /\ exec' = [exec EXCEPT ![r][k] = s]
                              /\ resume' = resume \cup {<<r, k, s>>}
      BY <1>Decide DEF Decide
    <2>2. CallsOK'
      <3>1. s \in ExecStatuses
        BY DEF Decided, ExecStatuses
      <3> QED BY <2>1, <3>1, CallOK DEF TypeOK
    <2>3. SharedOK'
      BY <1>Decide, <2>1 DEF TypeOK, SharedOK, Decide, brokerVars
    <2> QED BY <1>Decide, StaysOK, <2>2, <2>3 DEF TypeOK, Decide, rowVars,
       workerVars
  <1>Expire. ASSUME NEW r \in Runs, NEW k \in Calls, Expire(r, k) PROVE TypeOK'
    <2>1. CallsOK'
      <3>1. "cancelled" \in ExecStatuses
        BY DEF ExecStatuses
      <3> QED BY <1>Expire, <3>1, CallOK DEF TypeOK, Expire
    <2>2. SharedOK'
      BY <1>Expire DEF TypeOK, SharedOK, Expire, Decided, brokerVars
    <2> QED BY <1>Expire, StaysOK, <2>1, <2>2 DEF TypeOK, Expire, rowVars,
       workerVars
  <1>ScheduleResume. ASSUME NEW r \in Runs, NEW k \in Calls, ScheduleResume(r, k) PROVE TypeOK'
    <2>1. PICK s \in Decided : resume' = resume \ {<<r, k, s>>}
      BY <1>ScheduleResume DEF ScheduleResume
    <2>2. k \in Call0
      BY AgentRunAssumption DEF Calls, Call0
    <2>3. /\ RowsOK'
          /\ pub' \subseteq Jobs
      <3>1. CASE \E m \in Call0 : QueueResume(r, m) /\ pub' = pub \cup {<<r, m>>}
        BY <1>ScheduleResume, <3>1, QueueResumeOK
        DEF TypeOK, SharedOK, ScheduleResume, Jobs
      <3>2. CASE UNCHANGED <<status, pending, marker, pub>>
        BY <1>ScheduleResume, <3>2, StaysOK DEF TypeOK, SharedOK, ScheduleResume
      <3> QED BY <1>ScheduleResume, <2>2, <3>1, <3>2, MarkerOK DEF ScheduleResume
    <2>4. SharedOK'
      BY <1>ScheduleResume, <2>1, <2>3 DEF TypeOK, SharedOK, ScheduleResume
    <2> QED BY <1>ScheduleResume, StaysOK, <2>3, <2>4 DEF TypeOK,
       ScheduleResume, workerVars
  <1>StaleClaim. ASSUME NEW r \in Runs, NEW k \in Calls, StaleClaim(r, k) PROVE TypeOK'
    <2>1. CallsOK'
      BY <1>StaleClaim, AgentRunAssumption DEF TypeOK, RowsOK, CallsOK,
         StaleClaim, Calls, Call0, ExecStatuses
    <2> QED BY <1>StaleClaim, StaysOK, <2>1 DEF TypeOK, StaleClaim, rowVars,
       brokerVars, apiVars, workerVars
  <1>LeaseExpires. ASSUME LeaseExpires PROVE TypeOK'
    <2>1. SharedOK'
      BY <1>LeaseExpires, AgentRunAssumption DEF TypeOK, SharedOK,
         LeaseExpires, brokerVars, apiVars, Jobs, Call0, Calls
    <2> QED BY <1>LeaseExpires, StaysOK, <2>1 DEF TypeOK, LeaseExpires,
       rowVars, brokerVars, apiVars, workerVars
  <1>ApiDies. ASSUME ApiDies PROVE TypeOK'
    <2>1. SharedOK'
      BY <1>ApiDies, AgentRunAssumption DEF TypeOK, SharedOK, ApiDies,
         apiVars, Jobs, Call0, Calls
    <2> QED BY <1>ApiDies, StaysOK, <2>1 DEF TypeOK, ApiDies, rowVars,
       apiVars, workerVars
  <1>stutter. ASSUME UNCHANGED vars PROVE TypeOK'
    BY <1>stutter, StaysOK DEF TypeOK, vars, rowVars, brokerVars, apiVars, workerVars
  <1> QED BY <1>stutter, <1>Load, <1>Claim, <1>PreCheck, <1>PreStop,
     <1>PreMark, <1>Acquire, <1>Busy, <1>LockBusy, <1>Owned, <1>DropInputs,
     <1>FinishApproved, <1>RecordResult, <1>Rebuild, <1>LoopHead,
     <1>LoopCheck, <1>Turn, <1>TurnPauses, <1>Drain, <1>LastCheck, <1>Park,
     <1>Recheck, <1>FinalizeStopped, <1>MarkStopped, <1>ClaimCompletion,
     <1>FinalizeCompleted, <1>MarkCompleted, <1>Except, <1>ReleaseGet,
     <1>ReleaseDelete, <1>DispatchDeferred, <1>SafetyNet, <1>SafetyFail,
     <1>ContextLost, <1>WorkerError, <1>WorkerDies, <1>Receive, <1>Publish,
     <1>PublishFails, <1>Submit, <1>RedispatchQueued, <1>StopParked,
     <1>ListPending, <1>CancelPending, <1>StopRunning, <1>EnqueueStop,
     <1>PostStopInput, <1>SubmitAnswers, <1>GrowOld, <1>SweepRead, <1>SweepCheck, <1>SweepMark,
     <1>Decide, <1>Expire, <1>ScheduleResume, <1>StaleClaim, <1>LeaseExpires,
     <1>ApiDies DEF Next, WorkerStep, Dispatching, Endpoints, Approvals

(* Every reachable state has the declared types, and every worker that is  *)
(* not idle works on a submitted run of the conversation.                  *)
THEOREM TypeCorrect == Spec => []TypeOK
  <1>1. Init => TypeOK
    <2> SUFFICES ASSUME Init PROVE TypeOK
      OBVIOUS
    <2>1. 0 \in Call0 /\ 0 \in 0..MaxMsgs /\ 0 \in 0..MaxTurns
      BY AgentRunAssumption DEF Call0
    <2>2. RowsOK /\ CallsOK
      BY <2>1 DEF Init, RowsOK, CallsOK, Statuses, Ages, Answers, ExecStatuses
    <2>3. SharedOK
      BY <2>1 DEF Init, SharedOK, NotSwept
    <2>4. WorkersOK
      BY <2>1 DEF Init, WorkersOK, Labels
    <2> QED BY <2>2, <2>3, <2>4 DEF TypeOK
  <1>2. TypeOK /\ [Next]_vars => TypeOK'
    BY TypeStep
  <1> QED BY <1>1, <1>2, PTL DEF Spec

-----------------------------------------------------------------------------
(* The run lifecycle *)

(* A compare-and-set to a status that may follow each of the allowed ones  *)
(* is a step of the lifecycle, or a stutter.                               *)
LEMMA TransitionMoves ==
  ASSUME NEW r \in Runs, NEW allowed, NEW s, Transition(r, allowed, s),
         \A a \in allowed : s \in Lifecycle!After(a)
  PROVE  [Lifecycle!Next]_status
  BY DEF Transition, Lifecycle!Next, Lifecycle!Move

(* So is an assignment under a row lock, when the status allows it. *)
LEMMA AssignmentMoves ==
  ASSUME NEW r \in Runs, NEW s \in Lifecycle!After(status[r]),
         status' = [status EXCEPT ![r] = s]
  PROVE  [Lifecycle!Next]_status
  BY DEF Lifecycle!Next, Lifecycle!Move

(* Every step of the system is a step of the lifecycle or leaves every     *)
(* status alone.                                                           *)
LEMMA StatusStep == ASSUME TypeOK, [Next]_vars PROVE [Lifecycle!Next]_status
  <1>Claim. ASSUME NEW w \in Workers, Claim(w) PROVE [Lifecycle!Next]_status
    BY <1>Claim, AssignmentMoves DEF TypeOK, WorkersOK, Claim,
       Lifecycle!After
  <1>PreMark. ASSUME NEW w \in Workers, PreMark(w) PROVE [Lifecycle!Next]_status
    BY <1>PreMark, TransitionMoves DEF TypeOK, WorkersOK, PreMark,
       Lifecycle!After
  <1>LockBusy. ASSUME NEW w \in Workers, LockBusy(w) PROVE [Lifecycle!Next]_status
    BY <1>LockBusy, TransitionMoves DEF TypeOK, WorkersOK, LockBusy,
       Lifecycle!After
  <1>Park. ASSUME NEW w \in Workers, Park(w) PROVE [Lifecycle!Next]_status
    BY <1>Park, AssignmentMoves DEF TypeOK, WorkersOK, Park, Lifecycle!After
  <1>Recheck. ASSUME NEW w \in Workers, Recheck(w) PROVE [Lifecycle!Next]_status
    BY <1>Recheck, AssignmentMoves DEF TypeOK, WorkersOK, Recheck, Resumable,
       QueueResume, Lifecycle!After
  <1>MarkStopped. ASSUME NEW w \in Workers, MarkStopped(w) PROVE [Lifecycle!Next]_status
    BY <1>MarkStopped, TransitionMoves DEF TypeOK, WorkersOK, MarkStopped,
       Lifecycle!After
  <1>ClaimCompletion. ASSUME NEW w \in Workers, ClaimCompletion(w) PROVE [Lifecycle!Next]_status
    BY <1>ClaimCompletion, AssignmentMoves DEF TypeOK, WorkersOK,
       ClaimCompletion, Lifecycle!After
  <1>MarkCompleted. ASSUME NEW w \in Workers, MarkCompleted(w) PROVE [Lifecycle!Next]_status
    BY <1>MarkCompleted, TransitionMoves DEF TypeOK, WorkersOK,
       MarkCompleted, Lifecycle!After
  <1>Except. ASSUME NEW w \in Workers, Except(w) PROVE [Lifecycle!Next]_status
    BY <1>Except, TransitionMoves DEF TypeOK, WorkersOK, Except,
       Lifecycle!After
  <1>DispatchDeferred. ASSUME NEW w \in Workers, DispatchDeferred(w) PROVE [Lifecycle!Next]_status
    BY <1>DispatchDeferred, TransitionMoves DEF TypeOK, WorkersOK,
       DispatchDeferred, Lifecycle!After, Jobs
  <1>SafetyFail. ASSUME NEW w \in Workers, SafetyFail(w) PROVE [Lifecycle!Next]_status
    <2>1. PICK s \in InFlight :
            pc[w] = FailFrom[s] /\ Transition(wrun[w], {s}, "failed")
      BY <1>SafetyFail DEF SafetyFail
    <2>2. FailFrom[s] # "idle"
      BY DEF FailFrom, InFlight
    <2>3. wrun[w] \in Runs
      BY <2>1, <2>2 DEF TypeOK, WorkersOK
    <2>4. "failed" \in Lifecycle!After(s)
      BY DEF InFlight, Lifecycle!After
    <2> QED BY <2>1, <2>3, <2>4, TransitionMoves
  <1>ContextLost. ASSUME NEW w \in Workers, ContextLost(w) PROVE [Lifecycle!Next]_status
    BY <1>ContextLost, TransitionMoves DEF TypeOK, WorkersOK, ContextLost,
       Lifecycle!After
  <1>PublishFails. ASSUME NEW j \in Jobs, PublishFails(j) PROVE [Lifecycle!Next]_status
    <2>1. CASE Transition(j[1], {"queued"}, "failed")
      BY <2>1, TransitionMoves DEF Lifecycle!After, Jobs
    <2>2. CASE UNCHANGED status
      BY <2>2
    <2> QED BY <1>PublishFails, <2>1, <2>2 DEF PublishFails
  <1>Submit. ASSUME NEW r \in Runs, Submit(r) PROVE [Lifecycle!Next]_status
    BY <1>Submit, AssignmentMoves DEF Submit, Lifecycle!After
  <1>StopParked. ASSUME NEW r \in Runs, StopParked(r) PROVE [Lifecycle!Next]_status
    BY <1>StopParked, AssignmentMoves DEF StopParked, Lifecycle!After
  <1>StopRunning. ASSUME NEW r \in Runs, StopRunning(r) PROVE [Lifecycle!Next]_status
    <2>1. CASE status[r] = "running"
      BY <1>StopRunning, <2>1, AssignmentMoves DEF StopRunning, Lifecycle!After
    <2>2. CASE status[r] = "stopping"
      BY <1>StopRunning, <2>2 DEF TypeOK, RowsOK, StopRunning
    <2> QED BY <1>StopRunning, <2>1, <2>2 DEF StopRunning
  <1>SubmitAnswers. ASSUME NEW r \in Runs, SubmitAnswers(r) PROVE [Lifecycle!Next]_status
    BY <1>SubmitAnswers, AssignmentMoves DEF SubmitAnswers, Lifecycle!After
  <1>SweepMark. ASSUME NEW r \in Runs, SweepMark(r) PROVE [Lifecycle!Next]_status
    <2>1. CASE status[r] = sweep[r][1]
      <3>1. status[r] \in {"running", "stopping"}
        BY <2>1 DEF TypeOK, RowsOK, SharedOK, Statuses, InFlight, Terminal
      <3>2. status' = [status EXCEPT ![r] = "interrupted"]
        BY <1>SweepMark, <2>1 DEF SweepMark, Transition
      <3> QED BY <3>1, <3>2, AssignmentMoves DEF Lifecycle!After
    <2>2. CASE status[r] # sweep[r][1]
      BY <1>SweepMark, <2>2 DEF SweepMark, Transition
    <2> QED BY <2>1, <2>2
  <1>ScheduleResume. ASSUME NEW r \in Runs, NEW k \in Calls, ScheduleResume(r, k) PROVE [Lifecycle!Next]_status
    <2>1. CASE Resumable(r, k) /\ status' = [status EXCEPT ![r] = "queued"]
      BY <2>1, AssignmentMoves DEF Resumable, Lifecycle!After
    <2>2. CASE UNCHANGED status
      BY <2>2
    <2> QED BY <1>ScheduleResume, <2>1, <2>2 DEF ScheduleResume, QueueResume
  <1>quiet. ASSUME UNCHANGED status PROVE [Lifecycle!Next]_status
    BY <1>quiet
  <1> QED BY ZenonT(60), <1>quiet, <1>Claim, <1>PreMark, <1>LockBusy, <1>Park,
     <1>Recheck, <1>MarkStopped, <1>ClaimCompletion, <1>MarkCompleted,
     <1>Except, <1>DispatchDeferred, <1>SafetyFail, <1>ContextLost,
     <1>PublishFails, <1>Submit, <1>StopParked, <1>StopRunning,
     <1>SubmitAnswers, <1>SweepMark, <1>ScheduleResume DEF vars, rowVars,
     Next, WorkerStep, Dispatching, Endpoints, Approvals, Load, PreCheck,
     PreStop, Acquire, Busy, Owned, DropInputs, FinishApproved, RecordResult,
     Rebuild, LoopHead, LoopCheck, Turn, TurnPauses, Drain, LastCheck,
     FinalizeStopped, FinalizeCompleted, ReleaseGet, ReleaseDelete,
     SafetyNet, WorkerError, WorkerDies, Receive, Publish, RedispatchQueued,
     ListPending, CancelPending, EnqueueStop, PostStopInput, GrowOld,
     SweepRead, SweepCheck, Decide, Expire, StaleClaim, LeaseExpires, ApiDies

(* Whatever the workers, endpoints, duplicates, kills and sweeps do, every *)
(* run goes through the lifecycle of AgentRunStatus: nothing leaves a      *)
(* terminal status, a stop is not overtaken by a completion, and a parked  *)
(* run goes on only through the queue.                                     *)
THEOREM LifecycleRefined == Spec => ImplementsLifecycle
  <1>1. Init => Lifecycle!Init
    BY DEF Init, Lifecycle!Init
  <1>2. TypeOK /\ [Next]_vars => [Lifecycle!Next]_status
    BY StatusStep
  <1> QED BY <1>1, <1>2, TypeCorrect, PTL DEF Spec, ImplementsLifecycle, Lifecycle!Spec

-----------------------------------------------------------------------------
(* The conversation lock *)

(* A step that leaves the lock alone and brings no worker into the part    *)
(* that owns it preserves the exclusion.                                   *)
NoNewOwner ==
  \A v \in Workers : pc'[v] \in Owning => pc[v] \in Owning /\ wrun'[v] = wrun[v]

LEMMA LockKept ==
  ASSUME OneActiveWorker, NoNewOwner, UNCHANGED lock
  PROVE  OneActiveWorker'
  BY DEF OneActiveWorker, NoNewOwner

(* A worker that goes from label to label within the owning part, or to a  *)
(* label outside it, is no new owner; neither is one that returns.         *)
LEMMA GotoKeeps ==
  ASSUME TypeOK, NEW w \in Workers, NEW l, Goto(w, l), UNCHANGED wrun,
         pc[w] \in Owning \/ l \notin Owning
  PROVE  NoNewOwner
  BY DEF TypeOK, WorkersOK, Goto, NoNewOwner

LEMMA ReturnKeeps ==
  ASSUME TypeOK, NEW w \in Workers, Return(w)
  PROVE  NoNewOwner
  BY DEF TypeOK, WorkersOK, Return, NoNewOwner, Owning, TryBlock, LoopSteps

(* Every step preserves the exclusion.  Only three kinds of steps touch    *)
(* the lock: SET NX finds it free, so that nobody owned it; the DELETE is  *)
(* the owner's last step; a lease runs out under nobody alive.             *)
LEMMA OwnerStep ==
  ASSUME TypeOK, OneActiveWorker, [Next]_vars PROVE OneActiveWorker'
  <1>Load. ASSUME NEW w \in Workers, Load(w) PROVE OneActiveWorker'
    BY <1>Load, GotoKeeps, ReturnKeeps, LockKept DEF Load, workerVars,
       Owning, TryBlock, LoopSteps
  <1>Claim. ASSUME NEW w \in Workers, Claim(w) PROVE OneActiveWorker'
    BY <1>Claim, GotoKeeps, ReturnKeeps, LockKept DEF Claim, Owning,
       TryBlock, LoopSteps
  <1>PreCheck. ASSUME NEW w \in Workers, PreCheck(w) PROVE OneActiveWorker'
    BY <1>PreCheck, GotoKeeps, LockKept DEF PreCheck, workerVars, Owning,
       TryBlock, LoopSteps
  <1>PreStop. ASSUME NEW w \in Workers, PreStop(w) PROVE OneActiveWorker'
    BY <1>PreStop, GotoKeeps, LockKept DEF PreStop, workerVars, Owning,
       TryBlock, LoopSteps
  <1>PreMark. ASSUME NEW w \in Workers, PreMark(w) PROVE OneActiveWorker'
    BY <1>PreMark, ReturnKeeps, LockKept DEF PreMark
  <1>Acquire. ASSUME NEW w \in Workers, Acquire(w) PROVE OneActiveWorker'
    <2>1. CASE lock = NoRun
      <3>1. ASSUME ~LeaseLoss, NEW v \in Workers PROVE pc[v] \notin Owning
        <4>1. SUFFICES ASSUME pc[v] \in Owning PROVE FALSE
          OBVIOUS
        <4>2. lock = wrun[v] /\ pc[v] # "idle"
          BY <3>1, <4>1 DEF OneActiveWorker, Owning, TryBlock, LoopSteps
        <4> QED BY <2>1, <4>2, AgentRunAssumption DEF TypeOK, WorkersOK
      <3> QED
        BY <1>Acquire, <2>1, <3>1
        DEF Acquire, Goto, OneActiveWorker, TypeOK, WorkersOK, workerVars
    <2>2. CASE lock # NoRun
      <3>1. Goto(w, "busy") /\ UNCHANGED <<lock, wrun>>
        BY <1>Acquire, <2>2 DEF Acquire, workerVars
      <3>2. "busy" \notin Owning
        BY DEF Owning, TryBlock, LoopSteps
      <3> QED BY <3>1, <3>2, GotoKeeps, LockKept
    <2> QED BY <2>1, <2>2
  <1>Busy. ASSUME NEW w \in Workers, Busy(w) PROVE OneActiveWorker'
    BY <1>Busy, GotoKeeps, LockKept DEF Busy, workerVars, Owning, TryBlock,
       LoopSteps
  <1>LockBusy. ASSUME NEW w \in Workers, LockBusy(w) PROVE OneActiveWorker'
    BY <1>LockBusy, ReturnKeeps, LockKept DEF LockBusy
  <1>Owned. ASSUME NEW w \in Workers, Owned(w) PROVE OneActiveWorker'
    BY <1>Owned, GotoKeeps, LockKept DEF Owned, workerVars, Owning, TryBlock,
       LoopSteps
  <1>DropInputs. ASSUME NEW w \in Workers, DropInputs(w) PROVE OneActiveWorker'
    BY <1>DropInputs, GotoKeeps, LockKept DEF DropInputs, workerVars, Owning,
       TryBlock, LoopSteps
  <1>FinishApproved. ASSUME NEW w \in Workers, FinishApproved(w) PROVE OneActiveWorker'
    BY <1>FinishApproved, GotoKeeps, LockKept DEF FinishApproved, workerVars,
       Owning, TryBlock, LoopSteps
  <1>RecordResult. ASSUME NEW w \in Workers, RecordResult(w) PROVE OneActiveWorker'
    BY <1>RecordResult, GotoKeeps, LockKept DEF RecordResult, Owning,
       TryBlock, LoopSteps
  <1>Rebuild. ASSUME NEW w \in Workers, Rebuild(w) PROVE OneActiveWorker'
    BY <1>Rebuild, GotoKeeps, LockKept DEF Rebuild, workerVars, Owning,
       TryBlock, LoopSteps
  <1>LoopHead. ASSUME NEW w \in Workers, LoopHead(w) PROVE OneActiveWorker'
    BY <1>LoopHead, GotoKeeps, LockKept DEF LoopHead, Owning, TryBlock,
       LoopSteps
  <1>LoopCheck. ASSUME NEW w \in Workers, LoopCheck(w) PROVE OneActiveWorker'
    BY <1>LoopCheck, GotoKeeps, LockKept DEF LoopCheck, workerVars, Owning,
       TryBlock, LoopSteps
  <1>Turn. ASSUME NEW w \in Workers, Turn(w) PROVE OneActiveWorker'
    BY <1>Turn, GotoKeeps, LockKept DEF Turn, workerVars, Owning, TryBlock,
       LoopSteps
  <1>TurnPauses. ASSUME NEW w \in Workers, TurnPauses(w) PROVE OneActiveWorker'
    BY <1>TurnPauses, GotoKeeps, LockKept DEF TurnPauses, Owning, TryBlock,
       LoopSteps
  <1>Drain. ASSUME NEW w \in Workers, Drain(w) PROVE OneActiveWorker'
    BY <1>Drain, GotoKeeps, LockKept DEF Drain, workerVars, Owning, TryBlock,
       LoopSteps
  <1>LastCheck. ASSUME NEW w \in Workers, LastCheck(w) PROVE OneActiveWorker'
    BY <1>LastCheck, GotoKeeps, LockKept DEF LastCheck, workerVars, Owning,
       TryBlock, LoopSteps
  <1>Park. ASSUME NEW w \in Workers, Park(w) PROVE OneActiveWorker'
    BY <1>Park, GotoKeeps, LockKept DEF Park, workerVars, Owning, TryBlock,
       LoopSteps
  <1>Recheck. ASSUME NEW w \in Workers, Recheck(w) PROVE OneActiveWorker'
    BY <1>Recheck, GotoKeeps, LockKept DEF Recheck, Owning, TryBlock,
       LoopSteps
  <1>FinalizeStopped. ASSUME NEW w \in Workers, FinalizeStopped(w) PROVE OneActiveWorker'
    BY <1>FinalizeStopped, GotoKeeps, LockKept DEF FinalizeStopped,
       workerVars, Owning, TryBlock, LoopSteps
  <1>MarkStopped. ASSUME NEW w \in Workers, MarkStopped(w) PROVE OneActiveWorker'
    BY <1>MarkStopped, GotoKeeps, LockKept DEF MarkStopped, workerVars,
       Owning, TryBlock, LoopSteps
  <1>ClaimCompletion. ASSUME NEW w \in Workers, ClaimCompletion(w) PROVE OneActiveWorker'
    BY <1>ClaimCompletion, GotoKeeps, LockKept DEF ClaimCompletion,
       workerVars, Owning, TryBlock, LoopSteps
  <1>FinalizeCompleted. ASSUME NEW w \in Workers, FinalizeCompleted(w) PROVE OneActiveWorker'
    BY <1>FinalizeCompleted, GotoKeeps, LockKept DEF FinalizeCompleted,
       workerVars, Owning, TryBlock, LoopSteps
  <1>MarkCompleted. ASSUME NEW w \in Workers, MarkCompleted(w) PROVE OneActiveWorker'
    BY <1>MarkCompleted, GotoKeeps, LockKept DEF MarkCompleted, workerVars,
       Owning, TryBlock, LoopSteps
  <1>Except. ASSUME NEW w \in Workers, Except(w) PROVE OneActiveWorker'
    BY <1>Except, GotoKeeps, LockKept DEF Except, workerVars, Owning,
       TryBlock, LoopSteps
  <1>ReleaseGet. ASSUME NEW w \in Workers, ReleaseGet(w) PROVE OneActiveWorker'
    <2>1. CASE Return(w)
      BY <1>ReleaseGet, <2>1, ReturnKeeps, LockKept DEF ReleaseGet
    <2>2. CASE ~Return(w)
      <3>1. PICK l : Goto(w, l) /\ UNCHANGED workerVars
        BY <1>ReleaseGet, <2>2 DEF ReleaseGet, AfterRelease
      <3> QED
        BY <1>ReleaseGet, <3>1, GotoKeeps, LockKept DEF ReleaseGet, workerVars, Owning
    <2> QED BY <2>1, <2>2
  <1>ReleaseDelete. ASSUME NEW w \in Workers, ReleaseDelete(w) PROVE OneActiveWorker'
    <2>1. ASSUME ~LeaseLoss, NEW v \in Workers, v # w PROVE pc'[v] \notin Owning
      <3>1. pc[v] \notin Owning
        BY <1>ReleaseDelete, <2>1 DEF ReleaseDelete, OneActiveWorker, Owning
      <3> QED
        BY <1>ReleaseDelete, <2>1, <3>1
        DEF ReleaseDelete, AfterRelease, Return, Goto, TypeOK, WorkersOK
    <2>2. pc'[w] \in {"idle", "dispatch", "safety"}
      BY <1>ReleaseDelete
      DEF ReleaseDelete, AfterRelease, Return, Goto, TypeOK, WorkersOK
    <2>3. pc'[w] \notin Owning
      BY <2>2 DEF Owning, TryBlock, LoopSteps
    <2> QED BY <2>1, <2>3 DEF OneActiveWorker
  <1>DispatchDeferred. ASSUME NEW w \in Workers, DispatchDeferred(w) PROVE OneActiveWorker'
    BY <1>DispatchDeferred, ReturnKeeps, LockKept DEF DispatchDeferred
  <1>SafetyNet. ASSUME NEW w \in Workers, SafetyNet(w) PROVE OneActiveWorker'
    <2>1. CASE Return(w)
      BY <1>SafetyNet, <2>1, ReturnKeeps, LockKept DEF SafetyNet
    <2>2. CASE ~Return(w)
      <3>1. PICK s \in InFlight : Goto(w, FailFrom[s]) /\ UNCHANGED workerVars
        BY <1>SafetyNet, <2>2 DEF SafetyNet
      <3>2. FailFrom[s] \notin Owning
        BY DEF FailFrom, InFlight, Owning, TryBlock, LoopSteps
      <3> QED
        BY <1>SafetyNet, <3>1, <3>2, GotoKeeps, LockKept DEF SafetyNet, workerVars
    <2> QED BY <2>1, <2>2
  <1>SafetyFail. ASSUME NEW w \in Workers, SafetyFail(w) PROVE OneActiveWorker'
    BY <1>SafetyFail, ReturnKeeps, LockKept DEF SafetyFail
  <1>ContextLost. ASSUME NEW w \in Workers, ContextLost(w) PROVE OneActiveWorker'
    BY <1>ContextLost, ReturnKeeps, LockKept DEF ContextLost
  <1>WorkerError. ASSUME NEW w \in Workers, WorkerError(w) PROVE OneActiveWorker'
    BY <1>WorkerError, GotoKeeps, LockKept DEF WorkerError, Owning, TryBlock,
       LoopSteps
  <1>WorkerDies. ASSUME NEW w \in Workers, WorkerDies(w) PROVE OneActiveWorker'
    BY <1>WorkerDies, ReturnKeeps, LockKept DEF WorkerDies
  <1>Receive. ASSUME NEW w \in Workers, NEW j \in Jobs, Receive(w, j) PROVE OneActiveWorker'
    <2>1. NoNewOwner
      BY <1>Receive
      DEF Receive, Goto, NoNewOwner, TypeOK, WorkersOK, Owning, TryBlock, LoopSteps
    <2> QED BY <1>Receive, <2>1, LockKept DEF Receive
  <1>LeaseExpires. ASSUME LeaseExpires PROVE OneActiveWorker'
    BY <1>LeaseExpires
    DEF LeaseExpires, OneActiveWorker, workerVars
  <1>quiet. ASSUME UNCHANGED <<pc, wrun, lock>> PROVE OneActiveWorker'
    BY <1>quiet DEF OneActiveWorker
  <1> QED BY ZenonT(60), <1>quiet, <1>Load, <1>Claim, <1>PreCheck, <1>PreStop,
     <1>PreMark, <1>Acquire, <1>Busy, <1>LockBusy, <1>Owned, <1>DropInputs,
     <1>FinishApproved, <1>RecordResult, <1>Rebuild, <1>LoopHead,
     <1>LoopCheck, <1>Turn, <1>TurnPauses, <1>Drain, <1>LastCheck, <1>Park,
     <1>Recheck, <1>FinalizeStopped, <1>MarkStopped, <1>ClaimCompletion,
     <1>FinalizeCompleted, <1>MarkCompleted, <1>Except, <1>ReleaseGet,
     <1>ReleaseDelete, <1>DispatchDeferred, <1>SafetyNet, <1>SafetyFail,
     <1>ContextLost, <1>WorkerError, <1>WorkerDies, <1>Receive,
     <1>LeaseExpires DEF vars, workerVars, Next, WorkerStep, Dispatching,
     Endpoints, Approvals, Publish, PublishFails, Submit, RedispatchQueued,
     StopParked, ListPending, CancelPending, StopRunning, EnqueueStop,
     PostStopInput, SubmitAnswers, GrowOld, SweepRead, SweepCheck, SweepMark, Decide,
     Expire, ScheduleResume, StaleClaim, ApiDies

(* "One active run per conversation" (agent_run_store.py): while leases    *)
(* are not lost, for any number of runs and workers, duplicates, errors    *)
(* and kills, at most one worker is between acquire_run_lock and the end   *)
(* of release_run_lock, and the lock names its run.                        *)
THEOREM LockExclusive == Spec => []OneActiveWorker
  <1>1. Init => OneActiveWorker
    BY DEF Init, OneActiveWorker, Owning, TryBlock, LoopSteps
  <1>2. TypeOK /\ OneActiveWorker /\ [Next]_vars => OneActiveWorker'
    BY OwnerStep
  <1> QED BY <1>1, <1>2, TypeCorrect, PTL DEF Spec
===============================================================================
