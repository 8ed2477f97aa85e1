-------------------------- MODULE AgentRunParkProofs --------------------------
(***************************************************************************)
(* More theorems about AgentRun: a waiting run keeps the call it waits     *)
(* for, under every fault the model has, and a queued run its message,     *)
(* where no process is killed.                                             *)
(***************************************************************************)
EXTENDS AgentRunProofs

-----------------------------------------------------------------------------
(* What a step does to its worker and to its row *)

(* A step leaves worker v alone, ... *)
Same(v) ==
  /\ pc'[v] = pc[v] /\ wrun'[v] = wrun[v]
  /\ wcall'[v] = wcall[v] /\ after'[v] = after[v]

(* ... or every worker but w. *)
Only(w) == \A v \in Workers \ {w} : Same(v)

(* Goto moves the worker, and it only. *)
LEMMA GotoTo ==
  ASSUME TypeOK, NEW w \in Workers, NEW l, Goto(w, l)
  PROVE  pc'[w] = l /\ \A v \in Workers \ {w} : pc'[v] = pc[v]
  BY DEF TypeOK, WorkersOK, Goto

(* Return frees the worker. *)
LEMMA ReturnTo ==
  ASSUME TypeOK, NEW w \in Workers, Return(w)
  PROVE  /\ pc'[w] = "idle" /\ wrun'[w] = NoRun
         /\ wcall'[w] = 0 /\ after'[w] = "return"
         /\ Only(w)
  BY DEF TypeOK, WorkersOK, Return, Only, Same

(* The statuses only move along the lifecycle. *)
LEMMA StatusFollows ==
  ASSUME TypeOK, [Next]_vars, NEW r \in Runs
  PROVE  status'[r] = status[r] \/ status'[r] \in Lifecycle!After(status[r])
  BY StatusStep DEF Lifecycle!Next, Lifecycle!Move, TypeOK, RowsOK

(* "Terminal states are final", whoever saves the row. *)
LEMMA TerminalStays ==
  ASSUME TypeOK, [Next]_vars, NEW r \in Runs, status[r] \in Terminal
  PROVE  status'[r] = status[r]
  BY StatusFollows DEF Lifecycle!After, Terminal

(* The step of a worker is its own. *)
LEMMA Alone ==
  ASSUME TypeOK, NEW w \in Workers,
         WorkerStep(w) \/ ContextLost(w) \/ WorkerError(w) \/ WorkerDies(w)
  PROVE  Only(w)
  <1> USE DEF TypeOK, WorkersOK, Goto, Return, Only, Same, workerVars
  <1>1. Load(w) => Only(w)
    BY DEF Load
  <1>2. Claim(w) => Only(w)
    BY DEF Claim
  <1>3. Recheck(w) => Only(w)
    BY DEF Recheck
  <1>4. ReleaseGet(w) \/ ReleaseDelete(w) => Only(w)
    BY DEF ReleaseGet, ReleaseDelete, AfterRelease
  <1>5. TurnPauses(w) => Only(w)
    BY DEF TurnPauses
  <1>6. WorkerError(w) => Only(w)
    BY DEF WorkerError
  <1>7. PreCheck(w) \/ PreStop(w) \/ PreMark(w) \/ Acquire(w) \/ Busy(w) \/ LockBusy(w) \/ Owned(w)
          => Only(w)
    BY DEF PreCheck, PreStop, PreMark, Acquire, Busy, LockBusy, Owned
  <1>8. DropInputs(w) \/ FinishApproved(w) \/ RecordResult(w) \/ Rebuild(w) \/ LoopHead(w)
          \/ LoopCheck(w) => Only(w)
    BY DEF DropInputs, FinishApproved, RecordResult, Rebuild, LoopHead, LoopCheck
  <1>9. Turn(w) \/ Drain(w) \/ LastCheck(w) \/ Park(w) \/ FinalizeStopped(w) \/ MarkStopped(w)
          => Only(w)
    BY DEF Turn, Drain, LastCheck, Park, FinalizeStopped, MarkStopped
  <1>10. ClaimCompletion(w) \/ FinalizeCompleted(w) \/ MarkCompleted(w) \/ Except(w) => Only(w)
    BY DEF ClaimCompletion, FinalizeCompleted, MarkCompleted, Except
  <1>11. DispatchDeferred(w) \/ SafetyNet(w) \/ SafetyFail(w) \/ ContextLost(w) \/ WorkerDies(w)
           => Only(w)
    BY DEF DispatchDeferred, SafetyNet, SafetyFail, ContextLost, WorkerDies
  <1> QED
    BY <1>1, <1>2, <1>3, <1>4, <1>5, <1>6, <1>7, <1>8, <1>9, <1>10, <1>11 DEF WorkerStep

(* Worker w carries run r: it is about to claim it, to send it again or to fail it. *)
OnItsWay(w, r) ==
  /\ wrun[w] = r
  /\ \/ pc[w] \in {"load", "claim", "safety", "fail_queued"}
     \/ pc[w] \in {"release", "delete", "dispatch"} /\ after[w] # "return"

(* Task message j is about to be published, or in the broker. *)
InBroker(j) == j \in pub \/ msgs[j] > 0

(* The message of run r is not lost: it is in the broker or with a worker. *)
Carried(r) ==
  \/ \E k \in Call0 : InBroker(<<r, k>>)
  \/ \E w \in Workers : OnItsWay(w, r)

(* The invariant behind QueuedIsDispatched.  It is stronger on a worker in *)
(* its finally block, which must still have something to do for the run.   *)
Dispatched ==
  ~Crash /\ ~Redispatch => \A r \in Runs : status[r] = "queued" => Carried(r)

(* A worker moves on with its run, or leaves one that is not queued. *)
LEMMA CarrierKept ==
  ASSUME Dispatched, NEW w \in Workers, Only(w), UNCHANGED <<pub, msgs>>,
         \A r \in Runs : status'[r] = "queued" =>
           status[r] = "queued" /\ (~Crash /\ OnItsWay(w, r) => OnItsWay(w, r)')
  PROVE  Dispatched'
  BY DEF Dispatched, Carried, InBroker, OnItsWay, Only, Same

(* Load sends the worker where the status says. *)
LEMMA LoadSplits ==
  ASSUME NEW w, Load(w)
  PROVE  \/ Return(w) /\ status[wrun[w]] \in Terminal \cup {"waiting", "completing"}
         \/ Goto(w, "claim") /\ status[wrun[w]] = "queued" /\ UNCHANGED workerVars
         \/ Goto(w, "precheck") /\ status[wrun[w]] = "running" /\ UNCHANGED workerVars
         \/ Goto(w, "prestop") /\ status[wrun[w]] = "stopping" /\ UNCHANGED workerVars
  BY DEF Load

(* Messages are only added, or move from a publication to the broker. *)
LEMMA BrokerKept ==
  ASSUME Dispatched, \A j \in Jobs : InBroker(j) => InBroker(j)',
         UNCHANGED <<status, pc, wrun, wcall, after>>
  PROVE  Dispatched'
  BY DEF Dispatched, Carried, OnItsWay, Jobs

(* The compare-and-set, row by row. *)
LEMMA CasTo ==
  ASSUME TypeOK, NEW r \in Runs, NEW allowed, NEW s, Transition(r, allowed, s)
  PROVE  /\ status'[r] = IF status[r] \in allowed THEN s ELSE status[r]
         /\ \A q \in Runs \ {r} : status'[q] = status[q]
  BY DEF TypeOK, RowsOK, Transition

(* One more copy of a message, ... *)
LEMMA MsgMore ==
  ASSUME msgs \in [Jobs -> 0..MaxMsgs], NEW j \in Jobs, msgs' = [msgs EXCEPT ![j] = @ + 1]
  PROVE  /\ msgs'[j] = msgs[j] + 1 /\ msgs'[j] > 0
         /\ \A i \in Jobs \ {j} : msgs'[i] = msgs[i]
         /\ \A i \in Jobs : msgs[i] > 0 => msgs'[i] > 0
  BY AgentRunAssumption

(* ... which is not the same as none. *)
LEMMA NoMsgKept ==
  ASSUME msgs \in [Jobs -> 0..MaxMsgs], NEW j \in Jobs, msgs' = msgs
  PROVE  msgs' # [msgs EXCEPT ![j] = @ + 1]
  BY AgentRunAssumption

(* No step leaves a queued run without its message. *)
LEMMA DispatchStep == ASSUME TypeOK, Dispatched, [Next]_vars PROVE Dispatched'
  <1>Load. ASSUME NEW w \in Workers, Load(w) PROVE Dispatched'
    <2>1. CASE Return(w) /\ status[wrun[w]] # "queued"
      BY <1>Load, <2>1, ReturnTo, CarrierKept
      DEF Load, OnItsWay, brokerVars, rowVars, Only, Same
    <2>2. CASE Goto(w, "claim") /\ UNCHANGED workerVars
      BY <1>Load, <2>2, Alone, GotoTo, CarrierKept
      DEF Load, WorkerStep, OnItsWay, brokerVars, rowVars, workerVars
    <2>3. CASE status[wrun[w]] # "queued" /\ UNCHANGED workerVars
      BY <1>Load, <2>3, Alone, CarrierKept
      DEF Load, WorkerStep, OnItsWay, brokerVars, rowVars, workerVars
    <2> QED BY <1>Load, <2>1, <2>2, <2>3, LoadSplits DEF Terminal
  <1>Claim. ASSUME NEW w \in Workers, Claim(w) PROVE Dispatched'
    <2>1. status'[wrun[w]] # "queued"
      BY <1>Claim DEF TypeOK, RowsOK, WorkersOK, Claim
    <2>2. \A r \in Runs : status'[r] = "queued" => status[r] = "queued"
      BY <1>Claim DEF TypeOK, RowsOK, WorkersOK, Claim
    <2> QED
      BY <1>Claim, <2>1, <2>2, Alone, CarrierKept
      DEF Claim, WorkerStep, OnItsWay, brokerVars
  <1>PreCheck. ASSUME NEW w \in Workers, PreCheck(w) PROVE Dispatched'
    BY <1>PreCheck, Alone, GotoTo, ReturnTo, CarrierKept DEF PreCheck,
       WorkerStep, OnItsWay, Only, Same, brokerVars, rowVars, workerVars
  <1>PreStop. ASSUME NEW w \in Workers, PreStop(w) PROVE Dispatched'
    BY <1>PreStop, Alone, GotoTo, ReturnTo, CarrierKept DEF PreStop,
       WorkerStep, OnItsWay, Only, Same, brokerVars, rowVars, workerVars
  <1>PreMark. ASSUME NEW w \in Workers, PreMark(w) PROVE Dispatched'
    BY <1>PreMark, Alone, GotoTo, ReturnTo, CarrierKept DEF PreMark,
       WorkerStep, OnItsWay, Only, Same, brokerVars, rowVars, workerVars,
       Transition
  <1>Acquire. ASSUME NEW w \in Workers, Acquire(w) PROVE Dispatched'
    BY <1>Acquire, Alone, GotoTo, ReturnTo, CarrierKept DEF Acquire,
       WorkerStep, OnItsWay, Only, Same, brokerVars, rowVars, workerVars
  <1>Busy. ASSUME NEW w \in Workers, Busy(w) PROVE Dispatched'
    BY <1>Busy, Alone, GotoTo, ReturnTo, CarrierKept DEF Busy, WorkerStep,
       OnItsWay, Only, Same, brokerVars, rowVars, workerVars
  <1>LockBusy. ASSUME NEW w \in Workers, LockBusy(w) PROVE Dispatched'
    BY <1>LockBusy, Alone, GotoTo, ReturnTo, CarrierKept DEF LockBusy,
       WorkerStep, OnItsWay, Only, Same, brokerVars, rowVars, workerVars,
       Transition
  <1>Owned. ASSUME NEW w \in Workers, Owned(w) PROVE Dispatched'
    BY <1>Owned, Alone, GotoTo, ReturnTo, CarrierKept DEF Owned, WorkerStep,
       OnItsWay, Only, Same, brokerVars, rowVars, workerVars
  <1>DropInputs. ASSUME NEW w \in Workers, DropInputs(w) PROVE Dispatched'
    BY <1>DropInputs, Alone, GotoTo, ReturnTo, CarrierKept DEF DropInputs,
       WorkerStep, OnItsWay, Only, Same, brokerVars, rowVars, workerVars
  <1>FinishApproved. ASSUME NEW w \in Workers, FinishApproved(w) PROVE Dispatched'
    BY <1>FinishApproved, Alone, GotoTo, ReturnTo, CarrierKept DEF
       FinishApproved, WorkerStep, OnItsWay, Only, Same, brokerVars, rowVars,
       workerVars
  <1>RecordResult. ASSUME NEW w \in Workers, RecordResult(w) PROVE Dispatched'
    BY <1>RecordResult, Alone, GotoTo, ReturnTo, CarrierKept DEF RecordResult,
       WorkerStep, OnItsWay, Only, Same, brokerVars, rowVars, workerVars
  <1>Rebuild. ASSUME NEW w \in Workers, Rebuild(w) PROVE Dispatched'
    BY <1>Rebuild, Alone, GotoTo, ReturnTo, CarrierKept DEF Rebuild,
       WorkerStep, OnItsWay, Only, Same, brokerVars, rowVars, workerVars
  <1>LoopHead. ASSUME NEW w \in Workers, LoopHead(w) PROVE Dispatched'
    BY <1>LoopHead, Alone, GotoTo, ReturnTo, CarrierKept DEF LoopHead,
       WorkerStep, OnItsWay, Only, Same, brokerVars, rowVars, workerVars
  <1>LoopCheck. ASSUME NEW w \in Workers, LoopCheck(w) PROVE Dispatched'
    BY <1>LoopCheck, Alone, GotoTo, ReturnTo, CarrierKept DEF LoopCheck,
       WorkerStep, OnItsWay, Only, Same, brokerVars, rowVars, workerVars
  <1>Turn. ASSUME NEW w \in Workers, Turn(w) PROVE Dispatched'
    BY <1>Turn, Alone, GotoTo, ReturnTo, CarrierKept DEF Turn, WorkerStep,
       OnItsWay, Only, Same, brokerVars, rowVars, workerVars
  <1>TurnPauses. ASSUME NEW w \in Workers, TurnPauses(w) PROVE Dispatched'
    BY <1>TurnPauses, Alone, GotoTo, ReturnTo, CarrierKept DEF TurnPauses,
       WorkerStep, OnItsWay, Only, Same, brokerVars, rowVars, workerVars
  <1>Drain. ASSUME NEW w \in Workers, Drain(w) PROVE Dispatched'
    BY <1>Drain, Alone, GotoTo, ReturnTo, CarrierKept DEF Drain, WorkerStep,
       OnItsWay, Only, Same, brokerVars, rowVars, workerVars
  <1>LastCheck. ASSUME NEW w \in Workers, LastCheck(w) PROVE Dispatched'
    BY <1>LastCheck, Alone, GotoTo, ReturnTo, CarrierKept DEF LastCheck,
       WorkerStep, OnItsWay, Only, Same, brokerVars, rowVars, workerVars
  <1>Park. ASSUME NEW w \in Workers, Park(w) PROVE Dispatched'
    <2>1. \A r \in Runs : status'[r] = "queued" => status[r] = "queued"
      BY <1>Park DEF TypeOK, RowsOK, WorkersOK, Park
    <2> QED
      BY <1>Park, <2>1, Alone, CarrierKept
      DEF Park, WorkerStep, OnItsWay, brokerVars
  <1>Recheck. ASSUME NEW w \in Workers, Recheck(w) PROVE Dispatched'
    <2>1. CASE after'[w] = "dispatch" /\ pc'[w] = "release"
      <3>1. \A r \in Runs \ {wrun[w]} : status'[r] = status[r]
        BY <1>Recheck DEF TypeOK, RowsOK, WorkersOK, Recheck, QueueResume
      <3>2. Only(w)
        BY <1>Recheck, Alone DEF WorkerStep
      <3> QED
        BY <1>Recheck, <2>1, <3>1, <3>2
        DEF Recheck, Dispatched, Carried, InBroker, OnItsWay, Only, Same, brokerVars
    <2>2. CASE UNCHANGED status
      BY <1>Recheck, <2>2, Alone, CarrierKept
      DEF Recheck, WorkerStep, OnItsWay, brokerVars
    <2> QED
      BY <1>Recheck, <2>1, <2>2, GotoTo DEF Recheck, TypeOK, WorkersOK
  <1>FinalizeStopped. ASSUME NEW w \in Workers, FinalizeStopped(w) PROVE Dispatched'
    BY <1>FinalizeStopped, Alone, GotoTo, ReturnTo, CarrierKept DEF
       FinalizeStopped, WorkerStep, OnItsWay, Only, Same, brokerVars, rowVars,
       workerVars
  <1>MarkStopped. ASSUME NEW w \in Workers, MarkStopped(w) PROVE Dispatched'
    BY <1>MarkStopped, Alone, GotoTo, ReturnTo, CarrierKept DEF MarkStopped,
       WorkerStep, OnItsWay, Only, Same, brokerVars, rowVars, workerVars,
       Transition
  <1>ClaimCompletion. ASSUME NEW w \in Workers, ClaimCompletion(w) PROVE Dispatched'
    <2>1. \A r \in Runs : status'[r] = "queued" => status[r] = "queued"
      BY <1>ClaimCompletion DEF TypeOK, RowsOK, WorkersOK, ClaimCompletion
    <2> QED
      BY <1>ClaimCompletion, <2>1, Alone, CarrierKept
      DEF ClaimCompletion, WorkerStep, OnItsWay, brokerVars
  <1>FinalizeCompleted. ASSUME NEW w \in Workers, FinalizeCompleted(w) PROVE Dispatched'
    BY <1>FinalizeCompleted, Alone, GotoTo, ReturnTo, CarrierKept DEF
       FinalizeCompleted, WorkerStep, OnItsWay, Only, Same, brokerVars,
       rowVars, workerVars
  <1>MarkCompleted. ASSUME NEW w \in Workers, MarkCompleted(w) PROVE Dispatched'
    BY <1>MarkCompleted, Alone, GotoTo, ReturnTo, CarrierKept DEF
       MarkCompleted, WorkerStep, OnItsWay, Only, Same, brokerVars, rowVars,
       workerVars, Transition
  <1>Except. ASSUME NEW w \in Workers, Except(w) PROVE Dispatched'
    BY <1>Except, Alone, GotoTo, ReturnTo, CarrierKept DEF Except, WorkerStep,
       OnItsWay, Only, Same, brokerVars, rowVars, workerVars, Transition
  <1>ReleaseGet. ASSUME NEW w \in Workers, ReleaseGet(w) PROVE Dispatched'
    <2>1. \A r \in Runs : OnItsWay(w, r) => OnItsWay(w, r)'
      BY <1>ReleaseGet, GotoTo
      DEF TypeOK, WorkersOK, ReleaseGet, AfterRelease, OnItsWay, workerVars
    <2> QED
      BY <1>ReleaseGet, <2>1, Alone, CarrierKept
      DEF ReleaseGet, WorkerStep, brokerVars, rowVars
  <1>ReleaseDelete. ASSUME NEW w \in Workers, ReleaseDelete(w) PROVE Dispatched'
    <2>1. \A r \in Runs : OnItsWay(w, r) => OnItsWay(w, r)'
      BY <1>ReleaseDelete, GotoTo
      DEF TypeOK, WorkersOK, ReleaseDelete, AfterRelease, OnItsWay, workerVars
    <2> QED
      BY <1>ReleaseDelete, <2>1, Alone, CarrierKept
      DEF ReleaseDelete, WorkerStep, brokerVars, rowVars
  <1>DispatchDeferred. ASSUME NEW w \in Workers, DispatchDeferred(w) PROVE Dispatched'
    <2>1. CASE UNCHANGED msgs
      <3>0. wrun[w] \in Runs /\ <<wrun[w], wcall[w]>> \in Jobs
        BY <1>DispatchDeferred DEF DispatchDeferred, TypeOK, WorkersOK, Jobs
      <3>2. Transition(wrun[w], {"queued"}, "failed")
        BY <1>DispatchDeferred, <2>1, <3>0, NoMsgKept
        DEF DispatchDeferred, TypeOK, SharedOK
      <3>1. status'[wrun[w]] # "queued"
            /\ \A r \in Runs : status'[r] = "queued" => status[r] = "queued"
        BY <3>0, <3>2, CasTo
      <3> QED
        BY <1>DispatchDeferred, <2>1, <3>1, Alone, CarrierKept
        DEF DispatchDeferred, WorkerStep, OnItsWay
    <2>2. CASE ~UNCHANGED msgs
      <3> DEFINE j == <<wrun[w], wcall[w]>>
      <3>1. j \in Jobs /\ UNCHANGED status /\ msgs' = [msgs EXCEPT ![j] = @ + 1]
        BY <1>DispatchDeferred, <2>2 DEF DispatchDeferred, TypeOK, WorkersOK, Jobs
      <3>2. msgs'[j] > 0 /\ \A i \in Jobs : msgs[i] > 0 => msgs'[i] > 0
        BY <3>1, MsgMore DEF TypeOK, SharedOK
      <3>3. Only(w)
        BY <1>DispatchDeferred, Alone DEF WorkerStep
      <3> QED
        BY <1>DispatchDeferred, <3>1, <3>2, <3>3
        DEF DispatchDeferred, Dispatched, Carried, InBroker, OnItsWay, Only, Same, Jobs
    <2> QED BY <2>1, <2>2
  <1>SafetyNet. ASSUME NEW w \in Workers, SafetyNet(w) PROVE Dispatched'
    BY <1>SafetyNet, Alone, GotoTo, ReturnTo, CarrierKept DEF SafetyNet,
       WorkerStep, OnItsWay, Only, Same, brokerVars, rowVars, workerVars,
       FailFrom, InFlight
  <1>SafetyFail. ASSUME NEW w \in Workers, SafetyFail(w) PROVE Dispatched'
    <2>1. PICK s \in InFlight : pc[w] = FailFrom[s] /\ Transition(wrun[w], {s}, "failed")
      BY <1>SafetyFail DEF SafetyFail
    <2>2. /\ pc[w] \in {"fail_queued", "fail_running", "fail_stopping", "fail_completing"}
          /\ pc[w] = "fail_queued" => s = "queued"
      BY <2>1 DEF FailFrom, InFlight
    <2>3. PICK q \in Runs : q = wrun[w]
      BY <2>2 DEF TypeOK, WorkersOK
    <2>4. /\ status'[q] = IF status[q] \in {s} THEN "failed" ELSE status[q]
          /\ \A r \in Runs \ {q} : status'[r] = status[r]
      BY <2>1, <2>3, CasTo
    <2>5. \A r \in Runs : status'[r] = "queued" =>
            status[r] = "queued" /\ (r = wrun[w] => pc[w] # "fail_queued")
      BY <2>2, <2>3, <2>4
    <2>6. \A r \in Runs : OnItsWay(w, r) => r = wrun[w] /\ pc[w] = "fail_queued"
      BY <2>2 DEF OnItsWay
    <2>7. Only(w) /\ UNCHANGED <<pub, msgs>>
      BY <1>SafetyFail, Alone DEF SafetyFail, WorkerStep, brokerVars
    <2> QED
      BY <2>5, <2>6, <2>7, CarrierKept
  <1>ContextLost. ASSUME NEW w \in Workers, ContextLost(w) PROVE Dispatched'
    BY <1>ContextLost, Alone, GotoTo, ReturnTo, CarrierKept DEF ContextLost,
       WorkerStep, OnItsWay, Only, Same, brokerVars, rowVars, workerVars,
       Transition
  <1>WorkerError. ASSUME NEW w \in Workers, WorkerError(w) PROVE Dispatched'
    BY <1>WorkerError, Alone, GotoTo, ReturnTo, CarrierKept DEF WorkerError,
       WorkerStep, OnItsWay, Only, Same, brokerVars, rowVars, workerVars,
       TryBlock, LoopSteps, BeforeTry
  <1>WorkerDies. ASSUME NEW w \in Workers, WorkerDies(w) PROVE Dispatched'
    BY <1>WorkerDies, Alone, GotoTo, ReturnTo, CarrierKept DEF WorkerDies,
       WorkerStep, OnItsWay, Only, Same, brokerVars, rowVars, workerVars
  <1>Receive. ASSUME NEW w \in Workers, NEW j \in Jobs, Receive(w, j) PROVE Dispatched'
    <2>1. Carried(j[1])' /\ Only(w)
      BY <1>Receive, GotoTo
      DEF TypeOK, WorkersOK, Receive, Carried, OnItsWay, Only, Same, Jobs
    <2>2. \A i \in Jobs \ {j} : msgs'[i] = msgs[i]
      BY <1>Receive DEF Receive, TypeOK, SharedOK
    <2>3. \A r \in Runs \ {j[1]} : Carried(r) => Carried(r)'
      BY <1>Receive, <2>1, <2>2
      DEF Receive, Carried, InBroker, OnItsWay, Only, Same, Jobs
    <2> QED BY <1>Receive, <2>1, <2>3 DEF Receive, Dispatched, rowVars
  <1>Publish. ASSUME NEW j \in Jobs, Publish(j) PROVE Dispatched'
    <2>1. \A i \in Jobs : InBroker(i) => InBroker(i)'
      BY <1>Publish, MsgMore DEF Publish, InBroker, TypeOK, SharedOK
    <2> QED
      BY <1>Publish, <2>1, BrokerKept DEF Publish, rowVars, workerVars
  <1>PublishFails. ASSUME NEW j \in Jobs, PublishFails(j) PROVE Dispatched'
    <2>1. j[1] \in Runs
      BY DEF Jobs
    <2>2. ~Redispatch => \A r \in Runs :
            status'[r] = "queued" => status[r] = "queued" /\ r # j[1]
      BY <1>PublishFails, <2>1, CasTo DEF PublishFails
    <2>3. \A r \in Runs, k \in Call0 :
            r # j[1] /\ InBroker(<<r, k>>) => InBroker(<<r, k>>)'
      BY <1>PublishFails DEF PublishFails, InBroker, Jobs
    <2> QED
      BY <1>PublishFails, <2>2, <2>3
      DEF PublishFails, Dispatched, Carried, OnItsWay, workerVars
  <1>Submit. ASSUME NEW r \in Runs, Submit(r) PROVE Dispatched'
    <2>1. \A i \in Jobs : InBroker(i) => InBroker(i)'
      BY <1>Submit DEF Submit, InBroker
    <2>2. \A q \in Runs \ {r} : status'[q] = status[q]
      BY <1>Submit DEF Submit, TypeOK, RowsOK
    <2>3. status'[r] = "queued" => Carried(r)'
      BY <1>Submit, AgentRunAssumption DEF Submit, Carried, InBroker, Call0, TypeOK, RowsOK
    <2> QED
      BY <1>Submit, <2>1, <2>2, <2>3
      DEF Submit, Dispatched, Carried, OnItsWay, workerVars, Jobs
  <1>SubmitAnswers. ASSUME NEW r \in Runs, SubmitAnswers(r) PROVE Dispatched'
    <2>1. \A i \in Jobs : InBroker(i) => InBroker(i)'
      BY <1>SubmitAnswers DEF SubmitAnswers, InBroker
    <2>2. \A q \in Runs \ {r} : status'[q] = status[q]
      BY <1>SubmitAnswers DEF SubmitAnswers, TypeOK, RowsOK
    <2>3. status'[r] = "queued" => Carried(r)'
      BY <1>SubmitAnswers, AgentRunAssumption
      DEF SubmitAnswers, Carried, InBroker, Call0, TypeOK, RowsOK
    <2> QED
      BY <1>SubmitAnswers, <2>1, <2>2, <2>3
      DEF SubmitAnswers, Dispatched, Carried, OnItsWay, workerVars, Jobs
  <1>RedispatchQueued. ASSUME NEW r \in Runs, RedispatchQueued(r) PROVE Dispatched'
    <2>1. \A i \in Jobs : InBroker(i) => InBroker(i)'
      BY <1>RedispatchQueued DEF RedispatchQueued, InBroker
    <2> QED
      BY <1>RedispatchQueued, <2>1, BrokerKept DEF RedispatchQueued, rowVars, workerVars
  <1>StopParked. ASSUME NEW r \in Runs, StopParked(r) PROVE Dispatched'
    <2>1. \A q \in Runs : status'[q] = "queued" => status[q] = "queued"
      BY <1>StopParked DEF StopParked, TypeOK, RowsOK
    <2> QED
      BY <1>StopParked, <2>1
      DEF StopParked, Dispatched, Carried, InBroker, OnItsWay, brokerVars, workerVars
  <1>StopRunning. ASSUME NEW r \in Runs, StopRunning(r) PROVE Dispatched'
    <2>1. \A q \in Runs : status'[q] = "queued" => status[q] = "queued"
      BY <1>StopRunning DEF StopRunning, TypeOK, RowsOK
    <2> QED
      BY <1>StopRunning, <2>1
      DEF StopRunning, Dispatched, Carried, InBroker, OnItsWay, brokerVars, workerVars
  <1>SweepMark. ASSUME NEW r \in Runs, SweepMark(r) PROVE Dispatched'
    <2>1. \A q \in Runs : status'[q] = "queued" => status[q] = "queued"
      BY <1>SweepMark, CasTo DEF SweepMark
    <2> QED
      BY <1>SweepMark, <2>1
      DEF SweepMark, Dispatched, Carried, InBroker, OnItsWay, brokerVars, workerVars
  <1>ScheduleResume. ASSUME NEW r \in Runs, NEW k \in Calls, ScheduleResume(r, k)
                     PROVE  Dispatched'
    <2>1. \A i \in Jobs : InBroker(i) => InBroker(i)'
      BY <1>ScheduleResume DEF ScheduleResume, InBroker
    <2>2. \A q \in Runs \ {r} : status'[q] = status[q]
      BY <1>ScheduleResume DEF ScheduleResume, QueueResume, TypeOK, RowsOK
    <2>3. CASE Resumable(r, k)
      <3>1. Carried(r)'
        <4>1. PICK m \in Call0 : pub' = pub \cup {<<r, m>>}
          BY <1>ScheduleResume, <2>3, MarkerOK, AgentRunAssumption
          DEF ScheduleResume, Call0, Calls
        <4> QED BY <4>1 DEF Carried, InBroker
      <3> QED
        BY <1>ScheduleResume, <2>1, <2>2, <3>1
        DEF ScheduleResume, Dispatched, Carried, OnItsWay, workerVars, Jobs
    <2>4. CASE ~Resumable(r, k)
      BY <1>ScheduleResume, <2>1, <2>4, BrokerKept DEF ScheduleResume, workerVars
    <2> QED BY <2>3, <2>4
  <1>ApiDies. ASSUME ApiDies PROVE Dispatched'
    BY <1>ApiDies DEF ApiDies, Dispatched
  <1>quiet. ASSUME UNCHANGED <<status, pub, msgs, pc, wrun, wcall, after>> PROVE Dispatched'
    BY <1>quiet DEF Dispatched, Carried, InBroker, OnItsWay
  <1> QED BY ZenonT(60), <1>quiet, <1>Load, <1>Claim, <1>PreCheck, <1>PreStop,
     <1>PreMark, <1>Acquire, <1>Busy, <1>LockBusy, <1>Owned, <1>DropInputs,
     <1>FinishApproved, <1>RecordResult, <1>Rebuild, <1>LoopHead,
     <1>LoopCheck, <1>Turn, <1>TurnPauses, <1>Drain, <1>LastCheck, <1>Park,
     <1>Recheck, <1>FinalizeStopped, <1>MarkStopped, <1>ClaimCompletion,
     <1>FinalizeCompleted, <1>MarkCompleted, <1>Except, <1>ReleaseGet,
     <1>ReleaseDelete, <1>DispatchDeferred, <1>SafetyNet, <1>SafetyFail,
     <1>ContextLost, <1>WorkerError, <1>WorkerDies, <1>Receive, <1>Publish,
     <1>PublishFails, <1>Submit, <1>SubmitAnswers, <1>RedispatchQueued,
     <1>StopParked, <1>StopRunning, <1>SweepMark, <1>ScheduleResume,
     <1>ApiDies DEF vars, rowVars, brokerVars, apiVars, workerVars, Next,
     WorkerStep, Dispatching, Endpoints, Approvals, ListPending,
     CancelPending, EnqueueStop, PostStopInput, GrowOld, SweepRead, SweepCheck, Decide,
     Expire, StaleClaim, LeaseExpires


(* No process killed, and no IM runtime that only logs a failed send and   *)
(* publishes queued runs again: a queued run always has its message in the *)
(* broker, or someone about to send it, or a worker about to claim it or   *)
(* fail it.                                                                *)
THEOREM QueuedHasCarrier == Spec => []QueuedIsDispatched
  <1>1. Init => Dispatched
    BY DEF Init, Dispatched
  <1>2. TypeOK /\ Dispatched /\ [Next]_vars => Dispatched'
    BY DispatchStep
  <1>3. Dispatched => QueuedIsDispatched
    BY DEF Dispatched, QueuedIsDispatched, Carried, InBroker, OnItsWay
  <1> QED BY <1>1, <1>2, <1>3, TypeCorrect, PTL DEF Spec

-----------------------------------------------------------------------------
(* What follows the finally block *)

(* Something follows the finally block only from the release on. *)
AfterOK ==
  \A w \in Workers :
    after[w] # "return" => pc[w] \in {"release", "delete", "dispatch"} \cup Safety

(* Return resets it, only Recheck and WorkerError set it. *)
LEMMA AfterStep == ASSUME TypeOK, AfterOK, [Next]_vars PROVE AfterOK'
  <1>1. ASSUME NEW w \in Workers, Only(w),
               after'[w] # "return" => pc'[w] \in {"release", "delete", "dispatch"} \cup Safety
        PROVE  AfterOK'
    BY <1>1 DEF AfterOK, Only, Same
  <1>Load. ASSUME NEW w \in Workers, Load(w) PROVE AfterOK'
    <2>1. CASE Return(w)
      BY <2>1, <1>1, ReturnTo
    <2>2. CASE UNCHANGED workerVars
      BY <1>Load, <2>2, <1>1, Alone
      DEF Load, WorkerStep, AfterOK, workerVars, Safety, FailFrom, InFlight
    <2> QED BY <1>Load, <2>1, <2>2, LoadSplits
  <1>Claim. ASSUME NEW w \in Workers, Claim(w) PROVE AfterOK'
    <2>1. CASE Return(w)
      BY <2>1, <1>1, ReturnTo
    <2>2. CASE ~Return(w)
      BY <1>Claim, <2>2, <1>1, Alone, GotoTo
      DEF Claim, WorkerStep, AfterOK, BeforeTry, Safety, FailFrom, InFlight
    <2> QED BY <2>1, <2>2
  <1>PreCheck. ASSUME NEW w \in Workers, PreCheck(w) PROVE AfterOK'
    BY <1>PreCheck, <1>1, Alone, GotoTo DEF PreCheck, WorkerStep, AfterOK,
       workerVars, BeforeTry, Safety, FailFrom, InFlight
  <1>PreStop. ASSUME NEW w \in Workers, PreStop(w) PROVE AfterOK'
    BY <1>PreStop, <1>1, Alone, GotoTo DEF PreStop, WorkerStep, AfterOK,
       workerVars, BeforeTry, Safety, FailFrom, InFlight
  <1>PreMark. ASSUME NEW w \in Workers, PreMark(w) PROVE AfterOK'
    BY <1>PreMark, <1>1, ReturnTo DEF PreMark
  <1>Acquire. ASSUME NEW w \in Workers, Acquire(w) PROVE AfterOK'
    BY <1>Acquire, <1>1, Alone, GotoTo DEF Acquire, WorkerStep, AfterOK,
       workerVars, BeforeTry, Safety, FailFrom, InFlight
  <1>Busy. ASSUME NEW w \in Workers, Busy(w) PROVE AfterOK'
    BY <1>Busy, <1>1, Alone, GotoTo DEF Busy, WorkerStep, AfterOK, workerVars,
       BeforeTry, Safety, FailFrom, InFlight
  <1>LockBusy. ASSUME NEW w \in Workers, LockBusy(w) PROVE AfterOK'
    BY <1>LockBusy, <1>1, ReturnTo DEF LockBusy
  <1>Owned. ASSUME NEW w \in Workers, Owned(w) PROVE AfterOK'
    BY <1>Owned, <1>1, Alone, GotoTo DEF Owned, WorkerStep, AfterOK,
       workerVars, BeforeTry, Safety, FailFrom, InFlight
  <1>DropInputs. ASSUME NEW w \in Workers, DropInputs(w) PROVE AfterOK'
    BY <1>DropInputs, <1>1, Alone, GotoTo DEF DropInputs, WorkerStep, AfterOK,
       workerVars, BeforeTry, Safety, FailFrom, InFlight
  <1>FinishApproved. ASSUME NEW w \in Workers, FinishApproved(w) PROVE AfterOK'
    BY <1>FinishApproved, <1>1, Alone, GotoTo DEF FinishApproved, WorkerStep,
       AfterOK, workerVars, BeforeTry, Safety, FailFrom, InFlight
  <1>RecordResult. ASSUME NEW w \in Workers, RecordResult(w) PROVE AfterOK'
    BY <1>RecordResult, <1>1, Alone, GotoTo DEF RecordResult, WorkerStep,
       AfterOK, workerVars, BeforeTry, Safety, FailFrom, InFlight
  <1>Rebuild. ASSUME NEW w \in Workers, Rebuild(w) PROVE AfterOK'
    BY <1>Rebuild, <1>1, Alone, GotoTo DEF Rebuild, WorkerStep, AfterOK,
       workerVars, BeforeTry, Safety, FailFrom, InFlight
  <1>LoopHead. ASSUME NEW w \in Workers, LoopHead(w) PROVE AfterOK'
    BY <1>LoopHead, <1>1, Alone, GotoTo DEF LoopHead, WorkerStep, AfterOK,
       workerVars, BeforeTry, Safety, FailFrom, InFlight
  <1>LoopCheck. ASSUME NEW w \in Workers, LoopCheck(w) PROVE AfterOK'
    BY <1>LoopCheck, <1>1, Alone, GotoTo DEF LoopCheck, WorkerStep, AfterOK,
       workerVars, BeforeTry, Safety, FailFrom, InFlight
  <1>Turn. ASSUME NEW w \in Workers, Turn(w) PROVE AfterOK'
    BY <1>Turn, <1>1, Alone, GotoTo DEF Turn, WorkerStep, AfterOK, workerVars,
       BeforeTry, Safety, FailFrom, InFlight
  <1>TurnPauses. ASSUME NEW w \in Workers, TurnPauses(w) PROVE AfterOK'
    BY <1>TurnPauses, <1>1, Alone, GotoTo DEF TurnPauses, WorkerStep, AfterOK,
       workerVars, BeforeTry, Safety, FailFrom, InFlight
  <1>Drain. ASSUME NEW w \in Workers, Drain(w) PROVE AfterOK'
    BY <1>Drain, <1>1, Alone, GotoTo DEF Drain, WorkerStep, AfterOK,
       workerVars, BeforeTry, Safety, FailFrom, InFlight
  <1>LastCheck. ASSUME NEW w \in Workers, LastCheck(w) PROVE AfterOK'
    BY <1>LastCheck, <1>1, Alone, GotoTo DEF LastCheck, WorkerStep, AfterOK,
       workerVars, BeforeTry, Safety, FailFrom, InFlight
  <1>Park. ASSUME NEW w \in Workers, Park(w) PROVE AfterOK'
    BY <1>Park, <1>1, Alone, GotoTo DEF Park, WorkerStep, AfterOK, workerVars,
       BeforeTry, Safety, FailFrom, InFlight
  <1>Recheck. ASSUME NEW w \in Workers, Recheck(w) PROVE AfterOK'
    BY <1>Recheck, <1>1, Alone, GotoTo DEF Recheck, WorkerStep
  <1>FinalizeStopped. ASSUME NEW w \in Workers, FinalizeStopped(w) PROVE AfterOK'
    BY <1>FinalizeStopped, <1>1, Alone, GotoTo DEF FinalizeStopped,
       WorkerStep, AfterOK, workerVars, BeforeTry, Safety, FailFrom, InFlight
  <1>MarkStopped. ASSUME NEW w \in Workers, MarkStopped(w) PROVE AfterOK'
    BY <1>MarkStopped, <1>1, Alone, GotoTo DEF MarkStopped, WorkerStep,
       AfterOK, workerVars, BeforeTry, Safety, FailFrom, InFlight
  <1>ClaimCompletion. ASSUME NEW w \in Workers, ClaimCompletion(w) PROVE AfterOK'
    BY <1>ClaimCompletion, <1>1, Alone, GotoTo DEF ClaimCompletion,
       WorkerStep, AfterOK, workerVars, BeforeTry, Safety, FailFrom, InFlight
  <1>FinalizeCompleted. ASSUME NEW w \in Workers, FinalizeCompleted(w) PROVE AfterOK'
    BY <1>FinalizeCompleted, <1>1, Alone, GotoTo DEF FinalizeCompleted,
       WorkerStep, AfterOK, workerVars, BeforeTry, Safety, FailFrom, InFlight
  <1>MarkCompleted. ASSUME NEW w \in Workers, MarkCompleted(w) PROVE AfterOK'
    BY <1>MarkCompleted, <1>1, Alone, GotoTo DEF MarkCompleted, WorkerStep,
       AfterOK, workerVars, BeforeTry, Safety, FailFrom, InFlight
  <1>Except. ASSUME NEW w \in Workers, Except(w) PROVE AfterOK'
    BY <1>Except, <1>1, Alone, GotoTo DEF Except, WorkerStep, workerVars
  <1>ReleaseGet. ASSUME NEW w \in Workers, ReleaseGet(w) PROVE AfterOK'
    <2>1. CASE Return(w)
      BY <2>1, <1>1, ReturnTo
    <2>2. CASE ~Return(w)
      <3>1. pc'[w] \in {"delete", "dispatch", "safety"}
        BY <1>ReleaseGet, <2>2, GotoTo DEF ReleaseGet, AfterRelease, TypeOK, WorkersOK
      <3> QED
        BY <1>ReleaseGet, <2>2, <3>1, <1>1, Alone DEF ReleaseGet, WorkerStep, Safety
    <2> QED BY <2>1, <2>2
  <1>ReleaseDelete. ASSUME NEW w \in Workers, ReleaseDelete(w) PROVE AfterOK'
    <2>1. CASE Return(w)
      BY <2>1, <1>1, ReturnTo
    <2>2. CASE ~Return(w)
      <3>1. pc'[w] \in {"delete", "dispatch", "safety"}
        BY <1>ReleaseDelete, <2>2, GotoTo DEF ReleaseDelete, AfterRelease, TypeOK, WorkersOK
      <3> QED
        BY <1>ReleaseDelete, <2>2, <3>1, <1>1, Alone DEF ReleaseDelete, WorkerStep, Safety
    <2> QED BY <2>1, <2>2
  <1>DispatchDeferred. ASSUME NEW w \in Workers, DispatchDeferred(w) PROVE AfterOK'
    BY <1>DispatchDeferred, <1>1, ReturnTo DEF DispatchDeferred
  <1>SafetyNet. ASSUME NEW w \in Workers, SafetyNet(w) PROVE AfterOK'
    <2>1. CASE Return(w)
      BY <2>1, <1>1, ReturnTo
    <2>2. CASE ~Return(w)
      <3>1. pc'[w] \in Safety
        BY <1>SafetyNet, <2>2, GotoTo DEF SafetyNet, Safety
      <3> QED
        BY <1>SafetyNet, <2>2, <3>1, <1>1, Alone DEF SafetyNet, WorkerStep
    <2> QED BY <2>1, <2>2
  <1>SafetyFail. ASSUME NEW w \in Workers, SafetyFail(w) PROVE AfterOK'
    BY <1>SafetyFail, <1>1, ReturnTo DEF SafetyFail
  <1>ContextLost. ASSUME NEW w \in Workers, ContextLost(w) PROVE AfterOK'
    BY <1>ContextLost, <1>1, ReturnTo DEF ContextLost
  <1>WorkerError. ASSUME NEW w \in Workers, WorkerError(w) PROVE AfterOK'
    <2>1. pc'[w] \in {"release", "safety"} \/ (pc[w] \in TryBlock /\ UNCHANGED after)
      BY <1>WorkerError, GotoTo DEF WorkerError
    <2>2. \A l \in TryBlock : l \notin {"release", "delete", "dispatch"} \cup Safety
      BY DEF TryBlock, LoopSteps, Safety, FailFrom, InFlight
    <2> QED BY <1>WorkerError, <1>1, <2>1, <2>2, Alone DEF AfterOK, Safety
  <1>WorkerDies. ASSUME NEW w \in Workers, WorkerDies(w) PROVE AfterOK'
    BY <1>WorkerDies, <1>1, ReturnTo DEF WorkerDies
  <1>Receive. ASSUME NEW w \in Workers, NEW j \in Jobs, Receive(w, j) PROVE AfterOK'
    <2>1. after[w] = "return"
      BY <1>Receive DEF Receive, AfterOK, TypeOK, WorkersOK, Safety, FailFrom, InFlight
    <2> QED BY <1>Receive, <2>1, GotoTo DEF Receive, AfterOK
  <1>quiet. ASSUME UNCHANGED <<pc, after>> PROVE AfterOK'
    BY <1>quiet DEF AfterOK
  <1> QED BY ZenonT(60), <1>quiet, <1>Load, <1>Claim, <1>PreCheck, <1>PreStop,
     <1>PreMark, <1>Acquire, <1>Busy, <1>LockBusy, <1>Owned, <1>DropInputs,
     <1>FinishApproved, <1>RecordResult, <1>Rebuild, <1>LoopHead,
     <1>LoopCheck, <1>Turn, <1>TurnPauses, <1>Drain, <1>LastCheck, <1>Park,
     <1>Recheck, <1>FinalizeStopped, <1>MarkStopped, <1>ClaimCompletion,
     <1>FinalizeCompleted, <1>MarkCompleted, <1>Except, <1>ReleaseGet,
     <1>ReleaseDelete, <1>DispatchDeferred, <1>SafetyNet, <1>SafetyFail,
     <1>ContextLost, <1>WorkerError, <1>WorkerDies, <1>Receive DEF vars,
     rowVars, brokerVars, apiVars, workerVars, Next, WorkerStep, Dispatching,
     Endpoints, Approvals, Publish, PublishFails, Submit, RedispatchQueued,
     StopParked, ListPending, CancelPending, StopRunning, EnqueueStop,
     PostStopInput, SubmitAnswers, GrowOld, SweepRead, SweepCheck, SweepMark, Decide, Expire,
     ScheduleResume, StaleClaim, LeaseExpires, ApiDies
-----------------------------------------------------------------------------
(* The call a run waits for *)

OpenCall == {"ask_user", "awaiting", "ready", "cancelled"}

(* Worker w has the payload of its run: it was received with it, or it is  *)
(* to send it.                                                             *)
Bears(w) == pc[w] \in BeforeTry \cup {"owned", "dispatch"} \/ after[w] = "dispatch"

(* The marker of the row or of a message names call k. *)
Marked(r, k) == marker[r] = k \/ InBroker(<<r, k>>)

(* A call nobody asked for yet is named nowhere. *)
FreshUnnamed ==
  \A r \in Runs, k \in Calls : exec[r][k] = "none" =>
    /\ pending[r] # k /\ ~Marked(r, k)
    /\ \A w \in Workers : wrun[w] = r => wcall[w] # k

(* The call a run waits for can still be answered or resumed, and no       *)
(* payload names it.                                                       *)
PendingOpen ==
  \A r \in Runs, k \in Calls : pending[r] = k =>
    /\ exec[r][k] \in OpenCall /\ ~Marked(r, k)
    /\ \A w \in Workers : wrun[w] = r /\ wcall[w] = k => ~Bears(w) /\ pc[w] # "park"

(* Neither does one name the call a worker is about to park on. *)
ParkingAlone ==
  \A w \in Workers : pc[w] = "park" =>
    /\ wcall[w] # 0 /\ pending[wrun[w]] # wcall[w] /\ ~Marked(wrun[w], wcall[w])
    /\ status[wrun[w]] \notin Terminal => exec[wrun[w]][wcall[w]] \in OpenCall
    /\ \A v \in Workers : wrun[v] = wrun[w] /\ wcall[v] = wcall[w] => v = w

(* The stop endpoint has cancellations of run r to list or to carry out. *)
BeingStopped(r) == \E k \in Call0 : <<r, k>> \in cancelApi

(* The row says the same thing twice, and the stop endpoint cancels the    *)
(* calls of finished runs only.                                            *)
RowsParked ==
  /\ \A r \in Runs : status[r] = "waiting" <=> pending[r] # 0
  /\ \A r \in Runs : BeingStopped(r) => status[r] \in Terminal

(* The invariant behind WaitingHasPendingCall. *)
Parked == RowsParked /\ FreshUnnamed /\ PendingOpen /\ ParkingAlone

(* What a step does to the statuses of the calls, ... *)
CallsMove ==
  \A r \in Runs, k \in Calls :
    /\ exec'[r][k] = "none" => exec[r][k] = "none"
    /\ exec[r][k] \in OpenCall =>
         \/ exec'[r][k] \in OpenCall
         \/ BeingStopped(r)
         \/ \E v \in Workers : wrun[v] = r /\ wcall[v] = k /\ Bears(v)

(* ... to the markers, ... *)
MarkersMove ==
  \A r \in Runs, k \in Calls : Marked(r, k)' =>
    \/ Marked(r, k)
    \/ pending[r] = k /\ pending'[r] = 0
    \/ \E v \in Workers : wrun[v] = r /\ wcall[v] = k /\ Bears(v)

(* ... to the rows, ... *)
RowsMove ==
  /\ RowsParked'
  /\ \A r \in Runs : pending'[r] \in {pending[r], 0}

(* ... and to the workers. *)
WorkerMoves(v) ==
  \/ wrun'[v] = NoRun /\ pc'[v] = "idle"
  \/ wcall'[v] = 0 /\ pc'[v] # "park"
  \/ /\ wrun'[v] = wrun[v] /\ wcall'[v] = wcall[v]
     /\ pc'[v] = "park" => pc[v] = "park"
     /\ Bears(v)' => Bears(v) \/ (pc[v] # "idle" /\ pending'[wrun[v]] = 0)
  \/ pc'[v] = "load" /\ wrun'[v] \in Runs /\ (wcall'[v] \in Calls => Marked(wrun'[v], wcall'[v]))

(* Steps that move so keep the invariant. *)
LEMMA ParkedKept ==
  ASSUME TypeOK, TypeOK', AfterOK, Parked, [Next]_vars,
         CallsMove, MarkersMove, RowsMove, \A v \in Workers : WorkerMoves(v)
  PROVE  Parked'
  <1> USE AgentRunAssumption DEF Parked
  <1>0. \A k \in Calls : k # 0 /\ k \in Nat
    BY DEF Calls
  <1>1. FreshUnnamed'
    BY <1>0 DEF FreshUnnamed, CallsMove, MarkersMove, RowsMove, WorkerMoves
  <1>2. PendingOpen'
    <2> SUFFICES ASSUME NEW r \in Runs, NEW k \in Calls, pending'[r] = k
                 PROVE  /\ exec'[r][k] \in OpenCall /\ ~Marked(r, k)'
                        /\ \A w \in Workers : wrun'[w] = r /\ wcall'[w] = k =>
                             ~Bears(w)' /\ pc'[w] # "park"
      BY DEF PendingOpen
    <2>1. pending[r] = k /\ pending'[r] # 0
      BY <1>0 DEF RowsMove
    <2>2. ~BeingStopped(r)
      BY <1>0, <2>1 DEF RowsParked, Terminal
    <2>3. exec'[r][k] \in OpenCall
      BY <2>1, <2>2 DEF PendingOpen, CallsMove
    <2>4. ~Marked(r, k)'
      BY <2>1 DEF PendingOpen, MarkersMove
    <2>5. ASSUME NEW w \in Workers, wrun'[w] = r, wcall'[w] = k PROVE ~Bears(w)' /\ pc'[w] # "park"
      BY <1>0, <2>1, <2>5 DEF PendingOpen, WorkerMoves
    <2> QED BY <2>3, <2>4, <2>5
  <1>3. ParkingAlone'
    <2> SUFFICES ASSUME NEW w \in Workers, pc'[w] = "park"
                 PROVE  /\ wcall'[w] # 0 /\ pending'[wrun'[w]] # wcall'[w]
                        /\ ~Marked(wrun[w], wcall[w])'
                        /\ status'[wrun'[w]] \notin Terminal => exec'[wrun'[w]][wcall'[w]] \in OpenCall
                        /\ \A v \in Workers : wrun'[v] = wrun'[w] /\ wcall'[v] = wcall'[w] => v = w
      BY DEF ParkingAlone
    <2>1. wrun'[w] = wrun[w] /\ wcall'[w] = wcall[w] /\ pc[w] = "park"
      BY DEF WorkerMoves
    <2>2. wrun[w] \in Runs /\ wcall[w] \in Calls /\ ~Bears(w)
      BY <2>1
      DEF ParkingAlone, TypeOK, WorkersOK, Call0, Calls, Bears, AfterOK, BeforeTry, Safety,
          FailFrom, InFlight
    <2>3. ASSUME NEW v \in Workers, wrun[v] = wrun[w], wcall[v] = wcall[w] PROVE ~Bears(v)
      BY <2>1, <2>2, <2>3 DEF ParkingAlone
    <2>4. pending'[wrun[w]] # wcall[w]
      BY <1>0, <2>1, <2>2 DEF ParkingAlone, RowsMove
    <2>5. ~Marked(wrun[w], wcall[w])'
      BY <2>1, <2>2, <2>3 DEF ParkingAlone, MarkersMove
    <2>6. status'[wrun[w]] \notin Terminal => exec'[wrun[w]][wcall[w]] \in OpenCall
      BY <2>1, <2>2, <2>3, TerminalStays DEF ParkingAlone, CallsMove, RowsParked
    <2>7. ASSUME NEW v \in Workers, wrun'[v] = wrun[w], wcall'[v] = wcall[w] PROVE v = w
      BY <1>0, <2>1, <2>2, <2>7 DEF ParkingAlone, WorkerMoves
    <2> QED BY <1>0, <2>1, <2>2, <2>4, <2>5, <2>6, <2>7
  <1> QED BY <1>1, <1>2, <1>3 DEF RowsMove

(* cancel_execution on some of the calls of a run, seen call by call. *)
LEMMA CancelTo ==
  ASSUME TypeOK, NEW r \in Runs, NEW K, CancelCalls(r, K)
  PROVE  \A q \in Runs, k \in Calls :
           \/ exec'[q][k] = exec[q][k]
           \/ q = r /\ k \in K /\ exec[q][k] \in {"awaiting", "ready"} /\ exec'[q][k] = "run_stopped"
  BY DEF TypeOK, CallsOK, CancelCalls

(* What is common to most steps of a worker: the calls, the markers and    *)
(* what the rows say of a park stay as they are.                           *)
LEMMA WorkerKept ==
  ASSUME TypeOK, TypeOK', AfterOK, Parked, [Next]_vars, NEW w \in Workers,
         Only(w), WorkerMoves(w),
         UNCHANGED <<pending, marker, exec, pub, msgs, cancelApi>>,
         \A r \in Runs : status'[r] = "waiting" <=> status[r] = "waiting"
  PROVE  Parked'
  <1>1. CallsMove
    BY DEF CallsMove
  <1>2. MarkersMove
    BY DEF MarkersMove, Marked, InBroker
  <1>3. RowsMove
    BY TerminalStays DEF RowsMove, RowsParked, BeingStopped, Parked
  <1>4. \A v \in Workers : WorkerMoves(v)
    BY DEF Only, Same, WorkerMoves, Bears
  <1> QED BY <1>1, <1>2, <1>3, <1>4, ParkedKept

(* The same when it also touches a call or a marker. *)
LEMMA MovesKept ==
  ASSUME TypeOK, TypeOK', AfterOK, Parked, [Next]_vars, NEW w \in Workers,
         Only(w), WorkerMoves(w), CallsMove, MarkersMove \/ UNCHANGED <<marker, pub, msgs>>,
         UNCHANGED <<pending, cancelApi>>,
         \A r \in Runs : status'[r] = "waiting" <=> status[r] = "waiting"
  PROVE  Parked'
  <1>2. MarkersMove
    BY DEF MarkersMove, Marked, InBroker
  <1>3. RowsMove
    BY TerminalStays DEF RowsMove, RowsParked, BeingStopped, Parked
  <1>4. \A v \in Workers : WorkerMoves(v)
    BY DEF Only, Same, WorkerMoves, Bears
  <1> QED BY <1>2, <1>3, <1>4, ParkedKept

(* The same of a step of an endpoint or of a task. *)
LEMMA EndpointKept ==
  ASSUME TypeOK, TypeOK', AfterOK, Parked, [Next]_vars, CallsMove, MarkersMove,
         UNCHANGED <<pc, wrun, wcall, after, pending>>,
         \A r \in Runs : BeingStopped(r)' => BeingStopped(r),
         \A r \in Runs : status'[r] = "waiting" <=> status[r] = "waiting"
  PROVE  Parked'
  <1>3. RowsMove
    BY TerminalStays DEF RowsMove, RowsParked, Parked
  <1>4. \A v \in Workers : WorkerMoves(v)
    BY DEF WorkerMoves, Bears
  <1> QED BY <1>3, <1>4, ParkedKept

(* No marker is written and no message sent. *)
LEMMA MarkersStay ==
  ASSUME UNCHANGED <<marker, msgs>>, pub' \subseteq pub
  PROVE  MarkersMove
  BY DEF MarkersMove, Marked, InBroker

(* A compare-and-set that neither parks a run nor resumes it. *)
LEMMA CasWaits ==
  ASSUME TypeOK, NEW r \in Runs, NEW allowed, NEW s, Transition(r, allowed, s),
         s # "waiting", "waiting" \notin allowed
  PROVE  \A q \in Runs : status'[q] = "waiting" <=> status[q] = "waiting"
  BY CasTo

(* Every step moves so. *)
LEMMA ParkedStep ==
  ASSUME TypeOK, AfterOK, Parked, [Next]_vars PROVE Parked'
  <1>0. TypeOK'
    BY TypeStep
  <1>c. UNCHANGED exec => CallsMove
    BY DEF CallsMove
  <1>Load. ASSUME NEW w \in Workers, Load(w) PROVE Parked'
    <2>1. WorkerMoves(w)
      BY <1>Load, LoadSplits, GotoTo, ReturnTo
      DEF Load, WorkerMoves, Bears, BeforeTry, workerVars
    <2> QED
      BY <1>Load, <1>0, <2>1, Alone, WorkerKept
      DEF Load, WorkerStep, rowVars, brokerVars, apiVars
  <1>Claim. ASSUME NEW w \in Workers, Claim(w) PROVE Parked'
    <2>1. WorkerMoves(w)
      BY <1>Claim, GotoTo, ReturnTo DEF Claim, WorkerMoves, Bears, BeforeTry
    <2>2. \A q \in Runs : status'[q] = "waiting" <=> status[q] = "waiting"
      BY <1>Claim DEF Claim, TypeOK, RowsOK, WorkersOK
    <2> QED
      BY <1>Claim, <1>0, <2>1, <2>2, Alone, WorkerKept
      DEF Claim, WorkerStep, brokerVars, apiVars
  <1>PreCheck. ASSUME NEW w \in Workers, PreCheck(w) PROVE Parked'
    <2>1. WorkerMoves(w)
      BY <1>PreCheck, GotoTo DEF PreCheck, WorkerMoves, Bears, BeforeTry, workerVars
    <2> QED
      BY <1>PreCheck, <1>0, <2>1, Alone, WorkerKept DEF PreCheck, WorkerStep,
         brokerVars, apiVars, rowVars, workerVars
  <1>PreStop. ASSUME NEW w \in Workers, PreStop(w) PROVE Parked'
    <2>1. WorkerMoves(w)
      BY <1>PreStop, GotoTo DEF PreStop, WorkerMoves, Bears, BeforeTry, workerVars
    <2>2. CallsMove
      BY <1>PreStop, CancelTo, <1>c
      DEF PreStop, CallsMove, Bears, BeforeTry, TypeOK, WorkersOK
    <2> QED
      BY <1>PreStop, <1>0, <2>1, <2>2, Alone, MovesKept
      DEF PreStop, WorkerStep, rowVars, brokerVars, apiVars
  <1>PreMark. ASSUME NEW w \in Workers, PreMark(w) PROVE Parked'
    <2>1. \A q \in Runs : status'[q] = "waiting" <=> status[q] = "waiting"
      BY <1>PreMark, CasWaits DEF PreMark, TypeOK, WorkersOK
    <2> QED
      BY <1>PreMark, <1>0, <2>1, ReturnTo, WorkerKept
      DEF PreMark, WorkerMoves, brokerVars, apiVars
  <1>Acquire. ASSUME NEW w \in Workers, Acquire(w) PROVE Parked'
    <2>1. WorkerMoves(w)
      BY <1>Acquire, GotoTo DEF Acquire, WorkerMoves, Bears, BeforeTry, workerVars
    <2> QED
      BY <1>Acquire, <1>0, <2>1, Alone, WorkerKept DEF Acquire, WorkerStep,
         brokerVars, apiVars, rowVars, workerVars
  <1>Busy. ASSUME NEW w \in Workers, Busy(w) PROVE Parked'
    <2>1. WorkerMoves(w)
      BY <1>Busy, GotoTo DEF Busy, WorkerMoves, Bears, BeforeTry, workerVars
    <2> QED
      BY <1>Busy, <1>0, <2>1, Alone, WorkerKept DEF Busy, WorkerStep,
         brokerVars, apiVars, rowVars, workerVars
  <1>LockBusy. ASSUME NEW w \in Workers, LockBusy(w) PROVE Parked'
    <2>1. \A q \in Runs : status'[q] = "waiting" <=> status[q] = "waiting"
      BY <1>LockBusy, CasWaits DEF LockBusy, TypeOK, WorkersOK
    <2> QED
      BY <1>LockBusy, <1>0, <2>1, ReturnTo, WorkerKept
      DEF LockBusy, WorkerMoves, brokerVars, apiVars
  <1>Owned. ASSUME NEW w \in Workers, Owned(w) PROVE Parked'
    <2>1. WorkerMoves(w)
      BY <1>Owned, GotoTo DEF Owned, WorkerMoves, Bears, BeforeTry, workerVars
    <2>2. CallsMove
      <3>1. CASE CancelCalls(wrun[w], {wcall[w]})
        BY <1>Owned, <3>1, CancelTo DEF Owned, CallsMove, Bears, TypeOK, WorkersOK
      <3>2. CASE \E s \in {"executing", "cancelled"} : exec' = [exec EXCEPT ![wrun[w]][wcall[w]] = s]
        BY <1>Owned, <3>2 DEF Owned, CallsMove, Bears, TypeOK, CallsOK, WorkersOK
      <3> QED BY <1>Owned, <1>c, <3>1, <3>2 DEF Owned
    <2> QED
      BY <1>Owned, <1>0, <2>1, <2>2, Alone, MovesKept
      DEF Owned, WorkerStep, rowVars, brokerVars, apiVars
  <1>DropInputs. ASSUME NEW w \in Workers, DropInputs(w) PROVE Parked'
    <2>1. WorkerMoves(w)
      BY <1>DropInputs, GotoTo DEF DropInputs, WorkerMoves, Bears, BeforeTry, workerVars
    <2> QED
      BY <1>DropInputs, <1>0, <2>1, Alone, WorkerKept DEF DropInputs,
         WorkerStep, brokerVars, apiVars, rowVars, workerVars
  <1>FinishApproved. ASSUME NEW w \in Workers, FinishApproved(w) PROVE Parked'
    <2>1. WorkerMoves(w)
      BY <1>FinishApproved, GotoTo
      DEF FinishApproved, WorkerMoves, Bears, BeforeTry, workerVars
    <2>2. CallsMove
      BY <1>FinishApproved
      DEF FinishApproved, CallsMove, OpenCall, TypeOK, CallsOK, WorkersOK
    <2> QED
      BY <1>FinishApproved, <1>0, <2>1, <2>2, Alone, MovesKept
      DEF FinishApproved, WorkerStep, rowVars, brokerVars, apiVars
  <1>RecordResult. ASSUME NEW w \in Workers, RecordResult(w) PROVE Parked'
    <2>1. WorkerMoves(w)
      BY <1>RecordResult, GotoTo
      DEF RecordResult, WorkerMoves, Bears, BeforeTry, TypeOK, WorkersOK
    <2>2. MarkersMove
      BY <1>RecordResult, AgentRunAssumption
      DEF RecordResult, MarkersMove, Marked, InBroker, TypeOK, RowsOK, WorkersOK,
          brokerVars, Calls
    <2> QED
      BY <1>RecordResult, <1>0, <1>c, <2>1, <2>2, Alone, MovesKept
      DEF RecordResult, WorkerStep, brokerVars, apiVars
  <1>Rebuild. ASSUME NEW w \in Workers, Rebuild(w) PROVE Parked'
    <2>1. WorkerMoves(w)
      BY <1>Rebuild, GotoTo DEF Rebuild, WorkerMoves, Bears, BeforeTry, workerVars
    <2> QED
      BY <1>Rebuild, <1>0, <2>1, Alone, WorkerKept DEF Rebuild, WorkerStep,
         brokerVars, apiVars, rowVars, workerVars
  <1>LoopHead. ASSUME NEW w \in Workers, LoopHead(w) PROVE Parked'
    <2>1. WorkerMoves(w)
      BY <1>LoopHead, GotoTo DEF LoopHead, WorkerMoves, Bears, BeforeTry, workerVars
    <2> QED
      BY <1>LoopHead, <1>0, <2>1, Alone, WorkerKept DEF LoopHead, WorkerStep,
         brokerVars, apiVars, rowVars, workerVars
  <1>LoopCheck. ASSUME NEW w \in Workers, LoopCheck(w) PROVE Parked'
    <2>1. WorkerMoves(w)
      BY <1>LoopCheck, GotoTo DEF LoopCheck, WorkerMoves, Bears, BeforeTry, workerVars
    <2> QED
      BY <1>LoopCheck, <1>0, <2>1, Alone, WorkerKept DEF LoopCheck,
         WorkerStep, brokerVars, apiVars, rowVars, workerVars
  <1>Turn. ASSUME NEW w \in Workers, Turn(w) PROVE Parked'
    <2>1. WorkerMoves(w)
      BY <1>Turn, GotoTo DEF Turn, WorkerMoves, Bears, BeforeTry, workerVars
    <2> QED
      BY <1>Turn, <1>0, <2>1, Alone, WorkerKept DEF Turn, WorkerStep,
         brokerVars, apiVars, rowVars, workerVars
  <1>TurnPauses. ASSUME NEW w \in Workers, TurnPauses(w) PROVE Parked'
    <2>1. PICK k \in Calls, kind \in {"ask_user", "awaiting"} :
            /\ exec[wrun[w]][k] = "none"
            /\ exec' = [exec EXCEPT ![wrun[w]][k] = kind]
            /\ wcall' = [wcall EXCEPT ![w] = k]
      BY <1>TurnPauses DEF TurnPauses
    <2>2. /\ wrun[w] \in Runs /\ k # 0 /\ pc'[w] = "park" /\ wcall'[w] = k /\ UNCHANGED wrun
          /\ UNCHANGED <<status, pending, marker, pub, msgs, cancelApi, after>>
          /\ exec'[wrun[w]][k] \in OpenCall
          /\ \A r \in Runs, i \in Calls : <<r, i>> # <<wrun[w], k>> => exec'[r][i] = exec[r][i]
      BY <1>TurnPauses, <2>1, GotoTo, AgentRunAssumption
      DEF TurnPauses, TypeOK, WorkersOK, CallsOK, OpenCall, Calls, rowVars, brokerVars,
          apiVars
    <2>3. Only(w)
      BY <1>TurnPauses, Alone DEF WorkerStep
    <2>4. /\ pending[wrun[w]] # k /\ ~Marked(wrun[w], k)
          /\ \A v \in Workers : wrun[v] = wrun[w] => wcall[v] # k
      BY <2>1, <2>2 DEF Parked, FreshUnnamed
    <2>5. FreshUnnamed'
      BY <2>2, <2>3 DEF Parked, FreshUnnamed, Marked, InBroker, Only, Same, OpenCall
    <2>6. PendingOpen'
      BY <2>2, <2>3, <2>4 DEF Parked, PendingOpen, Marked, InBroker, Only, Same, Bears
    <2>7. ParkingAlone'
      <3>1. \A v \in Workers : pc[v] = "park" => wcall[v] \in Calls /\ wrun[v] \in Runs
        BY DEF Parked, ParkingAlone, TypeOK, WorkersOK, Call0, Calls
      <3>2. \A r \in Runs, i \in Calls : Marked(r, i)' <=> Marked(r, i)
        BY <2>2 DEF Marked, InBroker
      <3>3. ASSUME NEW v \in Workers, pc'[v] = "park"
            PROVE  /\ wcall'[v] # 0 /\ pending'[wrun'[v]] # wcall'[v] /\ ~Marked(wrun[v], wcall[v])'
                   /\ status'[wrun'[v]] \notin Terminal => exec'[wrun'[v]][wcall'[v]] \in OpenCall
                   /\ \A u \in Workers : wrun'[u] = wrun'[v] /\ wcall'[u] = wcall'[v] => u = v
        <4>1. CASE v = w
          BY <2>2, <2>3, <2>4, <3>2, <4>1 DEF Only, Same, Marked, InBroker
        <4>2. CASE v # w
          <5>1. pc[v] = "park" /\ wcall'[v] = wcall[v] /\ wrun'[v] = wrun[v]
            BY <2>3, <3>3, <4>2 DEF Only, Same
          <5>2. <<wrun[v], wcall[v]>> # <<wrun[w], k>>
            BY <2>4, <5>1
          <5>3. ~Marked(wrun[v], wcall[v])'
            BY <2>2, <3>1, <5>1 DEF Parked, ParkingAlone, Marked, InBroker
          <5> QED
            BY <2>2, <2>3, <2>4, <3>1, <5>1, <5>2, <5>3 DEF Parked, ParkingAlone, Only, Same
        <4> QED BY <4>1, <4>2
      <3> QED BY <3>3 DEF ParkingAlone
    <2>8. RowsParked'
      BY <2>2 DEF Parked, RowsParked, BeingStopped
    <2> QED BY <2>5, <2>6, <2>7, <2>8 DEF Parked
  <1>Drain. ASSUME NEW w \in Workers, Drain(w) PROVE Parked'
    <2>1. WorkerMoves(w)
      BY <1>Drain, GotoTo DEF Drain, WorkerMoves, Bears, BeforeTry, workerVars
    <2> QED
      BY <1>Drain, <1>0, <2>1, Alone, WorkerKept DEF Drain, WorkerStep,
         brokerVars, apiVars, rowVars, workerVars
  <1>LastCheck. ASSUME NEW w \in Workers, LastCheck(w) PROVE Parked'
    <2>1. WorkerMoves(w)
      BY <1>LastCheck, GotoTo DEF LastCheck, WorkerMoves, Bears, BeforeTry, workerVars
    <2> QED
      BY <1>LastCheck, <1>0, <2>1, Alone, WorkerKept DEF LastCheck,
         WorkerStep, brokerVars, apiVars, rowVars, workerVars
  <1>Park. ASSUME NEW w \in Workers, Park(w) PROVE Parked'
    <2>1. CASE status[wrun[w]] = "running"
      <3> DEFINE r == wrun[w]
                 k == wcall[w]
      <3>1. /\ r \in Runs /\ k \in Calls /\ ~Bears(w)
            /\ pending[r] # k /\ ~Marked(r, k) /\ exec[r][k] \in OpenCall
            /\ \A v \in Workers : wrun[v] = r /\ wcall[v] = k => v = w
        BY <1>Park, <2>1
        DEF Park, Parked, ParkingAlone, TypeOK, WorkersOK, Call0, Calls, AfterOK,
            Bears, BeforeTry, Terminal, Safety, FailFrom, InFlight
      <3>2. /\ status'[r] = "waiting" /\ pending'[r] = k /\ marker'[r] = 0
            /\ \A q \in Runs \ {r} :
                 status'[q] = status[q] /\ pending'[q] = pending[q] /\ marker'[q] = marker[q]
        BY <1>Park, <2>1, <3>1 DEF Park, TypeOK, RowsOK
      <3>3. /\ pc'[w] = "recheck" /\ Only(w)
            /\ UNCHANGED <<exec, pub, msgs, cancelApi, wrun, wcall, after>>
        BY <1>Park, <2>1, Alone, GotoTo
        DEF Park, WorkerStep, brokerVars, apiVars, workerVars
      <3>4. \A q \in Runs, i \in Calls : Marked(q, i)' => Marked(q, i)
        BY <3>2, <3>3, AgentRunAssumption DEF Marked, InBroker, Calls
      <3>5. FreshUnnamed'
        BY <3>1, <3>2, <3>3, <3>4 DEF Parked, FreshUnnamed, OpenCall
      <3>6. PendingOpen'
        BY <3>1, <3>2, <3>3, <3>4 DEF Parked, PendingOpen, Only, Same, Bears, BeforeTry
      <3>7. ParkingAlone'
        <4>1. \A v \in Workers \ {w} : pc[v] = "park" => wcall[v] # k \/ wrun[v] # r
          BY <3>1
        <4>2. \A v \in Workers : pc'[v] = "park" => v # w /\ pc[v] = "park"
          BY <3>3 DEF Only, Same
        <4>3. \A v \in Workers : pc'[v] = "park" => wcall[v] \in Calls /\ wrun[v] \in Runs
          BY <4>2 DEF Parked, ParkingAlone, TypeOK, WorkersOK, Call0, Calls
        <4>4. \A v \in Workers : pc'[v] = "park" => ~Marked(wrun[v], wcall[v])'
          BY <3>2, <3>3, <4>2, <4>3, AgentRunAssumption
          DEF Parked, ParkingAlone, Marked, InBroker, Calls
        <4>5. \A v \in Workers : pc'[v] = "park" =>
                /\ pending'[wrun[v]] # wcall[v]
                /\ status'[wrun[v]] \notin Terminal => exec[wrun[v]][wcall[v]] \in OpenCall
          BY <2>1, <3>2, <4>1, <4>2, <4>3 DEF Parked, ParkingAlone, Terminal
        <4> QED
          BY <3>3, <4>2, <4>4, <4>5 DEF Parked, ParkingAlone
      <3>8. RowsParked'
        BY <3>1, <3>2, <3>3, <2>1, AgentRunAssumption
        DEF Parked, RowsParked, BeingStopped, Calls, Terminal
      <3> QED BY <3>5, <3>6, <3>7, <3>8 DEF Parked
    <2>2. CASE status[wrun[w]] # "running"
      <3>1. WorkerMoves(w)
        BY <1>Park, <2>2, GotoTo DEF Park, WorkerMoves, Bears, BeforeTry, workerVars
      <3> QED
        BY <1>Park, <1>0, <2>2, <3>1, Alone, WorkerKept
        DEF Park, WorkerStep, brokerVars, apiVars
    <2> QED BY <2>1, <2>2
  <1>Recheck. ASSUME NEW w \in Workers, Recheck(w) PROVE Parked'
    <2>1. CASE Resumable(wrun[w], wcall[w])
      <3>1. wrun[w] \in Runs
        BY <1>Recheck DEF Recheck, TypeOK, WorkersOK
      <3>2. pending'[wrun[w]] = 0 /\ \A r \in Runs \ {wrun[w]} : pending'[r] = pending[r]
        BY <1>Recheck, <2>1, <3>1 DEF Recheck, QueueResume, TypeOK, RowsOK
      <3>3. status'[wrun[w]] = "queued" /\ \A r \in Runs \ {wrun[w]} : status'[r] = status[r]
        BY <1>Recheck, <2>1, <3>1 DEF Recheck, QueueResume, TypeOK, RowsOK
      <3>4. RowsMove
        BY <1>Recheck, <3>1, <3>2, <3>3, TerminalStays
        DEF Recheck, RowsMove, Parked, RowsParked, BeingStopped, apiVars
      <3>5. MarkersMove
        BY <1>Recheck, <2>1, <3>1, <3>2, AgentRunAssumption
        DEF Recheck, QueueResume, ResumeMarker, Resumable, MarkersMove, Marked,
            InBroker, brokerVars, Calls, TypeOK, RowsOK
      <3>6. WorkerMoves(w)
        BY <1>Recheck, <2>1, <3>2, GotoTo
        DEF Recheck, ResumeMarker, WorkerMoves, TypeOK, WorkersOK
      <3>7. \A v \in Workers : WorkerMoves(v)
        BY <1>Recheck, <3>6, Alone DEF WorkerStep, Only, Same, WorkerMoves, Bears
      <3> QED
        BY <1>Recheck, <1>0, <1>c, <3>4, <3>5, <3>7, ParkedKept DEF Recheck
    <2>2. CASE ~Resumable(wrun[w], wcall[w])
      <3>1. WorkerMoves(w)
        BY <1>Recheck, <2>2, GotoTo DEF Recheck, WorkerMoves, Bears, BeforeTry
      <3> QED
        BY <1>Recheck, <1>0, <2>2, <3>1, Alone, WorkerKept
        DEF Recheck, WorkerStep, brokerVars, apiVars
    <2> QED BY <2>1, <2>2
  <1>FinalizeStopped. ASSUME NEW w \in Workers, FinalizeStopped(w) PROVE Parked'
    <2>1. WorkerMoves(w)
      BY <1>FinalizeStopped, GotoTo
      DEF FinalizeStopped, WorkerMoves, Bears, BeforeTry, workerVars
    <2> QED
      BY <1>FinalizeStopped, <1>0, <2>1, Alone, WorkerKept DEF
         FinalizeStopped, WorkerStep, brokerVars, apiVars, rowVars, workerVars
  <1>MarkStopped. ASSUME NEW w \in Workers, MarkStopped(w) PROVE Parked'
    <2>1. \A q \in Runs : status'[q] = "waiting" <=> status[q] = "waiting"
      BY <1>MarkStopped, CasWaits DEF MarkStopped, TypeOK, WorkersOK
    <2>2. WorkerMoves(w)
      BY <1>MarkStopped, GotoTo DEF MarkStopped, WorkerMoves, Bears, BeforeTry, workerVars
    <2> QED
      BY <1>MarkStopped, <1>0, <2>1, <2>2, Alone, WorkerKept
      DEF MarkStopped, WorkerStep, brokerVars, apiVars
  <1>ClaimCompletion. ASSUME NEW w \in Workers, ClaimCompletion(w) PROVE Parked'
    <2>1. WorkerMoves(w)
      BY <1>ClaimCompletion, GotoTo
      DEF ClaimCompletion, WorkerMoves, Bears, BeforeTry, workerVars
    <2>2. \A q \in Runs : status'[q] = "waiting" <=> status[q] = "waiting"
      BY <1>ClaimCompletion DEF ClaimCompletion, TypeOK, RowsOK, WorkersOK
    <2> QED
      BY <1>ClaimCompletion, <1>0, <2>1, <2>2, Alone, WorkerKept
      DEF ClaimCompletion, WorkerStep, brokerVars, apiVars
  <1>FinalizeCompleted. ASSUME NEW w \in Workers, FinalizeCompleted(w) PROVE Parked'
    <2>1. WorkerMoves(w)
      BY <1>FinalizeCompleted, GotoTo
      DEF FinalizeCompleted, WorkerMoves, Bears, BeforeTry, workerVars
    <2> QED
      BY <1>FinalizeCompleted, <1>0, <2>1, Alone, WorkerKept DEF
         FinalizeCompleted, WorkerStep, brokerVars, apiVars, rowVars,
         workerVars
  <1>MarkCompleted. ASSUME NEW w \in Workers, MarkCompleted(w) PROVE Parked'
    <2>1. \A q \in Runs : status'[q] = "waiting" <=> status[q] = "waiting"
      BY <1>MarkCompleted, CasWaits DEF MarkCompleted, TypeOK, WorkersOK
    <2>2. WorkerMoves(w)
      BY <1>MarkCompleted, GotoTo
      DEF MarkCompleted, WorkerMoves, Bears, BeforeTry, workerVars
    <2> QED
      BY <1>MarkCompleted, <1>0, <2>1, <2>2, Alone, WorkerKept
      DEF MarkCompleted, WorkerStep, brokerVars, apiVars
  <1>Except. ASSUME NEW w \in Workers, Except(w) PROVE Parked'
    <2>1. \A q \in Runs : status'[q] = "waiting" <=> status[q] = "waiting"
      BY <1>Except, CasWaits DEF Except, TypeOK, WorkersOK
    <2>2. WorkerMoves(w)
      BY <1>Except, GotoTo DEF Except, WorkerMoves, Bears, BeforeTry, workerVars
    <2> QED
      BY <1>Except, <1>0, <2>1, <2>2, Alone, WorkerKept
      DEF Except, WorkerStep, brokerVars, apiVars
  <1>ReleaseGet. ASSUME NEW w \in Workers, ReleaseGet(w) PROVE Parked'
    <2>1. WorkerMoves(w)
      BY <1>ReleaseGet, GotoTo, ReturnTo
      DEF ReleaseGet, AfterRelease, WorkerMoves, Bears, BeforeTry, workerVars, TypeOK,
          WorkersOK
    <2> QED
      BY <1>ReleaseGet, <1>0, <2>1, Alone, WorkerKept
      DEF ReleaseGet, WorkerStep, rowVars, brokerVars, apiVars
  <1>ReleaseDelete. ASSUME NEW w \in Workers, ReleaseDelete(w) PROVE Parked'
    <2>1. WorkerMoves(w)
      BY <1>ReleaseDelete, GotoTo, ReturnTo
      DEF ReleaseDelete, AfterRelease, WorkerMoves, Bears, BeforeTry, workerVars, TypeOK,
          WorkersOK
    <2> QED
      BY <1>ReleaseDelete, <1>0, <2>1, Alone, WorkerKept
      DEF ReleaseDelete, WorkerStep, rowVars, brokerVars, apiVars
  <1>DispatchDeferred. ASSUME NEW w \in Workers, DispatchDeferred(w) PROVE Parked'
    <2>1. wrun[w] \in Runs /\ <<wrun[w], wcall[w]>> \in Jobs
      BY <1>DispatchDeferred DEF DispatchDeferred, TypeOK, WorkersOK, Jobs
    <2>2. MarkersMove
      <3>1. \A i \in Jobs : i # <<wrun[w], wcall[w]>> => msgs'[i] = msgs[i]
        BY <1>DispatchDeferred, <2>1 DEF DispatchDeferred, TypeOK, SharedOK
      <3>2. Bears(w)
        BY <1>DispatchDeferred DEF DispatchDeferred, Bears
      <3>3. \A r \in Runs, k \in Calls : <<r, k>> \in Jobs
        BY AgentRunAssumption DEF Jobs, Calls, Call0
      <3> QED
        BY <1>DispatchDeferred, <3>1, <3>2, <3>3
        DEF DispatchDeferred, MarkersMove, Marked, InBroker
    <2>3. \A q \in Runs : status'[q] = "waiting" <=> status[q] = "waiting"
      BY <1>DispatchDeferred, <2>1, CasWaits DEF DispatchDeferred
    <2> QED
      BY <1>DispatchDeferred, <1>0, <1>c, <2>2, <2>3, ReturnTo, MovesKept
      DEF DispatchDeferred, WorkerMoves, apiVars
  <1>SafetyNet. ASSUME NEW w \in Workers, SafetyNet(w) PROVE Parked'
    <2>1. WorkerMoves(w)
      BY <1>SafetyNet, GotoTo, ReturnTo
      DEF SafetyNet, WorkerMoves, Bears, BeforeTry, workerVars, FailFrom, InFlight
    <2> QED
      BY <1>SafetyNet, <1>0, <2>1, Alone, WorkerKept
      DEF SafetyNet, WorkerStep, rowVars, brokerVars, apiVars
  <1>SafetyFail. ASSUME NEW w \in Workers, SafetyFail(w) PROVE Parked'
    <2>1. PICK s \in InFlight : pc[w] = FailFrom[s] /\ Transition(wrun[w], {s}, "failed")
      BY <1>SafetyFail DEF SafetyFail
    <2>2. s # "waiting" /\ wrun[w] \in Runs
      BY <2>1 DEF TypeOK, WorkersOK, FailFrom, InFlight
    <2>3. \A q \in Runs : status'[q] = "waiting" <=> status[q] = "waiting"
      BY <2>1, <2>2, CasWaits
    <2> QED
      BY <1>SafetyFail, <1>0, <2>3, ReturnTo, WorkerKept
      DEF SafetyFail, WorkerMoves, brokerVars, apiVars
  <1>ContextLost. ASSUME NEW w \in Workers, ContextLost(w) PROVE Parked'
    <2>1. \A q \in Runs : status'[q] = "waiting" <=> status[q] = "waiting"
      BY <1>ContextLost, CasWaits DEF ContextLost, TypeOK, WorkersOK
    <2> QED
      BY <1>ContextLost, <1>0, <2>1, ReturnTo, WorkerKept
      DEF ContextLost, WorkerMoves, brokerVars, apiVars
  <1>WorkerError. ASSUME NEW w \in Workers, WorkerError(w) PROVE Parked'
    <2>1. WorkerMoves(w)
      BY <1>WorkerError, GotoTo
      DEF WorkerError, WorkerMoves, Bears, BeforeTry, TypeOK, WorkersOK
    <2> QED
      BY <1>WorkerError, <1>0, <2>1, Alone, WorkerKept
      DEF WorkerError, rowVars, brokerVars, apiVars
  <1>WorkerDies. ASSUME NEW w \in Workers, WorkerDies(w) PROVE Parked'
    BY <1>WorkerDies, <1>0, ReturnTo, WorkerKept
    DEF WorkerDies, WorkerMoves, rowVars, brokerVars, apiVars
  <1>Receive. ASSUME NEW w \in Workers, NEW j \in Jobs, Receive(w, j) PROVE Parked'
    <2>0. \A i \in Jobs : InBroker(i)' => InBroker(i)
      BY <1>Receive, AgentRunAssumption DEF Receive, InBroker, TypeOK, SharedOK
    <2>1. MarkersMove
      BY <1>Receive, <2>0, AgentRunAssumption
      DEF Receive, MarkersMove, Marked, rowVars, Jobs, Calls, Call0
    <2>2. j[1] \in Runs /\ j = <<j[1], j[2]>> /\ InBroker(j)
      BY <1>Receive DEF Receive, Jobs, InBroker
    <2>3. WorkerMoves(w) /\ Only(w)
      BY <1>Receive, <2>2, GotoTo
      DEF Receive, WorkerMoves, Marked, Only, Same, TypeOK, WorkersOK
    <2> QED
      BY <1>Receive, <1>0, <1>c, <2>1, <2>3, MovesKept DEF Receive, rowVars, apiVars
  <1>Publish. ASSUME NEW j \in Jobs, Publish(j) PROVE Parked'
    <2>1. \A i \in Jobs : InBroker(i)' => InBroker(i)
      BY <1>Publish, MsgMore DEF Publish, InBroker, TypeOK, SharedOK
    <2>2. MarkersMove
      BY <1>Publish, <2>1, AgentRunAssumption
      DEF Publish, MarkersMove, Marked, rowVars, Jobs, Calls, Call0
    <2> QED
      BY <1>Publish, <1>0, <1>c, <2>2, EndpointKept
      DEF BeingStopped, Publish, rowVars, apiVars, workerVars
  <1>PublishFails. ASSUME NEW j \in Jobs, PublishFails(j) PROVE Parked'
    <2>1. \A q \in Runs : status'[q] = "waiting" <=> status[q] = "waiting"
      <3>1. CASE Transition(j[1], {"queued"}, "failed")
        BY <3>1, CasWaits DEF Jobs
      <3>2. CASE UNCHANGED status
        BY <3>2
      <3> QED BY <1>PublishFails, <3>1, <3>2 DEF PublishFails
    <2> QED
      BY <1>PublishFails, <1>0, <1>c, <2>1, MarkersStay, EndpointKept
      DEF BeingStopped, PublishFails, apiVars, workerVars
  <1>Submit. ASSUME NEW r \in Runs, Submit(r) PROVE Parked'
    <2>1. \A q \in Runs : status'[q] = "waiting" <=> status[q] = "waiting"
      BY <1>Submit DEF Submit, TypeOK, RowsOK
    <2>2. MarkersMove
      BY <1>Submit, AgentRunAssumption DEF Submit, MarkersMove, Marked, InBroker, Calls
    <2> QED
      BY <1>Submit, <1>0, <1>c, <2>1, <2>2, EndpointKept
      DEF BeingStopped, Submit, apiVars, workerVars
  <1>RedispatchQueued. ASSUME NEW r \in Runs, RedispatchQueued(r) PROVE Parked'
    <2>1. MarkersMove
      BY <1>RedispatchQueued DEF RedispatchQueued, MarkersMove, Marked, InBroker, rowVars
    <2> QED
      BY <1>RedispatchQueued, <1>0, <1>c, <2>1, EndpointKept
      DEF BeingStopped, RedispatchQueued, rowVars, apiVars, workerVars
  <1>StopParked. ASSUME NEW r \in Runs, StopParked(r) PROVE Parked'
    <2>1. status'[r] = "stopped" /\ \A q \in Runs \ {r} : status'[q] = status[q]
      BY <1>StopParked DEF StopParked, TypeOK, RowsOK
    <2>2. pending'[r] = 0 /\ \A q \in Runs \ {r} : pending'[q] = pending[q]
      BY <1>StopParked DEF StopParked, TypeOK, RowsOK
    <2>3. RowsMove
      BY <1>StopParked, <2>1, <2>2, TerminalStays
      DEF StopParked, RowsMove, Parked, RowsParked, BeingStopped, Terminal
    <2>4. \A v \in Workers : WorkerMoves(v)
      BY <1>StopParked DEF StopParked, workerVars, WorkerMoves, Bears
    <2> QED
      BY <1>StopParked, <1>0, <1>c, <2>3, <2>4, MarkersStay, ParkedKept
      DEF StopParked, brokerVars
  <1>ListPending. ASSUME NEW r \in Runs, ListPending(r) PROVE Parked'
    <2>1. \A q \in Runs : BeingStopped(q)' => BeingStopped(q)
      BY <1>ListPending, AgentRunAssumption DEF ListPending, BeingStopped, Call0
    <2> QED
      BY <1>ListPending, <1>0, <1>c, <2>1, MarkersStay, EndpointKept
      DEF ListPending, rowVars, brokerVars, workerVars
  <1>CancelPending. ASSUME NEW r \in Runs, NEW k \in Calls, CancelPending(r, k)
                    PROVE  Parked'
    <2>1. CallsMove
      <3>1. BeingStopped(r)
        BY <1>CancelPending, AgentRunAssumption
        DEF CancelPending, BeingStopped, Calls, Call0
      <3> QED
        BY <1>CancelPending, <3>1, CancelTo DEF CancelPending, CallsMove
    <2>2. \A q \in Runs : BeingStopped(q)' => BeingStopped(q)
      BY <1>CancelPending DEF CancelPending, BeingStopped
    <2> QED
      BY <1>CancelPending, <1>0, <2>1, <2>2, MarkersStay, EndpointKept
      DEF CancelPending, rowVars, brokerVars, workerVars
  <1>StopRunning. ASSUME NEW r \in Runs, StopRunning(r) PROVE Parked'
    <2>1. \A q \in Runs : status'[q] = "waiting" <=> status[q] = "waiting"
      BY <1>StopRunning DEF StopRunning, TypeOK, RowsOK
    <2> QED
      BY <1>StopRunning, <1>0, <1>c, <2>1, MarkersStay, EndpointKept
      DEF BeingStopped, StopRunning, brokerVars, workerVars
  <1>SubmitAnswers. ASSUME NEW r \in Runs, SubmitAnswers(r) PROVE Parked'
    <2>1. status'[r] = "queued" /\ \A q \in Runs \ {r} : status'[q] = status[q]
      BY <1>SubmitAnswers DEF SubmitAnswers, TypeOK, RowsOK
    <2>2. pending'[r] = 0 /\ \A q \in Runs \ {r} : pending'[q] = pending[q]
      BY <1>SubmitAnswers DEF SubmitAnswers, TypeOK, RowsOK
    <2>3. RowsMove
      BY <1>SubmitAnswers, <2>1, <2>2, TerminalStays
      DEF SubmitAnswers, RowsMove, Parked, RowsParked, BeingStopped, apiVars
    <2>4. \A v \in Workers : WorkerMoves(v)
      BY <1>SubmitAnswers DEF SubmitAnswers, workerVars, WorkerMoves, Bears
    <2>5. MarkersMove
      BY <1>SubmitAnswers DEF SubmitAnswers, MarkersMove, Marked, InBroker
    <2> QED
      BY <1>SubmitAnswers, <1>0, <1>c, <2>3, <2>4, <2>5, ParkedKept DEF SubmitAnswers
  <1>SweepMark. ASSUME NEW r \in Runs, SweepMark(r) PROVE Parked'
    <2>1. \A q \in Runs : status'[q] = "waiting" <=> status[q] = "waiting"
      BY <1>SweepMark, CasWaits DEF SweepMark, TypeOK, SharedOK
    <2> QED
      BY <1>SweepMark, <1>0, <1>c, <2>1, MarkersStay, EndpointKept
      DEF BeingStopped, SweepMark, brokerVars, apiVars, workerVars
  <1>Decide. ASSUME NEW r \in Runs, NEW k \in Calls, Decide(r, k) PROVE Parked'
    <2>1. CallsMove
      BY <1>Decide DEF Decide, Decided, CallsMove, OpenCall, TypeOK, CallsOK
    <2> QED
      BY <1>Decide, <1>0, <2>1, MarkersStay, EndpointKept
      DEF BeingStopped, Decide, rowVars, brokerVars, apiVars, workerVars
  <1>Expire. ASSUME NEW r \in Runs, NEW k \in Calls, Expire(r, k) PROVE Parked'
    <2>1. CallsMove
      BY <1>Expire DEF Expire, CallsMove, OpenCall, TypeOK, CallsOK
    <2> QED
      BY <1>Expire, <1>0, <2>1, MarkersStay, EndpointKept
      DEF BeingStopped, Expire, rowVars, brokerVars, apiVars, workerVars
  <1>StaleClaim. ASSUME NEW r \in Runs, NEW k \in Calls, StaleClaim(r, k) PROVE Parked'
    <2>1. CallsMove
      BY <1>StaleClaim DEF StaleClaim, CallsMove, OpenCall, TypeOK, CallsOK
    <2> QED
      BY <1>StaleClaim, <1>0, <2>1, MarkersStay, EndpointKept
      DEF BeingStopped, StaleClaim, rowVars, brokerVars, apiVars, workerVars
  <1>ScheduleResume. ASSUME NEW r \in Runs, NEW k \in Calls, ScheduleResume(r, k)
                     PROVE  Parked'
    <2>0. \A q \in Runs : BeingStopped(q)' <=> BeingStopped(q)
      BY <1>ScheduleResume DEF ScheduleResume, BeingStopped
    <2>1. CASE Resumable(r, k)
      <3>0. PICK m \in {k, 0} : QueueResume(r, m) /\ pub' = pub \cup {<<r, m>>}
        BY <1>ScheduleResume, <2>1 DEF ScheduleResume, ResumeMarker
      <3>1. status'[r] = "queued" /\ \A q \in Runs \ {r} : status'[q] = status[q]
        BY <3>0 DEF QueueResume, TypeOK, RowsOK
      <3>2. pending'[r] = 0 /\ \A q \in Runs \ {r} : pending'[q] = pending[q]
        BY <3>0 DEF QueueResume, TypeOK, RowsOK
      <3>3. RowsMove
        BY <2>0, <2>1, <3>1, <3>2, TerminalStays
        DEF RowsMove, Parked, RowsParked
      <3>4. \A v \in Workers : WorkerMoves(v)
        BY <1>ScheduleResume DEF ScheduleResume, workerVars, WorkerMoves, Bears
      <3>5. MarkersMove
        BY <1>ScheduleResume, <2>1, <3>0, <3>2, AgentRunAssumption
        DEF ScheduleResume, QueueResume, Resumable, MarkersMove,
            Marked, InBroker, Calls, TypeOK, RowsOK
      <3> QED
        BY <1>ScheduleResume, <1>0, <1>c, <3>3, <3>4, <3>5, ParkedKept DEF ScheduleResume
    <2>2. CASE ~Resumable(r, k)
      BY <1>ScheduleResume, <1>0, <1>c, <2>0, <2>2, MarkersStay, EndpointKept
      DEF ScheduleResume, workerVars
    <2> QED BY <2>1, <2>2
  <1>ApiDies. ASSUME ApiDies PROVE Parked'
    <2>1. pub' \subseteq pub /\ \A q \in Runs : BeingStopped(q)' => BeingStopped(q)
      BY <1>ApiDies DEF ApiDies, BeingStopped, apiVars
    <2> QED
      BY <1>ApiDies, <1>0, <1>c, <2>1, MarkersStay, EndpointKept
      DEF ApiDies, rowVars, workerVars
  <1>quiet. ASSUME UNCHANGED <<status, pending, marker, exec, pub, msgs, cancelApi, pc, wrun,
                               wcall, after>>
            PROVE  Parked'
    BY <1>quiet, <1>0, <1>c, MarkersStay, EndpointKept DEF BeingStopped
  <1> QED BY ZenonT(60), <1>quiet, <1>Load, <1>Claim, <1>PreCheck, <1>PreStop,
     <1>PreMark, <1>Acquire, <1>Busy, <1>LockBusy, <1>Owned, <1>DropInputs,
     <1>FinishApproved, <1>RecordResult, <1>Rebuild, <1>LoopHead,
     <1>LoopCheck, <1>Turn, <1>TurnPauses, <1>Drain, <1>LastCheck, <1>Park,
     <1>Recheck, <1>FinalizeStopped, <1>MarkStopped, <1>ClaimCompletion,
     <1>FinalizeCompleted, <1>MarkCompleted, <1>Except, <1>ReleaseGet,
     <1>ReleaseDelete, <1>DispatchDeferred, <1>SafetyNet, <1>SafetyFail,
     <1>ContextLost, <1>WorkerError, <1>WorkerDies, <1>Receive, <1>Publish,
     <1>PublishFails, <1>Submit, <1>RedispatchQueued, <1>StopParked,
     <1>ListPending, <1>CancelPending, <1>StopRunning, <1>SubmitAnswers, <1>SweepMark,
     <1>Decide, <1>Expire, <1>StaleClaim, <1>ScheduleResume, <1>ApiDies DEF
     vars, rowVars, brokerVars, apiVars, workerVars, Next, WorkerStep,
     Dispatching, Endpoints, Approvals, EnqueueStop, PostStopInput, GrowOld,
     SweepRead, SweepCheck, LeaseExpires

(* A run is waiting exactly when its row names the call it waits for, and  *)
(* that call is not one that was already answered or executed.             *)
THEOREM WaitsForOpenCall == Spec => []WaitingHasPendingCall
  <1>1. Init => AfterOK
    BY DEF Init, AfterOK
  <1>2. TypeOK /\ AfterOK /\ [Next]_vars => AfterOK'
    BY AfterStep
  <1>3. Init => Parked
    <2> SUFFICES ASSUME Init PROVE Parked
      OBVIOUS
    <2>1. \A r \in Runs, k \in Calls : pending[r] = 0 /\ k # 0 /\ ~Marked(r, k)
      BY AgentRunAssumption DEF Init, Marked, InBroker, Calls, Jobs, Call0
    <2> QED
      BY <2>1
      DEF Init, Parked, RowsParked, BeingStopped, FreshUnnamed, PendingOpen, ParkingAlone,
          Terminal
  <1>4. TypeOK /\ AfterOK /\ Parked /\ [Next]_vars => Parked'
    BY ParkedStep
  <1>5. TypeOK /\ Parked => WaitingHasPendingCall
    BY AgentRunAssumption
    DEF TypeOK, RowsOK, Parked, RowsParked, PendingOpen, WaitingHasPendingCall, OpenCall,
        Calls, Call0
  <1> QED BY <1>1, <1>2, <1>3, <1>4, <1>5, TypeCorrect, PTL DEF Spec
===============================================================================
