-------------------------- MODULE WorkflowRunProofs --------------------------
(***************************************************************************)
(* Theorems about WorkflowRun for every definition, every set of workers   *)
(* and approvers, and every bound.                                         *)
(***************************************************************************)
EXTENDS WorkflowRun, FiniteSetTheorems, TLAPS

-----------------------------------------------------------------------------
(* The plan *)

LEMMA PlanNames ==
  /\ PauseNodes \subseteq Nodes /\ AskNodes \subseteq PauseNodes /\ VoteNodes \subseteq PauseNodes
  /\ AskNodes \cap VoteNodes = {}
  BY GraphAssumption DEF PauseNodes

(* The stages of the plan hold nodes of the definition. *)
LEMMA StagesOK ==
  ASSUME NEW k \in Nat, k < LastStage
  PROVE  Stage[k + 1] \subseteq Nodes
<1>1. Cardinality(Nodes) \in Nat
  BY GraphAssumption, FS_CardinalityType
<1>2. LastStage <= Cardinality(Nodes)
  <2>1. /\ IsFiniteSet(1 .. Cardinality(Nodes))
        /\ Cardinality(1 .. Cardinality(Nodes)) = Cardinality(Nodes)
    BY <1>1, FS_Interval, SMT
  <2>2. {i \in 1 .. Cardinality(Nodes) : Stage[i] # {}} \subseteq 1 .. Cardinality(Nodes)
    OBVIOUS
  <2> QED BY <2>1, <2>2, FS_Subset DEF LastStage
<1>3. k + 1 \in 1 .. Cardinality(Nodes)
  <2>1. LastStage \in Nat
    <3>1. IsFiniteSet(1 .. Cardinality(Nodes))
      BY <1>1, FS_Interval, SMT
    <3>2. IsFiniteSet({i \in 1 .. Cardinality(Nodes) : Stage[i] # {}})
      BY <3>1, FS_Subset
    <3> QED BY <3>2, FS_CardinalityType DEF LastStage
  <2> QED BY <1>1, <1>2, <2>1
<1> QED BY <1>3 DEF Stage

(* What a branch prunes are nodes of the definition. *)
LEMMA PrunedOK ==
  ASSUME NEW n \in Nodes, NEW h
  PROVE  Pruned(n, h) \subseteq Nodes
<1>1. \A g : HandleMap(n, g) \subseteq Nodes
  BY GraphAssumption DEF HandleMap
<1>2. \A m \in Nodes : AllDownstream[m] \subseteq Nodes
  BY DEF AllDownstream
<1> QED BY <1>1, <1>2 DEF Pruned

-----------------------------------------------------------------------------
(* The types *)

LEMMA WithSkippedOK ==
  ASSUME NEW S, NEW r \in [Nodes -> SUBSET NodeStatus]
  PROVE  WithSkipped(S, r) \in [Nodes -> SUBSET NodeStatus]
  BY DEF WithSkipped, NodeStatus

LEMMA ClosedOK ==
  ASSUME rows \in [Nodes -> SUBSET NodeStatus], NEW n \in Nodes,
         NEW s \in {"SUCCESS", "FAILED", "WAITING"}
  PROVE  Closed(n, s) \in [Nodes -> SUBSET NodeStatus]
  BY DEF Closed, NodeStatus

(* A pass goes on, leaves its plan or is over. *)
LEMMA WorkersOK ==
  ASSUME worker \in [Workers -> Passes], NEW w \in Workers,
         NEW pc \in {"started", "nodes", "node", "waiting", "parking", "parked", "completed",
                     "failing", "failed", "done", "claimed"}
  PROVE  /\ Moves(w, pc) => worker' \in [Workers -> Passes]
         /\ Leaves(w, pc) => worker' \in [Workers -> Passes]
         /\ Idle \in Passes
<1>1. Idle \in Passes
  BY DEF Idle, Passes
<1>2. worker[w].resume \in BOOLEAN
  BY DEF Passes
<1>3. [Idle EXCEPT !.pc = pc, !.resume = worker[w].resume] \in Passes
  BY <1>1, <1>2 DEF Passes
<1>4. [worker[w] EXCEPT !.pc = pc] \in Passes
  BY DEF Passes
<1> QED BY <1>1, <1>3, <1>4 DEF Moves, Leaves

LEMMA SucceedOK ==
  ASSUME TypeOK, NEW w \in Workers, worker[w].node \in Nodes, NEW cut \in SUBSET Nodes,
         Succeed(w, cut)
  PROVE  /\ rows' \in [Nodes -> SUBSET NodeStatus] /\ worker' \in [Workers -> Passes]
         /\ effects' \in [Nodes -> Nat] /\ pruned' \in SUBSET Nodes /\ starts' \in Nat
<1> DEFINE n == worker[w].node
<1>1. rows' \in [Nodes -> SUBSET NodeStatus]
  <2>1. Closed(n, "SUCCESS") \in [Nodes -> SUBSET NodeStatus]
    BY ClosedOK DEF TypeOK
  <2> QED BY <2>1, WithSkippedOK DEF Succeed
<1>2. worker' \in [Workers -> Passes]
  <2>1. [worker[w] EXCEPT !.pc = "nodes", !.todo = @ \ {n}, !.executed = @ \cup {n},
                          !.skipped = @ \cup cut, !.node = "none"] \in Passes
    <3> DEFINE p == worker[w]
    <3>1. p \in Passes
      BY DEF TypeOK
    <3>2. /\ p.todo \ {n} \in SUBSET Nodes /\ p.executed \cup {n} \in SUBSET Nodes
          /\ p.skipped \cup cut \in SUBSET Nodes
      BY <3>1 DEF Passes
    <3> HIDE DEF p
    <3> QED BY <3>1, <3>2 DEF Passes, p
  <2>2. worker' = [worker EXCEPT ![w] =
           [worker[w] EXCEPT !.pc = "nodes", !.todo = @ \ {n}, !.executed = @ \cup {n},
                             !.skipped = @ \cup cut, !.node = "none"]]
    BY DEF Succeed, TypeOK
  <2> QED BY <2>1, <2>2 DEF TypeOK
<1>3. effects' \in [Nodes -> Nat]
  BY DEF Succeed, TypeOK
<1> QED BY <1>1, <1>2, <1>3 DEF Succeed, TypeOK

LEMMA PassType ==
  ASSUME TypeOK, NEW w \in Workers,
         StartRun(w) \/ ResumeClaim(w) \/ PassStep(w) \/ Crash(w) \/ CrashWhileSkipping(w)
  PROVE  TypeOK'
<1>0. /\ worker \in [Workers -> Passes] /\ rows \in [Nodes -> SUBSET NodeStatus]
      /\ worker[w] \in Passes /\ Idle \in Passes
  BY WorkersOK DEF TypeOK
<1>1. CASE StartRun(w)
  <2>1. runTasks' \in Nat /\ starts' \in Nat
    BY <1>1 DEF StartRun, TypeOK
  <2>2. [Idle EXCEPT !.pc = "started"] \in Passes
    BY <1>0 DEF Passes
  <2> QED BY <1>0, <1>1, <2>1, <2>2
      DEF StartRun, TypeOK, RunStatus, requestVars, faultVars
<1>2. CASE ResumeClaim(w)
  <2>1. resumes' \in Nat
    BY <1>2 DEF ResumeClaim, TypeOK
  <2>2. [Idle EXCEPT !.pc = "claimed", !.resume = TRUE] \in Passes
    BY <1>0 DEF Passes
  <2>3. worker' \in [Workers -> Passes] /\ status' \in RunStatus
    BY <1>0, <1>2, <2>2 DEF ResumeClaim, TypeOK, RunStatus
  <2> QED BY <1>2, <2>1, <2>3 DEF ResumeClaim, TypeOK, requestVars, faultVars, historyVars
<1>3. CASE ResumeStart(w)
  BY <1>0, <1>3, WorkersOK
  DEF ResumeStart, TypeOK, RunStatus, requestVars, queueVars, faultVars, historyVars
<1>4. CASE BeginExecute(w)
  <2>1. ExecutedBefore(w) \subseteq Nodes /\ SkippedBefore(w) \subseteq Nodes
    BY DEF ExecutedBefore, SkippedBefore
  <2>2. [worker[w] EXCEPT !.pc = "nodes", !.executed = ExecutedBefore(w),
                          !.skipped = SkippedBefore(w)] \in Passes
    BY <1>0, <2>1 DEF Passes
  <2>3. worker' \in [Workers -> Passes]
    BY <1>0, <1>4, <2>2 DEF BeginExecute
  <2> QED BY <1>4, <2>3
      DEF BeginExecute, TypeOK, requestVars, queueVars, faultVars, historyVars
<1>5. CASE BeginStage(w)
  <2>0. worker[w].stage \in Nat /\ worker[w].stage < LastStage
    BY <1>0, <1>5 DEF BeginStage, Passes
  <2>1. PICK open \in SUBSET Nodes, cut \in SUBSET Nodes :
          /\ worker' = [worker EXCEPT ![w].stage = @ + 1, ![w].todo = open \ cut,
                                      ![w].skipped = @ \cup cut]
          /\ rows' = WithSkipped(cut, rows)
    BY <1>5, <2>0, StagesOK DEF BeginStage
  <2>2. [worker[w] EXCEPT !.stage = @ + 1, !.todo = open \ cut, !.skipped = @ \cup cut] \in Passes
    <3>1. worker[w].stage + 1 \in Nat
      BY <2>0
    <3>2. \A k \in Nat : [worker[w] EXCEPT !.stage = k, !.todo = open \ cut,
                                            !.skipped = @ \cup cut] \in Passes
      BY <1>0 DEF Passes
    <3> QED BY <3>1, <3>2
  <2>3. worker' \in [Workers -> Passes] /\ rows' \in [Nodes -> SUBSET NodeStatus]
    BY <1>0, <2>1, <2>2, WithSkippedOK
  <2> QED BY <1>5, <2>3
      DEF BeginStage, TypeOK, requestVars, queueVars, faultVars, historyVars
<1>6. CASE SeeCancelled(w) \/ PassRefused(w) \/ CompleteFails(w)
  BY <1>0, <1>6, WorkersOK
  DEF SeeCancelled, PassRefused, CompleteFails, TypeOK, rowVars, requestVars, queueVars, faultVars,
      historyVars
<1>7. ASSUME NEW n \in Nodes, StartNode(w, n) PROVE TypeOK'
  <2>1. rows' \in [Nodes -> SUBSET NodeStatus]
    BY <1>0, <1>7 DEF StartNode, NodeStatus
  <2>2. [worker[w] EXCEPT !.pc = "node", !.node = n] \in Passes
    BY <1>0 DEF Passes
  <2>3. worker' \in [Workers -> Passes]
    BY <1>0, <1>7, <2>2 DEF StartNode
  <2> QED BY <1>7, <2>1, <2>3
      DEF StartNode, TypeOK, requestVars, queueVars, faultVars, historyVars
<1>8. CASE NodeSucceeds(w)
  <2>1. worker[w].node \in Nodes
    BY <1>0, <1>8 DEF NodeSucceeds, Succeed, Passes, PauseNodes, Closed, TypeOK
  <2>2. PICK cut \in SUBSET Nodes : Succeed(w, cut)
    <3>1. \A h : Pruned(worker[w].node, h) \subseteq Nodes
      BY <2>1, PrunedOK
    <3> QED BY <1>8, <3>1 DEF NodeSucceeds
  <2> QED BY <1>8, <2>1, <2>2, SucceedOK
      DEF NodeSucceeds, TypeOK, requestVars, queueVars, faultVars
<1>9. CASE NodeFails(w) \/ PauseRefuses(w)
  <2>1. Fail(w)
    BY <1>9 DEF NodeFails, PauseRefuses
  <2>2. rows' \in [Nodes -> SUBSET NodeStatus]
    BY <1>0, <2>1 DEF Fail, Closed, NodeStatus
  <2>3. worker' \in [Workers -> Passes]
    BY <1>0, <2>1, WorkersOK DEF Fail
  <2> QED BY <1>9, <2>1, <2>2, <2>3
      DEF NodeFails, PauseRefuses, Fail, TypeOK, requestVars, queueVars, faultVars, historyVars
<1>10. CASE PauseAsks(w)
  <2>1. worker' \in [Workers -> Passes]
    BY <1>0, <1>10, WorkersOK DEF PauseAsks
  <2> QED BY <1>10, <2>1
      DEF PauseAsks, TypeOK, rowVars, queueVars, faultVars, historyVars
<1>11. CASE PausePasses(w)
  <2>1. worker[w].node \in Nodes /\ Succeed(w, {})
    BY <1>11, PlanNames DEF PausePasses
  <2> QED BY <1>11, <2>1, SucceedOK
      DEF PausePasses, TypeOK, requestVars, queueVars, faultVars
<1>12. CASE ParkNode(w)
  <2>1. rows' \in [Nodes -> SUBSET NodeStatus]
    BY <1>0, <1>12 DEF ParkNode, Closed, NodeStatus
  <2>2. worker' \in [Workers -> Passes]
    BY <1>0, <1>12, WorkersOK DEF ParkNode
  <2> QED BY <1>12, <2>1, <2>2
      DEF ParkNode, TypeOK, requestVars, queueVars, faultVars, historyVars
<1>13. CASE ParkRun(w) \/ CompleteRun(w) \/ FailRun(w) \/ TaskFails(w)
  <2>1. worker' \in [Workers -> Passes]
    BY <1>0, <1>13, WorkersOK DEF ParkRun, CompleteRun, FailRun, TaskFails
  <2>2. status' \in RunStatus
    BY <1>13 DEF ParkRun, CompleteRun, FailRun, TaskFails, TypeOK, RunStatus, Terminal
  <2> QED BY <1>13, <2>1, <2>2
      DEF ParkRun, CompleteRun, FailRun, TaskFails, TypeOK, requestVars, queueVars, faultVars,
          historyVars
<1>14. CASE Acknowledge(w)
  BY <1>0, <1>14
  DEF Acknowledge, TypeOK, rowVars, requestVars, queueVars, faultVars, historyVars
<1>15. ASSUME Killed(w)
       PROVE  /\ crashes' \in Nat /\ runTasks' \in Nat /\ resumes' \in Nat
              /\ worker' \in [Workers -> Passes] /\ stranded' \in BOOLEAN
  <2>1. crashes' \in Nat /\ runTasks' \in Nat /\ resumes' \in Nat
    BY <1>15 DEF Killed, TypeOK
  <2>2. worker' \in [Workers -> Passes] /\ stranded' \in BOOLEAN
    <3>1. worker[w].resume \in BOOLEAN
      BY <1>0 DEF Passes
    <3> QED BY <1>0, <1>15, <3>1 DEF Killed, TypeOK
  <2> QED BY <2>1, <2>2
<1>16. CASE Crash(w)
  BY <1>15, <1>16 DEF Crash, TypeOK, rowVars, requestVars, historyVars
<1>17. CASE CrashWhileSkipping(w)
  <2>1. worker[w].node \in Nodes /\ Killed(w)
    BY <1>17, GraphAssumption DEF CrashWhileSkipping
  <2>2. PICK h, saved :
          /\ rows' = WithSkipped(saved, Closed(worker[w].node, "SUCCESS"))
          /\ pruned' = pruned \cup Pruned(worker[w].node, h)
    BY <1>17 DEF CrashWhileSkipping
  <2>3. rows' \in [Nodes -> SUBSET NodeStatus]
    BY <1>0, <2>1, <2>2, ClosedOK, WithSkippedOK
  <2>4. pruned' \in SUBSET Nodes
    BY <2>1, <2>2, PrunedOK DEF TypeOK
  <2>5. effects' \in [Nodes -> Nat]
    BY <1>17, <2>1 DEF CrashWhileSkipping, TypeOK
  <2> QED BY <1>15, <1>17, <2>1, <2>3, <2>4, <2>5 DEF CrashWhileSkipping, TypeOK, requestVars
<1> QED
  BY <1>1, <1>2, <1>3, <1>4, <1>5, <1>6, <1>7, <1>8, <1>9, <1>10, <1>11, <1>12, <1>13, <1>14, <1>16,
     <1>17
  DEF PassStep

(* A submission being handled carries a decision. *)
FormOK == \A a \in Approvers : form[a].pc # "idle" => form[a].decision \in Decisions

LEMMA SubmitType ==
  ASSUME TypeOK, FormOK, NEW a \in Approvers,
         \/ \E n \in PauseNodes, d \in Decisions : SubmitRead(a, n, d)
         \/ \E n \in PauseNodes : Redispatch(a, n)
         \/ SubmitStep(a) \/ SubmitDies(a)
  PROVE  TypeOK'
<1>0. /\ form \in [Approvers -> Forms] /\ NoForm \in Forms
      /\ form[a].decision \in Decisions \cup {"none"}
  BY DEF TypeOK, NoForm, Forms
<1>1. ASSUME NEW n \in PauseNodes, NEW d \in Decisions, SubmitRead(a, n, d) PROVE TypeOK'
  <2>1. form' \in [Approvers -> Forms]
    BY <1>0, <1>1 DEF SubmitRead, Forms
  <2> QED BY <1>1, <2>1
      DEF SubmitRead, TypeOK, rowVars, requestVars, queueVars, faultVars, historyVars
<1>2. ASSUME NEW n \in PauseNodes, Redispatch(a, n) PROVE TypeOK'
  <2>1. resumes' \in Nat /\ dispatched' \in Nat
    BY <1>2 DEF Redispatch, TypeOK
  <2> QED BY <1>2, <2>1
      DEF Redispatch, TypeOK, rowVars, requestVars, faultVars, historyVars
<1>3. [form[a] EXCEPT !.pc = "dispatch"] \in Forms
  BY <1>0 DEF Forms
<1>4. CASE SubmitWrite(a)
  <2>1. form' \in [Approvers -> Forms]
    BY <1>0, <1>3, <1>4 DEF SubmitWrite, Refused
  <2> QED BY <1>0, <1>4, <2>1
      DEF SubmitWrite, Refused, TypeOK, rowVars, requestVars, queueVars, faultVars, historyVars
<1>5. CASE SubmitVote(a)
  <2>1. form' \in [Approvers -> Forms]
    BY <1>0, <1>3, <1>5 DEF SubmitVote, Refused
  <2>2. votes' \in [PauseNodes -> SUBSET [by: Approvers, decision: Decisions]]
    <3>1. [by |-> a, decision |-> form[a].decision] \in [by: Approvers, decision: Decisions]
      BY <1>5 DEF SubmitVote, FormOK
    <3>2. \/ UNCHANGED votes
          \/ votes' = [votes EXCEPT ![form[a].node] =
                 votes[form[a].node] \cup {[by |-> a, decision |-> form[a].decision]}]
      BY <1>5 DEF SubmitVote, Refused, requestVars
    <3>3. form[a].node \in PauseNodes
      BY <1>5, PlanNames DEF SubmitVote
    <3> QED BY <3>1, <3>2, <3>3 DEF TypeOK
  <2> QED BY <1>0, <1>5, <2>1, <2>2
      DEF SubmitVote, Refused, TypeOK, rowVars, requestVars, queueVars, faultVars, historyVars
<1>6. CASE SubmitDispatch(a) \/ SubmitDies(a)
  <2>1. resumes' \in Nat /\ crashes' \in Nat
    BY <1>6 DEF SubmitDispatch, SubmitDies, TypeOK, faultVars, queueVars
  <2> QED BY <1>0, <1>6, <2>1
      DEF SubmitDispatch, SubmitDies, TypeOK, rowVars, requestVars, queueVars, faultVars,
          historyVars
<1> QED BY <1>1, <1>2, <1>4, <1>5, <1>6 DEF SubmitStep

LEMMA FormStep == TypeOK /\ FormOK /\ [Next]_vars => FormOK'
<1> SUFFICES ASSUME TypeOK, FormOK, [Next]_vars PROVE FormOK'
  OBVIOUS
<1>0. form \in [Approvers -> Forms]
  BY DEF TypeOK
<1>1. ASSUME NEW a \in Approvers, NEW n \in PauseNodes, NEW d \in Decisions, SubmitRead(a, n, d)
      PROVE  FormOK'
  BY <1>0, <1>1 DEF SubmitRead, FormOK
<1>2. ASSUME NEW a \in Approvers,
             \/ form' = [form EXCEPT ![a] = NoForm]
             \/ form[a].pc = "write" /\ form' = [form EXCEPT ![a].pc = "dispatch"]
      PROVE  FormOK'
  BY <1>0, <1>2 DEF FormOK, NoForm, Forms
<1>3. ASSUME NEW a \in Approvers, SubmitStep(a) \/ SubmitDies(a) PROVE FormOK'
  BY <1>2, <1>3 DEF SubmitStep, SubmitWrite, SubmitVote, SubmitDispatch, SubmitDies, Refused
<1>4. CASE UNCHANGED form
  BY <1>4 DEF FormOK
<1> QED
  BY ZenonT(60), <1>1, <1>3, <1>4
  DEF Next, vars, StartRun, ResumeClaim, PassStep, Crash, CrashWhileSkipping, Killed,
      CompleteFails, ResumeStart, BeginExecute, BeginStage, SeeCancelled, PassRefused, StartNode,
      NodeSucceeds, NodeFails, PauseAsks, PausePasses, PauseRefuses, ParkNode, ParkRun,
      CompleteRun, FailRun, TaskFails, Acknowledge, Redispatch, CancelLoad, CancelStep, CancelSave,
      CancelRequests, CancelContext

LEMMA TypeStep == TypeOK /\ FormOK /\ [Next]_vars => TypeOK'
<1> SUFFICES ASSUME TypeOK, FormOK, [Next]_vars PROVE TypeOK'
  OBVIOUS
<1>1. CASE CancelLoad \/ CancelStep
  <2>1. status' \in RunStatus /\ cancels' \in Nat
    BY <1>1
    DEF CancelLoad, CancelStep, CancelSave, CancelRequests, CancelContext, TypeOK, RunStatus,
        Terminal, rowVars
  <2>2. request' \in [PauseNodes -> {"none", "PENDING", "SUBMITTED", "CANCELLED"}]
    BY <1>1
    DEF CancelLoad, CancelStep, CancelSave, CancelRequests, CancelContext, TypeOK, requestVars
  <2> QED BY <1>1, <2>1, <2>2
      DEF CancelLoad, CancelStep, CancelSave, CancelRequests, CancelContext, TypeOK, rowVars,
          requestVars, queueVars, faultVars, historyVars
<1>2. CASE UNCHANGED vars
  BY <1>2 DEF TypeOK, vars, rowVars, requestVars, queueVars, faultVars, historyVars
<1> QED BY <1>1, <1>2, PassType, SubmitType DEF Next

LEMMA InitType == Init => TypeOK /\ FormOK
<1>1. Idle \in Passes /\ NoForm \in Forms /\ NoForm.pc = "idle"
  BY DEF Idle, Passes, NoForm, Forms
<1>2. ASSUME Init PROVE worker \in [Workers -> Passes] /\ form \in [Approvers -> Forms] /\ FormOK
  BY <1>1, <1>2 DEF Init, FormOK
<1>3. ASSUME Init
      PROVE  /\ rows \in [Nodes -> SUBSET NodeStatus]
             /\ request \in [PauseNodes -> {"none", "PENDING", "SUBMITTED", "CANCELLED"}]
             /\ decision \in [PauseNodes -> Decisions \cup {"none"}]
             /\ votes \in [PauseNodes -> SUBSET [by: Approvers, decision: Decisions]]
             /\ effects \in [Nodes -> Nat]
  BY <1>3 DEF Init
<1>4. ASSUME Init
      PROVE  /\ status \in RunStatus /\ runTasks \in Nat /\ resumes \in Nat
             /\ dispatched \in Nat /\ crashes \in Nat /\ cancels \in Nat /\ starts \in Nat
             /\ ctx \in {"none", "pending", "cancelled"} /\ stranded \in BOOLEAN
             /\ canceller \in {"idle", "save", "requests", "context"} /\ pruned \in SUBSET Nodes
  BY <1>4 DEF Init, RunStatus
<1> QED BY <1>2, <1>3, <1>4 DEF TypeOK

(* The run, its node rows, its pause requests and its messages have their shape in    *)
(* every reachable state.                                                             *)
THEOREM WorkflowTypeCorrect == Spec => [](TypeOK /\ FormOK)
  BY InitType, TypeStep, FormStep, PTL DEF Spec, Safety

-----------------------------------------------------------------------------
(* Requests and votes *)

(* How a step treats the request of a pause node. *)
LEMMA RequestMoves ==
  ASSUME TypeOK, FormOK, [Next]_vars, NEW n \in PauseNodes
  PROVE  \/ UNCHANGED <<request[n], decision[n], votes[n]>>
         \/ /\ request[n] \in {"none", "PENDING"} /\ request'[n] \in {"PENDING", "CANCELLED"}
            /\ UNCHANGED <<decision[n], votes[n]>>
         \/ /\ request[n] = "PENDING" /\ n \in AskNodes
            /\ request'[n] = "SUBMITTED" /\ UNCHANGED votes[n]
         \/ /\ request[n] = "PENDING" /\ n \in VoteNodes
            /\ \E a \in Approvers :
                 /\ form[a].decision \in Decisions
                 /\ votes'[n] = votes[n] \cup {[by |-> a, decision |-> form[a].decision]}
                 /\ IF Settles(form[a].decision, votes'[n])
                    THEN request'[n] = "SUBMITTED" /\ decision'[n] = form[a].decision
                    ELSE UNCHANGED <<request[n], decision[n]>>
<1> DEFINE Same == UNCHANGED <<request[n], decision[n], votes[n]>>
           Asked == /\ request[n] \in {"none", "PENDING"}
                    /\ request'[n] \in {"PENDING", "CANCELLED"}
                    /\ UNCHANGED <<decision[n], votes[n]>>
           Written == /\ request[n] = "PENDING" /\ n \in AskNodes
                      /\ request'[n] = "SUBMITTED" /\ UNCHANGED votes[n]
           Cast == /\ request[n] = "PENDING" /\ n \in VoteNodes
                   /\ \E a \in Approvers :
                        /\ form[a].decision \in Decisions
                        /\ votes'[n] = votes[n] \cup {[by |-> a, decision |-> form[a].decision]}
                        /\ IF Settles(form[a].decision, votes'[n])
                           THEN request'[n] = "SUBMITTED" /\ decision'[n] = form[a].decision
                           ELSE UNCHANGED <<request[n], decision[n]>>
           Moved == Same \/ Asked \/ Written \/ Cast
<1>0. /\ request \in [PauseNodes -> {"none", "PENDING", "SUBMITTED", "CANCELLED"}]
      /\ decision \in [PauseNodes -> Decisions \cup {"none"}]
      /\ votes \in [PauseNodes -> SUBSET [by: Approvers, decision: Decisions]]
  BY DEF TypeOK
<1>1. ASSUME NEW w \in Workers, PauseAsks(w) PROVE Moved
  BY <1>0, <1>1 DEF PauseAsks
<1>2. ASSUME NEW a \in Approvers, SubmitWrite(a) PROVE Moved
  <2>1. form[a].node \in PauseNodes /\ form[a].node \in AskNodes
    BY <1>2, PlanNames DEF SubmitWrite
  <2> QED BY <1>0, <1>2, <2>1 DEF SubmitWrite, Refused, Unsettled, requestVars
<1>3. ASSUME NEW a \in Approvers, SubmitVote(a) PROVE Moved
  <2>1. /\ form[a].node \in PauseNodes /\ form[a].node \in VoteNodes
        /\ form[a].decision \in Decisions
    BY <1>3, PlanNames DEF SubmitVote, FormOK
  <2>2. CASE UNCHANGED requestVars
    BY <2>2 DEF requestVars
  <2>3. CASE ~UNCHANGED requestVars
    <3>1. /\ request[form[a].node] = "PENDING"
          /\ votes' = [votes EXCEPT ![form[a].node] =
                 votes[form[a].node] \cup {[by |-> a, decision |-> form[a].decision]}]
          /\ IF Settles(form[a].decision,
                        votes[form[a].node] \cup {[by |-> a, decision |-> form[a].decision]})
             THEN /\ request' = [request EXCEPT ![form[a].node] = "SUBMITTED"]
                  /\ decision' = [decision EXCEPT ![form[a].node] = form[a].decision]
             ELSE UNCHANGED <<request, decision>>
      BY <1>3, <2>3 DEF SubmitVote, Refused
    <3>2. CASE n = form[a].node
      BY <1>0, <2>1, <3>1, <3>2
    <3>3. CASE n # form[a].node
      BY <1>0, <2>1, <3>1, <3>3
    <3> QED BY <3>2, <3>3
  <2> QED BY <2>2, <2>3
<1>4. CASE CancelRequests
  BY <1>0, <1>4 DEF CancelRequests
<1>5. CASE UNCHANGED requestVars
  BY <1>5 DEF requestVars
<1> QED
  BY ZenonT(60), <1>1, <1>2, <1>3, <1>4, <1>5
  DEF Next, vars, StartRun, ResumeClaim, PassStep, Crash, CrashWhileSkipping, Killed,
      CompleteFails, ResumeStart, BeginExecute, BeginStage, SeeCancelled, PassRefused, StartNode,
      NodeSucceeds, NodeFails, PausePasses, PauseRefuses, ParkNode, ParkRun, CompleteRun, FailRun,
      TaskFails, Acknowledge, Redispatch, SubmitRead, SubmitStep, SubmitDispatch, SubmitDies,
      CancelLoad, CancelStep, CancelSave, CancelContext

(* The first decision on a request stands, whatever submissions, cancellations and      *)
(* resumed passes were under way when it was taken.                                     *)
THEOREM WorkflowFirstDecisionStands == Spec => FirstDecisionStands
<1>1. TypeOK /\ FormOK /\ [Next]_vars =>
        [\A n \in PauseNodes : request[n] = "SUBMITTED" =>
            request'[n] = "SUBMITTED" /\ decision'[n] = decision[n]]_vars
  BY RequestMoves
<1> QED BY <1>1, WorkflowTypeCorrect, PTL DEF Spec, Safety, FirstDecisionStands

(* Only a pass that finds its request approved carries a pause out. *)
LEMMA EffectMoves ==
  ASSUME TypeOK, [Next]_vars, NEW n \in PauseNodes
  PROVE  effects'[n] = effects[n] \/ (request[n] = "SUBMITTED" /\ decision[n] = "approved")
<1>1. ASSUME NEW w \in Workers, NodeSucceeds(w) PROVE effects'[n] = effects[n]
  BY <1>1, PlanNames DEF NodeSucceeds, Succeed, TypeOK
<1>2. ASSUME NEW w \in Workers, PausePasses(w)
      PROVE  effects'[n] = effects[n] \/ (request[n] = "SUBMITTED" /\ decision[n] = "approved")
  BY <1>2, PlanNames DEF PausePasses, Succeed, TypeOK
<1>3. ASSUME NEW w \in Workers, CrashWhileSkipping(w) PROVE effects'[n] = effects[n]
  <2>1. worker[w].node # n
    BY <1>3, GraphAssumption DEF CrashWhileSkipping, PauseNodes
  <2> QED BY <1>3, <2>1 DEF CrashWhileSkipping, TypeOK
<1>4. CASE UNCHANGED effects
  BY <1>4
<1> QED
  BY ZenonT(60), <1>1, <1>2, <1>3, <1>4
  DEF Next, vars, historyVars, StartRun, ResumeClaim, PassStep, Crash, CompleteFails, ResumeStart,
      BeginExecute, BeginStage, SeeCancelled, PassRefused, StartNode, NodeFails, Fail, PauseAsks,
      PauseRefuses, ParkNode, ParkRun, CompleteRun, FailRun, TaskFails, Acknowledge, Redispatch,
      SubmitRead, SubmitStep, SubmitWrite, SubmitVote, SubmitDispatch, SubmitDies, CancelLoad,
      CancelStep, CancelSave, CancelRequests, CancelContext

AllApprove(n) == \A a \in Approvers : [by |-> a, decision |-> "approved"] \in votes[n]

(* While a require-all request is open nobody has rejected it; approved, everybody has. *)
VoteInv == \A n \in VoteNodes :
  /\ request[n] \in {"none", "PENDING"} => \A v \in votes[n] : v.decision = "approved"
  /\ request[n] = "SUBMITTED" /\ decision[n] = "approved" => AllApprove(n)
  /\ effects[n] > 0 => AllApprove(n)

LEMMA VoteStep ==
  ASSUME TypeOK, FormOK, VoteInv, [Next]_vars
  PROVE  VoteInv'
<1> SUFFICES ASSUME NEW n \in VoteNodes
             PROVE  /\ request'[n] \in {"none", "PENDING"} =>
                         \A v \in votes'[n] : v.decision = "approved"
                    /\ request'[n] = "SUBMITTED" /\ decision'[n] = "approved" => AllApprove(n)'
                    /\ effects'[n] > 0 => AllApprove(n)'
  BY DEF VoteInv
<1>0. n \in PauseNodes /\ n \notin AskNodes
  BY PlanNames
<1>1. votes[n] \subseteq votes'[n]
  BY <1>0, RequestMoves
<1>2. AllApprove(n) => AllApprove(n)'
  BY <1>1 DEF AllApprove
<1>3. effects'[n] > 0 => AllApprove(n)'
  BY <1>0, <1>2, EffectMoves DEF VoteInv
<1>4. ASSUME request[n] = "PENDING", NEW a \in Approvers, form[a].decision \in Decisions,
             votes'[n] = votes[n] \cup {[by |-> a, decision |-> form[a].decision]},
             IF Settles(form[a].decision, votes'[n])
             THEN request'[n] = "SUBMITTED" /\ decision'[n] = form[a].decision
             ELSE UNCHANGED <<request[n], decision[n]>>
      PROVE  /\ request'[n] \in {"none", "PENDING"} =>
                  \A v \in votes'[n] : v.decision = "approved"
             /\ request'[n] = "SUBMITTED" /\ decision'[n] = "approved" => AllApprove(n)'
  <2>1. \A v \in votes[n] : v.decision = "approved"
    BY <1>4 DEF VoteInv
  <2>2. CASE Settles(form[a].decision, votes'[n]) /\ form[a].decision = "approved"
    <3>1. \A v \in votes'[n] : v.decision = "approved"
      BY <1>4, <2>1, <2>2
    <3>2. Approvers \subseteq {v.by : v \in votes'[n]}
      BY <2>2 DEF Settles
    <3>3. votes'[n] \subseteq [by: Approvers, decision: Decisions]
      BY <1>0, TypeStep DEF TypeOK
    <3>4. ASSUME NEW b \in Approvers PROVE [by |-> b, decision |-> "approved"] \in votes'[n]
      <4>1. PICK v \in votes'[n] : v.by = b
        BY <3>2
      <4>2. v = [by |-> b, decision |-> "approved"]
        BY <3>1, <3>3, <4>1
      <4> QED BY <4>2
    <3> QED BY <1>4, <2>2, <3>4 DEF AllApprove
  <2>3. CASE Settles(form[a].decision, votes'[n]) /\ form[a].decision # "approved"
    BY <1>4, <2>3
  <2>4. CASE ~Settles(form[a].decision, votes'[n])
    <3>1. form[a].decision # "rejected" /\ request'[n] = "PENDING"
      BY <1>4, <2>4 DEF Settles
    <3>2. form[a].decision = "approved"
      BY <1>4, <3>1 DEF Decisions
    <3> QED BY <1>4, <2>1, <3>1, <3>2
  <2> QED BY <2>2, <2>3, <2>4
<1> QED BY <1>0, <1>2, <1>3, <1>4, RequestMoves DEF VoteInv

(* A require-all pause is carried out only after every approver has approved, however  *)
(* votes, cancellations, parks and resumed passes interleave.                          *)
THEOREM WorkflowUnanimous == Spec => []Unanimous
<1>1. Init => VoteInv
  BY PlanNames DEF Init, VoteInv, AllApprove
<1>2. TypeOK /\ FormOK /\ VoteInv /\ [Next]_vars => VoteInv'
  BY VoteStep
<1>3. VoteInv => Unanimous
  BY DEF VoteInv, AllApprove, Unanimous
<1> QED BY <1>1, <1>2, <1>3, WorkflowTypeCorrect, PTL DEF Spec, Safety

-----------------------------------------------------------------------------
(* One pass at a time *)

(* A pass that has saved WAITING has nothing left to do but to be acknowledged, or to   *)
(* write FAILED.                                                                        *)
Active(w) == worker[w].pc \notin {"idle", "parked", "done"}

(* What lets a second pass in, the run's WAITING row or a run task, is there only while *)
(* no pass is under way; a worker's death breaks this, for its message comes back.      *)
PassInv ==
  crashes = 0 =>
    /\ runTasks \in {0, 1}
    /\ \A v, w \in Workers : Active(v) /\ Active(w) => v = w
    /\ \A w \in Workers : Active(w) => runTasks = 0 /\ status # "WAITING"
    /\ runTasks = 1 => status # "WAITING"

(* A step of a pass ends the pass or keeps the run from WAITING. *)
LEMMA PassMoves ==
  ASSUME TypeOK, NEW w \in Workers, PassStep(w)
  PROVE  /\ \A v \in Workers : v # w => worker'[v] = worker[v]
         /\ Active(w)' => Active(w)
         /\ \/ status' \in {status, "FAILED"}
            \/ Active(w) /\ (Active(w)' => status' # "WAITING")
         /\ UNCHANGED <<runTasks, crashes>>
<1> DEFINE Goal == /\ \A v \in Workers : v # w => worker'[v] = worker[v]
                   /\ Active(w)' => Active(w)
                   /\ \/ status' \in {status, "FAILED"}
                      \/ Active(w) /\ (Active(w)' => status' # "WAITING")
                   /\ UNCHANGED <<runTasks, crashes>>
<1>0. worker \in [Workers -> Passes]
  BY DEF TypeOK
<1>1. CASE ResumeStart(w) \/ BeginExecute(w) \/ BeginStage(w)
  BY <1>0, <1>1
  DEF ResumeStart, BeginExecute, BeginStage, StageOver, Moves, Active, Passes, rowVars, queueVars,
      faultVars
<1>2. CASE SeeCancelled(w) \/ PassRefused(w) \/ CompleteFails(w)
  BY <1>0, <1>2
  DEF SeeCancelled, PassRefused, CompleteFails, StageOver, Moves, Leaves, Active, Passes, rowVars,
      queueVars, faultVars
<1>3. ASSUME NEW n \in Nodes, StartNode(w, n) PROVE Goal
  BY <1>0, <1>3 DEF StartNode, Active, Passes, queueVars, faultVars
<1>4. ASSUME NEW cut, Succeed(w, cut), worker[w].pc = "node", UNCHANGED <<status, queueVars, faultVars>>
      PROVE  Goal
  BY <1>0, <1>4 DEF Succeed, Active, Passes, queueVars, faultVars
<1>5. CASE NodeSucceeds(w) \/ PausePasses(w)
  BY <1>4, <1>5 DEF NodeSucceeds, PausePasses
<1>6. CASE NodeFails(w) \/ PauseRefuses(w)
  BY <1>0, <1>6 DEF NodeFails, PauseRefuses, Fail, Leaves, Active, Passes, queueVars, faultVars
<1>7. CASE PauseAsks(w) \/ ParkNode(w)
  BY <1>0, <1>7
  DEF PauseAsks, ParkNode, Moves, Leaves, Active, Passes, rowVars, queueVars, faultVars
<1>8. CASE ParkRun(w) \/ CompleteRun(w)
  BY <1>0, <1>8
  DEF ParkRun, CompleteRun, StageOver, Moves, Leaves, Active, Passes, queueVars, faultVars
<1>9. CASE FailRun(w) \/ TaskFails(w) \/ Acknowledge(w)
  BY <1>0, <1>9
  DEF FailRun, TaskFails, Acknowledge, Moves, Idle, Active, Passes, rowVars, queueVars, faultVars
<1> QED BY <1>1, <1>2, <1>3, <1>5, <1>6, <1>7, <1>8, <1>9 DEF PassStep

LEMMA PassInvStep ==
  ASSUME TypeOK, PassInv, [Next]_vars
  PROVE  PassInv'
<1>0. /\ worker \in [Workers -> Passes]
      /\ runTasks \in Nat /\ crashes \in Nat
  BY DEF TypeOK
<1> SUFFICES ASSUME crashes' = 0 PROVE PassInv'
  BY DEF PassInv
<1>1. ASSUME NEW w \in Workers, StartRun(w) PROVE PassInv'
  <2>1. crashes = 0 /\ runTasks = 1 /\ runTasks' = 0 /\ status' = "RUNNING"
    BY <1>0, <1>1 DEF StartRun, faultVars, PassInv
  <2>2. \A v \in Workers : Active(v)' => v = w
    BY <1>0, <1>1, <2>1 DEF StartRun, PassInv, Active
  <2> QED BY <2>1, <2>2 DEF PassInv
<1>2. ASSUME NEW w \in Workers, ResumeClaim(w) PROVE PassInv'
  <2>1. crashes = 0 /\ runTasks' = runTasks
    BY <1>2 DEF ResumeClaim, faultVars
  <2>2. CASE status = "WAITING"
    <3>1. runTasks = 0 /\ \A v \in Workers : ~Active(v)
      BY <2>1, <2>2 DEF PassInv
    <3>2. \A v \in Workers : Active(v)' => v = w
      BY <1>0, <1>2, <2>2, <3>1 DEF ResumeClaim, Claimable, Active
    <3> QED BY <1>2, <2>1, <2>2, <3>1, <3>2 DEF ResumeClaim, Claimable, PassInv
  <2>3. CASE status # "WAITING"
    BY <1>2, <2>1, <2>3 DEF ResumeClaim, Claimable, PassInv, Active
  <2> QED BY <2>2, <2>3
<1>3. ASSUME NEW w \in Workers, PassStep(w) PROVE PassInv'
  <2>1. /\ crashes = 0 /\ runTasks' = runTasks
        /\ \A v \in Workers : Active(v)' => Active(v)
        /\ \/ status' \in {status, "FAILED"}
           \/ Active(w) /\ (Active(w)' => status' # "WAITING")
    BY <1>3, PassMoves DEF Active
  <2>2. CASE status' \in {status, "FAILED"}
    BY <2>1, <2>2 DEF PassInv
  <2>3. CASE Active(w) /\ (Active(w)' => status' # "WAITING")
    <3>1. runTasks = 0 /\ \A v \in Workers : Active(v)' => v = w
      BY <2>1, <2>3 DEF PassInv
    <3> QED BY <2>1, <2>3, <3>1 DEF PassInv
  <2> QED BY <2>1, <2>2, <2>3
<1>4. ASSUME NEW w \in Workers, Crash(w) \/ CrashWhileSkipping(w) PROVE FALSE
  BY <1>0, <1>4 DEF Crash, CrashWhileSkipping, Killed
<1>5. ASSUME NEW a \in Approvers,
             \/ \E n \in PauseNodes, d \in Decisions : SubmitRead(a, n, d)
             \/ \E n \in PauseNodes : Redispatch(a, n)
             \/ SubmitStep(a) \/ SubmitDies(a)
      PROVE  PassInv'
  <2>1. ~SubmitDies(a)
    BY <1>0 DEF SubmitDies
  <2>2. UNCHANGED <<status, worker, runTasks, crashes>>
    BY <1>5, <2>1
    DEF SubmitRead, Redispatch, SubmitStep, SubmitWrite, SubmitVote, SubmitDispatch, rowVars,
        queueVars, faultVars
  <2> QED BY <2>2 DEF PassInv, Active
<1>6. CASE CancelLoad \/ CancelStep \/ UNCHANGED vars
  <2>1. UNCHANGED <<worker, runTasks, crashes>> /\ (status' = status \/ status' = "CANCELLED")
    BY <1>6
    DEF CancelLoad, CancelStep, CancelSave, CancelRequests, CancelContext, vars, rowVars, queueVars,
        faultVars
  <2> QED BY <2>1 DEF PassInv, Active
<1> QED BY <1>1, <1>2, <1>3, <1>4, <1>5, <1>6 DEF Next

(* While no worker has died two passes never work on the run at once, however many      *)
(* resume tasks are published and whoever cancels.                                      *)
THEOREM WorkflowOnePass == Spec => []OnePass
<1>1. Init => PassInv
  BY DEF Init, PassInv, Active, Idle
<1>2. TypeOK /\ PassInv /\ [Next]_vars => PassInv'
  BY PassInvStep
<1>3. PassInv => OnePass
  BY DEF PassInv, OnePass, Active
<1> QED BY <1>1, <1>2, <1>3, WorkflowTypeCorrect, PTL DEF Spec, Safety

=============================================================================
