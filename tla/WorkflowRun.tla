----------------------------- MODULE WorkflowRun -----------------------------
(***************************************************************************)
(* One durable workflow run: the orchestrator's passes over the plan, the  *)
(* pause requests people submit, the resume tasks that continue a parked   *)
(* run, and cancellation.  The run row, the node rows and the requests are *)
(* in the database; ctx is the run's status key in Redis; a task message   *)
(* is acknowledged when its worker is through (acks_late), so a worker     *)
(* that dies gives its message back.                                       *)
(*                                                                         *)
(* A node's own work is one step that succeeds or fails (the retries of    *)
(* RetryableExecutor are inside it); an iteration or loop container is one *)
(* such node, its body included.  What a node computes is left out: only   *)
(* the handle a branching node takes matters, and it may differ from one   *)
(* execution to the next.                                                  *)
(***************************************************************************)
EXTENDS Naturals, FiniteSets

CONSTANTS
    Nodes,        \* the executable nodes of the definition the run snapshots
    Edges,        \* its edges: records [from, handle, to]
    BranchNodes,  \* nodes whose executor returns next_handles
    AskNodes,     \* pause nodes that the first submission settles
    VoteNodes,    \* approval pauses with requireAllApprovals
    Approvers,    \* the users resolve_pause_approver_ids returns
    Workers,      \* Celery worker slots
    MaxDispatch,  \* bound: resume tasks published again
    MaxCrashes,   \* bound: workers killed
    MaxCancels,   \* bound: cancel calls
    MaxEvents     \* bound: all three together

PauseNodes == AskNodes \cup VoteNodes

ASSUME GraphAssumption ==
    /\ IsFiniteSet(Nodes)
    /\ \A e \in Edges : {e.from, e.to} \subseteq Nodes
    /\ PauseNodes \cup BranchNodes \subseteq Nodes
    /\ PauseNodes \cap BranchNodes = {}
    /\ AskNodes \cap VoteNodes = {}

ASSUME BoundsAssumption ==
    /\ MaxDispatch \in Nat
    /\ MaxCrashes \in Nat
    /\ MaxCancels \in Nat
    /\ MaxEvents \in Nat

VARIABLES
    status,     \* WorkflowRun.status
    rows,       \* for each node, the statuses of its NodeExecution rows
    ctx,        \* the status key of the execution context
    request,    \* for each pause node, its WorkflowPauseRequest's status
    decision,   \* what a submitted request carries
    votes,      \* WorkflowPauseRequest.approvals
    runTasks,   \* run_workflow_task messages waiting for a worker
    resumes,    \* resume_workflow_task messages waiting for a worker
    worker,     \* the pass each worker is in
    form,       \* for each approver, the submission being handled
    canceller,  \* how far cancel() has come
    dispatched, crashes, cancels,       \* used up of the bounds
    starts,     \* history: how often the run task started a pass from scratch
    effects,    \* history: how often each node was carried out
    pruned,     \* history: nodes off the branch taken since the last start
    stranded    \* history: a worker died in a resume pass it had claimed

rowVars == <<status, rows, ctx>>
requestVars == <<request, decision, votes>>
queueVars == <<runTasks, resumes, dispatched>>
faultVars == <<crashes, stranded>>
historyVars == <<starts, effects, pruned>>
vars == <<rowVars, requestVars, queueVars, worker, form, canceller,
          cancels, faultVars, historyVars>>

Terminal == {"SUCCESS", "FAILED", "CANCELLED"}
RunStatus == {"PENDING", "RUNNING", "WAITING"} \cup Terminal
NodeStatus == {"RUNNING", "WAITING", "SUCCESS", "FAILED", "SKIPPED"}
Decisions == {"approved", "rejected"}

-----------------------------------------------------------------------------
(* The plan *)

Upstream == [n \in Nodes |-> {e.from : e \in {f \in Edges : f.to = n}}]

Direct == [n \in Nodes |-> {e.to : e \in {f \in Edges : f.from = n}}]

Handles == [n \in Nodes |-> {e.handle : e \in {f \in Edges : f.from = n}}]

HandleMap(n, h) == {e.to : e \in {f \in Edges : f.from = n /\ f.handle = h}}

\* The nodes Kahn's algorithm has placed after k stages.
Placed[k \in 0 .. Cardinality(Nodes)] ==
    IF k = 0 THEN {}
    ELSE LET before == Placed[k - 1]
         IN  before \cup {n \in Nodes : Upstream[n] \subseteq before}

Stage == [k \in 1 .. Cardinality(Nodes) |-> {n \in Nodes : n \in Placed[k] \ Placed[k - 1]}]

LastStage == Cardinality({k \in 1 .. Cardinality(Nodes) : Stage[k] # {}})

\* A cycle leaves nodes unplaced and the plan is refused.
PlanValid == Placed[Cardinality(Nodes)] = Nodes

\* For each node, the nodes at most k edges below it.
Below[k \in 0 .. Cardinality(Nodes)] ==
    IF k = 0 THEN [n \in Nodes |-> {}]
    ELSE [n \in Nodes |-> Direct[n] \cup UNION {Below[k - 1][m] : m \in Direct[n]}]

\* get_all_downstream.
AllDownstream == [n \in Nodes |-> {m \in Nodes : m \in Below[Cardinality(Nodes)][n]}]

\* What a branching node prunes when it takes the handle h: the targets of
\* every other handle and all that lies below them.
Pruned(n, h) ==
    LET off == UNION {HandleMap(n, g) : g \in Handles[n] \ {h}}
    IN  off \cup UNION {AllDownstream[m] : m \in off}

-----------------------------------------------------------------------------
\* The bounds leave room for one more repeated dispatch, death or cancellation.
Room == dispatched + crashes + cancels < MaxEvents

Idle == [pc |-> "idle", resume |-> FALSE, stage |-> 0, todo |-> {},
         executed |-> {}, skipped |-> {}, node |-> "none"]

Passes == [pc: {"idle", "claimed", "started", "nodes", "node", "waiting",
                "parking", "parked", "completed", "failing", "failed", "done"},
           resume: BOOLEAN, stage: Nat, todo: SUBSET Nodes,
           executed: SUBSET Nodes, skipped: SUBSET Nodes,
           node: Nodes \cup {"none"}]

NoForm == [pc |-> "idle", node |-> "none", decision |-> "none"]

Forms == [pc: {"idle", "write", "dispatch"}, node: PauseNodes \cup {"none"},
          decision: Decisions \cup {"none"}]

Moves(w, pc) == worker' = [worker EXCEPT ![w].pc = pc]

\* The pass leaves the plan: nothing of its progress is used any more.
Leaves(w, pc) ==
    worker' = [worker EXCEPT ![w] = [Idle EXCEPT !.pc = pc, !.resume = worker[w].resume]]

\* Mutant: skips are kept in memory only.
NotPersisted(S, r) == r

\* _persist_skipped_node, for the nodes in S: a node that has any row keeps the
\* rows it has.
WithSkipped(S, r) ==
    [n \in Nodes |-> IF n \in S /\ r[n] = {} THEN {"SKIPPED"} ELSE r[n]]

Init ==
    /\ status = "PENDING"
    /\ rows = [n \in Nodes |-> {}]
    /\ ctx = "none"
    /\ request = [n \in PauseNodes |-> "none"]
    /\ decision = [n \in PauseNodes |-> "none"]
    /\ votes = [n \in PauseNodes |-> {}]
    /\ runTasks = 1
    /\ resumes = 0
    /\ worker = [w \in Workers |-> Idle]
    /\ form = [a \in Approvers |-> NoForm]
    /\ canceller = "idle"
    /\ dispatched = 0 /\ crashes = 0 /\ cancels = 0
    /\ starts = 0
    /\ effects = [n \in Nodes |-> 0]
    /\ pruned = {}
    /\ stranded = FALSE

-----------------------------------------------------------------------------
(* A pass: run_with_run_id and _execute *)

\* run_workflow_task takes its message and marks the row RUNNING, whatever the
\* row says: the run task has no claim.
StartRun(w) ==
    /\ worker[w].pc = "idle" /\ runTasks > 0
    /\ runTasks' = runTasks - 1
    /\ status' = "RUNNING"
    /\ worker' = [worker EXCEPT ![w] = [Idle EXCEPT !.pc = "started"]]
    /\ starts' = starts + 1
    /\ pruned' = {}
    /\ UNCHANGED <<rows, ctx, requestVars, resumes, dispatched, form, canceller,
                   cancels, faultVars, effects>>

\* Mutant: the claim does not look at the status.
AnyStatus == status # "PENDING"

\* The condition of the claim.
Claimable == status = "WAITING"

\* resume_workflow_task: WAITING -> RUNNING in one conditional update; a task
\* that finds another status is over.
ResumeClaim(w) ==
    /\ worker[w].pc = "idle" /\ resumes > 0
    /\ resumes' = resumes - 1
    /\ IF Claimable
       THEN /\ status' = "RUNNING"
            /\ worker' = [worker EXCEPT
                  ![w] = [Idle EXCEPT !.pc = "claimed", !.resume = TRUE]]
       ELSE UNCHANGED <<status, worker>>
    /\ UNCHANGED <<rows, ctx, requestVars, runTasks, dispatched, form, canceller,
                   cancels, faultVars, historyVars>>

\* run_with_run_id(resume=True) loads the row and saves it as RUNNING.
ResumeStart(w) ==
    /\ worker[w].pc = "claimed"
    /\ status' = "RUNNING"
    /\ Moves(w, "started")
    /\ UNCHANGED <<rows, ctx, requestVars, queueVars, form, canceller, cancels,
                   faultVars, historyVars>>

\* Mutants: a resume pass starts from nothing.
NothingExecuted(w) == {}
NothingSkipped(w) == {}

\* The sets _execute starts with, rebuilt from the node rows on resume.
ExecutedBefore(w) ==
    IF worker[w].resume THEN {n \in Nodes : "SUCCESS" \in rows[n]} ELSE {}

SkippedBefore(w) ==
    IF worker[w].resume THEN {n \in Nodes : "SKIPPED" \in rows[n]} ELSE {}

\* ExecutionContext.create resets the status key; then _execute begins.
BeginExecute(w) ==
    /\ worker[w].pc = "started" /\ PlanValid
    /\ ctx' = "pending"
    /\ worker' = [worker EXCEPT
          ![w].pc = "nodes",
          ![w].executed = ExecutedBefore(w),
          ![w].skipped = SkippedBefore(w)]
    /\ UNCHANGED <<status, rows, requestVars, queueVars, form, canceller, cancels,
                   faultVars, historyVars>>

StageOver(w) == worker[w].pc = "nodes" /\ worker[w].todo = {}

\* The next stage, unless the run is cancelled: nodes with a skipped upstream
\* are skipped too, the others are to be executed.
BeginStage(w) ==
    LET me == worker[w]
        open == Stage[me.stage + 1] \ (me.executed \cup me.skipped)
        cut == {n \in open : Upstream[n] \cap me.skipped # {}}
    IN  /\ StageOver(w) /\ me.stage < LastStage
        /\ ctx # "cancelled"
        /\ worker' = [worker EXCEPT ![w].stage = @ + 1,
                                    ![w].todo = open \ cut,
                                    ![w].skipped = @ \cup cut]
        /\ rows' = WithSkipped(cut, rows)
        /\ UNCHANGED <<status, ctx, requestVars, queueVars, form, canceller,
                       cancels, faultVars, historyVars>>

\* ExecutionCancelledError at a stage boundary.
SeeCancelled(w) ==
    /\ StageOver(w) /\ worker[w].stage < LastStage
    /\ ctx = "cancelled"
    /\ Leaves(w, "failing")
    /\ UNCHANGED <<rowVars, requestVars, queueVars, form, canceller, cancels,
                   faultVars, historyVars>>

\* The plan is refused, the time is up at a stage boundary, or the node limit
\* is reached.
PassRefused(w) ==
    /\ \/ worker[w].pc = "started"
       \/ worker[w].pc = "nodes" /\ (worker[w].todo # {} \/ worker[w].stage < LastStage)
    /\ Leaves(w, "failing")
    /\ UNCHANGED <<rowVars, requestVars, queueVars, form, canceller, cancels,
                   faultVars, historyVars>>

\* _execute_node opens the node's row; a resume pass takes the parked one.
StartNode(w, n) ==
    /\ worker[w].pc = "nodes" /\ n \in worker[w].todo
    /\ rows' = [rows EXCEPT
          ![n] = (IF worker[w].resume THEN @ \ {"WAITING"} ELSE @) \cup {"RUNNING"}]
    /\ worker' = [worker EXCEPT ![w].pc = "node", ![w].node = n]
    /\ UNCHANGED <<status, ctx, requestVars, queueVars, form, canceller, cancels,
                   faultVars, historyVars>>

\* The row of the worker's node gets the status s.
Closed(n, s) == [rows EXCEPT ![n] = (@ \ {"RUNNING"}) \cup {s}]

\* The node is carried out and the nodes in cut are off the branch taken.
Succeed(w, cut) ==
    LET n == worker[w].node
    IN  /\ rows' = WithSkipped(cut, Closed(n, "SUCCESS"))
        /\ worker' = [worker EXCEPT ![w].pc = "nodes", ![w].todo = @ \ {n},
                                    ![w].executed = @ \cup {n},
                                    ![w].skipped = @ \cup cut,
                                    ![w].node = "none"]
        /\ effects' = [effects EXCEPT ![n] = @ + 1]
        /\ pruned' = pruned \cup cut
        /\ UNCHANGED starts

Fail(w) ==
    /\ rows' = Closed(worker[w].node, "FAILED")
    /\ Leaves(w, "failing")
    /\ UNCHANGED historyVars

\* An ordinary node returns, a branching one with the handle it takes, which
\* may have no edge.
NodeSucceeds(w) ==
    /\ worker[w].pc = "node" /\ worker[w].node \notin PauseNodes
    /\ \E h \in Handles[worker[w].node] \cup {"unwired"} :
          Succeed(w, IF worker[w].node \in BranchNodes
                     THEN Pruned(worker[w].node, h) ELSE {})
    /\ UNCHANGED <<status, ctx, requestVars, queueVars, form, canceller, cancels,
                   faultVars>>

NodeFails(w) ==
    /\ worker[w].pc = "node" /\ worker[w].node \notin PauseNodes
    /\ Fail(w)
    /\ UNCHANGED <<status, ctx, requestVars, queueVars, form, canceller, cancels,
                   faultVars>>

\* PauseNodeExecutor asks first, then goes by the state of its request.
PauseAsks(w) ==
    LET n == worker[w].node
    IN  /\ worker[w].pc = "node" /\ n \in PauseNodes
        /\ request[n] \in {"none", "PENDING"}
        /\ request' = [request EXCEPT ![n] = "PENDING"]
        /\ Moves(w, "waiting")
        /\ UNCHANGED <<rowVars, decision, votes, queueVars, form, canceller,
                       cancels, faultVars, historyVars>>

PausePasses(w) ==
    LET n == worker[w].node
    IN  /\ worker[w].pc = "node" /\ n \in PauseNodes
        /\ request[n] = "SUBMITTED" /\ decision[n] = "approved"
        /\ Succeed(w, {})
        /\ UNCHANGED <<status, ctx, requestVars, queueVars, form, canceller,
                       cancels, faultVars>>

PauseRefuses(w) ==
    LET n == worker[w].node
    IN  /\ worker[w].pc = "node" /\ n \in PauseNodes
        /\ \/ request[n] = "SUBMITTED" /\ decision[n] # "approved"
           \/ request[n] = "CANCELLED"
        /\ Fail(w)
        /\ UNCHANGED <<status, ctx, requestVars, queueVars, form, canceller,
                       cancels, faultVars>>

\* A waiting result: the node's row is parked, then the run's, from the copy
\* of the row the pass has held since it started.
ParkNode(w) ==
    /\ worker[w].pc = "waiting"
    /\ rows' = Closed(worker[w].node, "WAITING")
    /\ Leaves(w, "parking")
    /\ UNCHANGED <<status, ctx, requestVars, queueVars, form, canceller, cancels,
                   faultVars, historyVars>>

ParkRun(w) ==
    /\ worker[w].pc = "parking"
    /\ status' = "WAITING"
    /\ Moves(w, "parked")
    /\ UNCHANGED <<rows, ctx, requestVars, queueVars, form, canceller, cancels,
                   faultVars, historyVars>>

CompleteRun(w) ==
    /\ StageOver(w) /\ worker[w].stage = LastStage
    /\ status' = "SUCCESS"
    /\ Leaves(w, "completed")
    /\ UNCHANGED <<rows, ctx, requestVars, queueVars, form, canceller, cancels,
                   faultVars, historyVars>>

\* What follows the save of SUCCESS (statistics, events) raises: the same
\* handler as for any failure of the pass.
CompleteFails(w) ==
    /\ worker[w].pc = "completed"
    /\ Moves(w, "failing")
    /\ UNCHANGED <<rowVars, requestVars, queueVars, form, canceller, cancels,
                   faultVars, historyVars>>

FailRun(w) ==
    /\ worker[w].pc = "failing"
    /\ status' = "FAILED"
    /\ Moves(w, "failed")
    /\ UNCHANGED <<rows, ctx, requestVars, queueVars, form, canceller, cancels,
                   faultVars, historyVars>>

\* The exception reaches the task, from a failed pass or from what follows the
\* save of WAITING: the run task writes FAILED whatever the row says, the
\* resume task only over RUNNING.
TaskFails(w) ==
    /\ worker[w].pc \in {"failed", "parked"}
    /\ status' = IF worker[w].resume /\ status # "RUNNING" THEN status
                 ELSE "FAILED"
    /\ Moves(w, "done")
    /\ UNCHANGED <<rows, ctx, requestVars, queueVars, form, canceller, cancels,
                   faultVars, historyVars>>

\* The task is over and its message acknowledged.
Acknowledge(w) ==
    /\ worker[w].pc \in {"parked", "completed", "done"}
    /\ worker' = [worker EXCEPT ![w] = Idle]
    /\ UNCHANGED <<rowVars, requestVars, queueVars, form, canceller, cancels,
                   faultVars, historyVars>>

\* Mutant: messages are acknowledged when they are taken.
CrashLoses(w) ==
    /\ worker[w].pc # "idle" /\ crashes < MaxCrashes /\ Room
    /\ crashes' = crashes + 1
    /\ worker' = [worker EXCEPT ![w] = Idle]
    /\ UNCHANGED <<rowVars, requestVars, queueVars, stranded, form, canceller,
                   cancels, historyVars>>

\* The worker dies and the broker gives its message to another one.  Its pass
\* is stranded if it was a resume pass that had not saved how it ends.
Killed(w) ==
    /\ crashes < MaxCrashes /\ Room
    /\ crashes' = crashes + 1
    /\ stranded' = (stranded \/ (worker[w].resume
                       /\ worker[w].pc \notin {"parked", "completed", "done"}))
    /\ IF worker[w].resume
       THEN resumes' = resumes + 1 /\ UNCHANGED runTasks
       ELSE runTasks' = runTasks + 1 /\ UNCHANGED resumes
    /\ worker' = [worker EXCEPT ![w] = Idle]

Crash(w) ==
    /\ worker[w].pc # "idle"
    /\ Killed(w)
    /\ UNCHANGED <<rowVars, requestVars, dispatched, form, canceller, cancels,
                   historyVars>>

\* The skips of a branch are saved one by one after the node's own row: the kill
\* comes in between and leaves some of them out.
CrashWhileSkipping(w) ==
    LET n == worker[w].node
    IN  /\ worker[w].pc = "node" /\ n \in BranchNodes
        /\ \E h \in Handles[n] \cup {"unwired"} : \E saved \in SUBSET Pruned(n, h) :
              /\ rows' = WithSkipped(saved, Closed(n, "SUCCESS"))
              /\ pruned' = pruned \cup Pruned(n, h)
        /\ effects' = [effects EXCEPT ![n] = @ + 1]
        /\ Killed(w)
        /\ UNCHANGED <<status, ctx, requestVars, dispatched, form, canceller,
                       cancels, starts>>

-----------------------------------------------------------------------------
(* submit_workflow_pause_request *)

\* The run and the request as the handler first reads them.
SubmitRead(a, n, d) ==
    /\ form[a].pc = "idle"
    /\ status = "WAITING" /\ request[n] = "PENDING"
    /\ form' = [form EXCEPT ![a] = [pc |-> "write", node |-> n, decision |-> d]]
    /\ UNCHANGED <<rowVars, requestVars, queueVars, worker, canceller, cancels,
                   faultVars, historyVars>>

\* A request already submitted whose run still waits: the resume task is
\* published again.
Redispatch(a, n) ==
    /\ form[a].pc = "idle" /\ dispatched < MaxDispatch /\ Room
    /\ status = "WAITING" /\ request[n] = "SUBMITTED"
    /\ resumes' = resumes + 1
    /\ dispatched' = dispatched + 1
    /\ UNCHANGED <<rowVars, requestVars, runTasks, worker, form, canceller,
                   cancels, faultVars, historyVars>>

Refused(a) ==
    /\ form' = [form EXCEPT ![a] = NoForm]
    /\ UNCHANGED requestVars

\* Mutant: the update is not conditional.
AnyRequest(n) == TRUE

Unsettled(n) == request[n] = "PENDING"

\* One conditional update: the first submission settles the request.
SubmitWrite(a) ==
    LET n == form[a].node
    IN  /\ form[a].pc = "write" /\ n \in AskNodes
        /\ IF Unsettled(n)
           THEN /\ request' = [request EXCEPT ![n] = "SUBMITTED"]
                /\ decision' = [decision EXCEPT ![n] = form[a].decision]
                /\ form' = [form EXCEPT ![a].pc = "dispatch"]
                /\ UNCHANGED votes
           ELSE Refused(a)
        /\ UNCHANGED <<rowVars, queueVars, worker, canceller, cancels, faultVars,
                       historyVars>>

\* Mutant: the first vote settles the request.
FirstVoteSettles(d, cast) == TRUE

\* A rejection settles a require-all request, or a vote of every approver.
Settles(d, cast) == d = "rejected" \/ Approvers \subseteq {v.by : v \in cast}

\* Require-all: under the locks of the run's and the request's rows the vote is
\* recorded, and the request settled by a rejection or by the last approver.
SubmitVote(a) ==
    LET n == form[a].node
        cast == votes[n] \cup {[by |-> a, decision |-> form[a].decision]}
    IN  /\ form[a].pc = "write" /\ n \in VoteNodes
        /\ IF status = "WAITING" /\ request[n] = "PENDING"
                /\ a \notin {v.by : v \in votes[n]}
           THEN /\ votes' = [votes EXCEPT ![n] = cast]
                /\ IF Settles(form[a].decision, cast)
                   THEN /\ request' = [request EXCEPT ![n] = "SUBMITTED"]
                        /\ decision' = [decision EXCEPT ![n] = form[a].decision]
                        /\ form' = [form EXCEPT ![a].pc = "dispatch"]
                   ELSE /\ form' = [form EXCEPT ![a] = NoForm]
                        /\ UNCHANGED <<request, decision>>
           ELSE Refused(a)
        /\ UNCHANGED <<rowVars, queueVars, worker, canceller, cancels, faultVars,
                       historyVars>>

SubmitDispatch(a) ==
    /\ form[a].pc = "dispatch"
    /\ resumes' = resumes + 1
    /\ form' = [form EXCEPT ![a] = NoForm]
    /\ UNCHANGED <<rowVars, requestVars, runTasks, dispatched, worker, canceller,
                   cancels, faultVars, historyVars>>

\* The process dies, or the broker refuses, before the resume task is published.
SubmitDies(a) ==
    /\ form[a].pc = "dispatch" /\ crashes < MaxCrashes /\ Room
    /\ crashes' = crashes + 1
    /\ form' = [form EXCEPT ![a] = NoForm]
    /\ UNCHANGED <<rowVars, requestVars, queueVars, worker, canceller, cancels,
                   stranded, historyVars>>

-----------------------------------------------------------------------------
(* WorkflowOrchestrator.cancel *)

CancelLoad ==
    /\ canceller = "idle" /\ cancels < MaxCancels /\ Room
    /\ status \in {"PENDING", "RUNNING", "WAITING"}
    /\ canceller' = "save"
    /\ cancels' = cancels + 1
    /\ UNCHANGED <<rowVars, requestVars, queueVars, worker, form, faultVars,
                   historyVars>>

\* Mutant: the enumeration's value instead of the status.
CancelSavesValue ==
    /\ canceller = "save"
    /\ status' = "cancelled"
    /\ canceller' = "requests"
    /\ UNCHANGED <<rows, ctx, requestVars, queueVars, worker, form, cancels,
                   faultVars, historyVars>>

CancelSave ==
    /\ canceller = "save"
    /\ status' = "CANCELLED"
    /\ canceller' = "requests"
    /\ UNCHANGED <<rows, ctx, requestVars, queueVars, worker, form, cancels,
                   faultVars, historyVars>>

CancelRequests ==
    /\ canceller = "requests"
    /\ request' = [n \in PauseNodes |-> IF request[n] = "PENDING" THEN "CANCELLED"
                                         ELSE request[n]]
    /\ canceller' = "context"
    /\ UNCHANGED <<rowVars, decision, votes, queueVars, worker, form, cancels,
                   faultVars, historyVars>>

CancelContext ==
    /\ canceller = "context"
    /\ ctx' = "cancelled"
    /\ canceller' = "idle"
    /\ UNCHANGED <<status, rows, requestVars, queueVars, worker, form, cancels,
                   faultVars, historyVars>>

-----------------------------------------------------------------------------
PassStep(w) ==
    \/ ResumeStart(w) \/ BeginExecute(w) \/ BeginStage(w)
    \/ SeeCancelled(w) \/ PassRefused(w)
    \/ \E n \in Nodes : StartNode(w, n)
    \/ NodeSucceeds(w) \/ NodeFails(w)
    \/ PauseAsks(w) \/ PausePasses(w) \/ PauseRefuses(w)
    \/ ParkNode(w) \/ ParkRun(w) \/ CompleteRun(w) \/ CompleteFails(w)
    \/ FailRun(w) \/ TaskFails(w) \/ Acknowledge(w)

SubmitStep(a) == SubmitWrite(a) \/ SubmitVote(a) \/ SubmitDispatch(a)

CancelStep == CancelSave \/ CancelRequests \/ CancelContext

Next ==
    \/ \E w \in Workers :
          \/ StartRun(w) \/ ResumeClaim(w) \/ PassStep(w)
          \/ Crash(w) \/ CrashWhileSkipping(w)
    \/ \E a \in Approvers :
          \/ \E n \in PauseNodes, d \in Decisions : SubmitRead(a, n, d)
          \/ \E n \in PauseNodes : Redispatch(a, n)
          \/ SubmitStep(a) \/ SubmitDies(a)
    \/ CancelLoad \/ CancelStep

\* A worker that has taken a task goes on with it, a message reaches an idle
\* worker, and a request being handled is answered.  Nobody has to submit, to
\* cancel or to dispatch again.
Fairness ==
    /\ \A w \in Workers : WF_vars(PassStep(w))
    /\ WF_vars(\E w \in Workers : StartRun(w))
    /\ WF_vars(\E w \in Workers : ResumeClaim(w))
    /\ \A a \in Approvers : WF_vars(SubmitStep(a))
    /\ WF_vars(CancelStep)

Safety == Init /\ [][Next]_vars

Spec == Safety /\ Fairness

-----------------------------------------------------------------------------
(* Properties *)

\* Every variable keeps its shape.
TypeOK ==
    /\ status \in RunStatus
    /\ rows \in [Nodes -> SUBSET NodeStatus]
    /\ ctx \in {"none", "pending", "cancelled"}
    /\ request \in [PauseNodes -> {"none", "PENDING", "SUBMITTED", "CANCELLED"}]
    /\ decision \in [PauseNodes -> Decisions \cup {"none"}]
    /\ votes \in [PauseNodes -> SUBSET [by: Approvers, decision: Decisions]]
    /\ runTasks \in Nat /\ resumes \in Nat
    /\ worker \in [Workers -> Passes]
    /\ form \in [Approvers -> Forms]
    /\ canceller \in {"idle", "save", "requests", "context"}
    /\ dispatched \in Nat /\ crashes \in Nat /\ cancels \in Nat /\ starts \in Nat
    /\ effects \in [Nodes -> Nat]
    /\ pruned \in SUBSET Nodes
    /\ stranded \in BOOLEAN

\* However many resume tasks are published and whoever cancels, two passes never
\* work on the run at once while no worker has died: the claim of the resume
\* task is the only way in, and only the pass that ends opens it.
OnePass ==
    crashes = 0 =>
        \A v, w \in Workers :
            {worker[v].pc, worker[w].pc} \cap {"idle", "parked", "done"} = {} => v = w

\* A node is carried out at most once for each time the run task started: parks,
\* resumes and repeated resume tasks never replay a completed node.
NodeOncePerStart == \A n \in Nodes : effects[n] <= starts

\* A node off the branch taken is not executed later, on resume in particular,
\* while no worker has died: "every in-memory skip must be durable or the pruned
\* branch re-executes after the human resumes the run" (_persist_skipped_node).
PrunedStaysPruned ==
    [][crashes = 0 => \A n \in pruned : effects'[n] = effects[n]]_vars

\* While no worker has died, a run that ends in SUCCESS has passed over every
\* node of its plan: each was carried out or is recorded as skipped, over all
\* its passes.
SuccessIsComplete ==
    crashes = 0 /\ status = "SUCCESS" =>
        \A n \in Nodes : rows[n] \cap {"SUCCESS", "SKIPPED"} # {}

\* A require-all pause lets the run go on only when every approver has approved.
Unanimous ==
    \A n \in VoteNodes : effects[n] > 0 =>
        \A a \in Approvers : [by |-> a, decision |-> "approved"] \in votes[n]

\* The first decision on a request stands: no later submission, no cancellation
\* and no resumed pass changes a submitted request.
FirstDecisionStands ==
    [][\A n \in PauseNodes : request[n] = "SUBMITTED" =>
          request'[n] = "SUBMITTED" /\ decision'[n] = decision[n]]_vars

\* A run does not stay RUNNING: a dead worker's run task is started again, a
\* pass ends or parks.  The exception is a worker that dies in a resume pass:
\* its redelivered task finds the run RUNNING and leaves it.
RunningEnds == status = "RUNNING" ~> (status # "RUNNING" \/ stranded)

\* "Cancel a pending, running, or externally paused workflow": a cancelled run
\* stays cancelled.
CancelledStays == [][status = "CANCELLED" => status' = "CANCELLED"]_vars

=============================================================================
