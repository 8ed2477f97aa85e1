# Clouisle: a TLA+ verification of its durable runs, workflows, approvals and sandboxes

Clouisle is a platform for agents, workflows and knowledge bases: a FastAPI
back end over PostgreSQL and Redis, Celery workers, a sandbox fleet and a web
front end. This directory models the part of it whose correctness depends on
orders of steps nobody writes a test for: **agent runs that outlive their
request**, the **event stream** their clients follow, the **approval
protocol** that guards the tools they call, **workflow runs** that park for
people and resume, and the **sandbox sessions** in which commands are executed.

Source paths below are relative to `src/backend/app/`.

## 1. Inventory

### The core: what is modelled

| Component | State | Operations | Hard behaviour | Correct when |
|---|---|---|---|---|
| Durable agent runs: `services/agent_run_store.py`, `agent_run_worker.py`, `agent_submission.py`, `tasks/agent.py` | `AgentRun` rows (status, pending call, worker payload, `started_at`), queued STOP inputs, the conversation lock in Redis, task messages | create, dispatch, claim, lock, execute the round, park, resume, stop, complete, fail, sweep | duplicate and lost messages, compare-and-set races between worker, endpoints and sweep, kills between any two steps, a two-command lock release, a stale copy of the row in the worker | statuses follow the lifecycle; one worker per conversation; nothing queued is forgotten; a parked run is resumed by its decision and only by it; a completed answer stays |
| Agent loop: `services/agent_loop.py` | iteration count | safe points: inputs, stop check, model turn, pausing tool calls, last check | the order of input consumption and stop check | a stop is honoured between turns |
| Run event stream: `services/agent_run_stream.py` | Redis list, Pub/Sub channel, per-publisher counter, client position | seed, publish (RPUSH, PUBLISH), subscribe, replay, listen, reconnect | publications between subscription, replay and listening; several publishers | each event once and in order; the stream ends with the run |
| Run endpoints: `api/v1/endpoints/chat.py` | none of their own | stop, input, answer, stream | each is two or three transactions, killed in between | as above |
| Tool approvals: `services/tool_approvals.py`, `tool_execution.py`, `tasks/tool_approval.py` | `ToolExecution`, `ToolApprovalRequest`, `ToolApprovalDecision` rows, the `Tool` row | create, find, authorise, claim, load, invoke, finish, decide, expire, cancel, mark stale; update the tool | check-then-act over three transactions, retried decisions, expiry racing decision and claim, a sweep that closes the claim of a live worker | one invocation per execution, never without its authorisation, truthfully recorded; one decision per request; nothing pending forever |
| Workflow engine: `services/workflow/orchestrator.py`, `plan.py`, `context.py`, `executors/pause.py`, `tasks/workflow.py`, `api/v1/endpoints/workflows.py` | `WorkflowRun`, `NodeExecution` and `WorkflowPauseRequest` rows, the status key of the context in Redis, run and resume messages | run, resume, execute and skip nodes, branch, ask, park, complete, fail, submit, vote, dispatch again, cancel | passes rebuilt from rows, repeated and redelivered tasks, votes racing each other and a cancellation, whole-row saves of stale copies | one pass at a time; no node replayed, no pruned branch revived; the first decision stands; a run does not stay running |
| Sandbox sessions: `services/sandbox/session_store.py`, `recovery.py`, `gateway.py`, `manager.py`, `result_store.py`, `workspace.py`, `checkpoint.py`, `worker_*.py`, `tasks/sandbox.py` | session, placement, recovery lease, rounds and results in Redis; readiness leases; workspaces and checkpoints on the workers' disks; messages | submit, recover, prepare, reset, commit, execute, publish, begin and finish a round, checkpoint, evict, expire, clean up | a placement lost while a command runs, polled guards, repeated messages, killed clients and workers, leases that end early | a command runs at most once and is answered truthfully; a placement is prepared before it is published; no stale writer; a round keeps its files |

How they interact. An endpoint creates a row (`create_run`) and publishes a
task (`dispatch_run`). A worker claims the row, takes the lock of the
conversation, runs the loop and publishes events. A tool call that needs an
approval creates an execution, the loop ends with a pause and the worker parks
the row (`park_run_waiting`). A decision, an expiry or a cancellation commits on
the execution first and then, in another step, queues the run again
(`_schedule_run_resume`); the resumed worker claims the execution and invokes
the tool. Stop endpoints write the row and, separately, a STOP input or the
cancellation of the approvals. Beat runs two sweeps: lost runs, and overdue or
abandoned executions. A workflow run is published as a task; its worker walks
the plan stage by stage, a pause node writes a request and the pass parks the
run; a submission settles the request and publishes a resume task, which claims
the run and rebuilds its progress from the node rows. A run or a tool endpoint
submits a command to the sandbox gateway, which makes the session's placement
ready (recovering it if need be), queues the command on the queue of the bound
worker and waits for its result; a round of an agent ends with a checkpoint job.

### The rest of the repository

`PROJECT.json` lists every component with the reason it is not modelled. Worth
modelling later: run inputs other than STOP (`enqueue_input`,
`consume_next_input`), OAuth token refresh (`services/tool_oauth.py`), document
ingestion (`tasks/knowledge_base.py`). Not worth it: retrieval ranking, adapters
of model providers, notifications, packages, administration endpoints and
translations, the front end: I/O, numbers or plain writes, and by far most of
the repository's lines.

### Hazards

`PROJECT.json` lists them under `hazards`, each at its line with the property that would catch
it or the reason that none does. Those without a property are limits of the
design the model reproduces, or belong to modules of the plan.

## 2. Modules

| Module | Models | Lines of thought |
|---|---|---|
| `RunLifecycle` | abstract: the status graph of `AgentRunStatus` | what a run's row may do, whoever acts |
| `AgentRun` | runs, workers, broker, lock, endpoints, approvals seen from the run, sweep | one action per transaction or Redis command |
| `AgentRunStream` | publishers and one client of a run's event stream | independent of `AgentRun`: a publisher is a pass, the stop endpoint or the crash handler |
| `ToolApproval` | one tool call: executions, request, decisions, attempts, deliveries, editors | refines what `AgentRun` calls `exec` |
| `WorkflowRun` | one workflow run: passes over the plan, pauses, votes, cancellation | independent of `AgentRun`; the plan is a constant |
| `SandboxJob` | abstract: what the caller of a sandbox command is promised | sent once, runs at most once, answered once |
| `SandboxSession` | one sandbox session: clients, workers, preparations, commands, rounds | implements `SandboxJob` |
| `AgentRunProofs`, `AgentRunParkProofs`, `AgentRunPassProofs` | theorems about `AgentRun` | types, lifecycle and lock; parks and dispatch; passes and answers |
| `WorkflowRunProofs`, `WorkflowPlanProofs` | theorems about `WorkflowRun` | votes and passes; the plan |
| `ToolApprovalProofs`, `AgentRunStreamProofs`, `SandboxSessionProofs` | theorems about the other modules | see section 5 |
| `MC*` | model values, symmetry | nothing but instances |

**AgentRun.** `pc[w]` is the place of a worker in `run_agent_round`
(`load` … `claim` … `acquire` … the try block … `release`, `delete`,
`dispatch`), or in the task's safety net (`safety`, `fail_*`). `status`,
`pending`, `marker`, `age` and `answer` are columns of the row: `marker` is the
`resume_tool_approval` entry of `worker_payload`, `age` compares `started_at`
with the sweep's cutoff. `pub`, `resume`, `stopApi` and `cancelApi` hold what an
API process has committed and not yet followed up: killing it there (`ApiDies`)
loses the follow-up. `WorkerDies` loses a worker anywhere; its message is gone
(`acks_late = False`) and its lock stays until `LeaseExpires`. Model calls and
tools are the nondeterministic outcome of `Turn`. `_transition_active_run`
retries its compare-and-set, so it is one step. `ListPending` reads the executions a
stop is to cancel, `CancelPending` cancels one of them. Constants switch faults:
`Redispatch` (the IM recovery publishes queued runs again, and a send that fails leaves
the run queued: the IM runtimes only log it), `LeaseLoss` (a lease ends under a live
worker), `Errors`, `Crash`.

**AgentRunStream.** `PublishPush` is the RPUSH with the next number of that
publisher, `PublishBroadcast` the PUBLISH. `Subscribe`, `ReadBuffer` (LRANGE),
`ReplayEvent`, `ReplayOver` and `Listen` are the stages of `subscribe()`, one
event at a time because every yield gives way; `taken` and `place` say how much
of the buffer was read and replayed, `last` is `last_sequence`. A yielded event
waits in `queue` (`event_queue` and the event being put: `Window` is its size,
65 in the code) until `Send`. `Disconnect` loses queue and channel, and
`Subscribe` begins again from the last number *received*. Payloads are left out:
an event is its number and whether it is `run_end`. Expiry of the buffer is not
modelled.

**ToolApproval.** An *attempt* is a call of `execute_stored_tool` for one
`tool_call_id`: `find`, `create`, `authorize`, `claim`, `load`, `invoke`, then
the outcome to be recorded, or `over` (returned, raised, parked or killed: no
property tells them apart). A *delivery* is an HTTP request with a decision; two
with the same body and key are a retry. The tool row carries its version, its
policy and, as identity of its definition, the editor that saved it;
`update_tool` is a read and a save. `effects[x]` counts calls of `invoke` and is
history only. Attempts are kept apart by the run's lock until `LockLost`.
Parameters and their digests, connections and who may approve are abstracted:
a refusal is always possible, a mismatch of the connection acts like one of the
policy. Executions of workflow calls never wait for an approval and are not
modelled; legacy external gates fail closed in every path.

**WorkflowRun.** `worker[w]` is the pass a Celery worker is in: `claimed` and
`started` in `run_with_run_id`, `nodes` and `node` in `_execute` and
`_execute_node`, then `waiting`/`parking`/`parked`, `completed`, `failing`/`failed` or
`done` until the message is acknowledged; what follows the save of SUCCESS or WAITING
may still raise (`CompleteFails`, `TaskFails`). A kill may come between the rows that
record the skips of a branch (`CrashWhileSkipping`). `stage`, `todo`, `executed` and `skipped` are the
variables of `_execute`, lost with the pass. `rows` are the statuses of a node's
rows, `ctx` the status key. `StartRun` has no guard on the status because the run
task has none. `form[a]` is a submission between its first read, its write and
the publication of the resume task; `canceller` the steps of `cancel`. The plan
is computed by `Placed` (Kahn's algorithm, stage by stage) and `Pruned`. `effects`,
`starts`, `pruned` and `stranded` are history.

**SandboxSession.** A Lua script is one action, and whatever lies between two
awaits another. `binding` is the placement: worker, instance, epoch, generation,
workspace, status, resets used, recovery token. `client[t].pc` follows
`ensure_ready` and `_recover_owned` (`ensure`, `acquire`, `first` or `local`,
`giveup`, `reset`, `recovered`), then `_await_result` (`waiting`) and
`finish_round` (`begin`, `open`, `judge`). `job[t]` is a command or a round's
checkpoint: its message, its result record and the stage of its execution;
`preps[n]` a preparation of a workspace. A worker stands for its disk and its
identity file; `inst` counts the incarnations of its process, `lease` says which
of them advertises readiness. Files are the set of commands that wrote them. `Evict` needs
an idle session, not an idle worker, and `EvictKilled` leaves part of the tree;
`Cleanup` deletes an expired session or, at the user's request, a live one.
`ImplementsJob` maps results and effect counts to `SandboxJob`.

Every mutant named in `PROJECT.json` stands before the definition it changes,
under a comment that starts with "Mutant".

## 3. Runs

Bounds: two workers are the least at which a resumed or duplicated run meets the
pass before it; one pausing call (two in `run_pause`) covers park,
resume and a second park; two loop turns a stop between turns; two attempts,
deliveries and executions every pairwise race of the approval protocol. A third
worker or attempt adds no new pair; the theorems of section 5 are about any number.

`workflow`: a branch with two pauses in a row on one side and two nodes on the
other is the least plan in which a run parks twice, a pass resumes over rows of
an earlier one and a pruned branch has something below it; two approvers make a
vote that does not settle; two workers let two passes meet; one event out of
kill, cancellation and repeated dispatch puts each of them at every step.
`sandbox`: one command and the checkpoint of one round contend for the session's
placement and its workspace lock from two workers; two preparations are a
recovery on the same disk and one that fails or a reset; one fault and one lapse
are any kill or lost lease together with any early expiry or repeated message.
`stream_sequential`: four events, so that a replay and the listen loop each have
two to tell apart, and a window of two, so that the queue is empty, partly full
and full; `stream_overlap` needs three events and no reconnection.

| Run | Instance | Shows |
|---|---|---|
| `run_pause` | one run, two workers, pauses, errors, no kills | parked call, payload, dispatch, stop |
| `run_crash` | the same with kills, fair | `FinalAnswerKept`, `LostWorkerSwept` |
| `run_duplicates` | one run, recovery publishes again, kills | lock and lifecycle survive duplicates and kills |
| `run_live` | one run, errors, no kills, fair | `InFlightEnds`, `ApprovalParkEnds` |
| `stream_sequential` | two publishers in turn, four events, a window of two, two reconnections | no gap, no repetition, nothing missed, the stream ends |
| `approval_claim` | two attempts, two deliveries, two keys, one editor | all properties of `ToolApproval` |
| `workflow` | six nodes, two workers, two approvers, one event, fair | all properties of `WorkflowRun` but `CancelledStays` |
| `sandbox` | one command, one round, two workers, one fault, one lapse | all properties of `SandboxSession` |
| `run_busy_self` | violation | a run answered while its pass still holds the lock fails because of its own lock |
| `run_twice` | violation | a run that is published twice is executed again after it completed |
| `stream_overlap` | violation | two publishers reuse numbers; the client may drop `run_end` and wait forever |
| `workflow_cancelled` | violation | a cancelled run is executed or overwritten |

Deadlock is not checked: users submit nothing more once the bounds are used up,
and the system may rightly rest. No run has two runs of one conversation: what the lock
says of them is theorem `LockExclusive`, about any set of runs.

### Limits of the design, reproduced by the model

No property of a passing run catches them; `hazards` says which promise, if any, each
contradicts:

- A worker killed between COMPLETING and COMPLETED leaves the run in flight: the
  sweep reads RUNNING and STOPPING only. A resumed run is old at once, and the
  sweep can interrupt it under its live worker before it has the lock.
- A STOP input consumed at the head of an iteration is never seen.
- Two overlapping updates of a tool can write one `definition_version`: the second
  definition invalidates no approval of the first. `ApprovedDefinition` is therefore
  checked with one editor only.
- A decider killed between its commit and `_schedule_run_resume`, or a submitter
  between the row and the message, leaves the run waiting or queued.
- `release_run_lock` is GET then DELETE: with `LeaseLoss` it can delete another
  run's lock, although the module's docstring says that only the owner releases it.
- A concurrent retry of a decision that passes the key look-up is refused as
  already decided instead of replayed.
- With the lock lost, two attempts may create two executions of one tool call.
- An error raised in the recheck after a park leaves the run waiting
  (`ApprovalParkEnds` excepts it).
- A worker killed in a workflow's resume pass leaves the run RUNNING, because the
  redelivered task finds it so (`stranded`); a run task started again after a
  kill may decide a branch anew, over the rows and some of the skips of the
  first pass; a run task redelivered after its pass parked starts the run from the
  beginning.
- Everything below an untaken handle is pruned, a join with the taken branch
  included.
- A sandbox recovery deletes the mark of an interrupted round also when it keeps
  the directory; a standalone command's files are discarded by the round that
  follows; `begin_round` does not look at the answer of its fenced write; an
  expired session bound to an instance that restarted is never cleaned up. The partial
  directory that a worker killed in an eviction leaves is taken for the workspace by
  the next command, in place of the archive written just before.

## 4. Fairness

`AgentRun!Fairness` gives weak fairness to each worker's next step, to the
delivery and sending of messages, to the follow-ups of API processes that live,
to both sweeps and to the ageing of runs and leases: a process that is not killed
goes on, Celery delivers, beat is periodic, time passes. Submissions, stops,
answers and decisions get none, nor do errors and kills. `ToolApproval!Fairness`
covers time and the two sweeps only: an attempt may always be killed, so no
fairness is claimed for it. `AgentRunStream!Fairness` covers the client's task
and the second half of a publication. `WorkflowRun!Fairness` covers a worker with
a task (`PassStep`), the delivery of run and of resume messages, a submission
that has been accepted for handling and the steps of a cancellation under way;
submissions, cancellations and repeated dispatches get none. `SandboxSession`
states safety only: commands have deadlines, and what ends them is `AwaitEnds`.

## 5. Proofs

All theorems are checked by TLAPS for every value of the constants that meets
the `ASSUME`s: the run and attempt sets are arbitrary, the bounds naturals,
`NoRun` and `Nobody` outside the sets they complete.

`AgentRunProofs`

- `TypeCorrect`: `TypeOK` is inductive because `WorkersOK` says that a worker
  which is not idle has a run; one lemma per action.
- `LifecycleRefined`: `Spec => RunLifecycle!Spec`. Each action changes at most
  one status, from a guard that fixes the old one, so each step is a `Move` or a
  stutter; with every fault switched on.
- `LockExclusive`: `OneActiveWorker` is inductive with `TypeOK`: the lock names
  the run of whoever is between SET NX and DELETE, so two would be the same
  worker. It is stated for `~LeaseLoss`, inside the invariant.

`AgentRunParkProofs`

- `QueuedHasCarrier` by `Dispatched`, which is the property with the carriers named:
  whatever makes a run queued publishes it or holds its publication in the same
  step, and whoever drops a message or leaves a claim finds the row no longer
  queued. A kill drops one silently, and the IM runtimes leave a run queued whose send
  failed, which is why the property begins with `~Crash /\ ~Redispatch`.
- `WaitsForOpenCall` by `AfterOK` (only a worker that is leaving has a follow-up
  dispatch) and `Parked`: `RowsParked` (status and pending call say the same),
  `FreshUnnamed` (no row, payload, message or worker names a call that was not made
  yet), `PendingOpen` (the pending call is open and no payload, message or worker
  past its claim bears it) and `ParkingAlone` (a worker about to park is alone with
  its call). The property alone says nothing of the worker that executes a call
  while another re-parks on it.

`AgentRunPassProofs`

- `PayloadCurrent` by `OnePass`: a queued run has at most one carrier and that has the
  row's payload, a run that is neither queued nor over has none (`CarriersOK`), and one
  worker executes a run, where its place in the loop goes with the status (`PassesOK`).
  The first fact is what lets the second survive a claim. With `Redispatch` there are
  two carriers and `PassesOK` is false, as `run_twice` shows. So this theorem and
  `AnswerStays` are stated for `~Redispatch`; kills, errors and lost leases are allowed.
- `AnswerStays`: an action property, by `AnswersOK`: the answer of a run is written
  exactly when its worker has reached the completion, and from there the row only
  ends.
- `StopCancelsApprovals` by `Awaited`: an approval that can still be decided is the
  pending call of a waiting row, or of a stopped one whose cancellation is under way, or
  of a row whose only worker is about to park on it. It holds where no process is
  killed and no run dispatched twice, which the property itself says.

`ToolApprovalProofs`

- `ApprovalTypeCorrect`.
- `InvokedOnce`, `InvokedWhenAuthorised`, `OutcomesTrue` follow from `ClaimInv`.
  None is inductive alone: an attempt about to invoke must be known to be the
  only one on its execution. `ClaimHeld` says that the holder's token is in the
  row, that the row has left the statuses that can be claimed or cancelled, and
  that its effect count is 0 before and 1 after `Invoke`; `Allowed` carries the
  authorisation from the decision to the claim.
- `SettledStays`: an action property, from the types and the guards.
- `RequestsFollow` by `RequestInv`, which adds that an execution that does not exist
  has no request. `DecisionsAreFinal` uses it: a decision is written only while its
  request is open, and a used key is replayed.
- `CalledOnce` by `OneCall`: while the lock lasts one attempt is under way, at most
  one execution exists, and an attempt about to create one has found none.
- `VersionsBound`: whatever editors do, and however many overlap, an attempt past the
  claim holds the version and the policy its execution was created with, which is what
  the code compares. That one version is one definition is not proved, because
  `update_tool` does not keep it; with the one editor of the run, `ApprovedDefinition`
  checks it.

`AgentRunStreamProofs`

- `StreamTypeCorrect`: with `Bounds` (a replay stays within what was read) and
  `Largest` (the buffered numbers have a maximum, so `Max` in `SeedSequence`
  denotes it), overlapping publishers included.
- `StreamNoGapNoRepeat`, `StreamNothingMissed` follow from `InOrder`, stated for
  `~Overlap`. `Published`: event i has number i, one publisher is open and counts
  the buffer, and only the last event can be in flight. `Received`: what the
  client has, then its queue, is a prefix of the buffer up to `last`. `Queued`:
  the channel is the run of broadcasts up to the latest, and begins no later than
  what will have been replayed when the connection turns live. That last part is
  why subscribing before the LRANGE matters; without it neither is inductive.

`WorkflowRunProofs`, from `GraphAssumption` and the bounds

- `WorkflowTypeCorrect`: `TypeOK` with `FormOK` (a submission under way carries a
  decision).
- `WorkflowFirstDecisionStands`: an action property, from `RequestMoves`, which
  says what any step can do to one request.
- `WorkflowUnanimous` by `VoteInv`: an open require-all request has approvals
  only, one that is approved has everybody's, and a pass carries a pause out only
  on an approved request (`EffectMoves`). Votes are never taken back.
- `WorkflowOnePass` by `PassInv`, while no worker has died: what would let a
  second pass in (the row WAITING, or the run task) is there only while no pass
  is under way. Cancellations need no exception, since they do not write WAITING.

`WorkflowPlanProofs`, from the same assumptions, for every plan that meets them

- The lemmas say what `Placed`, `Stage`, `LastStage` and `Pruned` compute: stages grow
  and end, an edge leads to a later stage, so does a path, and what `Pruned` returns
  lies later than its branch. The functions are recursive over naturals; each lemma is
  an induction by the least number that fails it (`WFMin`), because the induction
  theorems of the library take an operator.
- `WorkflowNodeOnce` by `PassesOK` (what a pass remembers to have executed is
  recorded) and `OnceInv`, which counts: for each node, the times it was carried out,
  the passes that may still carry it out (`Takers`) and the pass that a waiting run may
  yet get are together at most the starts of the run task. Deaths, overlapping passes
  and repeated resume tasks are included: a claim takes the waiting run's share away.
- `WorkflowPlan` adds, while no worker has died, `PlanInv`: the rows of a run are
  `Layered` (a node is opened only when all earlier stages are finished, never below a
  skipped one), what was pruned is skipped, and every pass knows exactly what the rows
  record (`Progress`). `OnePass` keeps a second pass from changing them meanwhile.
- `WorkflowComplete` and `WorkflowPruned` are read off `WorkflowPlan`. Both
  speak of runs in which no worker has died: what happens then is in section 3.

`SandboxSessionProofs`, from `SandboxBounds` and `SandboxNames`

- One inductive invariant, `SandboxInductive`: types; `JobSent`, `PrepSent` (only
  what was sent is a message, runs or waits); `OneHolder` and `RunsInTree` (one
  user of a workspace, which is there); `Bound`, `Epochs` (an epoch stands for one
  placement); `Owned`, `Prepared`, `Waits` (a recovery publishes what its own
  preparation of that workspace made); `Fence` (whoever could publish finds
  nobody else working there); `ExecInv` (the record of a command agrees with the
  stage and the count of its executions).
- `SandboxNoStaleWriter` needs `Fence`: between the success of a preparation and
  the compare-and-set that publishes it nobody can start in the workspace, because
  commands start only under a READY placement of their own epoch.
- `SandboxReadyIsPrepared`, `SandboxEpochFences` are read off the invariant.
- `SandboxImplementsJob`: `Spec => Job!Spec`; every step sends, starts, executes,
  fails or completes one command, or stutters, and `ExecInv` gives the guards.
- `SandboxRoundKeepsItsWork` by `RoundInv`: a generation names one workspace
  (`Generations`); a round is opened once, so one that a command read and that is
  active has been active ever since (`Opened`, `RoundGoesOn`); `Informed` (a command
  that ran knows its round); and `WorkKept`: in that time the mark is the round's own
  or gone, and whoever is between reading the rounds and restoring the same workspace
  has read this round. So no restore, recovery or checkpoint takes the files for those
  of an interrupted round (`FilesStay`). The lock is what `WorkKept` rests on: two
  commands never read and mark in one workspace at once. The run has one command and
  one round; the theorem is about any number of both.

Every safety property of a passing run but `ApprovedDefinition` is a theorem above,
under the hypotheses named there. Only model-checked are `ApprovedDefinition` and the
liveness properties, `LostWorkerSwept`, `InFlightEnds`, `ApprovalParkEnds`,
`ExecutionSettles`, `RunningEnds` and `StreamTerminates`: fairness and ENABLED are out
of the prover's reach. The violation runs are counterexamples, not theorems.

## 6. Not modelled

- `AgentRun`: inputs other than STOP, revocation of tasks by `stop_run`, message
  and usage bookkeeping, the recheck of parked runs by the IM recovery
  (`wechat_agent_runtime.py:990`), a second chance besides the worker's own. `AgentRunStream`: expiry of the buffer.
- `WorkflowRun`: what nodes compute and their retries (a node succeeds or fails
  in one step), bodies of iterations and loops (one node), tool nodes that wait
  for an approval, `orchestrator.run()` without a queue, caching, metrics, stream, an
  exception between the row of a branching node and its skips (the run fails, and no
  pass reads these rows again).
- `SandboxSession`: expiry during a round or just before a restore, a kill inside the
  cleanup, the retries of `touch`, credentials, the network proxy,
  artifacts, package environments, a change of storage identity.
- The components listed as not modelled in `PROJECT.json`, each with its reason.

## 7. Plan

1. `AgentRunInput`: queued inputs, their sequence numbers, consumption and
   wake-up; compose with `AgentRun`'s stop.
2. Tool nodes of a workflow that wait for an approval: `WorkflowRun` composed
   with `ToolApproval` over `ensure_resume_after_park`.
3. Buffer expiry in `AgentRunStream`; OAuth token refresh; document ingestion.
4. Proofs for the modules of items 1 to 3, and a refinement of `ToolApproval`: what
   `AgentRun` assumes of an approval (`exec`) as an abstract specification.
