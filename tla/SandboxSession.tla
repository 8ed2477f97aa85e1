--------------------------- MODULE SandboxSession ---------------------------
(***************************************************************************)
(* One sandbox session: the placement ("binding") kept in Redis, the       *)
(* clients that recover it and submit commands or round checkpoints, the   *)
(* sandbox workers that execute them, and the workspaces on the workers'   *)
(* disks.  services/sandbox/{session_store, recovery, gateway, manager,    *)
(* result_store, worker_registry}.py and tasks/sandbox.py.                 *)
(*                                                                         *)
(* Every Lua script of the session store is one atomic step; between two   *)
(* awaits of a client or of a worker task anybody else may move.  A worker *)
(* stands for its retained disk (the identity file is on it), so worker,   *)
(* node and storage identity are one value.  A task is a command (Jobs) or *)
(* the checkpoint that ends a round (Rounds); both go through the same     *)
(* ensure_ready, result record, claim, fence and workspace lock.           *)
(***************************************************************************)
EXTENDS Naturals, FiniteSets

CONSTANTS Workers,       \* sandbox workers, each with its own disk
          Jobs,          \* the commands clients submit
          Rounds,        \* agent rounds, each ended by a checkpoint
          MaxResets,     \* SANDBOX_SESSION_MAX_RESETS
          MaxPreps,      \* bound: workspace preparations dispatched
          MaxFaults,     \* bound: processes killed, worker leases lost alive
          MaxLapses      \* bound: leases expired early, messages repeated

ASSUME SandboxBounds == /\ MaxResets \in Nat /\ MaxPreps \in Nat
                        /\ MaxFaults \in Nat /\ MaxLapses \in Nat
ASSUME SandboxNames == /\ Jobs \cap Rounds = {}
                       /\ {"none", "standalone"} \cap (Jobs \cup Rounds) = {}

VARIABLES
  session,   \* the logical session: "empty" (no disk usage yet), "used" or "gone"
  binding,   \* canonical placement, or NoBinding
  owner,     \* holder of the recovery lease, or None
  active,    \* the round the session is in, or None
  mark,      \* round whose commands last touched the workspace, or None
  lease,     \* worker -> instance that advertises readiness, 0 when none does
  inst,      \* worker -> incarnation of its process
  up,        \* workers whose process is alive
  files,     \* workspace -> commands whose files it holds, or Missing
  saved,     \* workspace -> content of its checkpoint, or Missing
  client,    \* task -> the process that submits it and waits for it
  job,       \* task -> its message, result record and execution
  preps,     \* preparation -> its message, result record and execution
  effects,   \* history: command -> [n: times it ran, ws, round]
  faults, lapses

vars == <<session, binding, owner, active, mark, lease, inst, up, files, saved,
          client, job, preps, effects, faults, lapses>>

redis == <<session, binding, owner, active, mark>>
disks == <<files, saved>>
hosts == <<lease, inst, up, faults, lapses>>

None == "none"
Standalone == "standalone"
Missing == {None}                       \* no directory, no archive
Tasks == Jobs \cup Rounds
Preps == 1..MaxPreps
Workspaces == 0..MaxPreps               \* 0: named after the session; n: made by preparation n
Terminal == {"completed", "failed"}

NoBinding == [worker |-> None, inst |-> 0, epoch |-> 0, gen |-> 0, ws |-> 0,
              status |-> None, resets |-> 0, rec |-> None]

----------------------------------------------------------------------------
\* SandboxBinding.matches without its readiness test: the same placement.
Matches(b, c) == /\ b.epoch = c.epoch /\ b.gen = c.gen /\ b.ws = c.ws
                 /\ b.worker = c.worker /\ b.inst = c.inst

\* _BINDING_GUARD: the caller's copy is the canonical binding, status included.
Current(b) == Matches(b, binding) /\ b.status = binding.status

\* presence_matches: the bound instance holds its worker's readiness lease.
Present(b) == b # NoBinding /\ lease[b.worker] = b.inst

\* guard_job and SandboxManager._guard.
GuardHolds(t) == /\ job[t].res \notin Terminal
                 /\ Matches(job[t].bind, binding) /\ binding.status = "READY"
                 /\ Present(job[t].bind)

\* recovery_matches: the recovery of binding b by t still owns the session.
RecoveryMatches(b, t) == Matches(b, binding) /\ binding.rec = t /\ owner = t

\* validate() of a workspace preparation.
PrepValid(n) == LET p == preps[n] IN
  /\ p.res \notin Terminal
  /\ RecoveryMatches(p.bind, p.rec)
  /\ lease[p.worker] = p.inst
  /\ session # "gone"

\* A preparation returns.
PrepOver(p) == [p EXCEPT !.stage = "none", !.msg = "acked", !.rec = None, !.bind = NoBinding]

\* Mutant: the lock is not taken.
AnyoneLocks(ws) == TRUE

\* session_lock: one holder per workspace, commands, checkpoints and preparations alike.
LockFree(ws) ==
  /\ \A t \in Tasks : job[t].stage \notin {"none", "claimed"} => job[t].bind.ws # ws
  /\ \A n \in Preps : preps[n].stage \in {"locked", "acted", "checked"} => preps[n].ws # ws

\* restore_session: the directory, else the checkpoint, else a new directory;
\* force discards the directory.  The result is Missing when it must raise.
Restored(ws, allowEmpty, force) ==
  IF files[ws] # Missing /\ ~force THEN files[ws]
  ELSE IF saved[ws] # Missing THEN saved[ws]
  ELSE IF force \/ ~allowEmpty THEN Missing ELSE {}

\* The checkpoint store: a restored tree replaces the directory in one rename, an
\* archive the one before it; without a directory no archive is written.
PutTree(ws, tree) == files' = [files EXCEPT ![ws] = tree]
PutArchive(ws, tree) == saved' = [saved EXCEPT ![ws] = IF tree = Missing THEN @ ELSE tree]

\* Mutant: the active round is taken for an interrupted one.
AnyRoundMarked(r) == mark # None

\* A workspace round that never reached its checkpoint, seen from round r.
Interrupted(r) == mark # None /\ mark \notin {r, Standalone}

\* save_result and update_status: a terminal result is never replaced.
Settle(t, res, err) == IF job[t].res \in Terminal THEN job[t]
                       ELSE [job[t] EXCEPT !.res = res, !.err = err]

\* claim_execution: the first message of a task that is not over; SET NX refuses the rest.
Unclaimed(t) == job[t].res \notin Terminal /\ ~job[t].claimed

\* The task returns: its message is acknowledged and the workspace lock let go.
Over(j) == [j EXCEPT !.stage = "none", !.msg = "acked", !.round = None, !.prev = None]

SettlePrep(n, res) == IF preps[n].res \in Terminal THEN preps[n]
                      ELSE [preps[n] EXCEPT !.res = res]

----------------------------------------------------------------------------
Init ==
  /\ session = "empty" /\ binding = NoBinding
  /\ owner = None /\ active = None /\ mark = None
  /\ lease = [w \in Workers |-> 1] /\ inst = [w \in Workers |-> 1] /\ up = Workers
  /\ files = [ws \in Workspaces |-> Missing] /\ saved = files
  /\ client = [t \in Tasks |-> [pc |-> "idle", own |-> NoBinding, cur |-> 0,
                                seen |-> MaxResets + 1]]
  /\ job = [t \in Tasks |-> [res |-> None, err |-> None, bind |-> NoBinding,
                             msg |-> "none", claimed |-> FALSE, stage |-> "none",
                             round |-> None, prev |-> None]]
  /\ preps = [n \in Preps |-> [res |-> None, rec |-> None, bind |-> NoBinding,
                               worker |-> None, inst |-> 0, ws |-> 0,
                               restore |-> FALSE, msg |-> "none", stage |-> "none"]]
  /\ effects = [j \in Jobs |-> [n |-> 0, ws |-> 0, round |-> None]]
  /\ faults = 0 /\ lapses = 0

----------------------------------------------------------------------------
\* Clients: the agent loop, the tool endpoints and the run worker.

Goto(t, pc) == client' = [client EXCEPT ![t].pc = pc, ![t].cur = 0,
                            ![t].own = IF pc \in {"giveup", "reset"} THEN @ ELSE NoBinding]

\* Where a client that stops recovering goes: finish_round still judges its result.
After(t) == IF t \in Rounds /\ job[t].res \in Terminal THEN "judge" ELSE "done"

\* finish_round of the store: compare-and-delete.
CloseRound(r) == active' = IF active = r THEN None ELSE active

\* begin_round reads the binding ...
BeginRead(r) ==
  /\ client[r].pc = "idle" /\ session # "gone"
  /\ \A s \in Rounds : client[s].pc \in {"idle", "done"}     \* the run lock
  /\ client' = [client EXCEPT ![r].pc = "begin", ![r].own = binding]
  /\ UNCHANGED <<redis, disks, hosts, job, preps, effects>>

\* ... and opens the round only if it is still the binding; nobody looks at the answer.
BeginWrite(r) ==
  /\ client[r].pc = "begin"
  /\ active' = IF Current(client[r].own) THEN r ELSE active
  /\ Goto(r, "open")
  /\ UNCHANGED <<session, binding, owner, mark, disks, hosts, job, preps, effects>>

\* finish_round: no binding, nothing to checkpoint; else ensure_ready and a checkpoint job.
FinishRound(r) ==
  /\ client[r].pc = "open"
  /\ IF binding = NoBinding
     THEN /\ Goto(r, "done")
          /\ CloseRound(r)
     ELSE Goto(r, "ensure") /\ UNCHANGED active
  /\ UNCHANGED <<session, binding, owner, mark, disks, hosts, job, preps, effects>>

\* submit: remember the generation the caller built its paths against.
Submit(j) ==
  /\ client[j].pc = "idle" /\ session # "gone"
  /\ client' = [client EXCEPT ![j].pc = "ensure",
                              ![j].seen = IF binding = NoBinding THEN @ ELSE binding.gen]
  /\ UNCHANGED <<redis, disks, hosts, job, preps, effects>>

\* ensure_ready found the session gone.
EnsureGone(t) ==
  /\ client[t].pc \in {"ensure", "force"} /\ session = "gone"
  /\ Goto(t, "done")
  /\ UNCHANGED <<redis, disks, hosts, job, preps, effects>>

\* After ensure_ready: report a reset instead of running a command built for the
\* old workspace, or create the queued result and send the message.
Dispatch(t, b) ==
  IF job[t].res # None \/ (t \in Jobs /\ client[t].seen \notin {b.gen, MaxResets + 1})
  THEN Goto(t, After(t)) /\ UNCHANGED job
  ELSE /\ Goto(t, "waiting")
       /\ job' = [job EXCEPT ![t].res = "queued", ![t].bind = b, ![t].msg = "queued"]

\* ensure_ready returns a READY binding whose instance is alive, or the one just committed.
EnsureReturn(t) ==
  /\ session # "gone"
  /\ \/ client[t].pc = "ensure" /\ binding.status = "READY" /\ Present(binding)
     \/ client[t].pc = "recovered" /\ Current(client[t].own)
     \/ client[t].pc = "force" /\ binding.epoch # job[t].bind.epoch
        /\ binding.status = "READY" /\ Present(binding)
  /\ Dispatch(t, binding)
  /\ UNCHANGED <<redis, disks, hosts, preps, effects>>

\* The queued result is fenced: a binding lost since the recovery raises.
ReturnFenced(t) ==
  /\ client[t].pc = "recovered" /\ ~Current(client[t].own)
  /\ Goto(t, After(t))
  /\ UNCHANGED <<redis, disks, hosts, job, preps, effects>>

\* ensure_ready decides that the binding it read has to be recovered.
EnsureRecover(t) ==
  /\ session # "gone"
  /\ \/ client[t].pc = "ensure" /\ ~(binding.status = "READY" /\ Present(binding))
     \/ client[t].pc = "force"
        /\ (binding.epoch = job[t].bind.epoch \/ ~(binding.status = "READY" /\ Present(binding)))
  /\ binding = NoBinding => \E w \in Workers : lease[w] # 0
  /\ client' = [client EXCEPT ![t].pc = "acquire", ![t].own = binding]
  /\ UNCHANGED <<redis, disks, hosts, job, preps, effects>>

\* The placement a recovery starts from: the canonical one, or a first one on any
\* ready worker ...
Candidates == IF binding # NoBinding THEN {binding}
              ELSE {[NoBinding EXCEPT !.worker = w, !.inst = lease[w], !.epoch = 1] :
                      w \in {v \in Workers : lease[v] # 0}}

\* ... and what the recovery of t makes of it.
Recovered(b, t) == [b EXCEPT !.status = "RECOVERING", !.rec = t]

\* acquire_recovery: compare-and-set on the binding, and SET NX of the lease.
Acquire(t) ==
  /\ client[t].pc = "acquire"
  /\ IF Current(client[t].own) /\ session # "gone" /\ owner = None
     THEN \E b \in Candidates :
            /\ binding' = Recovered(b, t) /\ owner' = t
            /\ client' = [client EXCEPT ![t].own = Recovered(b, t),
                            ![t].pc = IF binding = NoBinding THEN "first" ELSE "local"]
     ELSE Goto(t, "ensure") /\ UNCHANGED <<binding, owner>>
  /\ UNCHANGED <<session, active, mark, disks, hosts, job, preps, effects>>

\* _prepare: a queued result and a message on the candidate's own queue.
SendPrep(t, w, restore, n, ws) ==
  /\ preps[n].res = None /\ \A m \in Preps : m < n => preps[m].res # None
  /\ preps' = [preps EXCEPT ![n] =
       [res |-> "queued", rec |-> t, bind |-> client[t].own, worker |-> w,
        inst |-> lease[w], ws |-> ws, restore |-> restore, msg |-> "queued",
        stage |-> "none"]]
  /\ client' = [client EXCEPT ![t].cur = n]

\* _recover_owned, local phase: the original disk first, whatever its instance.
LocalPrepare(t) == LET w == client[t].own.worker IN
  /\ client[t].pc \in {"first", "local"} /\ client[t].cur = 0
  /\ lease[w] # 0
  /\ \E n \in Preps : SendPrep(t, w, client[t].pc = "local", n, client[t].own.ws)
  /\ UNCHANGED <<redis, disks, hosts, job, effects>>

\* The original disk stays away: at once on first use, else at the local deadline.
LocalGiveUp(t) ==
  /\ client[t].pc \in {"first", "local"} /\ client[t].cur = 0
  /\ lease[client[t].own.worker] = 0
  /\ Goto(t, "giveup")
  /\ UNCHANGED <<redis, disks, hosts, job, preps, effects>>

\* The worker of a pending preparation lost its lease: record the failure.
PrepLost(t) == LET n == client[t].cur IN
  /\ n # 0 /\ preps[n].res \notin Terminal
  /\ lease[preps[n].worker] # preps[n].inst
  /\ preps' = [preps EXCEPT ![n] = SettlePrep(n, "failed")]
  /\ UNCHANGED <<redis, disks, hosts, client, job, effects>>

\* Where a recovery goes after a preparation that came to nothing: another attempt,
\* or the end of the local phase when its deadline has passed.
Onward(t) == {client[t].pc} \cup (IF client[t].pc \in {"first", "local"} THEN {"giveup"} ELSE {})

\* A failed preparation: the same live instance failing means the disk cannot be
\* restored; anything else is tried again while there is time.
PrepFailed(t) == LET n == client[t].cur IN
  /\ n # 0 /\ preps[n].res = "failed"
  /\ \E pc \in Onward(t) :
       /\ lease[preps[n].worker] = preps[n].inst => pc \notin {"first", "local"}
       /\ client' = [client EXCEPT ![t].cur = 0, ![t].pc = pc]
  /\ UNCHANGED <<redis, disks, hosts, job, preps, effects>>

\* Mutant: the epoch is kept.
EpochKept(b, p) == [b EXCEPT !.inst = p.inst, !.status = "READY", !.rec = None]

\* The placement p made for b: the same workspace, on the instance now on its disk ...
Refreshed(b, p) == [b EXCEPT !.inst = p.inst, !.epoch = @ + 1, !.status = "READY", !.rec = None]

\* ... or, after a reset, the next generation on the worker that made it.
Replacement(b, p) == [b EXCEPT !.worker = p.worker, !.inst = p.inst, !.epoch = @ + 1,
                               !.gen = @ + 1, !.ws = p.ws, !.resets = @ + 1,
                               !.status = "READY", !.rec = None]

\* What the recovery of t publishes when its preparation has finished.
Placement(t) == LET p == preps[client[t].cur] IN
  IF client[t].pc = "reset" THEN Replacement(client[t].own, p) ELSE Refreshed(client[t].own, p)

\* The preparation finished, but its instance is gone again.
PrepStale(t) == LET n == client[t].cur IN
  /\ n # 0 /\ preps[n].res = "completed" /\ lease[preps[n].worker] # preps[n].inst
  /\ IF RecoveryMatches(client[t].own, t)
     THEN \E pc \in Onward(t) : client' = [client EXCEPT ![t].cur = 0, ![t].pc = pc]
     ELSE Goto(t, "ensure")
  /\ UNCHANGED <<redis, disks, hosts, job, preps, effects>>

\* commit_recovery's compare-and-set: binding, lease token and session together.
MayCommit(t) == Current(client[t].own) /\ owner = t /\ session # "gone"

\* commit_recovery: publish the placement, drop the lease and the workspace round.
\* The presence check before it is a read of its own, made at some earlier instant.
Commit(t) == LET n == client[t].cur IN
  /\ n # 0 /\ preps[n].res = "completed"
  /\ IF MayCommit(t)
     THEN /\ binding' = Placement(t) /\ owner' = None /\ mark' = None
          /\ session' = IF client[t].pc = "reset" THEN "empty" ELSE session
          /\ client' = [client EXCEPT ![t].cur = 0, ![t].pc = "recovered",
                                      ![t].own = Placement(t)]
     ELSE Goto(t, "ensure") /\ UNCHANGED <<session, binding, owner, mark>>
  /\ UNCHANGED <<active, disks, hosts, job, preps, effects>>

\* abandon_recovery's placement: nobody may use it, and its epoch is spent.
Abandoned(b) == [b EXCEPT !.status = "UNAVAILABLE", !.epoch = b.epoch + 1, !.rec = None]

\* abandon_recovery of the recovery t owns (it rereads the status, then compares-and-sets).
AbandonRecovery(t) ==
  IF RecoveryMatches(client[t].own, t) /\ session # "gone"
  THEN binding' = Abandoned(binding) /\ owner' = None /\ mark' = None
  ELSE UNCHANGED <<binding, owner, mark>>

\* _recover_owned after the local phase: out of resets, or mark_resetting.
GiveUp(t) ==
  /\ client[t].pc = "giveup"
  /\ IF client[t].own.resets >= MaxResets
     THEN AbandonRecovery(t) /\ Goto(t, After(t))
     ELSE LET c == [client[t].own EXCEPT !.status = "RESETTING"] IN
          /\ IF MayCommit(t)
             THEN binding' = c /\ client' = [client EXCEPT ![t].pc = "reset", ![t].own = c]
             ELSE Goto(t, "ensure") /\ UNCHANGED binding
          /\ UNCHANGED <<owner, mark>>
  /\ UNCHANGED <<session, active, disks, hosts, job, preps, effects>>

\* Reset phase: a fresh workspace on any ready worker.
ResetPrepare(t) ==
  /\ client[t].pc = "reset" /\ client[t].cur = 0
  /\ \E w \in Workers, n \in Preps : lease[w] # 0 /\ SendPrep(t, w, FALSE, n, n)
  /\ UNCHANGED <<redis, disks, hosts, job, effects>>

Recovering == {"first", "local", "giveup", "reset"}

\* Deadline or cancellation while recovering: the pending preparation is cancelled,
\* then the recovery is abandoned.
ClientFails(t) ==
  /\ client[t].pc \in Recovering
  /\ preps' = IF client[t].cur = 0 THEN preps
              ELSE [preps EXCEPT ![client[t].cur] = SettlePrep(client[t].cur, "failed")]
  /\ AbandonRecovery(t)
  /\ Goto(t, After(t))
  /\ UNCHANGED <<session, active, disks, hosts, job, effects>>

\* The client's process is killed: nothing is released, the lease has to expire.
ClientDies(t) ==
  /\ client[t].pc \notin {"idle", "done"}
  /\ faults < MaxFaults /\ faults' = faults + 1
  /\ Goto(t, "done")
  /\ UNCHANGED <<redis, disks, lease, inst, up, lapses, job, preps, effects>>

\* The recovery lease runs out; its holder may not know yet.
RecoveryExpires ==
  /\ owner # None /\ lapses < MaxLapses /\ lapses' = lapses + 1
  /\ owner' = None
  /\ UNCHANGED <<session, binding, active, mark, disks, lease, inst, up, faults,
                 client, job, preps, effects>>

\* _await_result saw the binding or the worker's lease gone: close the result, recover.
AwaitLost(t) == LET j == job[t] IN
  /\ client[t].pc = "waiting" /\ j.res \notin Terminal
  /\ ~(Matches(j.bind, binding) /\ binding.status = "READY" /\ Present(j.bind))
  /\ job' = [job EXCEPT ![t] =
       Settle(t, "failed", IF j.res = "running" THEN "uncertain" ELSE "obsolete")]
  /\ Goto(t, "ensure")
  /\ UNCHANGED <<redis, disks, hosts, preps, effects>>

\* _await_result gives up at its deadline or on cancellation.
AwaitEnds(t) ==
  /\ client[t].pc = "waiting" /\ job[t].res \notin Terminal
  /\ job' = [job EXCEPT ![t] = Settle(t, "failed", "deadline")]
  /\ Goto(t, IF t \in Rounds THEN "judge" ELSE "done")
  /\ UNCHANGED <<redis, disks, hosts, preps, effects>>

\* _recover_result_binding: a missing workspace forces a recovery while the binding is
\* the one the job was sent with.
RecoverFrom(j) == IF j.err = "unavailable" /\ Matches(j.bind, binding) /\ binding.status = "READY"
                  THEN "force" ELSE "ensure"

\* A terminal result: some failures make the waiter recover the binding first.
AwaitResult(t) == LET j == job[t] IN
  /\ client[t].pc = "waiting" /\ j.res \in Terminal
  /\ Goto(t, IF j.err \in {"uncertain", "unavailable", "obsolete"} THEN RecoverFrom(j) ELSE After(t))
  /\ UNCHANGED <<redis, disks, hosts, job, preps, effects>>

\* finish_round with its answer: the round is closed on success (by the checkpoint),
\* after a reset, and when the checkpoint never started; otherwise it stays and raises.
JudgeRound(r) ==
  /\ client[r].pc = "judge"
  /\ active' = IF /\ active = r /\ job[r].res = "failed"
                  /\ binding.gen # job[r].bind.gen \/ job[r].err = "obsolete"
               THEN None ELSE active
  /\ Goto(r, "done")
  /\ UNCHANGED <<session, binding, owner, mark, disks, hosts, job, preps, effects>>

\* The round's key outlives its deadline by the checkpoint timeout, then expires.
RoundExpires ==
  /\ active # None /\ client[active].pc = "done"
  /\ active' = None
  /\ UNCHANGED <<session, binding, owner, mark, disks, hosts, client, job, preps, effects>>

\* Client steps, by task.
Client(t) ==
  \/ EnsureGone(t) \/ EnsureReturn(t) \/ ReturnFenced(t) \/ EnsureRecover(t)
  \/ Acquire(t) \/ LocalPrepare(t) \/ LocalGiveUp(t) \/ PrepLost(t) \/ PrepFailed(t)
  \/ PrepStale(t) \/ Commit(t) \/ GiveUp(t) \/ ResetPrepare(t) \/ ClientFails(t)
  \/ ClientDies(t) \/ AwaitLost(t) \/ AwaitEnds(t) \/ AwaitResult(t)

----------------------------------------------------------------------------
\* Workers: processes, leases and the preparations they execute.

\* A process is killed: what it executes stops (the supervisor kills the group, the
\* payload dies with its parent), unacknowledged messages return to its queue.
WorkerKilled(w) ==
  /\ w \in up /\ faults < MaxFaults /\ faults' = faults + 1
  /\ up' = up \ {w}
  /\ job' = [t \in Tasks |->
       IF job[t].bind.worker = w /\ job[t].stage # "none"
       THEN [Over(job[t]) EXCEPT !.msg = "queued"] ELSE job[t]]
  /\ preps' = [n \in Preps |->
       IF preps[n].worker = w /\ preps[n].stage # "none"
       THEN [preps[n] EXCEPT !.msg = "queued", !.stage = "none"] ELSE preps[n]]
  /\ UNCHANGED <<redis, lease, inst, lapses, client, effects>>

WorkerCrash(w) == WorkerKilled(w) /\ UNCHANGED disks

\* The lease of a dead process is removed by its supervisor or expires ...
LeaseRemoved(w) ==
  /\ w \notin up /\ lease[w] # 0
  /\ lease' = [lease EXCEPT ![w] = 0]
  /\ UNCHANGED <<redis, disks, inst, up, faults, lapses, client, job, preps, effects>>

\* ... and that of a live one expires while Redis cannot be reached: a fault and a lapse.
LeaseLapses(w) ==
  /\ w \in up /\ lease[w] # 0
  /\ faults < MaxFaults /\ faults' = faults + 1
  /\ lapses < MaxLapses /\ lapses' = lapses + 1
  /\ lease' = [lease EXCEPT ![w] = 0]
  /\ UNCHANGED <<redis, disks, inst, up, client, job, preps, effects>>

\* Heartbeat of a live process whose lease had expired.
Heartbeat(w) ==
  /\ w \in up /\ lease[w] = 0
  /\ lease' = [lease EXCEPT ![w] = inst[w]]
  /\ UNCHANGED <<redis, disks, inst, up, faults, lapses, client, job, preps, effects>>

\* A new incarnation on the same disk; while the old lease stands it shuts down again.
WorkerStart(w) ==
  /\ w \notin up /\ lease[w] = 0
  /\ up' = up \cup {w}
  /\ inst' = [inst EXCEPT ![w] = @ + 1]
  /\ lease' = [lease EXCEPT ![w] = inst[w] + 1]
  /\ UNCHANGED <<redis, disks, faults, lapses, client, job, preps, effects>>

\* Mutant: success is recorded when the message arrives.
PrepAcknowledged(n) ==
  /\ preps[n].msg = "queued" /\ preps[n].worker \in up
  /\ preps' = [preps EXCEPT ![n] = PrepOver(SettlePrep(n, "completed"))]
  /\ UNCHANGED <<redis, disks, hosts, client, job, effects>>

\* prepare_workspace receives its message: identity, validity, claim.
PrepDeliver(n) == LET p == preps[n] IN
  /\ p.msg = "queued" /\ p.worker \in up
  /\ preps' = [preps EXCEPT ![n] =
       IF p.inst = inst[p.worker] /\ PrepValid(n) /\ p.res = "queued"
       THEN [p EXCEPT !.msg = "taken", !.stage = "claimed", !.res = "running"]
       ELSE PrepOver(SettlePrep(n, IF p.inst = inst[p.worker] /\ PrepValid(n) THEN p.res
                                   ELSE "failed"))]
  /\ UNCHANGED <<redis, disks, hosts, client, job, effects>>

\* It holds the workspace lock and the recovery is still the one it works for.
PrepLock(n) == LET p == preps[n] IN
  /\ p.stage = "claimed" /\ LockFree(p.ws) /\ PrepValid(n)
  /\ preps' = [preps EXCEPT ![n].stage = "locked"]
  /\ UNCHANGED <<redis, disks, hosts, client, job, effects>>

\* The physical work.  A restore discards the files of a round that neither reached
\* its checkpoint nor is the active one.
PrepAct(n) == LET p == preps[n]
                  tree == IF p.restore THEN Restored(p.ws, session = "empty", Interrupted(active))
                          ELSE IF files[p.ws] = Missing THEN {} ELSE files[p.ws]
  IN
  /\ p.stage = "locked"
  /\ IF tree = Missing
     THEN /\ preps' = [preps EXCEPT ![n] =
                         PrepOver(SettlePrep(n, "failed"))]
          /\ UNCHANGED files
     ELSE /\ preps' = [preps EXCEPT ![n].stage = "acted"]
          /\ PutTree(p.ws, tree)
  /\ UNCHANGED <<redis, saved, hosts, client, job, effects>>

\* Still valid? ...
PrepCheck(n) ==
  /\ preps[n].stage = "acted"
  /\ preps' = [preps EXCEPT ![n] =
       IF PrepValid(n) THEN [@ EXCEPT !.stage = "checked"] ELSE PrepOver(SettlePrep(n, "failed"))]
  /\ UNCHANGED <<redis, disks, hosts, client, job, effects>>

\* ... then publish success, with no fence of its own, and let go of the lock.
PrepDone(n) ==
  /\ preps[n].stage = "checked"
  /\ preps' = [preps EXCEPT ![n] = PrepOver(SettlePrep(n, "completed"))]
  /\ UNCHANGED <<redis, disks, hosts, client, job, effects>>

\* Not valid any more while it waits for the lock.
PrepAborts(n) ==
  /\ preps[n].stage = "claimed" /\ ~PrepValid(n)
  /\ preps' = [preps EXCEPT ![n] =
       PrepOver(SettlePrep(n, "failed"))]
  /\ UNCHANGED <<redis, disks, hosts, client, job, effects>>

----------------------------------------------------------------------------
\* Workers: commands and checkpoints.

\* Mutant: the message is executed whenever it arrives.
DeliverUnclaimed(t) == LET j == job[t] IN
  /\ j.msg = "queued" /\ j.bind.worker \in up
  /\ job' = [job EXCEPT ![t] =
       IF j.bind.inst = inst[j.bind.worker] /\ GuardHolds(t) /\ session # "gone"
       THEN [j EXCEPT !.msg = "taken", !.stage = "claimed"]
       ELSE Over(Settle(t, "failed", "obsolete"))]
  /\ UNCHANGED <<redis, disks, hosts, client, preps, effects>>

\* run_sandbox_job_task and checkpoint_session receive their message: identity,
\* guard, then claim_execution, which a repeated message cannot win again.
Deliver(t) == LET j == job[t]
                  own == j.bind.inst = inst[j.bind.worker] /\ GuardHolds(t) /\ session # "gone"
  IN
  /\ j.msg = "queued" /\ j.bind.worker \in up
  /\ job' = [job EXCEPT ![t] =
       IF own /\ Unclaimed(t)
       THEN [j EXCEPT !.msg = "taken", !.claimed = TRUE, !.stage = "claimed"]
       ELSE IF own THEN [j EXCEPT !.msg = IF j.stage = "none" THEN "acked" ELSE "taken"]
       ELSE [Settle(t, "failed", IF j.res = "running" THEN "uncertain" ELSE "obsolete")
               EXCEPT !.msg = IF j.stage = "none" THEN "acked" ELSE "taken"]]
  /\ UNCHANGED <<redis, disks, hosts, client, preps, effects>>

\* The broker's visibility timeout repeats a message that is still being worked on.
Redeliver(t) ==
  /\ job[t].msg = "taken" /\ lapses < MaxLapses /\ lapses' = lapses + 1
  /\ job' = [job EXCEPT ![t].msg = "queued"]
  /\ UNCHANGED <<redis, disks, lease, inst, up, faults, client, preps, effects>>

\* SandboxManager.execute: the workspace lock, taken while the guard holds.
Lock(t) ==
  /\ job[t].stage = "claimed" /\ LockFree(job[t].bind.ws) /\ GuardHolds(t)
  /\ session # "gone"
  /\ job' = [job EXCEPT ![t].stage = "locked", ![t].res = IF t \in Jobs THEN "running" ELSE @]
  /\ UNCHANGED <<redis, disks, hosts, client, preps, effects>>

\* execute and _execute look the session up first: an expired one is an error.
SessionLost(j) ==
  /\ job[j].stage \in {"claimed", "locked"} /\ session = "gone"
  /\ job' = [job EXCEPT ![j] = Over(Settle(j, "failed", "deadline"))]
  /\ UNCHANGED <<redis, disks, hosts, client, preps, effects>>

\* _execute reads the active round and the round the workspace was last used in.
ReadRounds(j) ==
  /\ job[j].stage = "locked" /\ session # "gone"
  /\ job' = [job EXCEPT ![j].stage = "read", ![j].prev = mark,
                        ![j].round = IF active = None THEN Standalone ELSE active]
  /\ UNCHANGED <<redis, disks, hosts, client, preps, effects>>

\* A different earlier round: its files are discarded.
OtherRound(j) == job[j].prev # None /\ job[j].prev # job[j].round

\* _execute restores the workspace; without directory and checkpoint the job fails.
Restore(j) == LET ws == job[j].bind.ws
                  tree == Restored(ws, session = "empty", OtherRound(j))
  IN
  /\ job[j].stage = "read" /\ GuardHolds(j)
  /\ IF tree = Missing
     THEN /\ job' = [job EXCEPT ![j] = Over(Settle(j, "failed", "unavailable"))]
          /\ UNCHANGED files
     ELSE /\ job' = [job EXCEPT ![j].stage = "restored"]
          /\ PutTree(ws, tree)
  /\ UNCHANGED <<redis, saved, hosts, client, preps, effects>>

\* mark_workspace_round, fenced; then the inputs are staged under the guard.
MarkRound(j) ==
  /\ job[j].stage = "restored" /\ Current(job[j].bind) /\ GuardHolds(j)
  /\ mark' = job[j].round
  /\ job' = [job EXCEPT ![j].stage = "running"]
  /\ UNCHANGED <<session, binding, owner, active, disks, hosts, client, preps, effects>>

\* The command writes its files.  The guard is only polled beside it, so nothing
\* about the binding is known at this instant.
Effect(j) == LET ws == job[j].bind.ws IN
  /\ job[j].stage = "running"
  /\ files' = [files EXCEPT ![ws] = @ \cup {j}]
  /\ effects' = [effects EXCEPT ![j] = [n |-> @.n + 1, ws |-> ws, round |-> job[j].round]]
  /\ job' = [job EXCEPT ![j].stage = "ran"]
  /\ UNCHANGED <<redis, saved, hosts, client, preps>>

\* Mutant: the size of the workspace instead of the state of the session.
TouchSize == session' = "bytes"

\* touch with the size of the workspace.
Touch == session' = IF session = "gone" THEN "gone" ELSE "used"

\* Guarded touch, then the final result, fenced by the binding.
Publish(t) ==
  /\ job[t].stage \in {"ran", "collected"} /\ GuardHolds(t)
  /\ IF t \in Jobs THEN Touch ELSE UNCHANGED session
  /\ job' = [job EXCEPT ![t] = Over(Settle(t, "completed", None))]
  /\ UNCHANGED <<binding, owner, active, mark, disks, hosts, client, preps, effects>>

\* Guard lost, or the payload fails or runs out of time: the process group is
\* killed, whatever it wrote stays, and the result says so.  (The deadline at another
\* stage is the waiter's AwaitEnds, after which the guard no longer holds.)
Abort(t) ==
  /\ job[t].stage # "none"
  /\ ~GuardHolds(t) \/ job[t].stage \in {"running", "ran"}
  /\ job' = [job EXCEPT ![t] =
       Over(Settle(t, "failed", IF GuardHolds(t) THEN "deadline"
                                ELSE IF job[t].res = "running" \/ t \in Rounds THEN "uncertain"
                                ELSE "obsolete"))]
  /\ IF job[t].stage = "ran" /\ GuardHolds(t) THEN Touch ELSE UNCHANGED session
  /\ UNCHANGED <<binding, owner, active, mark, disks, hosts, client, preps, effects>>

\* checkpoint_session under the lock: a round left behind is rolled back before the
\* archive is written; a checkpoint of a superseded round is refused.
CheckpointSave(r) == LET ws == job[r].bind.ws
                         tree == IF Interrupted(r) \/ session = "used"
                                 THEN Restored(ws, FALSE, Interrupted(r)) ELSE files[ws]
                         refused == active \notin {None, r}
                                    \/ (tree = Missing /\ (Interrupted(r) \/ session = "used"))
  IN
  /\ job[r].stage = "locked" /\ session # "gone"
  /\ IF refused
     THEN /\ job' = [job EXCEPT ![r] =
                Over(Settle(r, "failed", IF active \notin {None, r} THEN "deadline" ELSE "unavailable"))]
          /\ UNCHANGED disks
     ELSE /\ job' = [job EXCEPT ![r].stage = "saved"]
          /\ PutTree(ws, tree) /\ PutArchive(ws, tree)
  /\ UNCHANGED <<redis, hosts, client, preps, effects>>

\* Then, under the guard and the binding's fence, the workspace round is cleared ...
CheckpointClear(r) ==
  /\ job[r].stage = "saved" /\ GuardHolds(r)
  /\ mark' = None
  /\ job' = [job EXCEPT ![r].stage = "cleared"]
  /\ UNCHANGED <<session, binding, owner, active, disks, hosts, client, preps, effects>>

\* ... and, in a mutation of its own with the same fence, the round closed.
CheckpointClose(r) ==
  /\ job[r].stage = "cleared"
  /\ IF Current(job[r].bind) THEN CloseRound(r) ELSE UNCHANGED active
  /\ job' = [job EXCEPT ![r].stage = "collected"]
  /\ UNCHANGED <<session, binding, owner, mark, disks, hosts, client, preps, effects>>

----------------------------------------------------------------------------
\* Lifecycle: idle eviction, expiry and cleanup.

\* _lifecycle_binding: the READY placement, served by its own live instance.
LifecycleReady == /\ binding.status = "READY" /\ Present(binding)
                  /\ binding.worker \in up /\ binding.inst = inst[binding.worker]

\* What an eviction keeps: the checkpoint when a round was left behind, else the directory.
EvictedTree == IF Interrupted(None) THEN saved[binding.ws] ELSE files[binding.ws]

\* evict_sandbox_session_task under the lock of an idle session.  Idle is a time since
\* the last use, which a submitted command does not renew.
MayEvict == /\ session # "gone" /\ LifecycleReady /\ active = None /\ LockFree(binding.ws)
            /\ EvictedTree # Missing

\* Checkpoint the directory, then remove it.
Evict ==
  /\ MayEvict
  /\ PutArchive(binding.ws, EvictedTree) /\ PutTree(binding.ws, Missing)
  /\ mark' = None
  /\ UNCHANGED <<session, binding, owner, active, hosts, client, job, preps, effects>>

\* Killed while it removes the directory: any part of the tree is left.
EvictKilled ==
  /\ MayEvict
  /\ PutArchive(binding.ws, EvictedTree)
  /\ \E left \in (SUBSET EvictedTree) \cup {Missing} : PutTree(binding.ws, left)
  /\ WorkerKilled(binding.worker)

\* The session's key expires, a day after its last use: begin_round, checkpoints and
\* finished commands extend it, a command that was submitted or that runs does not.
Expire ==
  /\ session # "gone" /\ active = None
  /\ \A r \in Rounds : client[r].pc \in {"idle", "done"} /\ job[r].stage = "none"
  /\ \A j \in Jobs : job[j].stage # "read"      \* its restore uses the copy read before
  /\ session' = "gone"
  /\ UNCHANGED <<binding, owner, active, mark, disks, hosts, client, job, preps, effects>>

\* delete: the placement is made a tombstone, lease and workspace round go with it.
Tombstone == binding' = Abandoned(binding) /\ owner' = None /\ mark' = None

\* Deleting an unbound session only touches Redis (Expire); a bound one, expired or
\* deleted while it lives, is deleted by its own worker: tombstone and session key
\* first, then the files and the checkpoint.
Cleanup == LET ws == binding.ws IN
  /\ LifecycleReady /\ active = None /\ LockFree(ws)
  /\ session' = "gone"
  /\ Tombstone
  /\ files' = [files EXCEPT ![ws] = Missing] /\ saved' = [saved EXCEPT ![ws] = Missing]
  /\ UNCHANGED <<active, hosts, client, job, preps, effects>>

Worker(w) == WorkerCrash(w) \/ LeaseRemoved(w) \/ LeaseLapses(w) \/ Heartbeat(w) \/ WorkerStart(w)

Prep(n) == PrepDeliver(n) \/ PrepLock(n) \/ PrepAct(n) \/ PrepCheck(n) \/ PrepDone(n)
           \/ PrepAborts(n)

Next ==
  \/ \E r \in Rounds : \/ BeginRead(r) \/ BeginWrite(r) \/ FinishRound(r)
                       \/ JudgeRound(r) \/ CheckpointSave(r) \/ CheckpointClear(r)
                       \/ CheckpointClose(r)
  \/ \E j \in Jobs : \/ Submit(j) \/ SessionLost(j) \/ ReadRounds(j) \/ Restore(j) \/ MarkRound(j) \/ Effect(j)
  \/ \E t \in Tasks : Client(t) \/ Deliver(t) \/ Redeliver(t) \/ Lock(t) \/ Publish(t)
                      \/ Abort(t)
  \/ \E w \in Workers : Worker(w)
  \/ \E n \in Preps : Prep(n)
  \/ RecoveryExpires \/ RoundExpires \/ Evict \/ EvictKilled \/ Expire \/ Cleanup

Spec == Init /\ [][Next]_vars

----------------------------------------------------------------------------
\* Properties.

Bindings == [worker : Workers \cup {None}, inst : Nat, epoch : Nat, gen : Nat,
             ws : Workspaces, status : {None, "READY", "RECOVERING", "RESETTING", "UNAVAILABLE"},
             resets : Nat, rec : Tasks \cup {None}]

ClientStates == [pc : {"idle", "begin", "open", "ensure", "force", "acquire", "first", "local",
                       "giveup", "reset", "recovered", "waiting", "judge", "done"},
                 own : Bindings, cur : 0..MaxPreps, seen : Nat]

JobStates == [res : Terminal \cup {None, "queued", "running"},
              err : {None, "uncertain", "obsolete", "unavailable", "deadline"},
              bind : Bindings, msg : {"none", "queued", "taken", "acked"}, claimed : BOOLEAN,
              stage : {"none", "claimed", "locked", "read", "restored", "running", "ran",
                       "saved", "cleared", "collected"},
              round : Rounds \cup {None, Standalone}, prev : Rounds \cup {None, Standalone}]

PrepStates == [res : Terminal \cup {None, "queued", "running"}, rec : Tasks \cup {None},
               bind : Bindings, worker : Workers \cup {None}, inst : Nat, ws : Workspaces,
               restore : BOOLEAN, msg : {"none", "queued", "taken", "acked"},
               stage : {"none", "claimed", "locked", "acted", "checked"}]

RedisOK == /\ session \in {"empty", "used", "gone"}
           /\ binding \in Bindings
           /\ owner \in Tasks \cup {None}
           /\ active \in Rounds \cup {None} /\ mark \in Rounds \cup {None, Standalone}

DisksOK == {files, saved} \subseteq [Workspaces -> (SUBSET Jobs) \cup {Missing}]

HostsOK == /\ {lease, inst} \subseteq [Workers -> Nat] /\ up \subseteq Workers
           /\ faults \in Nat /\ lapses \in Nat

\* Every variable has its type: the session, the binding and the leases of the
\* session store, the results of the result store, the disks.
TypeOK ==
  /\ RedisOK /\ DisksOK /\ HostsOK
  /\ client \in [Tasks -> ClientStates]
  /\ job \in [Tasks -> JobStates]
  /\ preps \in [Preps -> PrepStates]
  /\ effects \in [Jobs -> [n : Nat, ws : Workspaces, round : Rounds \cup {None, Standalone}]]

\* ensure_ready: "Only a successful physical preparation may publish a new placement":
\* while the session lives, a READY binding names a workspace that exists on the
\* bound worker's disk, as a directory or as a checkpoint.
ReadyIsPrepared ==
  binding.status = "READY" /\ session # "gone" =>
    files[binding.ws] # Missing \/ saved[binding.ws] # Missing

\* The fence: while a workspace is bound READY at some epoch, nobody executes in it
\* on behalf of another epoch, although a fenced command is only noticed by polling.
NoStaleWriter == \A t \in Tasks :
  job[t].stage \notin {"none", "claimed"} /\ binding.status = "READY"
    /\ job[t].bind.ws = binding.ws => job[t].bind.epoch = binding.epoch

\* Files of a command that completed in the active round are in the workspace until
\* the session is reset: recoveries and later commands of the round keep them.
RoundKeepsItsWork == \A j \in Jobs :
  /\ job[j].res = "completed" /\ effects[j].round = active /\ binding.status = "READY"
  /\ binding.gen = job[j].bind.gen /\ session # "gone"
  => j \in files[binding.ws]

\* Placements are fenced by their epoch: no job was ever sent with an epoch the
\* session has not reached, and one epoch names one worker, instance and workspace.
EpochFences == \A t \in Tasks : job[t].bind # NoBinding =>
  /\ job[t].bind.epoch <= binding.epoch
  /\ job[t].bind.epoch = binding.epoch /\ binding.status = "READY"
       => Matches(job[t].bind, binding)
  /\ \A u \in Tasks : job[u].bind.epoch = job[t].bind.epoch
       => Matches(job[u].bind, job[t].bind)

\* What submit promises, whatever is repeated, killed or recovered in between: a
\* terminal result is final (save_result), "a redelivered message cannot execute an
\* uncertain or completed command twice" (claim_execution), and a command reported
\* completed was executed.
Job == INSTANCE SandboxJob WITH result <- [j \in Jobs |-> job[j].res],
                                runs <- [j \in Jobs |-> effects[j].n]
ImplementsJob == Job!Spec
============================================================================
