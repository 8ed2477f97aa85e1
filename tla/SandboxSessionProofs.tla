------------------------- MODULE SandboxSessionProofs -------------------------
(***************************************************************************)
(* Theorems about SandboxSession for every set of workers, commands and    *)
(* rounds, and for every bound on preparations, faults and lapses.         *)
(***************************************************************************)
EXTENDS SandboxSession, TLAPS

-----------------------------------------------------------------------------
(* Lemmas: what the helpers preserve *)

LEMMA Names == /\ 0 \in Workspaces /\ Preps \subseteq Workspaces /\ Preps \subseteq 0..MaxPreps
               /\ None \notin Tasks /\ None \notin Jobs /\ 0 \in 0..MaxPreps /\ 0 \notin Preps
               /\ Workspaces \subseteq Nat
  BY SandboxBounds, SandboxNames DEF Workspaces, Preps, None, Tasks

LEMMA NoBindingOK == NoBinding \in Bindings
  BY Names DEF NoBinding, Bindings

(* A client goes on to another place. *)
LEMMA GotoOK ==
  ASSUME client \in [Tasks -> ClientStates], NEW t \in Tasks, NEW pc,
         pc \in {"idle", "open", "ensure", "force", "giveup", "reset", "recovered",
                 "waiting", "judge", "done"},
         Goto(t, pc)
  PROVE  client' \in [Tasks -> ClientStates]
<1> DEFINE own == IF pc \in {"giveup", "reset"} THEN client[t].own ELSE NoBinding
           new == [client[t] EXCEPT !.pc = pc, !.cur = 0, !.own = own]
<1>1. client[t] \in ClientStates
  OBVIOUS
<1>2. own \in Bindings
  <2>1. client[t].own \in Bindings
    BY <1>1 DEF ClientStates
  <2> QED BY <2>1, NoBindingOK
<1>3. new \in ClientStates
  <2> HIDE DEF own
  <2> QED BY <1>1, <1>2, Names DEF ClientStates
<1>4. client' = [client EXCEPT ![t] = new]
  BY DEF Goto
<1> HIDE DEF new
<1> QED BY <1>3, <1>4

LEMMA AfterOK ==
  ASSUME NEW t \in Tasks
  PROVE  After(t) \in {"judge", "done"}
  BY DEF After

(* A terminal result, or the task's record as it was. *)
LEMMA SettleOK ==
  ASSUME job \in [Tasks -> JobStates], NEW t \in Tasks, NEW res \in Terminal,
         NEW err \in {None, "uncertain", "obsolete", "unavailable", "deadline"}
  PROVE  /\ Settle(t, res, err) \in JobStates
         /\ Over(Settle(t, res, err)) \in JobStates
         /\ Over(job[t]) \in JobStates
  BY ZenonT(60) DEF Settle, Over, JobStates, Terminal

LEMMA SettlePrepOK ==
  ASSUME preps \in [Preps -> PrepStates], NEW n \in Preps,
         NEW res \in Terminal \cup {None, "queued", "running"}
  PROVE  /\ SettlePrep(n, res) \in PrepStates
         /\ PrepOver(SettlePrep(n, res)) \in PrepStates
  BY ZenonT(60), NoBindingOK DEF SettlePrep, PrepOver, PrepStates, Terminal

(* The placements a recovery makes. *)
LEMMA PlacementOK ==
  ASSUME NEW b \in Bindings, NEW p \in PrepStates
  PROVE  /\ Refreshed(b, p) \in Bindings
         /\ Replacement(b, p) \in Bindings
<1>1. /\ b.epoch + 1 \in Nat /\ b.gen + 1 \in Nat /\ b.resets + 1 \in Nat
      /\ p.inst \in Nat /\ p.ws \in Workspaces /\ p.worker \in Workers \cup {None}
  BY DEF Bindings, PrepStates
<1>2. Refreshed(b, p) \in Bindings
  BY <1>1 DEF Refreshed, Bindings
<1>3. Replacement(b, p) \in Bindings
  BY <1>1 DEF Replacement, Bindings
<1> QED BY <1>2, <1>3

LEMMA AbandonedOK == ASSUME NEW b \in Bindings PROVE Abandoned(b) \in Bindings
<1>1. b.epoch + 1 \in Nat
  BY DEF Bindings
<1> QED BY <1>1 DEF Abandoned, Bindings

-----------------------------------------------------------------------------
(* The types *)

(* A placement, a recovery's copy of it and a preparation name a worker. *)
WorkersBound ==
  /\ binding # NoBinding => binding.worker \in Workers
  /\ \A t \in Tasks : client[t].pc \in Recovering => client[t].own.worker \in Workers
  /\ \A t \in Tasks : client[t].cur # 0 => /\ client[t].pc \in Recovering
                                          /\ preps[client[t].cur].res # None
  /\ \A n \in Preps : preps[n].res # None \/ preps[n].stage # "none" => preps[n].worker \in Workers

(* Abandoning a recovery. *)
LEMMA AbandonOK ==
  ASSUME RedisOK, NEW t \in Tasks, AbandonRecovery(t)
  PROVE  /\ binding' \in Bindings
         /\ owner' \in Tasks \cup {None}
         /\ mark' \in Rounds \cup {None, Standalone}
<1>1. Abandoned(binding) \in Bindings
  BY AbandonedOK DEF RedisOK
<1> QED BY <1>1 DEF RedisOK, AbandonRecovery

(* A placement to be published is made of the client's own copy. *)
LEMMA PublishedOK ==
  ASSUME TypeOK, NEW t \in Tasks, client[t].cur # 0
  PROVE  Placement(t) \in Bindings
<1>1. client[t].cur \in Preps
  BY SandboxBounds DEF TypeOK, ClientStates, Preps
<1>2. client[t].own \in Bindings /\ preps[client[t].cur] \in PrepStates
  BY <1>1 DEF TypeOK, ClientStates
<1> QED BY <1>2, PlacementOK DEF Placement

LEMMA CandidatesOK ==
  ASSUME TypeOK, NEW t \in Tasks, NEW b \in Candidates
  PROVE  b \in Bindings /\ Recovered(b, t) \in Bindings
<1>1. b \in Bindings
  <2>1. ASSUME NEW w \in Workers, b = [NoBinding EXCEPT !.worker = w, !.inst = lease[w], !.epoch = 1]
        PROVE  b \in Bindings
    <3>1. lease[w] \in Nat
      BY DEF TypeOK, HostsOK
    <3> QED BY <2>1, <3>1, NoBindingOK DEF Bindings
  <2>2. binding \in Bindings
    BY DEF TypeOK, RedisOK
  <2> QED BY <2>1, <2>2 DEF Candidates
<1>2. Recovered(b, t) \in Bindings
  BY <1>1 DEF Recovered, Bindings
<1> QED BY <1>1, <1>2

LEMMA RedisStep == ASSUME TypeOK, [Next]_vars PROVE RedisOK'
<1> USE DEF TypeOK, RedisOK
<1>1. ASSUME NEW t \in Tasks, Acquire(t) PROVE RedisOK'
  <2>2. owner' \in Tasks \cup {None}
    BY <1>1 DEF Acquire
  <2>3. binding' \in Bindings
    BY <1>1, CandidatesOK DEF Acquire
  <2> QED BY <1>1, <2>2, <2>3 DEF Acquire
<1>2. ASSUME NEW t \in Tasks, Commit(t) PROVE RedisOK'
  BY <1>2, PublishedOK DEF Commit
<1>3. ASSUME NEW t \in Tasks, GiveUp(t) PROVE RedisOK'
  <2>1. [client[t].own EXCEPT !.status = "RESETTING"] \in Bindings
    BY DEF ClientStates, Bindings
  <2> QED BY <1>3, <2>1, AbandonOK DEF GiveUp
<1>4. ASSUME NEW t \in Tasks, ClientFails(t) PROVE RedisOK'
  BY <1>4, AbandonOK DEF ClientFails
<1>5. ASSUME NEW t \in Tasks, Publish(t) \/ Abort(t) PROVE RedisOK'
  BY <1>5 DEF Publish, Abort, Touch
<1>6. ASSUME NEW r \in Rounds,
             BeginWrite(r) \/ FinishRound(r) \/ JudgeRound(r) \/ CheckpointClear(r)
               \/ CheckpointClose(r)
      PROVE  RedisOK'
  BY <1>6 DEF BeginWrite, FinishRound, JudgeRound, CheckpointClear, CheckpointClose, CloseRound
<1>7. ASSUME NEW j \in Jobs, MarkRound(j) PROVE RedisOK'
  BY <1>7 DEF MarkRound, JobStates, Tasks
<1>8. CASE RecoveryExpires \/ RoundExpires \/ Evict \/ Expire
  BY <1>8 DEF RecoveryExpires, RoundExpires, Evict, Expire
<1>9. CASE Cleanup
  <2>1. Abandoned(binding) \in Bindings
    BY AbandonedOK
  <2> QED BY <1>9, <2>1 DEF Cleanup, Tombstone
<1>10. CASE UNCHANGED redis
  BY <1>10 DEF redis
<1> QED
  BY ZenonT(60), <1>1, <1>2, <1>3, <1>4, <1>5, <1>6, <1>7, <1>8, <1>9, <1>10
  DEF Next, vars, redis, Client, Worker, Prep, BeginRead, CheckpointSave, Submit, SessionLost,
      ReadRounds, Restore, Effect, EnsureGone, EnsureReturn, ReturnFenced, EnsureRecover,
      LocalPrepare, LocalGiveUp, PrepLost, PrepFailed, PrepStale, ResetPrepare, ClientDies,
      AwaitLost, AwaitEnds, AwaitResult, Deliver, Redeliver, Lock, WorkerCrash, WorkerKilled,
      EvictKilled, LeaseRemoved, LeaseLapses, Heartbeat, WorkerStart, PrepDeliver, PrepLock,
      PrepAct, PrepCheck, PrepDone, PrepAborts

LEMMA HostsStep == ASSUME TypeOK, [Next]_vars PROVE HostsOK'
<1> USE DEF TypeOK, HostsOK
<1>1. ASSUME NEW t \in Tasks, ClientDies(t) \/ Redeliver(t) PROVE HostsOK'
  BY <1>1 DEF ClientDies, Redeliver
<1>2. CASE RecoveryExpires
  BY <1>2 DEF RecoveryExpires
<1>5. ASSUME NEW w, WorkerKilled(w) PROVE HostsOK'
  <2>1. up' = up \ {w} /\ faults' = faults + 1 /\ UNCHANGED <<lease, inst, lapses>>
    BY <1>5 DEF WorkerKilled
  <2> QED BY <2>1
<1>3. ASSUME NEW w \in Workers, Worker(w) PROVE HostsOK'
  <2>1. CASE WorkerCrash(w)
    BY <1>5, <2>1 DEF WorkerCrash
  <2>2. CASE LeaseRemoved(w) \/ LeaseLapses(w)
    BY <2>2 DEF LeaseRemoved, LeaseLapses
  <2>3. CASE Heartbeat(w)
    BY <2>3 DEF Heartbeat
  <2>4. CASE WorkerStart(w)
    BY <2>4 DEF WorkerStart
  <2> QED BY <1>3, <2>1, <2>2, <2>3, <2>4 DEF Worker
<1>4. CASE UNCHANGED hosts
  BY <1>4 DEF hosts
<1> QED
  BY ZenonT(60), <1>1, <1>2, <1>3, <1>4, <1>5
  DEF Next, vars, hosts, Client, Prep, BeginRead, BeginWrite, FinishRound, JudgeRound,
      CheckpointSave, CheckpointClear, CheckpointClose, Submit, SessionLost, ReadRounds, Restore,
      MarkRound, Effect, EnsureGone, EnsureReturn, ReturnFenced, EnsureRecover, Acquire,
      LocalPrepare, LocalGiveUp, PrepLost, PrepFailed, PrepStale, Commit, GiveUp, ResetPrepare,
      ClientFails, AwaitLost, AwaitEnds, AwaitResult, Deliver, Lock, Publish, Abort, PrepDeliver,
      PrepLock, PrepAct, PrepCheck, PrepDone, PrepAborts, RoundExpires, Evict, EvictKilled,
      WorkerCrash, Expire, Cleanup

(* A preparation came to nothing: the recovery goes on, or ends its local phase. *)
LEMMA OnwardOK ==
  ASSUME NEW t
  PROVE  /\ PrepFailed(t) => \E pc \in {"giveup", client[t].pc} :
                               client' = [client EXCEPT ![t].cur = 0, ![t].pc = pc]
         /\ PrepStale(t) => \/ Goto(t, "ensure")
                            \/ \E pc \in {"giveup", client[t].pc} :
                                  client' = [client EXCEPT ![t].cur = 0, ![t].pc = pc]
  BY DEF PrepFailed, PrepStale, Onward

(* A client is given a place, a copy of the placement or a preparation. *)
LEMMA CurOK ==
  ASSUME client \in [Tasks -> ClientStates], NEW t \in Tasks, NEW n \in 0..MaxPreps
  PROVE  [client EXCEPT ![t].cur = n] \in [Tasks -> ClientStates]
  BY DEF ClientStates

LEMMA CopyOK ==
  ASSUME client \in [Tasks -> ClientStates], NEW t \in Tasks, NEW b \in Bindings,
         NEW pc \in {"begin", "acquire", "first", "local", "reset", "recovered"}
  PROVE  /\ [client EXCEPT ![t].pc = pc, ![t].own = b] \in [Tasks -> ClientStates]
         /\ [client EXCEPT ![t].own = b, ![t].pc = pc] \in [Tasks -> ClientStates]
         /\ [client EXCEPT ![t].cur = 0, ![t].pc = pc, ![t].own = b] \in [Tasks -> ClientStates]
<1>1. [client EXCEPT ![t].pc = pc, ![t].own = b] \in [Tasks -> ClientStates]
  BY DEF ClientStates
<1>2. [client EXCEPT ![t].own = b, ![t].pc = pc] \in [Tasks -> ClientStates]
  BY DEF ClientStates
<1>3. [client EXCEPT ![t].cur = 0, ![t].pc = pc, ![t].own = b] \in [Tasks -> ClientStates]
  BY ZenonT(60), Names DEF ClientStates
<1> QED BY <1>1, <1>2, <1>3

LEMMA ClientsStep ==
  ASSUME TypeOK, [Next]_vars
  PROVE  client' \in [Tasks -> ClientStates]
<1> DEFINE OK == client' \in [Tasks -> ClientStates]
<1>0. client \in [Tasks -> ClientStates] /\ binding \in Bindings
  BY DEF TypeOK, RedisOK
<1>1. ASSUME NEW r \in Rounds, BeginRead(r) PROVE OK
  BY <1>0, <1>1, CopyOK DEF BeginRead, Tasks
<1>2. ASSUME NEW r \in Rounds, BeginWrite(r) \/ FinishRound(r) \/ JudgeRound(r) PROVE OK
  <2>1. r \in Tasks
    BY DEF Tasks
  <2> QED BY <1>0, <1>2, <2>1, GotoOK DEF BeginWrite, FinishRound, JudgeRound
<1>3. ASSUME NEW j \in Jobs, Submit(j) PROVE OK
  <2>1. j \in Tasks /\ binding.gen \in Nat
    BY <1>0 DEF Tasks, Bindings
  <2>2. PICK s \in Nat : client' = [client EXCEPT ![j].pc = "ensure", ![j].seen = s]
    <3>1. client[j].seen \in Nat
      BY <1>0, <2>1 DEF ClientStates
    <3> QED BY <1>0, <1>3, <2>1, <3>1 DEF Submit
  <2> QED BY <1>0, <2>1, <2>2 DEF ClientStates
<1>4. ASSUME NEW t \in Tasks, EnsureReturn(t) PROVE OK
  <2>1. Dispatch(t, binding)
    BY <1>4 DEF EnsureReturn
  <2>2. Goto(t, After(t)) \/ Goto(t, "waiting")
    BY <2>1 DEF Dispatch
  <2> QED BY <1>0, <2>2, GotoOK, AfterOK
<1>5. ASSUME NEW t \in Tasks,
             \/ EnsureGone(t) \/ ReturnFenced(t) \/ LocalGiveUp(t) \/ ClientFails(t)
             \/ ClientDies(t) \/ AwaitLost(t) \/ AwaitEnds(t) \/ AwaitResult(t)
      PROVE  OK
  <2>1. \/ Goto(t, "done") \/ Goto(t, "giveup") \/ Goto(t, "judge") \/ Goto(t, "ensure")
        \/ Goto(t, "force") \/ Goto(t, After(t))
    <3>1. CASE AwaitResult(t)
      <4>1. \/ Goto(t, RecoverFrom(job[t])) \/ Goto(t, After(t))
        BY <3>1 DEF AwaitResult
      <4> QED BY <4>1 DEF RecoverFrom
    <3>2. CASE AwaitEnds(t)
      BY <3>2 DEF AwaitEnds
    <3>3. CASE AwaitLost(t) \/ LocalGiveUp(t)
      BY <3>3 DEF AwaitLost, LocalGiveUp
    <3>4. CASE EnsureGone(t) \/ ReturnFenced(t) \/ ClientFails(t) \/ ClientDies(t)
      BY <3>4 DEF EnsureGone, ReturnFenced, ClientFails, ClientDies
    <3> QED BY <1>5, <3>1, <3>2, <3>3, <3>4
  <2>2. ASSUME NEW pc \in {"done", "giveup", "judge", "ensure", "force"}, Goto(t, pc) PROVE OK
    BY <1>0, <2>2, GotoOK
  <2>3. CASE Goto(t, After(t))
    <3>1. After(t) \in {"done", "judge"}
      BY AfterOK
    <3> QED BY <1>0, <2>3, <3>1, GotoOK
  <2> QED BY <2>1, <2>2, <2>3
<1>6. ASSUME NEW t \in Tasks, EnsureRecover(t) PROVE OK
  <2>1. client' = [client EXCEPT ![t].pc = "acquire", ![t].own = binding]
    BY <1>6 DEF EnsureRecover
  <2>2. [client EXCEPT ![t].pc = "acquire", ![t].own = binding] \in [Tasks -> ClientStates]
    BY <1>0, CopyOK
  <2> QED BY <2>1, <2>2
<1>7. ASSUME NEW t \in Tasks, Acquire(t) PROVE OK
  <2>1. CASE Goto(t, "ensure")
    BY <1>0, <2>1, GotoOK
  <2>2. CASE ~Goto(t, "ensure")
    <3>1. PICK b \in Candidates, pc \in {"first", "local"} :
             client' = [client EXCEPT ![t].own = Recovered(b, t), ![t].pc = pc]
      BY <1>7, <2>2 DEF Acquire
    <3> QED BY <1>0, <3>1, CandidatesOK, CopyOK
  <2> QED BY <2>1, <2>2
<1>8. ASSUME NEW t \in Tasks, LocalPrepare(t) \/ ResetPrepare(t) PROVE OK
  <2>1. PICK n \in Preps : client' = [client EXCEPT ![t].cur = n]
    BY <1>8 DEF LocalPrepare, ResetPrepare, SendPrep
  <2> QED BY <1>0, <2>1, CurOK, Names
<1>9. ASSUME NEW t \in Tasks, PrepFailed(t) PROVE OK
  <2>1. PICK pc \in {"giveup", client[t].pc} :
           client' = [client EXCEPT ![t].cur = 0, ![t].pc = pc]
    BY <1>9, OnwardOK
  <2> QED BY ZenonT(60), <1>0, <2>1, Names DEF ClientStates
<1>10. ASSUME NEW t \in Tasks, PrepStale(t) PROVE OK
  <2>1. CASE Goto(t, "ensure")
    BY <1>0, <2>1, GotoOK
  <2>2. ASSUME NEW pc \in {"giveup", client[t].pc},
               client' = [client EXCEPT ![t].cur = 0, ![t].pc = pc]
        PROVE  OK
    BY ZenonT(60), <1>0, <2>2, Names DEF ClientStates
  <2> QED BY <1>10, <2>1, <2>2, OnwardOK
<1>11. ASSUME NEW t \in Tasks, Commit(t) PROVE OK
  <2>1. Placement(t) \in Bindings
    BY <1>11, PublishedOK DEF Commit
  <2>2. \/ client' = [client EXCEPT ![t].cur = 0, ![t].pc = "recovered", ![t].own = Placement(t)]
        \/ Goto(t, "ensure")
    BY <1>11 DEF Commit
  <2>3. [client EXCEPT ![t].cur = 0, ![t].pc = "recovered", ![t].own = Placement(t)]
          \in [Tasks -> ClientStates]
    BY <1>0, <2>1, CopyOK
  <2>4. Goto(t, "ensure") => OK
    BY <1>0, GotoOK
  <2> QED BY <2>2, <2>3, <2>4
<1>12. ASSUME NEW t \in Tasks, GiveUp(t) PROVE OK
  <2>1. [client[t].own EXCEPT !.status = "RESETTING"] \in Bindings
    BY <1>0 DEF ClientStates, Bindings
  <2>2. \/ Goto(t, After(t)) \/ Goto(t, "ensure")
        \/ client' = [client EXCEPT ![t].pc = "reset",
                                    ![t].own = [client[t].own EXCEPT !.status = "RESETTING"]]
    BY <1>12 DEF GiveUp
  <2>3. [client EXCEPT ![t].pc = "reset", ![t].own = [client[t].own EXCEPT !.status = "RESETTING"]]
          \in [Tasks -> ClientStates]
    BY <1>0, <2>1, CopyOK
  <2>4. Goto(t, After(t)) \/ Goto(t, "ensure") => OK
    BY <1>0, GotoOK, AfterOK
  <2> QED BY <2>2, <2>3, <2>4
<1>13. CASE UNCHANGED client
  BY <1>0, <1>13
<1> QED
  BY ZenonT(60), <1>1, <1>2, <1>3, <1>4, <1>5, <1>6, <1>7, <1>8, <1>9, <1>10, <1>11, <1>12,
     <1>13
  DEF Next, vars, hosts, Client, Worker, Prep, CheckpointSave, CheckpointClear, CheckpointClose,
      SessionLost, ReadRounds, Restore, MarkRound, Effect, PrepLost, Deliver, Redeliver, Lock,
      Publish, Abort, WorkerCrash, WorkerKilled, EvictKilled, LeaseRemoved, LeaseLapses,
      Heartbeat, WorkerStart, PrepDeliver, PrepLock, PrepAct, PrepCheck, PrepDone, PrepAborts,
      RecoveryExpires, RoundExpires, Evict, Expire, Cleanup

(* The stage of a task's execution, and what it has read of the rounds. *)
LEMMA StageOK ==
  ASSUME job \in [Tasks -> JobStates], NEW t \in Tasks,
         NEW s \in {"claimed", "locked", "read", "restored", "running", "ran", "saved",
                    "cleared", "collected"}
  PROVE  [job EXCEPT ![t].stage = s] \in [Tasks -> JobStates]
  BY DEF JobStates

LEMMA RoundsOK ==
  ASSUME job \in [Tasks -> JobStates], NEW t \in Tasks,
         NEW p \in Rounds \cup {None, Standalone}, NEW r \in Rounds \cup {None, Standalone}
  PROVE  [job EXCEPT ![t].stage = "read", ![t].prev = p, ![t].round = r]
           \in [Tasks -> JobStates]
<1>1. [job[t] EXCEPT !.stage = "read", !.prev = p, !.round = r] \in JobStates
  BY ZenonT(60) DEF JobStates
<1> QED BY <1>1

LEMMA JobsStep ==
  ASSUME TypeOK, [Next]_vars
  PROVE  job' \in [Tasks -> JobStates]
<1> DEFINE OK == job' \in [Tasks -> JobStates]
<1>0. job \in [Tasks -> JobStates] /\ binding \in Bindings
  BY DEF TypeOK, RedisOK
<1>1. ASSUME NEW t \in Tasks, EnsureReturn(t) PROVE OK
  <2>1. Dispatch(t, binding)
    BY <1>1 DEF EnsureReturn
  <2>2. \/ UNCHANGED job
        \/ job' = [job EXCEPT ![t].res = "queued", ![t].bind = binding, ![t].msg = "queued"]
    BY <2>1 DEF Dispatch
  <2> QED BY <1>0, <2>2 DEF JobStates
<1>2. ASSUME NEW t \in Tasks, AwaitLost(t) \/ AwaitEnds(t) \/ Abort(t) PROVE OK
  <2>1. ASSUME AwaitLost(t) PROVE OK
    BY <1>0, <2>1, SettleOK DEF AwaitLost, Terminal
  <2>2. ASSUME AwaitEnds(t) PROVE OK
    BY <1>0, <2>2, SettleOK DEF AwaitEnds, Terminal
  <2>3. ASSUME Abort(t) PROVE OK
    BY <1>0, <2>3, SettleOK DEF Abort, Terminal
  <2> QED BY <1>2, <2>1, <2>2, <2>3
<1>3. ASSUME NEW w, WorkerKilled(w) PROVE OK
  <2>1. ASSUME NEW t \in Tasks PROVE [Over(job[t]) EXCEPT !.msg = "queued"] \in JobStates
    BY ZenonT(60), <1>0 DEF Over, JobStates
  <2> QED BY <1>0, <1>3, <2>1 DEF WorkerKilled
<1>4. ASSUME NEW t \in Tasks, Deliver(t) PROVE OK
  <2>1. [job[t] EXCEPT !.msg = "taken", !.claimed = TRUE, !.stage = "claimed"] \in JobStates
    BY ZenonT(60), <1>0 DEF JobStates
  <2>2. ASSUME NEW m \in {"acked", "taken"}, NEW j \in JobStates
        PROVE  [j EXCEPT !.msg = m] \in JobStates
    BY DEF JobStates
  <2>3. ASSUME NEW e \in {"uncertain", "obsolete"} PROVE Settle(t, "failed", e) \in JobStates
    BY <1>0, SettleOK DEF Terminal
  <2>4. \/ job' = [job EXCEPT ![t] = [job[t] EXCEPT !.msg = "taken", !.claimed = TRUE,
                                                    !.stage = "claimed"]]
        \/ \E m \in {"acked", "taken"}, e \in {"uncertain", "obsolete"} :
              \/ job' = [job EXCEPT ![t] = [job[t] EXCEPT !.msg = m]]
              \/ job' = [job EXCEPT ![t] = [Settle(t, "failed", e) EXCEPT !.msg = m]]
    BY <1>4 DEF Deliver
  <2> QED BY <1>0, <2>1, <2>2, <2>3, <2>4
<1>5. ASSUME NEW t \in Tasks, Redeliver(t) \/ Lock(t) PROVE OK
  <2>1. CASE Redeliver(t)
    BY <1>0, <2>1 DEF Redeliver, JobStates
  <2>2. CASE Lock(t)
    <3>1. PICK r \in {"running", job[t].res} :
             job' = [job EXCEPT ![t].stage = "locked", ![t].res = r]
      BY <2>2 DEF Lock
    <3>2. [job[t] EXCEPT !.stage = "locked", !.res = r] \in JobStates
      BY <1>0 DEF JobStates
    <3> QED BY <1>0, <3>1, <3>2
  <2> QED BY <1>5, <2>1, <2>2
<1>6. ASSUME NEW t \in Tasks, Publish(t) PROVE OK
  BY <1>0, <1>6, SettleOK DEF Publish, Terminal
<1>7. ASSUME NEW j \in Jobs, SessionLost(j) \/ Restore(j) PROVE OK
  <2>1. j \in Tasks
    BY DEF Tasks
  <2>2. [job EXCEPT ![j].stage = "restored"] \in [Tasks -> JobStates]
    BY <1>0, <2>1, StageOK
  <2>3. ASSUME NEW e \in {"deadline", "unavailable"}
        PROVE  [job EXCEPT ![j] = Over(Settle(j, "failed", e))] \in [Tasks -> JobStates]
    BY <1>0, <2>1, SettleOK DEF Terminal
  <2> QED BY <1>7, <2>2, <2>3 DEF SessionLost, Restore
<1>8. ASSUME NEW j \in Jobs, ReadRounds(j) \/ MarkRound(j) \/ Effect(j) PROVE OK
  <2>1. j \in Tasks /\ mark \in Rounds \cup {None, Standalone} /\ active \in Rounds \cup {None}
    BY DEF Tasks, TypeOK, RedisOK
  <2>2. CASE ReadRounds(j)
    <3>1. PICK round \in Rounds \cup {None, Standalone} :
             job' = [job EXCEPT ![j].stage = "read", ![j].prev = mark, ![j].round = round]
      BY <2>1, <2>2 DEF ReadRounds
    <3> QED BY <1>0, <2>1, <3>1, RoundsOK
  <2>3. CASE MarkRound(j)
    BY <1>0, <2>1, <2>3, StageOK DEF MarkRound
  <2>4. CASE Effect(j)
    BY <1>0, <2>1, <2>4, StageOK DEF Effect
  <2> QED BY <1>8, <2>2, <2>3, <2>4
<1>9. ASSUME NEW r \in Rounds, CheckpointSave(r) \/ CheckpointClear(r) \/ CheckpointClose(r) PROVE OK
  <2>1. r \in Tasks
    BY DEF Tasks
  <2>2. ASSUME NEW s \in {"saved", "cleared", "collected"}
        PROVE  [job EXCEPT ![r].stage = s] \in [Tasks -> JobStates]
    BY <1>0, <2>1, StageOK
  <2>3. ASSUME NEW e \in {"deadline", "unavailable"}
        PROVE  [job EXCEPT ![r] = Over(Settle(r, "failed", e))] \in [Tasks -> JobStates]
    BY <1>0, <2>1, SettleOK DEF Terminal
  <2>4. \/ \E s \in {"saved", "cleared", "collected"} : job' = [job EXCEPT ![r].stage = s]
        \/ \E e \in {"deadline", "unavailable"} :
              job' = [job EXCEPT ![r] = Over(Settle(r, "failed", e))]
    BY <1>9 DEF CheckpointSave, CheckpointClear, CheckpointClose
  <2> QED BY <2>2, <2>3, <2>4
<1>10. CASE UNCHANGED job
  BY <1>0, <1>10
<1> QED
  BY ZenonT(60), <1>1, <1>2, <1>3, <1>4, <1>5, <1>6, <1>7, <1>8, <1>9, <1>10
  DEF Next, vars, Client, Worker, Prep, BeginRead, BeginWrite, FinishRound, JudgeRound, Submit,
      EnsureGone, ReturnFenced, EnsureRecover, Acquire, LocalPrepare, LocalGiveUp, PrepLost,
      PrepFailed, PrepStale, Commit, GiveUp, ResetPrepare, ClientFails, ClientDies, AwaitResult,
      LeaseRemoved, LeaseLapses, Heartbeat, WorkerStart, PrepDeliver, PrepLock, PrepAct,
      PrepCheck, PrepDone, PrepAborts, RecoveryExpires, RoundExpires, Evict, EvictKilled,
      WorkerCrash, Expire, Cleanup

LEMMA PrepsStep ==
  ASSUME TypeOK, WorkersBound, [Next]_vars
  PROVE  preps' \in [Preps -> PrepStates]
<1> DEFINE OK == preps' \in [Preps -> PrepStates]
<1>0. preps \in [Preps -> PrepStates] /\ client \in [Tasks -> ClientStates]
  BY DEF TypeOK
<1>1. ASSUME NEW t \in Tasks, LocalPrepare(t) \/ ResetPrepare(t) PROVE OK
  <2>1. client[t].own \in Bindings /\ client[t].own.ws \in Workspaces
        /\ client[t].own.worker \in Workers \cup {None}
    BY <1>0 DEF ClientStates, Bindings
  <2>2. ASSUME NEW w \in Workers \cup {None}, NEW i \in Nat, NEW ws \in Workspaces,
               NEW restore \in BOOLEAN
        PROVE  [res |-> "queued", rec |-> t, bind |-> client[t].own, worker |-> w, inst |-> i,
                ws |-> ws, restore |-> restore, msg |-> "queued", stage |-> "none"] \in PrepStates
    BY <2>1 DEF PrepStates
  <2>3. CASE LocalPrepare(t)
    <3>1. PICK n \in Preps :
             preps' = [preps EXCEPT ![n] =
               [res |-> "queued", rec |-> t, bind |-> client[t].own,
                worker |-> client[t].own.worker, inst |-> lease[client[t].own.worker],
                ws |-> client[t].own.ws, restore |-> client[t].pc = "local", msg |-> "queued",
                stage |-> "none"]]
      BY <2>3 DEF LocalPrepare, SendPrep
    <3>2. client[t].own.worker \in Workers
      BY <2>3 DEF LocalPrepare, WorkersBound, Recovering
    <3>3. lease[client[t].own.worker] \in Nat
      BY <3>2 DEF TypeOK, HostsOK
    <3> QED BY <1>0, <2>1, <2>2, <3>1, <3>3
  <2>4. CASE ResetPrepare(t)
    <3>1. PICK w \in Workers, n \in Preps :
             preps' = [preps EXCEPT ![n] =
               [res |-> "queued", rec |-> t, bind |-> client[t].own, worker |-> w,
                inst |-> lease[w], ws |-> n, restore |-> FALSE, msg |-> "queued",
                stage |-> "none"]]
      BY <2>4 DEF ResetPrepare, SendPrep
    <3>2. lease[w] \in Nat /\ n \in Workspaces
      BY Names DEF TypeOK, HostsOK
    <3> QED BY <1>0, <2>2, <3>1, <3>2
  <2> QED BY <1>1, <2>3, <2>4
<1>2. ASSUME NEW t \in Tasks, PrepLost(t) \/ ClientFails(t) PROVE OK
  <2>1. client[t].cur # 0 => client[t].cur \in Preps
    BY <1>0, SandboxBounds DEF ClientStates, Preps
  <2> QED BY <1>0, <1>2, <2>1, SettlePrepOK DEF PrepLost, ClientFails, Terminal
<1>3. ASSUME NEW w, WorkerKilled(w) PROVE OK
  <2>1. ASSUME NEW n \in Preps
        PROVE  [preps[n] EXCEPT !.msg = "queued", !.stage = "none"] \in PrepStates
    BY <1>0 DEF PrepStates
  <2> QED BY <1>0, <1>3, <2>1 DEF WorkerKilled
<1>4. ASSUME NEW n \in Preps, PrepDeliver(n) PROVE OK
  <2>1. [preps[n] EXCEPT !.msg = "taken", !.stage = "claimed", !.res = "running"] \in PrepStates
    BY <1>0 DEF PrepStates
  <2>2. ASSUME NEW r \in {preps[n].res, "failed"}
        PROVE  PrepOver(SettlePrep(n, r)) \in PrepStates
    BY <1>0, SettlePrepOK DEF PrepStates, Terminal
  <2>3. \/ preps' = [preps EXCEPT ![n] = [preps[n] EXCEPT !.msg = "taken", !.stage = "claimed",
                                                          !.res = "running"]]
        \/ \E r \in {preps[n].res, "failed"} :
              preps' = [preps EXCEPT ![n] = PrepOver(SettlePrep(n, r))]
    BY <1>4 DEF PrepDeliver
  <2> QED BY <1>0, <2>1, <2>2, <2>3
<1>5. ASSUME NEW n \in Preps, PrepLock(n) \/ PrepAct(n) \/ PrepCheck(n) \/ PrepDone(n) \/ PrepAborts(n)
      PROVE  OK
  <2>1. ASSUME NEW s \in {"locked", "acted", "checked"}
        PROVE  [preps EXCEPT ![n].stage = s] \in [Preps -> PrepStates]
    BY <1>0 DEF PrepStates
  <2>2. ASSUME NEW r \in {"completed", "failed"}
        PROVE  [preps EXCEPT ![n] = PrepOver(SettlePrep(n, r))] \in [Preps -> PrepStates]
    BY <1>0, SettlePrepOK DEF Terminal
  <2>3. \/ \E s \in {"locked", "acted", "checked"} : preps' = [preps EXCEPT ![n].stage = s]
        \/ \E r \in {"completed", "failed"} :
              preps' = [preps EXCEPT ![n] = PrepOver(SettlePrep(n, r))]
    BY <1>5 DEF PrepLock, PrepAct, PrepCheck, PrepDone, PrepAborts
  <2> QED BY <2>1, <2>2, <2>3
<1>6. CASE UNCHANGED preps
  BY <1>0, <1>6
<1> QED
  BY ZenonT(60), <1>1, <1>2, <1>3, <1>4, <1>5, <1>6
  DEF Next, vars, Client, Worker, Prep, BeginRead, BeginWrite, FinishRound, JudgeRound, Submit,
      CheckpointSave, CheckpointClear, CheckpointClose, SessionLost, ReadRounds, Restore,
      MarkRound, Effect, EnsureGone, EnsureReturn, ReturnFenced, EnsureRecover, Acquire,
      LocalGiveUp, PrepFailed, PrepStale, Commit, GiveUp, ClientDies, AwaitLost, AwaitEnds,
      AwaitResult, Deliver, Redeliver, Lock, Publish, Abort, LeaseRemoved, LeaseLapses, Heartbeat,
      WorkerStart, RecoveryExpires, RoundExpires, Evict, EvictKilled, WorkerCrash, Expire, Cleanup

LEMMA EffectsStep ==
  ASSUME TypeOK, [Next]_vars
  PROVE  effects' \in [Jobs -> [n : Nat, ws : Workspaces, round : Rounds \cup {None, Standalone}]]
<1> DEFINE OK == effects' \in [Jobs -> [n : Nat, ws : Workspaces,
                                        round : Rounds \cup {None, Standalone}]]
<1>0. effects \in [Jobs -> [n : Nat, ws : Workspaces, round : Rounds \cup {None, Standalone}]]
  BY DEF TypeOK
<1>1. ASSUME NEW j \in Jobs, Effect(j) PROVE OK
  <2>1. job[j].bind.ws \in Workspaces /\ job[j].round \in Rounds \cup {None, Standalone}
    BY DEF TypeOK, Tasks, JobStates, Bindings
  <2>2. effects' = [effects EXCEPT ![j] = [n |-> effects[j].n + 1, ws |-> job[j].bind.ws,
                                           round |-> job[j].round]]
    BY <1>1 DEF Effect
  <2> QED BY <1>0, <2>1, <2>2
<1>2. CASE UNCHANGED effects
  BY <1>0, <1>2
<1> QED
  BY ZenonT(60), <1>1, <1>2
  DEF Next, vars, Client, Worker, Prep, BeginRead, BeginWrite, FinishRound, JudgeRound, Submit,
      CheckpointSave, CheckpointClear, CheckpointClose, SessionLost, ReadRounds, Restore,
      MarkRound, EnsureGone, EnsureReturn, ReturnFenced, EnsureRecover, Acquire, LocalPrepare,
      LocalGiveUp, PrepLost, PrepFailed, PrepStale, Commit, GiveUp, ResetPrepare, ClientFails,
      ClientDies, AwaitLost, AwaitEnds, AwaitResult, Deliver, Redeliver, Lock, Publish, Abort,
      WorkerCrash, WorkerKilled, EvictKilled, LeaseRemoved, LeaseLapses, Heartbeat, WorkerStart,
      PrepDeliver, PrepLock, PrepAct, PrepCheck, PrepDone, PrepAborts, RecoveryExpires,
      RoundExpires, Evict, Expire, Cleanup

(* A client that goes somewhere leaves its recovery. *)
LEMMA GotoLeaves ==
  ASSUME TypeOK, WorkersBound, NEW t \in Tasks, NEW pc, pc \notin Recovering, Goto(t, pc),
         UNCHANGED binding, UNCHANGED preps
  PROVE  WorkersBound'
<1>1. client \in [Tasks -> ClientStates]
  BY DEF TypeOK
<1>2. /\ client'[t].pc = pc /\ client'[t].cur = 0
      /\ \A u \in Tasks \ {t} : client'[u] = client[u]
  BY <1>1 DEF Goto, ClientStates
<1> QED BY <1>2 DEF WorkersBound

LEMMA WorkersBoundStep ==
  ASSUME TypeOK, WorkersBound, [Next]_vars
  PROVE  WorkersBound'
<1>0. /\ client \in [Tasks -> ClientStates] /\ preps \in [Preps -> PrepStates]
      /\ binding \in Bindings
  BY DEF TypeOK, RedisOK
<1>a. ASSUME NEW t \in Tasks PROVE After(t) \notin Recovering
  BY DEF After, Recovering
<1>1. ASSUME NEW r \in Rounds, BeginRead(r) PROVE WorkersBound'
  <2>1. /\ r \in Tasks /\ client[r].pc = "idle" /\ UNCHANGED <<binding, preps>>
        /\ client' = [client EXCEPT ![r].pc = "begin", ![r].own = binding]
    BY <1>1 DEF BeginRead, Tasks, redis
  <2>2. /\ client'[r].pc = "begin" /\ client'[r].cur = client[r].cur
        /\ \A u \in Tasks \ {r} : client'[u] = client[u]
    BY <1>0, <2>1 DEF ClientStates
  <2> QED BY <2>1, <2>2 DEF WorkersBound, Recovering
<1>2. ASSUME NEW r \in Rounds, BeginWrite(r) \/ FinishRound(r) \/ JudgeRound(r) PROVE WorkersBound'
  <2>1. r \in Tasks
    BY DEF Tasks
  <2> QED BY <1>2, <2>1, GotoLeaves DEF BeginWrite, FinishRound, JudgeRound, Recovering
<1>3. ASSUME NEW j \in Jobs, Submit(j) PROVE WorkersBound'
  <2>1. /\ j \in Tasks /\ client[j].pc = "idle" /\ UNCHANGED <<binding, preps>>
        /\ client' = [client EXCEPT ![j].pc = "ensure",
                              ![j].seen = IF binding = NoBinding THEN @ ELSE binding.gen]
    BY <1>3 DEF Submit, Tasks, redis
  <2>2. /\ client'[j].pc = "ensure" /\ client'[j].cur = client[j].cur
        /\ \A u \in Tasks \ {j} : client'[u] = client[u]
    BY <1>0, <2>1 DEF ClientStates
  <2> QED BY <2>1, <2>2 DEF WorkersBound, Recovering
<1>4. ASSUME NEW t \in Tasks, EnsureReturn(t) PROVE WorkersBound'
  <2>1. UNCHANGED <<binding, preps>> /\ (Goto(t, After(t)) \/ Goto(t, "waiting"))
    BY <1>4 DEF EnsureReturn, Dispatch, redis
  <2> QED BY <1>a, <2>1, GotoLeaves DEF Recovering
<1>5. ASSUME NEW t \in Tasks,
             \/ EnsureGone(t) \/ ReturnFenced(t)
             \/ ClientDies(t) \/ AwaitLost(t) \/ AwaitEnds(t) \/ AwaitResult(t)
      PROVE  WorkersBound'
  <2>1. UNCHANGED <<binding, preps>> /\ \E pc \in {"done", "ensure", "force", "judge"} : Goto(t, pc)
    BY <1>5, AfterOK
    DEF EnsureGone, ReturnFenced, ClientDies, AwaitLost, AwaitEnds, AwaitResult, RecoverFrom, redis
  <2> QED BY <2>1, GotoLeaves DEF Recovering
<1>6. ASSUME NEW t \in Tasks, LocalGiveUp(t) PROVE WorkersBound'
  <2>1. /\ client[t].pc \in {"first", "local"} /\ UNCHANGED <<binding, preps>>
        /\ client' = [client EXCEPT ![t].pc = "giveup", ![t].cur = 0, ![t].own = @]
    BY <1>6 DEF LocalGiveUp, Goto, redis
  <2>2. /\ client'[t].pc = "giveup" /\ client'[t].cur = 0 /\ client'[t].own = client[t].own
        /\ \A u \in Tasks \ {t} : client'[u] = client[u]
    BY <1>0, <2>1 DEF ClientStates
  <2> QED BY ZenonT(60), <2>1, <2>2 DEF WorkersBound, Recovering
<1>7. ASSUME NEW t \in Tasks, EnsureRecover(t) PROVE WorkersBound'
  <2>1. /\ client[t].pc \in {"ensure", "force"} /\ UNCHANGED <<binding, preps>>
        /\ client' = [client EXCEPT ![t].pc = "acquire", ![t].own = binding]
    BY <1>7 DEF EnsureRecover, redis
  <2>2. /\ client'[t].pc = "acquire" /\ client'[t].cur = client[t].cur
        /\ \A u \in Tasks \ {t} : client'[u] = client[u]
    BY <1>0, <2>1 DEF ClientStates
  <2> QED BY <2>1, <2>2 DEF WorkersBound, Recovering
<1>8. ASSUME NEW t \in Tasks, Acquire(t) PROVE WorkersBound'
  <2>1. CASE Goto(t, "ensure") /\ UNCHANGED <<binding, preps>>
    BY <2>1, GotoLeaves DEF Recovering
  <2>2. ASSUME NEW b \in Candidates, binding' = Recovered(b, t),
               NEW pc \in {"first", "local"},
               client' = [client EXCEPT ![t].own = Recovered(b, t), ![t].pc = pc],
               client[t].pc = "acquire", UNCHANGED preps
        PROVE  WorkersBound'
    <3>1. b.worker \in Workers
      BY NoBindingOK DEF Candidates, WorkersBound, Bindings
    <3>2. Recovered(b, t).worker = b.worker
      BY CandidatesOK DEF Recovered, Bindings
    <3>3. /\ client'[t].own = Recovered(b, t) /\ client'[t].pc = pc
          /\ client'[t].cur = client[t].cur
          /\ \A u \in Tasks \ {t} : client'[u] = client[u]
      BY <1>0, <2>2 DEF ClientStates
    <3> QED BY ZenonT(60), <2>2, <3>1, <3>2, <3>3 DEF WorkersBound, Recovering
  <2>3. UNCHANGED preps /\ client[t].pc = "acquire"
    BY <1>8 DEF Acquire
  <2>4. \/ Goto(t, "ensure") /\ UNCHANGED binding
        \/ \E b \in Candidates, pc \in {"first", "local"} :
              /\ binding' = Recovered(b, t)
              /\ client' = [client EXCEPT ![t].own = Recovered(b, t), ![t].pc = pc]
    BY <1>8 DEF Acquire
  <2> QED BY <2>1, <2>2, <2>3, <2>4
<1>9. ASSUME NEW t \in Tasks, NEW n \in Preps, NEW w \in Workers, NEW restore, NEW ws,
             client[t].pc \in Recovering, SendPrep(t, w, restore, n, ws), UNCHANGED binding
      PROVE  WorkersBound'
  <2>1. /\ client'[t].cur = n /\ client'[t].pc = client[t].pc /\ client'[t].own = client[t].own
        /\ \A u \in Tasks \ {t} : client'[u] = client[u]
        /\ \A u \in Tasks : client'[u].pc = client[u].pc /\ client'[u].own = client[u].own
    BY <1>0, <1>9 DEF SendPrep, ClientStates
  <2>2. /\ preps'[n].worker = w /\ preps'[n].res = "queued"
        /\ \A m \in Preps \ {n} : preps'[m] = preps[m]
    BY <1>0, <1>9 DEF SendPrep
  <2>3. \A u \in Tasks \ {t} : client[u].cur # 0 => client[u].cur \in Preps
    BY <1>0, SandboxBounds DEF ClientStates, Preps
  <2>4. \A u \in Tasks : client'[u].cur # 0 => /\ client'[u].pc \in Recovering
                                             /\ preps'[client'[u].cur].res # None
    BY <1>9, <2>1, <2>2, <2>3 DEF WorkersBound, None
  <2>5. \A m \in Preps : preps'[m].res # None \/ preps'[m].stage # "none"
                           => preps'[m].worker \in Workers
    BY <2>2 DEF WorkersBound
  <2> QED BY <1>9, <2>1, <2>4, <2>5 DEF WorkersBound
<1>10. ASSUME NEW t \in Tasks, LocalPrepare(t) PROVE WorkersBound'
  <2>1. client[t].pc \in Recovering /\ UNCHANGED binding
    BY <1>10 DEF LocalPrepare, Recovering, redis
  <2>2. client[t].own.worker \in Workers
    BY <2>1 DEF WorkersBound
  <2> QED BY <1>9, <1>10, <2>1, <2>2 DEF LocalPrepare
<1>11. ASSUME NEW t \in Tasks, ResetPrepare(t) PROVE WorkersBound'
  <2>1. /\ client[t].pc \in Recovering /\ UNCHANGED binding
        /\ \E w \in Workers, n \in Preps : SendPrep(t, w, FALSE, n, n)
    BY <1>11 DEF ResetPrepare, Recovering, redis
  <2> QED BY <1>9, <2>1
<1>12. ASSUME NEW t \in Tasks, PrepFailed(t) PROVE WorkersBound'
  <2>1. /\ client[t].cur # 0 /\ UNCHANGED <<binding, preps>>
        /\ \E pc \in {"giveup", client[t].pc} :
              client' = [client EXCEPT ![t].cur = 0, ![t].pc = pc]
    BY <1>12, OnwardOK DEF PrepFailed, redis
  <2>2. /\ client'[t].pc \in {"giveup", client[t].pc} /\ client'[t].own = client[t].own
        /\ client'[t].cur = 0
        /\ \A u \in Tasks \ {t} : client'[u] = client[u]
    BY <1>0, <2>1 DEF ClientStates
  <2> QED BY <2>1, <2>2 DEF WorkersBound, Recovering
<1>13. ASSUME NEW t \in Tasks, PrepStale(t) PROVE WorkersBound'
  <2>1. CASE Goto(t, "ensure")
    BY <1>13, <2>1, GotoLeaves DEF PrepStale, Recovering, redis
  <2>2. ASSUME NEW pc \in {"giveup", client[t].pc},
               client' = [client EXCEPT ![t].cur = 0, ![t].pc = pc]
        PROVE  WorkersBound'
    <3>1. /\ client'[t].pc \in {"giveup", client[t].pc} /\ client'[t].own = client[t].own
          /\ client'[t].cur = 0
          /\ \A u \in Tasks \ {t} : client'[u] = client[u]
      BY <1>0, <2>2 DEF ClientStates
    <3>2. client[t].cur # 0 /\ UNCHANGED <<binding, preps>>
      BY <1>13 DEF PrepStale, redis
    <3> QED BY <3>1, <3>2 DEF WorkersBound, Recovering
  <2> QED BY <1>13, <2>1, <2>2, OnwardOK
<1>14. ASSUME NEW t \in Tasks, Commit(t) PROVE WorkersBound'
  <2>1. /\ client[t].cur # 0 /\ UNCHANGED preps
    BY <1>14 DEF Commit
  <2>2. CASE MayCommit(t)
    <3>1. /\ binding' = Placement(t)
          /\ client' = [client EXCEPT ![t].cur = 0, ![t].pc = "recovered", ![t].own = Placement(t)]
      BY <1>14, <2>2 DEF Commit
    <3>2. /\ client'[t].pc = "recovered" /\ client'[t].cur = 0
          /\ \A u \in Tasks \ {t} : client'[u] = client[u]
      BY <1>0, <3>1 DEF ClientStates
    <3>3. /\ client[t].cur \in Preps /\ client[t].own \in Bindings
          /\ client[t].own.worker \in Workers /\ preps[client[t].cur].worker \in Workers
      BY <1>0, <2>1, SandboxBounds DEF WorkersBound, ClientStates, Preps
    <3>4. Placement(t).worker \in Workers
      BY <3>3 DEF Placement, Replacement, Refreshed, Bindings
    <3> QED BY <2>1, <3>1, <3>2, <3>4 DEF WorkersBound, Recovering
  <2>3. CASE ~MayCommit(t)
    BY <1>14, <2>1, <2>3, GotoLeaves DEF Commit, Recovering
  <2> QED BY <2>2, <2>3
<1>15. ASSUME NEW t \in Tasks, AbandonRecovery(t) PROVE binding' # NoBinding => binding'.worker \in Workers
  <2>1. CASE UNCHANGED binding
    BY <2>1 DEF WorkersBound
  <2>2. CASE binding' = Abandoned(binding) /\ binding.rec = t
    <3>1. binding # NoBinding /\ binding.worker = Abandoned(binding).worker
      BY <1>0, <2>2, SandboxNames DEF NoBinding, Abandoned, Bindings, Tasks, None
    <3> QED BY <2>2, <3>1 DEF WorkersBound
  <2> QED BY <1>15, <2>1, <2>2 DEF AbandonRecovery, RecoveryMatches
<1>16. ASSUME NEW t \in Tasks, NEW pc, Goto(t, pc), pc \notin Recovering
      PROVE  /\ \A u \in Tasks : client'[u].pc \in Recovering => client'[u].own.worker \in Workers
             /\ \A u \in Tasks : client'[u].cur # 0 =>
                  /\ client'[u].cur = client[u].cur /\ client'[u].pc \in Recovering
  <2>1. /\ client'[t].pc = pc /\ client'[t].cur = 0
        /\ \A u \in Tasks \ {t} : client'[u] = client[u]
    BY <1>0, <1>16 DEF Goto, ClientStates
  <2> QED BY <1>16, <2>1 DEF WorkersBound
<1>17. ASSUME NEW t \in Tasks, GiveUp(t) PROVE WorkersBound'
  <2>1. UNCHANGED preps /\ client[t].pc = "giveup"
    BY <1>17 DEF GiveUp
  <2>2. CASE AbandonRecovery(t) /\ Goto(t, After(t))
    BY <1>15, <1>16, <1>a, <2>1, <2>2 DEF WorkersBound
  <2>3. CASE UNCHANGED binding /\ Goto(t, "ensure")
    BY <2>1, <2>3, GotoLeaves DEF Recovering
  <2>4. ASSUME NEW c, c = [client[t].own EXCEPT !.status = "RESETTING"], binding' = c,
               client' = [client EXCEPT ![t].pc = "reset", ![t].own = c]
        PROVE  WorkersBound'
    <3>1. client[t].own \in Bindings /\ client[t].own.worker \in Workers
      BY <1>0, <2>1 DEF WorkersBound, Recovering, ClientStates
    <3>2. c.worker \in Workers
      BY <2>4, <3>1 DEF Bindings
    <3>3. /\ client'[t].pc = "reset" /\ client'[t].own = c /\ client'[t].cur = client[t].cur
          /\ \A u \in Tasks \ {t} : client'[u] = client[u]
      BY <1>0, <2>4 DEF ClientStates
    <3> QED BY ZenonT(60), <2>1, <2>4, <3>2, <3>3 DEF WorkersBound, Recovering
  <2> QED BY <1>17, <2>2, <2>3, <2>4 DEF GiveUp
<1>18. ASSUME NEW n \in Preps, NEW r \in Terminal \cup {"running"},
              preps' = [preps EXCEPT ![n] = SettlePrep(n, r)],
              preps[n].res # None
       PROVE  /\ \A m \in Preps : preps'[m].res # None \/ preps'[m].stage # "none"
                                  => preps'[m].worker \in Workers
              /\ \A m \in Preps : preps[m].res # None => preps'[m].res # None
  BY <1>0, <1>18 DEF SettlePrep, WorkersBound, PrepStates, Terminal, None
<1>19. \A u \in Tasks : client[u].cur # 0 => client[u].cur \in Preps
  BY <1>0, SandboxBounds DEF ClientStates, Preps
<1>20. ASSUME NEW t \in Tasks, ClientFails(t) PROVE WorkersBound'
  <2>1. Goto(t, After(t)) /\ AbandonRecovery(t)
    BY <1>20 DEF ClientFails
  <2>2. /\ \A m \in Preps : preps'[m].res # None \/ preps'[m].stage # "none"
                                  => preps'[m].worker \in Workers
        /\ \A m \in Preps : preps[m].res # None => preps'[m].res # None
    <3>1. CASE client[t].cur = 0
      BY <1>20, <3>1 DEF ClientFails, WorkersBound
    <3>2. CASE client[t].cur # 0
      <4>1. preps[client[t].cur].res # None
        BY <3>2 DEF WorkersBound
      <4> QED BY <1>18, <1>19, <1>20, <3>2, <4>1 DEF ClientFails, Terminal
    <3> QED BY <3>1, <3>2
  <2> QED BY <1>15, <1>16, <1>19, <1>a, <2>1, <2>2 DEF WorkersBound
<1>21. ASSUME NEW t \in Tasks, PrepLost(t) PROVE WorkersBound'
  <2>1. client[t].cur \in Preps /\ preps[client[t].cur].res # None
    BY <1>19, <1>21 DEF PrepLost, WorkersBound
  <2>2. UNCHANGED <<client, binding>> /\ preps' = [preps EXCEPT ![client[t].cur] = SettlePrep(client[t].cur, "failed")]
    BY <1>21 DEF PrepLost, redis
  <2> QED BY <1>18, <1>19, <2>1, <2>2 DEF WorkersBound, Terminal
<1>22. ASSUME NEW n \in Preps, Prep(n) PROVE WorkersBound'
  <2>1. UNCHANGED <<client, binding>>
    BY <1>22 DEF Prep, PrepDeliver, PrepLock, PrepAct, PrepCheck, PrepDone, PrepAborts, redis
  <2>2. preps[n].worker \in Workers
    BY <1>22 DEF Prep, PrepDeliver, PrepLock, PrepAct, PrepCheck, PrepDone, PrepAborts,
        WorkersBound, TypeOK, HostsOK
  <2>3. /\ preps'[n].worker = preps[n].worker
        /\ preps[n].res # None => preps'[n].res # None
        /\ \A m \in Preps \ {n} : preps'[m] = preps[m]
    <3>1. CASE PrepDeliver(n)
      BY <1>0, <3>1 DEF PrepDeliver, PrepOver, SettlePrep, PrepStates, Terminal, None
    <3>2. CASE PrepLock(n)
      BY <1>0, <3>2 DEF PrepLock, PrepStates
    <3>3. CASE PrepAct(n) \/ PrepCheck(n) \/ PrepDone(n) \/ PrepAborts(n)
      <4>1. \/ \E s \in {"acted", "checked"} : preps' = [preps EXCEPT ![n].stage = s]
            \/ \E r \in {"completed", "failed"} :
                  preps' = [preps EXCEPT ![n] = PrepOver(SettlePrep(n, r))]
        BY <3>3 DEF PrepAct, PrepCheck, PrepDone, PrepAborts
      <4>2. ASSUME NEW r \in {"completed", "failed"}
            PROVE  /\ PrepOver(SettlePrep(n, r)).worker = preps[n].worker
                   /\ PrepOver(SettlePrep(n, r)).res # None
        BY <1>0 DEF PrepOver, SettlePrep, PrepStates, Terminal, None
      <4>3. ASSUME NEW s
            PROVE  /\ [preps[n] EXCEPT !.stage = s].worker = preps[n].worker
                   /\ [preps[n] EXCEPT !.stage = s].res = preps[n].res
        BY <1>0 DEF PrepStates
      <4> QED BY <1>0, <4>1, <4>2, <4>3
    <3> QED BY <1>22, <3>1, <3>2, <3>3 DEF Prep
  <2> QED BY <1>19, <2>1, <2>2, <2>3 DEF WorkersBound
<1>23. ASSUME NEW w, WorkerKilled(w) PROVE WorkersBound'
  <2>1. ASSUME NEW n \in Preps
        PROVE  /\ preps'[n].worker = preps[n].worker /\ preps'[n].res = preps[n].res
               /\ preps'[n].stage # "none" => preps[n].stage # "none"
    BY <1>0, <1>23 DEF WorkerKilled, PrepStates
  <2>2. UNCHANGED <<client, binding>>
    BY <1>23 DEF WorkerKilled, redis
  <2> QED BY <1>19, <2>1, <2>2 DEF WorkersBound
<1>24. CASE Cleanup
  <2>1. binding' = Abandoned(binding) /\ binding # NoBinding /\ UNCHANGED <<client, preps>>
    BY <1>24, NoBindingOK DEF Cleanup, Tombstone, LifecycleReady, Present
  <2>2. Abandoned(binding).worker = binding.worker
    BY <1>0 DEF Abandoned, Bindings
  <2> QED BY <2>1, <2>2 DEF WorkersBound
<1>25. CASE UNCHANGED <<client, binding, preps>>
  BY <1>25 DEF WorkersBound
<1> QED
  BY <1>1, <1>2, <1>3, <1>4, <1>5, <1>6, <1>7, <1>8, <1>10, <1>11, <1>12, <1>13, <1>14, <1>17,
     <1>20, <1>21, <1>22, <1>23, <1>24, <1>25
  DEF Next, vars, redis, Client, Worker, CheckpointSave, CheckpointClear, CheckpointClose,
      SessionLost, ReadRounds, Restore, MarkRound, Effect, Deliver, Redeliver, Lock, Publish,
      Abort, LeaseRemoved, LeaseLapses, Heartbeat, WorkerStart, RecoveryExpires, RoundExpires,
      Evict, EvictKilled, WorkerCrash, Expire

-----------------------------------------------------------------------------
(* How one task, one preparation and the placement move *)

(* A message of a task, and an execution, exist only once the task was sent. *)
JobSent == \A t \in Tasks :
  job[t].stage # "none" \/ job[t].msg \in {"queued", "taken"} => job[t].res # None

Holds(t) == job[t].stage \notin {"none", "claimed"}

InTree(t) == job[t].stage \in {"restored", "running"}

(* ensure_ready returned the placement and t is sent with it. *)
Sent(t) == /\ job[t].res = None /\ job'[t].res = "queued" /\ job'[t].stage = job[t].stage
           /\ job'[t].bind = binding /\ UNCHANGED binding
           /\ \A u \in Tasks \ {t} : job'[u] = job[u]

LEMMA SettleKeeps ==
  ASSUME job \in [Tasks -> JobStates], NEW t \in Tasks, NEW res \in Terminal,
         NEW err \in {None, "uncertain", "obsolete", "unavailable", "deadline"}
  PROVE  /\ Settle(t, res, err).bind = job[t].bind /\ Settle(t, res, err).stage = job[t].stage
         /\ Settle(t, res, err).res # None
         /\ Over(Settle(t, res, err)).bind = job[t].bind
         /\ Over(Settle(t, res, err)).stage = "none" /\ Over(Settle(t, res, err)).res # None
         /\ Over(job[t]).bind = job[t].bind /\ Over(job[t]).stage = "none"
         /\ Over(job[t]).res = job[t].res
  BY DEF Settle, Over, JobStates, Terminal, None

LEMMA JobMoves ==
  ASSUME TypeOK, JobSent, [Next]_vars, NEW u \in Tasks
  PROVE  \/ job'[u] = job[u]
         \/ Sent(u)
         \/ /\ job'[u].bind = job[u].bind /\ job'[u].res # None
            /\ Holds(u)' => Holds(u) \/ Lock(u)
            /\ InTree(u)' => InTree(u) \/ (u \in Jobs /\ Restore(u))
<1> DEFINE Moved == \/ job'[u] = job[u]
                    \/ Sent(u)
                    \/ /\ job'[u].bind = job[u].bind /\ job'[u].res # None
                       /\ Holds(u)' => Holds(u) \/ Lock(u)
                       /\ InTree(u)' => InTree(u) \/ (u \in Jobs /\ Restore(u))
<1>0. job \in [Tasks -> JobStates]
  BY DEF TypeOK
<1>a. ASSUME NEW t \in Tasks, NEW r \in Terminal,
             NEW e \in {None, "uncertain", "obsolete", "unavailable", "deadline"},
             job' = [job EXCEPT ![t] = Settle(t, r, e)]
                 \/ job' = [job EXCEPT ![t] = Over(Settle(t, r, e))]
      PROVE  Moved
  BY <1>0, <1>a, SettleKeeps DEF Holds, InTree
<1>b. ASSUME NEW t \in Tasks, NEW s, job' = [job EXCEPT ![t].stage = s], job[t].stage # "none",
             Holds(t), s \in {"restored", "running"} => InTree(t) \/ (t \in Jobs /\ Restore(t))
      PROVE  Moved
  <2>1. job'[t].bind = job[t].bind /\ job'[t].res = job[t].res /\ job'[t].stage = s
    BY <1>0, <1>b DEF JobStates
  <2>2. u # t => job'[u] = job[u]
    BY <1>0, <1>b
  <2> QED BY <1>b, <2>1, <2>2 DEF JobSent, InTree, Holds
<1>1. ASSUME NEW t \in Tasks, EnsureReturn(t) PROVE Moved
  <2>1. Dispatch(t, binding) /\ UNCHANGED binding
    BY <1>1 DEF EnsureReturn, redis
  <2>2. \/ UNCHANGED job
        \/ /\ job[t].res = None
           /\ job' = [job EXCEPT ![t].res = "queued", ![t].bind = binding, ![t].msg = "queued"]
    BY <2>1 DEF Dispatch
  <2>3. [job[t] EXCEPT !.res = "queued", !.bind = binding, !.msg = "queued"].stage = job[t].stage
        /\ [job[t] EXCEPT !.res = "queued", !.bind = binding, !.msg = "queued"].res = "queued"
        /\ [job[t] EXCEPT !.res = "queued", !.bind = binding, !.msg = "queued"].bind = binding
    BY <1>0 DEF JobStates
  <2> QED BY <1>0, <2>1, <2>2, <2>3 DEF Sent
<1>2. ASSUME NEW t \in Tasks, AwaitLost(t) \/ AwaitEnds(t) PROVE Moved
  BY <1>a, <1>2 DEF AwaitLost, AwaitEnds, Terminal
<1>3. ASSUME NEW t \in Tasks, Publish(t) \/ Abort(t) PROVE Moved
  <2>1. \E r \in Terminal, e \in {None, "uncertain", "obsolete", "deadline"} :
           job' = [job EXCEPT ![t] = Over(Settle(t, r, e))]
    BY <1>3 DEF Publish, Abort, Terminal
  <2> QED BY <1>a, <2>1
<1>4. ASSUME NEW w, WorkerKilled(w) PROVE Moved
  <2>1. \/ job'[u] = job[u]
        \/ job[u].stage # "none" /\ job'[u] = [Over(job[u]) EXCEPT !.msg = "queued"]
    BY <1>4 DEF WorkerKilled
  <2>2. /\ [Over(job[u]) EXCEPT !.msg = "queued"].stage = "none"
        /\ [Over(job[u]) EXCEPT !.msg = "queued"].bind = job[u].bind
        /\ [Over(job[u]) EXCEPT !.msg = "queued"].res = job[u].res
    BY <1>0 DEF Over, JobStates
  <2> QED BY <2>1, <2>2 DEF JobSent, Holds, InTree
<1>5. ASSUME NEW t \in Tasks, Deliver(t) PROVE Moved
  <2>1. job[t].res # None
    BY <1>5 DEF Deliver, JobSent
  <2>2. \/ job' = [job EXCEPT ![t] = [job[t] EXCEPT !.msg = "taken", !.claimed = TRUE,
                                                    !.stage = "claimed"]]
        \/ \E m \in {"acked", "taken"}, e \in {"uncertain", "obsolete"} :
              \/ job' = [job EXCEPT ![t] = [job[t] EXCEPT !.msg = m]]
              \/ job' = [job EXCEPT ![t] = [Settle(t, "failed", e) EXCEPT !.msg = m]]
    BY <1>5 DEF Deliver
  <2>3. LET c == [job[t] EXCEPT !.msg = "taken", !.claimed = TRUE, !.stage = "claimed"]
        IN  c.bind = job[t].bind /\ c.res = job[t].res /\ c.stage = "claimed"
    BY <1>0 DEF JobStates
  <2>4. ASSUME NEW m, NEW e \in {"uncertain", "obsolete"}
        PROVE  LET c == [job[t] EXCEPT !.msg = m]
                   d == [Settle(t, "failed", e) EXCEPT !.msg = m]
               IN  /\ c.bind = job[t].bind /\ c.res = job[t].res /\ c.stage = job[t].stage
                   /\ d.bind = job[t].bind /\ d.res # None /\ d.stage = job[t].stage
    BY <1>0, SettleOK, SettleKeeps DEF JobStates, Terminal
  <2>5. PICK m \in {"acked", "taken"}, e \in {"uncertain", "obsolete"} :
             \/ job' = [job EXCEPT ![t] = [job[t] EXCEPT !.msg = "taken", !.claimed = TRUE,
                                                         !.stage = "claimed"]]
             \/ job' = [job EXCEPT ![t] = [job[t] EXCEPT !.msg = m]]
             \/ job' = [job EXCEPT ![t] = [Settle(t, "failed", e) EXCEPT !.msg = m]]
    BY <2>2
  <2>6. /\ job'[t].bind = job[t].bind /\ job'[t].res # None
        /\ job'[t].stage \in {"claimed", job[t].stage}
        /\ \A v \in Tasks \ {t} : job'[v] = job[v]
    <3>1. CASE job' = [job EXCEPT ![t] = [job[t] EXCEPT !.msg = "taken", !.claimed = TRUE,
                                                        !.stage = "claimed"]]
      BY <1>0, <2>1, <2>3, <3>1
    <3>2. CASE job' = [job EXCEPT ![t] = [job[t] EXCEPT !.msg = m]]
      BY <1>0, <2>1, <3>2 DEF JobStates
    <3>3. CASE job' = [job EXCEPT ![t] = [Settle(t, "failed", e) EXCEPT !.msg = m]]
      <4>1. job'[t] = [Settle(t, "failed", e) EXCEPT !.msg = m]
            /\ \A v \in Tasks \ {t} : job'[v] = job[v]
        BY <1>0, <3>3
      <4> QED BY <2>4, <4>1
    <3> QED BY <2>5, <3>1, <3>2, <3>3
  <2> QED BY <2>6 DEF Holds, InTree
<1>6. ASSUME NEW t \in Tasks, Redeliver(t) PROVE Moved
  <2>1. job[t].res # None /\ job' = [job EXCEPT ![t].msg = "queued"]
    BY <1>6 DEF Redeliver, JobSent
  <2>2. job'[t].bind = job[t].bind /\ job'[t].res = job[t].res /\ job'[t].stage = job[t].stage
        /\ \A v \in Tasks \ {t} : job'[v] = job[v]
    BY <1>0, <2>1 DEF JobStates
  <2> QED BY <2>1, <2>2 DEF Holds, InTree
<1>7. ASSUME NEW t \in Tasks, Lock(t) PROVE Moved
  <2>1. job[t].res # None
    BY <1>7 DEF Lock, JobSent
  <2>2. PICK r \in {"running", job[t].res} :
           job' = [job EXCEPT ![t].stage = "locked", ![t].res = r]
    BY <1>7 DEF Lock
  <2>3. job'[t].bind = job[t].bind /\ job'[t].res = r /\ job'[t].stage = "locked"
        /\ \A v \in Tasks \ {t} : job'[v] = job[v]
    BY <1>0, <2>2 DEF JobStates
  <2> QED BY <1>7, <2>1, <2>3 DEF Holds, InTree, None
<1>8. ASSUME NEW j \in Jobs, SessionLost(j) \/ Restore(j) \/ MarkRound(j) \/ Effect(j) PROVE Moved
  <2>1. j \in Tasks
    BY DEF Tasks
  <2>2. CASE SessionLost(j)
    BY <1>a, <2>1, <2>2 DEF SessionLost, Terminal
  <2>3. CASE Restore(j)
    <3>1. \/ job' = [job EXCEPT ![j] = Over(Settle(j, "failed", "unavailable"))]
          \/ job' = [job EXCEPT ![j].stage = "restored"]
      BY <2>3 DEF Restore
    <3>2. job[j].stage = "read"
      BY <2>3 DEF Restore
    <3> QED BY <1>a, <1>b, <2>1, <2>3, <3>1, <3>2 DEF Terminal, Holds
  <2>4. CASE MarkRound(j) \/ Effect(j)
    BY <1>b, <2>1, <2>4 DEF MarkRound, Effect, Holds, InTree
  <2> QED BY <1>8, <2>2, <2>3, <2>4
<1>9. ASSUME NEW j \in Jobs, ReadRounds(j) PROVE Moved
  <2>1. j \in Tasks /\ job[j].stage = "locked"
    BY <1>9 DEF Tasks, ReadRounds
  <2>2. PICK r : job' = [job EXCEPT ![j].stage = "read", ![j].prev = mark, ![j].round = r]
    BY <1>9 DEF ReadRounds
  <2>3. job'[j].bind = job[j].bind /\ job'[j].res = job[j].res /\ job'[j].stage = "read"
        /\ \A v \in Tasks \ {j} : job'[v] = job[v]
    BY <1>0, <2>1, <2>2 DEF JobStates
  <2> QED BY <2>1, <2>3 DEF JobSent, Holds, InTree
<1>10. ASSUME NEW r \in Rounds, CheckpointSave(r) \/ CheckpointClear(r) \/ CheckpointClose(r) PROVE Moved
  <2>1. r \in Tasks /\ Holds(r)
    BY <1>10 DEF Tasks, CheckpointSave, CheckpointClear, CheckpointClose, Holds
  <2>2. \/ \E s \in {"saved", "cleared", "collected"} : job' = [job EXCEPT ![r].stage = s]
        \/ \E e \in {"deadline", "unavailable"} :
              job' = [job EXCEPT ![r] = Over(Settle(r, "failed", e))]
    BY <1>10 DEF CheckpointSave, CheckpointClear, CheckpointClose
  <2> QED BY <1>a, <1>b, <2>1, <2>2 DEF Terminal, Holds
<1>11. CASE UNCHANGED job
  BY <1>11
<1> QED
  BY ZenonT(60), <1>1, <1>2, <1>3, <1>4, <1>5, <1>6, <1>7, <1>8, <1>9, <1>10, <1>11
  DEF Next, vars, Client, Worker, Prep, BeginRead, BeginWrite, FinishRound, JudgeRound, Submit,
      EnsureGone, ReturnFenced, EnsureRecover, Acquire, LocalPrepare, LocalGiveUp, PrepLost,
      PrepFailed, PrepStale, Commit, GiveUp, ResetPrepare, ClientFails, ClientDies, AwaitResult,
      LeaseRemoved, LeaseLapses, Heartbeat, WorkerStart, PrepDeliver, PrepLock, PrepAct,
      PrepCheck, PrepDone, PrepAborts, RecoveryExpires, RoundExpires, Evict, EvictKilled,
      WorkerCrash, Expire, Cleanup

(* A preparation waits or works for a client, and only once it was sent. *)
PrepSent == \A n \in Preps :
  preps[n].stage # "none" \/ preps[n].msg = "queued" => preps[n].rec \in Tasks /\ preps[n].res # None

Prepares(n) == preps[n].stage \in {"locked", "acted", "checked"}

(* A preparation has validated what it made, or said so. *)
Checked(n) == preps[n].stage = "checked" \/ preps[n].res = "completed"

LEMMA SettlePrepKeeps ==
  ASSUME preps \in [Preps -> PrepStates], NEW n \in Preps, NEW res \in Terminal \cup {preps[n].res}
  PROVE  /\ SettlePrep(n, res).ws = preps[n].ws /\ SettlePrep(n, res).stage = preps[n].stage
         /\ SettlePrep(n, res).rec = preps[n].rec /\ SettlePrep(n, res).msg = preps[n].msg
         /\ SettlePrep(n, res).res \in {res, preps[n].res}
         /\ PrepOver(SettlePrep(n, res)).ws = preps[n].ws
         /\ PrepOver(SettlePrep(n, res)).stage = "none" /\ PrepOver(SettlePrep(n, res)).msg = "acked"
         /\ PrepOver(SettlePrep(n, res)).res \in {res, preps[n].res}
  BY DEF SettlePrep, PrepOver, PrepStates

LEMMA PrepMoves ==
  ASSUME TypeOK, WorkersBound, PrepSent, [Next]_vars, NEW m \in Preps
  PROVE  \/ preps'[m] = preps[m]
         \/ /\ preps[m].res = None /\ preps'[m].res = "queued" /\ preps'[m].stage = "none"
            /\ preps'[m].rec \in Tasks
         \/ /\ preps'[m].ws = preps[m].ws /\ preps[m].res # None /\ preps'[m].res # None
            /\ preps'[m].stage # "none" \/ preps'[m].msg = "queued" => preps'[m].rec \in Tasks
            /\ Prepares(m)' => Prepares(m) \/ PrepLock(m)
            /\ preps'[m].stage = "acted" => preps[m].stage = "acted" \/ PrepAct(m)
            /\ Checked(m)' => Checked(m) \/ (PrepCheck(m) /\ PrepValid(m))
<1> DEFINE Sent1 == /\ preps[m].res = None /\ preps'[m].res = "queued" /\ preps'[m].stage = "none"
                    /\ preps'[m].rec \in Tasks
           Works == /\ preps'[m].ws = preps[m].ws /\ preps[m].res # None /\ preps'[m].res # None
                    /\ preps'[m].stage # "none" \/ preps'[m].msg = "queued"
                         => preps'[m].rec \in Tasks
                    /\ Prepares(m)' => Prepares(m) \/ PrepLock(m)
                    /\ preps'[m].stage = "acted" => preps[m].stage = "acted" \/ PrepAct(m)
                    /\ Checked(m)' => Checked(m) \/ (PrepCheck(m) /\ PrepValid(m))
           Moved == preps'[m] = preps[m] \/ Sent1 \/ Works
<1>0. preps \in [Preps -> PrepStates] /\ client \in [Tasks -> ClientStates]
  BY DEF TypeOK
<1>1. ASSUME NEW t \in Tasks, LocalPrepare(t) \/ ResetPrepare(t) PROVE Moved
  <2>1. ASSUME NEW w, NEW restore, NEW n \in Preps, NEW ws, SendPrep(t, w, restore, n, ws)
        PROVE  Moved
    BY <1>0, <2>1 DEF SendPrep
  <2>2. CASE LocalPrepare(t)
    BY <2>1, <2>2 DEF LocalPrepare
  <2>3. CASE ResetPrepare(t)
    BY <2>1, <2>3 DEF ResetPrepare
  <2> QED BY <1>1, <2>2, <2>3
<1>2. ASSUME NEW t \in Tasks, client[t].cur # 0,
             preps' = [preps EXCEPT ![client[t].cur] = SettlePrep(client[t].cur, "failed")]
      PROVE  Moved
  <2>1. client[t].cur \in Preps
    BY <1>0, <1>2, SandboxBounds DEF ClientStates, Preps
  <2>2. preps[client[t].cur].res # None
    BY <1>2 DEF WorkersBound
  <2>3. SettlePrep(client[t].cur, "failed").res \in {"failed", preps[client[t].cur].res}
    BY <1>0, <2>1, SettlePrepKeeps DEF Terminal
  <2> QED BY <1>0, <1>2, <2>1, <2>2, <2>3, SettlePrepKeeps
    DEF Terminal, None, Prepares, Checked, PrepSent
<1>3. ASSUME NEW t \in Tasks, PrepLost(t) \/ ClientFails(t) PROVE Moved
  BY <1>2, <1>3 DEF PrepLost, ClientFails
<1>4. ASSUME NEW w, WorkerKilled(w) PROVE Moved
  <2>1. \/ preps'[m] = preps[m]
        \/ /\ preps[m].stage # "none"
           /\ preps'[m] = [preps[m] EXCEPT !.msg = "queued", !.stage = "none"]
    BY <1>4 DEF WorkerKilled
  <2>2. LET p == [preps[m] EXCEPT !.msg = "queued", !.stage = "none"]
        IN  /\ p.ws = preps[m].ws /\ p.res = preps[m].res /\ p.stage = "none"
            /\ p.rec = preps[m].rec
    BY <1>0 DEF PrepStates
  <2> QED BY <2>1, <2>2 DEF PrepSent, Prepares, Checked
<1>5. ASSUME NEW n \in Preps, NEW r \in Terminal \cup {preps[n].res}, preps[n].res # None,
             r = "completed" => Checked(n),
             preps' = [preps EXCEPT ![n] = PrepOver(SettlePrep(n, r))]
      PROVE  Moved
  <2>1. PrepOver(SettlePrep(n, r)).res \in {r, preps[n].res}
    BY <1>0, SettlePrepKeeps
  <2> QED BY <1>0, <1>5, <2>1, SettlePrepKeeps DEF Checked, Prepares, Terminal, None
<1>6. ASSUME NEW n \in Preps, Prep(n) PROVE Moved
  <2>1. preps[n].rec \in Tasks /\ preps[n].res # None
    BY <1>6 DEF PrepSent, Prep, PrepDeliver, PrepLock, PrepAct, PrepCheck, PrepDone, PrepAborts
  <2>2. CASE PrepDeliver(n)
    <3>1. CASE preps' = [preps EXCEPT ![n] = [preps[n] EXCEPT !.msg = "taken", !.stage = "claimed",
                                                              !.res = "running"]]
      <4>1. LET p == [preps[n] EXCEPT !.msg = "taken", !.stage = "claimed", !.res = "running"]
            IN  /\ p.ws = preps[n].ws /\ p.res = "running" /\ p.stage = "claimed"
                /\ p.rec = preps[n].rec
        BY <1>0 DEF PrepStates
      <4> QED BY <1>0, <2>1, <3>1, <4>1 DEF Prepares, Checked, None
    <3>2. \/ preps' = [preps EXCEPT ![n] = [preps[n] EXCEPT !.msg = "taken", !.stage = "claimed",
                                                            !.res = "running"]]
          \/ \E r \in {preps[n].res, "failed"} :
                preps' = [preps EXCEPT ![n] = PrepOver(SettlePrep(n, r))]
      BY <2>2 DEF PrepDeliver
    <3> QED BY <1>5, <2>1, <3>1, <3>2 DEF Terminal, Checked
  <2>3. CASE PrepLock(n)
    <3>1. /\ preps'[n].ws = preps[n].ws /\ preps'[n].res = preps[n].res
          /\ preps'[n].stage = "locked" /\ preps'[n].rec = preps[n].rec
          /\ \A k \in Preps \ {n} : preps'[k] = preps[k]
      BY <1>0, <2>3 DEF PrepLock, PrepStates
    <3> QED BY <2>1, <2>3, <3>1 DEF Prepares, Checked
  <2>4. CASE PrepAct(n)
    <3>1. CASE preps' = [preps EXCEPT ![n].stage = "acted"]
      <4>1. /\ preps'[n].ws = preps[n].ws /\ preps'[n].res = preps[n].res
            /\ preps'[n].stage = "acted" /\ preps'[n].rec = preps[n].rec
            /\ \A k \in Preps \ {n} : preps'[k] = preps[k]
        BY <1>0, <3>1 DEF PrepStates
      <4> QED BY <2>1, <2>4, <4>1 DEF Prepares, Checked, PrepAct
    <3>2. CASE preps' = [preps EXCEPT ![n] = PrepOver(SettlePrep(n, "failed"))]
      BY <1>5, <2>1, <3>2 DEF Terminal, Checked
    <3> QED BY <2>4, <3>1, <3>2 DEF PrepAct
  <2>5. CASE PrepDone(n)
    BY <1>5, <2>1, <2>5 DEF PrepCheck, PrepDone, Checked, Terminal
  <2>7. CASE PrepCheck(n)
    <3>1. CASE PrepValid(n)
      <4>1. preps' = [preps EXCEPT ![n] = [preps[n] EXCEPT !.stage = "checked"]]
        BY <2>7, <3>1 DEF PrepCheck
      <4>2. LET p == [preps[n] EXCEPT !.stage = "checked"]
            IN  /\ p.ws = preps[n].ws /\ p.res = preps[n].res /\ p.stage = "checked"
                /\ p.rec = preps[n].rec
        BY <1>0 DEF PrepStates
      <4> QED BY <1>0, <2>1, <2>7, <3>1, <4>1, <4>2 DEF Prepares, Checked, PrepCheck
    <3>2. CASE ~PrepValid(n)
      <4>1. preps' = [preps EXCEPT ![n] = PrepOver(SettlePrep(n, "failed"))]
        BY <2>7, <3>2 DEF PrepCheck
      <4> QED BY <1>5, <2>1, <4>1 DEF Terminal, Checked
    <3> QED BY <3>1, <3>2
  <2>6. CASE PrepAborts(n)
    BY <1>5, <2>1, <2>6 DEF PrepAborts, Checked, Terminal
  <2> QED BY <1>6, <2>2, <2>3, <2>4, <2>5, <2>6, <2>7 DEF Prep
<1>7. CASE UNCHANGED preps
  BY <1>7
<1> QED
  BY ZenonT(60), <1>1, <1>3, <1>4, <1>6, <1>7
  DEF Next, vars, Client, Worker, BeginRead, BeginWrite, FinishRound, JudgeRound, Submit,
      CheckpointSave, CheckpointClear, CheckpointClose, SessionLost, ReadRounds, Restore,
      MarkRound, Effect, EnsureGone, EnsureReturn, ReturnFenced, EnsureRecover, Acquire,
      LocalGiveUp, PrepFailed, PrepStale, Commit, GiveUp, ClientDies, AwaitLost, AwaitEnds,
      AwaitResult, Deliver, Redeliver, Lock, Publish, Abort, LeaseRemoved, LeaseLapses, Heartbeat,
      WorkerStart, RecoveryExpires, RoundExpires, Evict, EvictKilled, WorkerCrash, Expire, Cleanup

(* A placement carries an epoch, nobody recovers a session without one, and one that *)
(* is READY is not being recovered.                                                  *)
Bound == /\ binding # NoBinding => binding.epoch >= 1 /\ binding.status # None
         /\ owner # None => binding # NoBinding
         /\ binding.status = "READY" => binding.rec = None

(* commit_recovery of t succeeds. *)
Commits(t) == /\ Commit(t) /\ MayCommit(t) /\ client[t].cur # 0
              /\ binding' = Placement(t) /\ binding'.epoch = binding.epoch + 1
              /\ binding'.status = "READY" /\ binding'.rec = None

(* The placement stays what it was, is withdrawn, or is replaced by a commit. *)
LEMMA BindingMoves ==
  ASSUME TypeOK, Bound, [Next]_vars
  PROVE  /\ \/ UNCHANGED binding
            \/ /\ binding'.status \notin {"READY", None} /\ binding'.epoch >= 1
               /\ binding'.epoch > binding.epoch \/ Matches(binding', binding)
            \/ \E t \in Tasks : Commits(t)
         /\ Bound'
<1> DEFINE Withdrawn == /\ binding'.status \notin {"READY", None} /\ binding'.epoch >= 1
                        /\ binding'.epoch > binding.epoch \/ Matches(binding', binding)
           Moved == /\ \/ UNCHANGED binding
                       \/ Withdrawn
                       \/ \E t \in Tasks : Commits(t)
                    /\ Bound'
<1>0. /\ binding \in Bindings /\ client \in [Tasks -> ClientStates] /\ binding.epoch \in Nat
      /\ owner \in Tasks \cup {None}
  BY DEF TypeOK, RedisOK, Bindings
<1>a. ASSUME binding'.status # None PROVE binding' # NoBinding
  BY <1>a DEF NoBinding
<1>b. NoBinding.status # "READY" /\ NoBinding.rec = None /\ NoBinding.status = None /\ NoBinding.epoch = 0
  BY DEF NoBinding, None
<1>1. ASSUME NEW t \in Tasks, Acquire(t) PROVE Moved
  <2>1. CASE UNCHANGED <<binding, owner>>
    BY <2>1 DEF Bound
  <2>2. ASSUME NEW b \in Candidates, binding' = Recovered(b, t) PROVE Moved
    <3>1. b \in Bindings
      BY CandidatesOK
    <3>2. /\ binding'.status = "RECOVERING" /\ binding'.epoch = b.epoch /\ binding'.gen = b.gen
          /\ binding'.ws = b.ws /\ binding'.worker = b.worker /\ binding'.inst = b.inst
      BY <2>2, <3>1 DEF Recovered, Bindings
    <3>3. CASE binding # NoBinding
      BY <1>a, <3>2, <3>3 DEF Candidates, Bound, Matches, None
    <3>4. CASE binding = NoBinding
      <4>1. b.epoch = 1
        BY <3>4 DEF Candidates, NoBinding
      <4> QED BY <1>a, <1>b, <3>2, <3>4, <4>1 DEF Bound, None
    <3> QED BY <3>3, <3>4
  <2> QED BY <1>1, <2>1, <2>2 DEF Acquire
<1>2. ASSUME NEW t \in Tasks, Commit(t) PROVE Moved
  <2>1. CASE UNCHANGED <<binding, owner>>
    BY <2>1 DEF Bound
  <2>2. CASE MayCommit(t)
    <3>1. /\ client[t].cur # 0 /\ binding' = Placement(t) /\ owner' = None
          /\ client[t].own.epoch = binding.epoch /\ client[t].own \in Bindings
      BY <1>0, <1>2, <2>2 DEF Commit, MayCommit, Current, Matches, ClientStates
    <3>2. /\ binding'.epoch = binding.epoch + 1 /\ binding'.status = "READY" /\ binding'.rec = None
      BY <3>1 DEF Placement, Refreshed, Replacement, Bindings
    <3> QED BY <1>0, <1>2, <2>2, <3>1, <3>2, <1>a DEF Commits, Bound, None
  <2> QED BY <1>2, <2>1, <2>2 DEF Commit
<1>3. ASSUME binding' = Abandoned(binding), binding # NoBinding, owner' = None PROVE Moved
  <2>1. binding'.status = "UNAVAILABLE" /\ binding'.epoch = binding.epoch + 1
    BY <1>0, <1>3 DEF Abandoned, Bindings
  <2> QED BY <1>0, <1>a, <1>3, <2>1 DEF Bound, None
<1>4. ASSUME NEW t \in Tasks, AbandonRecovery(t) PROVE Moved
  <2>1. CASE UNCHANGED <<binding, owner>>
    BY <2>1 DEF Bound
  <2>2. CASE RecoveryMatches(client[t].own, t) /\ binding' = Abandoned(binding) /\ owner' = None
    <3>1. owner = t /\ owner # None
      BY <2>2, Names DEF RecoveryMatches
    <3> QED BY <1>3, <2>2, <3>1 DEF Bound
  <2> QED BY <1>4, <2>1, <2>2 DEF AbandonRecovery
<1>5. ASSUME NEW t \in Tasks, GiveUp(t) PROVE Moved
  <2>1. CASE UNCHANGED <<binding, owner>>
    BY <2>1 DEF Bound
  <2>2. CASE /\ MayCommit(t) /\ binding' = [client[t].own EXCEPT !.status = "RESETTING"]
             /\ owner' = owner
    <3>1. binding # NoBinding /\ client[t].own \in Bindings /\ Matches(client[t].own, binding)
      BY <1>0, <2>2, Names DEF MayCommit, Current, Bound, ClientStates
    <3>2. binding'.status = "RESETTING" /\ Matches(binding', binding)
      BY <2>2, <3>1 DEF Matches, Bindings
    <3> QED BY <1>0, <1>a, <3>1, <3>2 DEF Bound, Matches, None
  <2> QED BY <1>4, <1>5, <2>1, <2>2 DEF GiveUp
<1>6. ASSUME NEW t \in Tasks, ClientFails(t) PROVE Moved
  BY <1>4, <1>6 DEF ClientFails
<1>7. CASE Cleanup
  BY <1>3, <1>7, <1>b DEF Cleanup, Tombstone, LifecycleReady
<1>8. CASE UNCHANGED binding /\ owner' \in {owner, None}
  BY <1>8 DEF Bound
<1> QED
  BY ZenonT(60), <1>1, <1>2, <1>5, <1>6, <1>7, <1>8
  DEF Next, vars, redis, Client, Worker, Prep, BeginRead, BeginWrite, FinishRound, JudgeRound,
      CheckpointSave, CheckpointClear, CheckpointClose, Submit, SessionLost, ReadRounds, Restore,
      MarkRound, Effect, EnsureGone, EnsureReturn, ReturnFenced, EnsureRecover, LocalPrepare,
      LocalGiveUp, PrepLost, PrepFailed, PrepStale, ResetPrepare, ClientDies, AwaitLost,
      AwaitEnds, AwaitResult, Deliver, Redeliver, Lock, Publish, Abort, WorkerCrash, WorkerKilled,
      EvictKilled, LeaseRemoved, LeaseLapses, Heartbeat, WorkerStart, PrepDeliver, PrepLock,
      PrepAct, PrepCheck, PrepDone, PrepAborts, RecoveryExpires, RoundExpires, Evict, Expire

(* A command is about to run in a directory that is there. *)
RunsInTree == \A t \in Tasks : InTree(t) => files[job[t].bind.ws] # Missing

Kept(ws) == files[ws] # Missing \/ saved[ws] # Missing

KeptNext(ws) == files'[ws] # Missing \/ saved'[ws] # Missing

Trees == (SUBSET Jobs) \cup {Missing}

LEMMA RestoredOK ==
  ASSUME DisksOK, NEW ws \in Workspaces, NEW allowEmpty \in BOOLEAN, NEW force \in BOOLEAN
  PROVE  Restored(ws, allowEmpty, force) \in Trees
  BY DEF Restored, DisksOK, Trees

(* Only an eviction and a cleanup remove a directory, under the lock of the workspace; *)
(* only a cleanup removes the last copy of a workspace.                                *)
LEMMA DisksMove ==
  ASSUME TypeOK, RunsInTree, [Next]_vars
  PROVE  /\ DisksOK'
         /\ \A ws \in Workspaces :
              /\ files[ws] # Missing => files'[ws] # Missing \/ LockFree(ws)
              /\ Kept(ws) => Kept(ws)' \/ session' = "gone"
<1> DEFINE Moved ==
      /\ DisksOK'
      /\ \A ws \in Workspaces :
           /\ files[ws] # Missing => files'[ws] # Missing \/ LockFree(ws)
           /\ Kept(ws) => Kept(ws)' \/ session' = "gone"
<1>0. /\ files \in [Workspaces -> Trees] /\ saved \in [Workspaces -> Trees]
      /\ DisksOK
  BY DEF TypeOK, DisksOK, Trees
<1>a. ASSUME files' \in [Workspaces -> Trees], saved' \in [Workspaces -> Trees] PROVE DisksOK'
  BY <1>a DEF DisksOK, Trees
<1>b. ASSUME NEW ws \in Workspaces, NEW tree \in Trees, tree # Missing \/ tree = files[ws],
             PutTree(ws, tree), UNCHANGED saved \/ PutArchive(ws, tree)
      PROVE  Moved
  <2>1. files' = [files EXCEPT ![ws] = tree]
    BY <1>b DEF PutTree
  <2>2. \/ saved' = saved
        \/ tree # Missing /\ saved' = [saved EXCEPT ![ws] = tree]
    BY <1>0, <1>b DEF PutArchive
  <2>3. DisksOK'
    BY <1>0, <1>a, <1>b, <2>1, <2>2
  <2> QED BY <1>0, <1>b, <2>1, <2>2, <2>3 DEF Kept
<1>c. ASSUME UNCHANGED <<files, saved>> PROVE Moved
  BY <1>0, <1>a, <1>c DEF Kept
<1>d. Missing \in Trees
  BY DEF Trees
<1>1. ASSUME NEW n \in Preps, PrepAct(n) PROVE Moved
  <2>1. preps[n].ws \in Workspaces /\ Missing \notin SUBSET Jobs
    BY Names DEF TypeOK, PrepStates, Missing
  <2>2. Restored(preps[n].ws, session = "empty", Interrupted(active)) \in Trees
    BY <1>0, <2>1, RestoredOK DEF Interrupted
  <2>3. CASE UNCHANGED <<files, saved>>
    BY <1>c, <2>3
  <2>4. ASSUME NEW tree,
               tree = IF preps[n].restore
                      THEN Restored(preps[n].ws, session = "empty", Interrupted(active))
                      ELSE IF files[preps[n].ws] = Missing THEN {} ELSE files[preps[n].ws],
               tree # Missing, PutTree(preps[n].ws, tree), UNCHANGED saved
        PROVE  Moved
    <3>1. tree \in Trees
      BY <1>0, <2>1, <2>2, <2>4 DEF Trees
    <3> QED BY <1>b, <2>1, <2>4, <3>1
  <2> QED BY <1>1, <2>3, <2>4 DEF PrepAct
<1>2. ASSUME NEW j \in Jobs, Restore(j) PROVE Moved
  <2>1. job[j].bind.ws \in Workspaces
    BY DEF TypeOK, JobStates, Bindings, Tasks
  <2>2. Restored(job[j].bind.ws, session = "empty", OtherRound(j)) \in Trees
    BY <1>0, <2>1, RestoredOK DEF OtherRound
  <2>3. CASE UNCHANGED <<files, saved>>
    BY <1>c, <2>3
  <2> QED BY <1>2, <1>b, <2>1, <2>2, <2>3 DEF Restore
<1>3. ASSUME NEW j \in Jobs, Effect(j) PROVE Moved
  <2>1. j \in Tasks /\ job[j].bind.ws \in Workspaces
    BY DEF TypeOK, JobStates, Bindings, Tasks
  <2>2. files[job[j].bind.ws] \in SUBSET Jobs
    <3>1. InTree(j)
      BY <1>3 DEF Effect, InTree
    <3>2. files[job[j].bind.ws] # Missing
      BY <2>1, <3>1 DEF RunsInTree
    <3>3. files[job[j].bind.ws] \in Trees
      BY <1>0, <2>1
    <3> QED BY <3>2, <3>3 DEF Trees
  <2>3. files[job[j].bind.ws] \cup {j} \in Trees /\ files[job[j].bind.ws] \cup {j} # Missing
    BY <2>2, Names DEF Trees, Missing
  <2> QED BY <1>3, <1>b, <2>1, <2>3 DEF Effect, PutTree
<1>4. ASSUME NEW r \in Rounds, CheckpointSave(r) PROVE Moved
  <2>1. job[r].bind.ws \in Workspaces
    BY DEF TypeOK, JobStates, Bindings, Tasks
  <2>2. Restored(job[r].bind.ws, FALSE, Interrupted(r)) \in Trees
    BY <1>0, <2>1, RestoredOK DEF Interrupted
  <2>3. CASE UNCHANGED <<files, saved>>
    BY <1>c, <2>3
  <2>4. ASSUME NEW tree,
               tree = IF Interrupted(r) \/ session = "used"
                      THEN Restored(job[r].bind.ws, FALSE, Interrupted(r))
                      ELSE files[job[r].bind.ws],
               ~(tree = Missing /\ (Interrupted(r) \/ session = "used")),
               PutTree(job[r].bind.ws, tree), PutArchive(job[r].bind.ws, tree)
        PROVE  Moved
    <3>1. tree \in Trees
      BY <1>0, <2>1, <2>2, <2>4
    <3>2. tree # Missing \/ tree = files[job[r].bind.ws]
      BY <2>4
    <3> QED BY <1>b, <2>1, <2>4, <3>1, <3>2
  <2> QED BY <1>4, <2>3, <2>4 DEF CheckpointSave, disks
<1>5. CASE Evict \/ EvictKilled
  <2>1. /\ binding.ws \in Workspaces /\ LockFree(binding.ws) /\ EvictedTree # Missing
        /\ EvictedTree \in Trees
    BY <1>0, <1>5 DEF Evict, EvictKilled, MayEvict, EvictedTree, TypeOK, RedisOK, Bindings
  <2>2. PICK left \in (SUBSET EvictedTree) \cup {Missing} :
          /\ files' = [files EXCEPT ![binding.ws] = left]
          /\ saved' = [saved EXCEPT ![binding.ws] = EvictedTree]
    BY <1>5, <2>1 DEF Evict, EvictKilled, PutTree, PutArchive
  <2>3. DisksOK'
    <3>1. left \in Trees
      BY <2>1, <2>2 DEF Trees
    <3>2. files' \in [Workspaces -> Trees] /\ saved' \in [Workspaces -> Trees]
      BY <1>0, <1>d, <2>1, <2>2, <3>1
    <3> QED BY <1>a, <3>2
  <2> QED BY <1>0, <2>1, <2>2, <2>3 DEF Kept
<1>6. CASE Cleanup
  <2>1. /\ binding.ws \in Workspaces /\ LockFree(binding.ws)
        /\ session' = "gone"
        /\ files' = [files EXCEPT ![binding.ws] = Missing]
        /\ saved' = [saved EXCEPT ![binding.ws] = Missing]
    BY <1>6 DEF Cleanup, TypeOK, RedisOK, Bindings
  <2>2. DisksOK'
    <3>1. files' \in [Workspaces -> Trees] /\ saved' \in [Workspaces -> Trees]
      BY <1>0, <1>d, <2>1
    <3> QED BY <1>a, <3>1
  <2> QED BY <1>0, <2>1, <2>2 DEF Kept
<1>7. CASE UNCHANGED disks
  BY <1>0, <1>7, <1>a DEF disks, Kept
<1> QED
  BY ZenonT(60), <1>1, <1>2, <1>3, <1>4, <1>5, <1>6, <1>7
  DEF Next, vars, disks, Client, Worker, Prep, BeginRead, BeginWrite, FinishRound, JudgeRound,
      CheckpointClear, CheckpointClose, Submit, SessionLost, ReadRounds, MarkRound,
      EnsureGone, EnsureReturn, ReturnFenced, EnsureRecover, Acquire, LocalPrepare, LocalGiveUp,
      PrepLost, PrepFailed, PrepStale, Commit, GiveUp, ResetPrepare, ClientFails, ClientDies,
      AwaitLost, AwaitEnds, AwaitResult, Deliver, Redeliver, Lock, Publish, Abort, WorkerCrash,
      LeaseRemoved, LeaseLapses, Heartbeat, WorkerStart, PrepDeliver, PrepLock, PrepCheck, PrepDone,
      PrepAborts, RecoveryExpires, RoundExpires, Expire

-----------------------------------------------------------------------------
(* The workspace lock *)

(* A workspace is worked in by one command, checkpoint or preparation at a time. *)
OneHolder ==
  /\ \A t, u \in Tasks : Holds(t) /\ Holds(u) /\ job[t].bind.ws = job[u].bind.ws => t = u
  /\ \A t \in Tasks, n \in Preps : Holds(t) /\ Prepares(n) => job[t].bind.ws # preps[n].ws
  /\ \A m, n \in Preps : Prepares(m) /\ Prepares(n) /\ preps[m].ws = preps[n].ws => m = n

LEMMA LockExcludes ==
  ASSUME NEW ws, LockFree(ws)
  PROVE  /\ \A t \in Tasks : Holds(t) => job[t].bind.ws # ws
         /\ \A n \in Preps : Prepares(n) => preps[n].ws # ws
  BY DEF LockFree, Holds, Prepares

LEMMA SentStep ==
  ASSUME TypeOK, WorkersBound, JobSent, PrepSent, [Next]_vars
  PROVE  JobSent' /\ PrepSent'
<1>1. JobSent'
  <2> SUFFICES ASSUME NEW t \in Tasks, job'[t].stage # "none" \/ job'[t].msg \in {"queued", "taken"}
               PROVE  job'[t].res # None
    BY DEF JobSent
  <2> QED BY JobMoves DEF JobSent, Sent, None
<1>2. PrepSent'
  <2> SUFFICES ASSUME NEW n \in Preps, preps'[n].stage # "none" \/ preps'[n].msg = "queued"
               PROVE  preps'[n].rec \in Tasks /\ preps'[n].res # None
    BY DEF PrepSent
  <2> QED BY PrepMoves DEF PrepSent, None
<1> QED BY <1>1, <1>2

(* A task that holds its workspace held it before, or took it just now. *)
LEMMA HoldsBefore ==
  ASSUME TypeOK, JobSent, [Next]_vars, NEW t \in Tasks, Holds(t)'
  PROVE  job'[t].bind = job[t].bind /\ (Holds(t) \/ Lock(t))
<1>1. ~Sent(t)
  BY DEF Sent, JobSent, Holds
<1> QED BY <1>1, JobMoves DEF Holds

LEMMA PreparesBefore ==
  ASSUME TypeOK, WorkersBound, PrepSent, [Next]_vars, NEW n \in Preps, Prepares(n)'
  PROVE  preps'[n].ws = preps[n].ws /\ (Prepares(n) \/ PrepLock(n))
  BY PrepMoves DEF Prepares

LEMMA OneHolderStep ==
  ASSUME TypeOK, WorkersBound, JobSent, PrepSent, OneHolder, [Next]_vars
  PROVE  OneHolder'
<1>1. ASSUME NEW t \in Tasks, Lock(t)
      PROVE  /\ LockFree(job[t].bind.ws) /\ UNCHANGED preps
             /\ \A u \in Tasks : Lock(u) => u = t
  <2>1. PICK r \in {"running", job[t].res} : job' = [job EXCEPT ![t].stage = "locked", ![t].res = r]
    BY <1>1 DEF Lock
  <2>2. job'[t].stage = "locked" /\ job[t].stage = "claimed"
    BY <1>1, <2>1 DEF Lock, TypeOK, JobStates
  <2>3. ASSUME NEW u \in Tasks, Lock(u), u # t PROVE FALSE
    <3>1. PICK q \in {"running", job[u].res} : job' = [job EXCEPT ![u].stage = "locked", ![u].res = q]
      BY <2>3 DEF Lock
    <3>2. job'[t] = job[t]
      BY <2>3, <3>1 DEF TypeOK
    <3> QED BY <2>2, <3>2
  <2> QED BY <1>1, <2>3 DEF Lock
<1>2. ASSUME NEW n \in Preps, PrepLock(n)
      PROVE  /\ LockFree(preps[n].ws) /\ UNCHANGED job
             /\ \A m \in Preps : PrepLock(m) => m = n
  BY <1>2 DEF PrepLock, TypeOK, PrepStates
<1>3. ASSUME NEW t \in Tasks, NEW u \in Tasks, Holds(t)', Holds(u)',
             job'[t].bind.ws = job'[u].bind.ws
      PROVE  t = u
  BY <1>1, <1>3, HoldsBefore, LockExcludes DEF OneHolder
<1>4. ASSUME NEW t \in Tasks, NEW n \in Preps, Holds(t)', Prepares(n)'
      PROVE  job'[t].bind.ws # preps'[n].ws
  <2>1. job'[t].bind = job[t].bind /\ (Holds(t) \/ Lock(t))
    BY <1>4, HoldsBefore
  <2>2. preps'[n].ws = preps[n].ws /\ (Prepares(n) \/ PrepLock(n))
    BY <1>4, PreparesBefore
  <2>3. Holds(t) \/ Prepares(n)
    BY <1>1, <1>4, <2>1, <2>2 DEF Prepares, PrepLock
  <2> QED BY <1>1, <1>2, <2>1, <2>2, <2>3, LockExcludes DEF OneHolder
<1>5. ASSUME NEW m \in Preps, NEW n \in Preps, Prepares(m)', Prepares(n)',
             preps'[m].ws = preps'[n].ws
      PROVE  m = n
  BY <1>2, <1>5, PreparesBefore, LockExcludes DEF OneHolder
<1> QED BY <1>3, <1>4, <1>5 DEF OneHolder

LEMMA RunsInTreeStep ==
  ASSUME TypeOK, JobSent, RunsInTree, [Next]_vars
  PROVE  RunsInTree'
<1> SUFFICES ASSUME NEW t \in Tasks, InTree(t)'
             PROVE  files'[job'[t].bind.ws] # Missing
  BY DEF RunsInTree
<1>1. Holds(t)'
  BY DEF Holds, InTree
<1>2. job'[t].bind = job[t].bind
  BY <1>1, HoldsBefore
<1>3. job[t].bind.ws \in Workspaces
  BY DEF TypeOK, JobStates, Bindings
<1>4. CASE InTree(t)
  <2>1. LockFree(job[t].bind.ws) => FALSE
    BY <1>4, LockExcludes DEF InTree, Holds
  <2> QED BY <1>2, <1>3, <1>4, <2>1, DisksMove DEF RunsInTree
<1>5. CASE t \in Jobs /\ Restore(t)
  <2>1. \/ job' = [job EXCEPT ![t] = Over(Settle(t, "failed", "unavailable"))]
        \/ /\ PutTree(job[t].bind.ws, Restored(job[t].bind.ws, session = "empty", OtherRound(t)))
           /\ Restored(job[t].bind.ws, session = "empty", OtherRound(t)) # Missing
    BY <1>5 DEF Restore
  <2>2. job' # [job EXCEPT ![t] = Over(Settle(t, "failed", "unavailable"))]
    BY SettleKeeps DEF InTree, TypeOK, Terminal
  <2> QED BY <1>2, <1>3, <2>1, <2>2 DEF PutTree, TypeOK, DisksOK
<1>6. InTree(t) \/ (t \in Jobs /\ Restore(t))
  <2>1. ~Sent(t)
    BY DEF Sent, JobSent, InTree
  <2> QED BY <2>1, JobMoves DEF InTree
<1> QED BY <1>4, <1>5, <1>6

-----------------------------------------------------------------------------
(* The epochs fence the placements *)

Epochs ==
  /\ \A t \in Tasks : job[t].bind # NoBinding =>
       /\ job[t].bind.epoch >= 1 /\ job[t].bind.epoch <= binding.epoch
       /\ job[t].bind.epoch = binding.epoch => Matches(job[t].bind, binding)
  /\ \A t, u \in Tasks : job[t].bind # NoBinding /\ job[u].bind # NoBinding
        /\ job[u].bind.epoch = job[t].bind.epoch => Matches(job[u].bind, job[t].bind)

LEMMA EpochsStep ==
  ASSUME TypeOK, JobSent, Bound, Epochs, [Next]_vars
  PROVE  Epochs'
<1>0. /\ \A t \in Tasks : job[t].bind \in Bindings
      /\ binding \in Bindings /\ binding.epoch \in Nat /\ NoBinding.epoch = 0
      /\ binding' \in Bindings /\ binding'.epoch \in Nat
      /\ \A t \in Tasks : job[t].bind.epoch \in Nat
  BY RedisStep DEF TypeOK, JobStates, RedisOK, Bindings, NoBinding
<1>1. /\ binding'.epoch > binding.epoch \/ Matches(binding', binding)
  BY <1>0, BindingMoves DEF Commits, Matches
<1>2. \A t \in Tasks : job'[t].bind = job[t].bind \/ Sent(t)
  BY JobMoves
<1>3. ASSUME NEW t \in Tasks, job'[t].bind # NoBinding
      PROVE  /\ job'[t].bind.epoch >= 1 /\ job'[t].bind.epoch <= binding'.epoch
             /\ job'[t].bind.epoch = binding'.epoch => Matches(job'[t].bind, binding')
  <2>1. CASE job'[t].bind = job[t].bind
    BY <1>0, <1>1, <1>3, <2>1 DEF Epochs, Matches
  <2>2. CASE Sent(t)
    BY <1>0, <1>3, <2>2 DEF Sent, Bound, Matches
  <2> QED BY <1>2, <2>1, <2>2
<1>4. ASSUME NEW t \in Tasks, NEW u \in Tasks, job'[t].bind # NoBinding, job'[u].bind # NoBinding,
             job'[u].bind.epoch = job'[t].bind.epoch
      PROVE  Matches(job'[u].bind, job'[t].bind)
  <2>1. CASE Sent(t)
    <3>1. job'[t].bind = binding'
      BY <2>1 DEF Sent
    <3>2. Matches(job'[u].bind, binding')
      BY <1>3, <1>4, <3>1
    <3> QED BY <3>1, <3>2
  <2>2. CASE Sent(u)
    <3>1. job'[u].bind = binding'
      BY <2>2 DEF Sent
    <3>2. Matches(job'[t].bind, binding')
      BY <1>3, <1>4, <3>1
    <3> QED BY <3>1, <3>2 DEF Matches
  <2>3. CASE job'[t].bind = job[t].bind /\ job'[u].bind = job[u].bind
    BY <1>4, <2>3 DEF Epochs
  <2> QED BY <1>2, <2>1, <2>2, <2>3
<1> QED BY <1>3, <1>4 DEF Epochs

-----------------------------------------------------------------------------
(* Recoveries: what a client publishes was prepared, and nobody works in it *)

(* A client's copy of the placement is never ahead of it, and the preparation it waits *)
(* for is of the workspace it will publish.                                             *)
Owned ==
  /\ \A t \in Tasks : client[t].own.epoch <= binding.epoch
  /\ \A t \in Tasks : client[t].cur # 0 =>
       /\ client[t].pc \in {"first", "local", "reset"}
       /\ client[t].pc # "reset" => preps[client[t].cur].ws = client[t].own.ws

LEMMA ClientMoves ==
  ASSUME TypeOK, WorkersBound, Owned, [Next]_vars, NEW u \in Tasks
  PROVE  \/ client'[u] = client[u]
         \/ client'[u].cur = 0 /\ client'[u].own \in {client[u].own, NoBinding, binding, binding'}
         \/ /\ client'[u].own = client[u].own /\ client'[u].pc = client[u].pc
            /\ client'[u].cur \in Preps /\ preps'[client'[u].cur].res = "queued"
            /\ preps'[client'[u].cur].stage = "none"
            /\ client'[u].pc \in {"first", "local", "reset"}
            /\ client'[u].pc # "reset" => preps'[client'[u].cur].ws = client'[u].own.ws
<1> DEFINE Edited == client'[u].cur = 0
                     /\ client'[u].own \in {client[u].own, NoBinding, binding, binding'}
           Sends == /\ client'[u].own = client[u].own /\ client'[u].pc = client[u].pc
                    /\ client'[u].cur \in Preps /\ preps'[client'[u].cur].res = "queued"
                    /\ preps'[client'[u].cur].stage = "none"
                    /\ client'[u].pc \in {"first", "local", "reset"}
                    /\ client'[u].pc # "reset" => preps'[client'[u].cur].ws = client'[u].own.ws
           Moved == client'[u] = client[u] \/ Edited \/ Sends
<1>0. /\ client \in [Tasks -> ClientStates] /\ preps \in [Preps -> PrepStates]
      /\ \A t \in Tasks : client[t].pc \notin {"first", "local", "reset"} => client[t].cur = 0
  BY DEF TypeOK, Owned
<1>a. ASSUME NEW t \in Tasks, NEW pc, Goto(t, pc) PROVE Moved
  <2>1. /\ client'[t].cur = 0 /\ client'[t].own \in {client[t].own, NoBinding}
        /\ \A v \in Tasks \ {t} : client'[v] = client[v]
    BY <1>0, <1>a DEF Goto, ClientStates
  <2> QED BY <2>1
<1>b. ASSUME NEW t \in Tasks, NEW pc, NEW b \in {binding, binding'}, client[t].cur = 0,
             \/ client' = [client EXCEPT ![t].pc = pc, ![t].own = b]
             \/ client' = [client EXCEPT ![t].own = b, ![t].pc = pc]
      PROVE  Moved
  <2>1. /\ client'[t].cur = 0 /\ client'[t].own = b
        /\ \A v \in Tasks \ {t} : client'[v] = client[v]
    BY <1>0, <1>b DEF ClientStates
  <2> QED BY <2>1
<1>1. ASSUME NEW r \in Rounds, BeginRead(r) \/ BeginWrite(r) \/ FinishRound(r) \/ JudgeRound(r)
      PROVE  Moved
  <2>1. r \in Tasks
    BY DEF Tasks
  <2> QED BY <1>0, <1>1, <1>a, <1>b, <2>1 DEF BeginRead, BeginWrite, FinishRound, JudgeRound
<1>2. ASSUME NEW j \in Jobs, Submit(j) PROVE Moved
  <2>1. j \in Tasks /\ client[j].cur = 0
    BY <1>0, <1>2 DEF Tasks, Submit
  <2>2. client' = [client EXCEPT ![j].pc = "ensure",
                              ![j].seen = IF binding = NoBinding THEN @ ELSE binding.gen]
    BY <1>2 DEF Submit
  <2>3. /\ client'[j].cur = 0 /\ client'[j].own = client[j].own
        /\ \A v \in Tasks \ {j} : client'[v] = client[v]
    BY <1>0, <2>1, <2>2 DEF ClientStates
  <2> QED BY <2>3
<1>3. ASSUME NEW t \in Tasks,
             \/ EnsureReturn(t) \/ EnsureGone(t) \/ ReturnFenced(t) \/ LocalGiveUp(t)
             \/ ClientFails(t) \/ ClientDies(t) \/ AwaitLost(t) \/ AwaitEnds(t) \/ AwaitResult(t)
      PROVE  Moved
  <2>1. UNCHANGED client \/ \E pc : Goto(t, pc)
    BY <1>3
    DEF EnsureReturn, Dispatch, EnsureGone, ReturnFenced, LocalGiveUp, ClientFails, ClientDies,
        AwaitLost, AwaitEnds, AwaitResult
  <2> QED BY <1>a, <2>1
<1>4. ASSUME NEW t \in Tasks, EnsureRecover(t) \/ Acquire(t) PROVE Moved
  <2>1. client[t].cur = 0
    BY <1>0, <1>4 DEF EnsureRecover, Acquire
  <2>2. CASE EnsureRecover(t)
    BY <1>b, <2>1, <2>2 DEF EnsureRecover
  <2>3. CASE Acquire(t)
    <3>1. \/ Goto(t, "ensure")
          \/ \E pc \in {"first", "local"} :
                client' = [client EXCEPT ![t].own = binding', ![t].pc = pc]
      BY <2>3 DEF Acquire
    <3> QED BY <1>a, <1>b, <2>1, <3>1
  <2> QED BY <1>4, <2>2, <2>3
<1>5. ASSUME NEW t \in Tasks, NEW w, NEW restore, NEW n \in Preps, NEW ws,
             SendPrep(t, w, restore, n, ws), client[t].pc \in {"first", "local", "reset"},
             client[t].pc # "reset" => ws = client[t].own.ws
      PROVE  Moved
  <2>1. /\ client'[t].cur = n /\ client'[t].pc = client[t].pc /\ client'[t].own = client[t].own
        /\ \A v \in Tasks \ {t} : client'[v] = client[v]
    BY <1>0, <1>5 DEF SendPrep, ClientStates
  <2>2. preps'[n].res = "queued" /\ preps'[n].ws = ws /\ preps'[n].stage = "none"
    BY <1>0, <1>5 DEF SendPrep
  <2> QED BY <1>5, <2>1, <2>2
<1>6. ASSUME NEW t \in Tasks, LocalPrepare(t) PROVE Moved
  BY <1>5, <1>6 DEF LocalPrepare
<1>7. ASSUME NEW t \in Tasks, ResetPrepare(t) PROVE Moved
  <2>1. PICK w \in Workers, n \in Preps : SendPrep(t, w, FALSE, n, n)
    BY <1>7 DEF ResetPrepare
  <2> QED BY <1>5, <1>7, <2>1 DEF ResetPrepare
<1>8. ASSUME NEW t \in Tasks, PrepFailed(t) \/ PrepStale(t) PROVE Moved
  <2>1. \/ Goto(t, "ensure") \/ client' = [client EXCEPT ![t].cur = 0]
        \/ \E pc : client' = [client EXCEPT ![t].cur = 0, ![t].pc = pc]
    BY <1>8, OnwardOK
  <2>2. ASSUME NEW pc, \/ client' = [client EXCEPT ![t].cur = 0]
                       \/ client' = [client EXCEPT ![t].cur = 0, ![t].pc = pc]
        PROVE  Moved
    <3>1. /\ client'[t].cur = 0 /\ client'[t].own = client[t].own
          /\ \A v \in Tasks \ {t} : client'[v] = client[v]
      BY <1>0, <2>2 DEF ClientStates
    <3> QED BY <3>1
  <2> QED BY <1>a, <2>1, <2>2
<1>9. ASSUME NEW t \in Tasks, Commit(t) PROVE Moved
  <2>1. \/ Goto(t, "ensure")
        \/ client' = [client EXCEPT ![t].cur = 0, ![t].pc = "recovered", ![t].own = binding']
    BY <1>9 DEF Commit
  <2>2. ASSUME client' = [client EXCEPT ![t].cur = 0, ![t].pc = "recovered", ![t].own = binding']
        PROVE  Moved
    <3>1. /\ client'[t].cur = 0 /\ client'[t].own = binding'
          /\ \A v \in Tasks \ {t} : client'[v] = client[v]
      BY <1>0, <2>2 DEF ClientStates
    <3> QED BY <3>1
  <2> QED BY <1>a, <2>1, <2>2
<1>10. ASSUME NEW t \in Tasks, GiveUp(t) PROVE Moved
  <2>1. client[t].cur = 0
    BY <1>0, <1>10 DEF GiveUp
  <2>2. \/ Goto(t, "ensure") \/ Goto(t, After(t))
        \/ client' = [client EXCEPT ![t].pc = "reset", ![t].own = binding']
    BY <1>10 DEF GiveUp
  <2> QED BY <1>a, <1>b, <2>1, <2>2
<1>11. CASE UNCHANGED client
  BY <1>11
<1>12. ASSUME NEW w, WorkerKilled(w) PROVE Moved
  BY <1>11, <1>12 DEF WorkerKilled
<1> QED
  BY ZenonT(60), <1>12, <1>1, <1>2, <1>3, <1>4, <1>6, <1>7, <1>8, <1>9, <1>10, <1>11
  DEF Next, vars, Client, Worker, Prep, CheckpointSave, CheckpointClear, CheckpointClose,
      SessionLost, ReadRounds, Restore, MarkRound, Effect, PrepLost, Deliver, Redeliver, Lock,
      Publish, Abort, WorkerCrash, EvictKilled, LeaseRemoved, LeaseLapses, Heartbeat, WorkerStart,
      PrepDeliver, PrepLock, PrepAct, PrepCheck, PrepDone, PrepAborts, RecoveryExpires,
      RoundExpires, Evict, Expire, Cleanup

LEMMA OwnedStep ==
  ASSUME TypeOK, WorkersBound, PrepSent, Bound, Owned, [Next]_vars
  PROVE  Owned'
<1>a. \A t \in Tasks : client[t].cur # 0 => client[t].cur \in Preps
  BY SandboxBounds DEF TypeOK, ClientStates, Preps
<1>b. binding.epoch \in Nat /\ binding'.epoch \in Nat /\ NoBinding.epoch = 0
  BY RedisStep DEF TypeOK, RedisOK, Bindings, NoBinding
<1>c. \A t \in Tasks : client[t].own.epoch \in Nat
  BY DEF TypeOK, ClientStates, Bindings
<1>0. /\ \A t \in Tasks : client[t].own.epoch \in Nat
      /\ binding.epoch \in Nat /\ binding'.epoch \in Nat /\ NoBinding.epoch = 0
      /\ \A t \in Tasks : client[t].cur # 0 => client[t].cur \in Preps
  BY <1>a, <1>b, <1>c
<1>1. binding.epoch <= binding'.epoch
  BY <1>0, BindingMoves DEF Commits, Matches
<1>2. ASSUME NEW t \in Tasks PROVE client'[t].own.epoch <= binding'.epoch
  BY <1>0, <1>1, ClientMoves DEF Owned
<1>3. ASSUME NEW t \in Tasks, client'[t].cur # 0
      PROVE  /\ client'[t].pc \in {"first", "local", "reset"}
             /\ client'[t].pc # "reset" => preps'[client'[t].cur].ws = client'[t].own.ws
  <2>1. CASE client'[t] = client[t]
    <3>1. client[t].cur \in Preps /\ preps[client[t].cur].res # None
      BY <1>0, <1>3, <2>1 DEF WorkersBound
    <3>2. preps'[client[t].cur].ws = preps[client[t].cur].ws
      BY <3>1, PrepMoves
    <3> QED BY <1>3, <2>1, <3>2 DEF Owned
  <2>2. CASE client'[t] # client[t]
    BY <1>3, <2>2, ClientMoves
  <2> QED BY <2>1, <2>2
<1> QED BY <1>2, <1>3 DEF Owned

(* Whoever could publish a prepared workspace now finds nobody working in it. *)
Fence == \A t \in Tasks :
  client[t].cur # 0 /\ Checked(client[t].cur)
    /\ client[t].own.epoch = binding.epoch =>
       /\ binding.status # "READY"
       /\ \A u \in Tasks : Holds(u) => job[u].bind.ws # preps[client[t].cur].ws

LEMMA FenceStep ==
  ASSUME TypeOK, WorkersBound, JobSent, PrepSent, Bound, OneHolder, Owned, Fence, [Next]_vars
  PROVE  Fence'
<1> SUFFICES ASSUME NEW t \in Tasks, client'[t].cur # 0,
                    preps'[client'[t].cur].stage = "checked"
                      \/ preps'[client'[t].cur].res = "completed",
                    client'[t].own.epoch = binding'.epoch
             PROVE  /\ binding'.status # "READY"
                    /\ \A u \in Tasks : Holds(u)' => job'[u].bind.ws # preps'[client'[t].cur].ws
  BY DEF Fence, Checked
<1> DEFINE n == client[t].cur
<1>0. /\ client[t].own.epoch \in Nat /\ binding.epoch \in Nat /\ binding'.epoch \in Nat
      /\ n # 0 => n \in Preps
  BY SMTT(30), RedisStep, SandboxBounds DEF TypeOK, RedisOK, ClientStates, Bindings, Preps
<1>1. client'[t] = client[t]
  BY ClientMoves
<1>2. n \in Preps /\ preps[n].res # None
  BY <1>0, <1>1 DEF WorkersBound
<1>3. binding.epoch <= binding'.epoch /\ client[t].own.epoch <= binding.epoch
  BY <1>0, BindingMoves DEF Commits, Matches, Owned
<1>4. binding'.epoch = binding.epoch /\ client[t].own.epoch = binding.epoch
  BY <1>0, <1>1, <1>3
<1>5. UNCHANGED binding \/ binding'.status # "READY"
  BY <1>0, <1>4, BindingMoves DEF Commits
<1>6. CASE Checked(n)
  <2>1. /\ binding.status # "READY"
        /\ \A u \in Tasks : Holds(u) => job[u].bind.ws # preps[n].ws
    BY <1>1, <1>4, <1>6 DEF Fence
  <2>2. \A u \in Tasks : ~Lock(u)
    BY <2>1 DEF Lock, GuardHolds
  <2>3. preps'[n].ws = preps[n].ws
    BY <1>2, PrepMoves
  <2> QED BY <1>1, <1>5, <2>1, <2>2, <2>3, HoldsBefore
<1>7. CASE ~Checked(n)
  <2>1. PrepCheck(n) /\ PrepValid(n)
    BY <1>1, <1>2, <1>7, PrepMoves DEF Checked
  <2>2. preps[n].rec \in Tasks /\ binding.rec = preps[n].rec /\ UNCHANGED <<binding, job>>
    BY <1>2, <2>1 DEF PrepCheck, PrepValid, RecoveryMatches, PrepSent, redis
  <2>3. binding.status # "READY"
    BY <2>2, Names DEF Bound
  <2>4. Prepares(n) /\ preps'[n].ws = preps[n].ws
    BY <1>2, <2>1, PrepMoves DEF Prepares, PrepCheck
  <2> QED BY <1>1, <1>2, <2>2, <2>3, <2>4 DEF OneHolder, Holds
<1> QED BY <1>6, <1>7

(* What commit_recovery publishes is the workspace that was prepared. *)
LEMMA CommitsPrepared ==
  ASSUME TypeOK, WorkersBound, Owned, NEW t \in Tasks, Commits(t)
  PROVE  /\ client[t].cur \in Preps /\ preps[client[t].cur].res = "completed"
         /\ binding'.ws = preps[client[t].cur].ws
         /\ client[t].own.epoch = binding.epoch
         /\ session # "gone" /\ UNCHANGED <<job, preps, files, saved>>
<1>1. client[t].cur \in Preps /\ client[t].own \in Bindings /\ preps[client[t].cur] \in PrepStates
  BY SandboxBounds DEF Commits, TypeOK, ClientStates, Preps
<1>2. /\ preps[client[t].cur].res = "completed" /\ session # "gone"
      /\ client[t].own.epoch = binding.epoch /\ UNCHANGED <<job, preps, files, saved>>
  BY DEF Commits, Commit, MayCommit, Current, Matches, disks
<1>3. binding'.ws = preps[client[t].cur].ws
  <2>1. CASE client[t].pc = "reset"
    <3>1. binding' = Replacement(client[t].own, preps[client[t].cur])
      BY <2>1 DEF Commits, Placement
    <3> QED BY <1>1, <3>1 DEF Replacement, Bindings
  <2>2. CASE client[t].pc # "reset"
    <3>1. binding' = Refreshed(client[t].own, preps[client[t].cur])
      BY <2>2 DEF Commits, Placement
    <3>2. binding'.ws = client[t].own.ws
      BY <1>1, <3>1 DEF Refreshed, Bindings
    <3> QED BY <2>2, <3>2 DEF Commits, Owned
  <2> QED BY <2>1, <2>2
<1> QED BY <1>1, <1>2, <1>3

LEMMA NoStaleWriterStep ==
  ASSUME TypeOK, WorkersBound, JobSent, Bound, Owned, Fence, NoStaleWriter, [Next]_vars
  PROVE  NoStaleWriter'
<1> SUFFICES ASSUME NEW t \in Tasks, Holds(t)', binding'.status = "READY",
                    job'[t].bind.ws = binding'.ws
             PROVE  job'[t].bind.epoch = binding'.epoch
  BY DEF NoStaleWriter, Holds
<1>1. job'[t].bind = job[t].bind /\ (Holds(t) \/ Lock(t))
  BY HoldsBefore
<1>2. CASE UNCHANGED binding
  <2>1. CASE Holds(t)
    BY <1>1, <1>2, <2>1 DEF NoStaleWriter, Holds
  <2>2. CASE Lock(t)
    BY <1>1, <1>2, <2>2 DEF Lock, GuardHolds, Matches
  <2> QED BY <1>1, <2>1, <2>2
<1>3. ASSUME NEW c \in Tasks, Commits(c) PROVE FALSE
  <2>1. UNCHANGED job /\ binding'.ws = preps[client[c].cur].ws
    BY <1>3, CommitsPrepared
  <2>2. Holds(t)
    BY <2>1 DEF Holds
  <2> QED BY <1>1, <1>3, <2>1, <2>2, CommitsPrepared DEF Fence, Checked, Commits
<1> QED BY <1>2, <1>3, BindingMoves

-----------------------------------------------------------------------------
(* A READY placement names a workspace that exists *)

LEMMA SessionStays == ASSUME [Next]_vars, session = "gone" PROVE session' = "gone"
  BY ZenonT(60) DEF Next, vars, redis, Client, Worker, Prep, BeginRead, BeginWrite, FinishRound,
      JudgeRound, CheckpointSave, CheckpointClear, CheckpointClose, Submit, SessionLost,
      ReadRounds, Restore, MarkRound, Effect, EnsureGone, EnsureReturn, ReturnFenced,
      EnsureRecover, Acquire, Commit, MayCommit, GiveUp, LocalPrepare, LocalGiveUp, PrepLost,
      PrepFailed, PrepStale, ResetPrepare, ClientFails, ClientDies, AwaitLost, AwaitEnds,
      AwaitResult, Deliver, Redeliver, Lock, Publish, Abort, Touch, WorkerCrash, WorkerKilled,
      EvictKilled, LeaseRemoved, LeaseLapses, Heartbeat, WorkerStart, PrepDeliver, PrepLock,
      PrepAct, PrepCheck, PrepDone, PrepAborts, RecoveryExpires, RoundExpires, Evict, Expire,
      Cleanup

Prepared == session # "gone" => \A n \in Preps :
  preps[n].stage = "acted" \/ Checked(n) => Kept(preps[n].ws)

LEMMA PreparedStep ==
  ASSUME TypeOK, WorkersBound, PrepSent, RunsInTree, Prepared, [Next]_vars
  PROVE  Prepared'
<1> SUFFICES ASSUME session' # "gone", NEW n \in Preps,
                    preps'[n].stage \in {"acted", "checked"} \/ preps'[n].res = "completed"
             PROVE  KeptNext(preps'[n].ws)
  BY DEF Prepared, Checked, Kept, KeptNext
<1>0. session # "gone" /\ preps[n].ws \in Workspaces
  BY SessionStays DEF TypeOK, PrepStates
<1>1. ASSUME Kept(preps[n].ws), preps'[n].ws = preps[n].ws PROVE KeptNext(preps'[n].ws)
  <2>1. KeptNext(preps[n].ws)
    BY <1>0, <1>1, DisksMove DEF Kept, KeptNext
  <2> QED BY <1>1, <2>1
<1>2. CASE preps[n].stage = "acted" \/ Checked(n)
  <2>1. Kept(preps[n].ws)
    BY <1>0, <1>2 DEF Prepared
  <2>2. preps'[n].ws = preps[n].ws
    BY <1>2, PrepMoves DEF Checked, None
  <2> QED BY <1>1, <2>1, <2>2
<1>3. CASE ~(preps[n].stage = "acted" \/ Checked(n))
  <2>1. PrepAct(n) /\ preps'[n].ws = preps[n].ws /\ preps'[n].stage = "acted"
    BY <1>3, PrepMoves DEF PrepCheck, Checked
  <2>2. files'[preps[n].ws] # Missing
    <3>1. preps' # [preps EXCEPT ![n] = PrepOver(SettlePrep(n, "failed"))]
      BY <2>1, SettlePrepKeeps DEF TypeOK, Terminal
    <3>2. \E tree : tree # Missing /\ PutTree(preps[n].ws, tree)
      BY <2>1, <3>1 DEF PrepAct
    <3> QED BY <1>0, <3>2 DEF PutTree, TypeOK, DisksOK
  <2> QED BY <2>1, <2>2 DEF KeptNext
<1> QED BY <1>2, <1>3

LEMMA ReadyIsPreparedStep ==
  ASSUME TypeOK, WorkersBound, Bound, Owned, RunsInTree, Prepared, ReadyIsPrepared, [Next]_vars
  PROVE  ReadyIsPrepared'
<1> SUFFICES ASSUME binding'.status = "READY", session' # "gone" PROVE KeptNext(binding'.ws)
  BY DEF ReadyIsPrepared, KeptNext
<1>0. session # "gone" /\ binding.ws \in Workspaces
  BY SessionStays DEF TypeOK, RedisOK, Bindings
<1>1. CASE UNCHANGED binding
  <2>1. Kept(binding.ws)
    BY <1>0, <1>1 DEF ReadyIsPrepared, Kept
  <2> QED BY <1>0, <1>1, <2>1, DisksMove DEF Kept, KeptNext
<1>2. ASSUME NEW t \in Tasks, Commits(t) PROVE KeptNext(binding'.ws)
  BY <1>0, <1>2, CommitsPrepared DEF Prepared, Checked, Kept, KeptNext
<1> QED BY <1>1, <1>2, BindingMoves

-----------------------------------------------------------------------------
(* Commands: claimed once, executed at most once, answered once *)

(* Whoever waits for a result waits for a task that was sent. *)
Waits == \A t \in Tasks : client[t].pc = "waiting" => job[t].res # None

(* How far a command's execution is, and how often it ran by then. *)
Executed(j) ==
  /\ ~job[j].claimed => effects[j].n = 0 /\ job[j].stage = "none"
  /\ job[j].stage \in {"claimed", "locked", "read", "restored", "running"} => effects[j].n = 0
  /\ job[j].stage = "ran" => effects[j].n = 1
  /\ job[j].stage \notin {"saved", "cleared", "collected"}
  /\ Holds(j) => job[j].res \in {"running"} \cup Terminal

(* A command's result as SandboxJob lets it move. *)
Answered(j) ==
  \/ job'[j].res = job[j].res
  \/ job[j].res = None /\ job'[j].res = "queued"
  \/ job[j].res = "queued" /\ job'[j].res = "running"
  \/ job[j].res \in {"queued", "running"} /\ job'[j].res = "failed"
  \/ job[j].res = "running" /\ job'[j].res = "completed" /\ effects[j].n = 1

Answers == Job!Next \/ UNCHANGED <<[j \in Jobs |-> job[j].res], [j \in Jobs |-> effects[j].n]>>

LEMMA OneAnswer ==
  ASSUME NEW t \in Tasks, \A u \in Tasks \ {t} : job'[u] = job[u], UNCHANGED effects,
         t \in Jobs => Answered(t)
  PROVE  Answers
<1>0. Jobs \subseteq Tasks
  BY DEF Tasks
<1>1. CASE t \in Jobs
  <2>1. UNCHANGED [j \in Jobs |-> effects[j].n]
    OBVIOUS
  <2>2. [j \in Jobs |-> job[j].res]' = [[j \in Jobs |-> job[j].res] EXCEPT ![t] = job'[t].res]
    BY <1>0, <1>1
  <2>3. CASE job'[t].res = job[t].res
    BY <1>0, <2>1, <2>3 DEF Answers
  <2>4. CASE job'[t].res # job[t].res
    BY <1>1, <2>1, <2>2, <2>4
    DEF Answers, Answered, Job!Next, Job!Send, Job!Start, Job!Fail, Job!Complete, Job!Moves, None
  <2> QED BY <2>3, <2>4
<1>2. CASE t \notin Jobs
  BY <1>0, <1>2 DEF Answers
<1> QED BY <1>1, <1>2

LEMMA WaitsStep ==
  ASSUME TypeOK, JobSent, Waits, [Next]_vars
  PROVE  Waits'
<1> SUFFICES ASSUME NEW u \in Tasks, client'[u].pc = "waiting" PROVE job'[u].res # None
  BY DEF Waits
<1>1. job[u].res # None => job'[u].res # None
  BY JobMoves DEF Sent, None
<1>2. client[u].pc = "waiting" \/ job'[u].res # None
  <2> SUFFICES ASSUME client[u].pc # "waiting" PROVE job'[u].res # None
    OBVIOUS
  <2>0. client \in [Tasks -> ClientStates] /\ job \in [Tasks -> JobStates]
    BY DEF TypeOK
  <2>a. ASSUME NEW t \in Tasks, NEW pc, Goto(t, pc), pc # "waiting" PROVE FALSE
    <3>1. client'[t].pc = pc /\ \A v \in Tasks \ {t} : client'[v] = client[v]
      BY <2>0, <2>a DEF Goto, ClientStates
    <3> QED BY <2>a, <3>1
  <2>b. ASSUME NEW t \in Tasks, NEW pc, pc # "waiting", NEW b,
               \/ client' = [client EXCEPT ![t].pc = pc, ![t].own = b]
               \/ client' = [client EXCEPT ![t].own = b, ![t].pc = pc]
               \/ client' = [client EXCEPT ![t].cur = 0, ![t].pc = pc, ![t].own = b]
               \/ client' = [client EXCEPT ![t].cur = b]
               \/ client' = [client EXCEPT ![t].cur = 0, ![t].pc = pc]
        PROVE  FALSE
    <3>1. /\ client'[t].pc \in {pc, client[t].pc}
          /\ \A v \in Tasks \ {t} : client'[v] = client[v]
      BY <2>0, <2>b DEF ClientStates
    <3> QED BY <2>b, <3>1
  <2>c. \A t \in Tasks : After(t) # "waiting"
    BY DEF After
  <2>1. ASSUME NEW r \in Rounds, BeginRead(r) \/ BeginWrite(r) \/ FinishRound(r) \/ JudgeRound(r)
        PROVE  FALSE
    <3>1. r \in Tasks
      BY DEF Tasks
    <3>2. CASE BeginRead(r)
      <4>1. client' = [client EXCEPT ![r].pc = "begin", ![r].own = binding]
        BY <3>2 DEF BeginRead
      <4>2. client'[r].pc = "begin" /\ \A v \in Tasks \ {r} : client'[v] = client[v]
        BY <2>0, <3>1, <4>1 DEF ClientStates
      <4> QED BY <4>2
    <3>3. CASE BeginWrite(r) \/ FinishRound(r) \/ JudgeRound(r)
      BY <2>a, <3>1, <3>3 DEF BeginWrite, FinishRound, JudgeRound
    <3> QED BY <2>1, <3>2, <3>3
  <2>2. ASSUME NEW j \in Jobs, Submit(j) PROVE FALSE
    <3>1. j \in Tasks
      BY DEF Tasks
    <3>2. \E b : client' = [client EXCEPT ![j].pc = "ensure", ![j].seen = b]
      BY <2>2 DEF Submit
    <3>3. client'[j].pc = "ensure" /\ \A v \in Tasks \ {j} : client'[v] = client[v]
      BY <2>0, <3>1, <3>2 DEF ClientStates
    <3> QED BY <3>3
  <2>3. ASSUME NEW t \in Tasks, EnsureReturn(t) PROVE job'[u].res # None
    <3>1. \/ Goto(t, After(t))
          \/ /\ Goto(t, "waiting")
             /\ job' = [job EXCEPT ![t].res = "queued", ![t].bind = binding, ![t].msg = "queued"]
      BY <2>3 DEF EnsureReturn, Dispatch
    <3>2. CASE u = t
      BY <2>0, <2>a, <2>c, <3>1, <3>2 DEF JobStates, None
    <3>3. CASE u # t
      BY <2>0, <2>a, <2>c, <3>1, <3>3 DEF Goto
    <3> QED BY <3>2, <3>3
  <2>4. ASSUME NEW t \in Tasks,
               \/ EnsureGone(t) \/ ReturnFenced(t) \/ LocalGiveUp(t)
               \/ ClientFails(t) \/ ClientDies(t) \/ AwaitLost(t) \/ AwaitEnds(t) \/ AwaitResult(t)
        PROVE  FALSE
    <3>1. \E pc \in {After(t), "done", "giveup", "ensure", "force", "judge"} : Goto(t, pc)
      BY <2>4
      DEF EnsureGone, ReturnFenced, LocalGiveUp, ClientFails, ClientDies, AwaitLost, AwaitEnds,
          AwaitResult, RecoverFrom
    <3> QED BY <2>a, <2>c, <3>1
  <2>5. ASSUME NEW t \in Tasks, EnsureRecover(t) \/ Acquire(t) \/ Commit(t) \/ GiveUp(t) PROVE FALSE
    <3>1. \/ \E pc \in {"ensure", After(t)} : Goto(t, pc)
          \/ \E pc \in {"acquire", "first", "local", "reset", "recovered"}, b \in {binding, binding'} :
                \/ client' = [client EXCEPT ![t].pc = pc, ![t].own = b]
                \/ client' = [client EXCEPT ![t].own = b, ![t].pc = pc]
                \/ client' = [client EXCEPT ![t].cur = 0, ![t].pc = pc, ![t].own = b]
      <4>1. CASE EnsureRecover(t)
        BY <4>1 DEF EnsureRecover
      <4>2. CASE Acquire(t)
        BY <4>2 DEF Acquire
      <4>3. CASE Commit(t)
        BY <4>3 DEF Commit
      <4>4. CASE GiveUp(t)
        BY <4>4 DEF GiveUp
      <4> QED BY <2>5, <4>1, <4>2, <4>3, <4>4
    <3> QED BY <2>a, <2>b, <2>c, <3>1
  <2>6. ASSUME NEW t \in Tasks, LocalPrepare(t) \/ ResetPrepare(t) PROVE FALSE
    <3>1. \E n : client' = [client EXCEPT ![t].cur = n]
      BY <2>6 DEF LocalPrepare, ResetPrepare, SendPrep
    <3> QED BY <2>b, <3>1
  <2>7. ASSUME NEW t \in Tasks, PrepFailed(t) \/ PrepStale(t) PROVE FALSE
    <3>1. \/ Goto(t, "ensure") \/ client' = [client EXCEPT ![t].cur = 0]
          \/ \E pc \in {"giveup", client[t].pc} :
                client' = [client EXCEPT ![t].cur = 0, ![t].pc = pc]
      BY <2>7, OnwardOK
    <3>2. ASSUME client' = [client EXCEPT ![t].cur = 0, ![t].pc = client[t].pc] PROVE FALSE
      <4>1. client'[t].pc = client[t].pc /\ \A v \in Tasks \ {t} : client'[v] = client[v]
        BY <2>0, <3>2 DEF ClientStates
      <4> QED BY <4>1
    <3> QED BY <2>a, <2>b, <3>1, <3>2
  <2>8. CASE UNCHANGED client
    BY <2>8
  <2> QED
    BY <2>1, <2>2, <2>3, <2>4, <2>5, <2>6, <2>7, <2>8
    DEF Next, vars, Client, Worker, Prep, CheckpointSave, CheckpointClear, CheckpointClose,
        SessionLost, ReadRounds, Restore, MarkRound, Effect, PrepLost, Deliver, Redeliver, Lock,
        Publish, Abort, WorkerCrash, WorkerKilled, EvictKilled, LeaseRemoved, LeaseLapses,
        Heartbeat, WorkerStart, PrepDeliver, PrepLock, PrepAct, PrepCheck, PrepDone, PrepAborts,
        RecoveryExpires, RoundExpires, Evict, Expire, Cleanup
<1> QED BY <1>1, <1>2 DEF Waits

ExecInv == \A j \in Jobs : Executed(j)

(* A step of one task: its command still agrees with its execution, and is answered *)
(* as SandboxJob allows.                                                             *)
LEMMA OneTask ==
  ASSUME ExecInv, NEW t \in Tasks, \A u \in Tasks \ {t} : job'[u] = job[u], UNCHANGED effects,
         t \in Jobs => Executed(t)' /\ Answered(t)
  PROVE  ExecInv' /\ Answers
<1>1. Jobs \subseteq Tasks
  BY DEF Tasks
<1>2. ASSUME NEW j \in Jobs, j # t PROVE Executed(j)'
  BY <1>1, <1>2 DEF ExecInv, Executed, Holds
<1> QED BY <1>1, <1>2, OneAnswer DEF ExecInv

(* A task that is settled, and returns. *)
LEMMA Settles ==
  ASSUME job \in [Tasks -> JobStates], ExecInv, NEW t \in Tasks, UNCHANGED effects,
         NEW r \in Terminal, NEW e \in {None, "uncertain", "obsolete", "unavailable", "deadline"},
         \/ job' = [job EXCEPT ![t] = Settle(t, r, e)]
         \/ job' = [job EXCEPT ![t] = Over(Settle(t, r, e))],
         job[t].res # None,
         t \in Jobs /\ r = "completed" => job[t].stage \in {"ran", "collected"}
  PROVE  ExecInv' /\ Answers
<1>1. /\ job'[t].claimed = job[t].claimed /\ job'[t].stage \in {job[t].stage, "none"}
      /\ job'[t].res = IF job[t].res \in Terminal THEN job[t].res ELSE r
      /\ \A u \in Tasks \ {t} : job'[u] = job[u]
  <2>1. /\ job'[t] \in {Settle(t, r, e), Over(Settle(t, r, e))}
        /\ \A u \in Tasks \ {t} : job'[u] = job[u]
    OBVIOUS
  <2>2. LET s == Settle(t, r, e) IN
        /\ s.claimed = job[t].claimed /\ s.stage = job[t].stage
        /\ s.res = IF job[t].res \in Terminal THEN job[t].res ELSE r
        /\ s \in JobStates
    <3>1. CASE job[t].res \in Terminal
      BY <3>1 DEF Settle
    <3>2. CASE job[t].res \notin Terminal
      <4>1. Settle(t, r, e) = [job[t] EXCEPT !.res = r, !.err = e]
        BY <3>2 DEF Settle
      <4>2. Settle(t, r, e) \in JobStates
        BY SettleOK
      <4> QED BY <3>2, <4>1, <4>2 DEF JobStates
    <3> QED BY <3>1, <3>2
  <2>3. LET s == Settle(t, r, e) IN
        /\ Over(s).claimed = s.claimed /\ Over(s).stage = "none" /\ Over(s).res = s.res
    BY <2>2 DEF Over, JobStates
  <2> QED BY <2>1, <2>2, <2>3
<1>2. job[t].res \in Terminal \cup {"queued", "running"}
  BY DEF JobStates
<1>3. ASSUME t \in Jobs PROVE Executed(t)' /\ Answered(t)
  <2>1. Executed(t)
    BY <1>3 DEF ExecInv
  <2>2. Executed(t)'
    BY <1>1, <2>1 DEF Executed, Holds, Terminal
  <2>3. Answered(t)
    BY <1>1, <1>2, <1>3, <2>1 DEF Executed, Holds, Answered, Terminal
  <2> QED BY <2>2, <2>3
<1> QED BY <1>1, <1>3, OneTask

(* A task moves on to another stage of its execution. *)
LEMMA MovesOn ==
  ASSUME job \in [Tasks -> JobStates], ExecInv, NEW t \in Tasks, UNCHANGED effects, NEW s,
         job' = [job EXCEPT ![t].stage = s], job[t].stage # "none",
         t \in Jobs => /\ s \in {"locked", "read", "restored", "running"}
                       /\ job[t].stage \in {"locked", "read", "restored", "running"}
  PROVE  ExecInv' /\ Answers
<1>1. /\ job'[t].claimed = job[t].claimed /\ job'[t].stage = s /\ job'[t].res = job[t].res
      /\ \A u \in Tasks \ {t} : job'[u] = job[u]
  BY DEF JobStates
<1>2. ASSUME t \in Jobs PROVE Executed(t)' /\ Answered(t)
  BY <1>1, <1>2 DEF ExecInv, Executed, Holds, Answered
<1> QED BY <1>1, <1>2, OneTask

LEMMA JobStep ==
  ASSUME TypeOK, JobSent, Waits, ExecInv, [Next]_vars
  PROVE  ExecInv' /\ Answers
<1> DEFINE OK == ExecInv' /\ Answers
<1>0. job \in [Tasks -> JobStates] /\ Jobs \subseteq Tasks /\ Rounds \subseteq Tasks
  BY DEF TypeOK, Tasks
<1>a. ASSUME UNCHANGED <<job, effects>> PROVE OK
  BY <1>a DEF ExecInv, Executed, Holds, Answers
<1>1. ASSUME NEW t \in Tasks, EnsureReturn(t) PROVE OK
  <2>1. UNCHANGED effects
    BY <1>1 DEF EnsureReturn
  <2>2. ASSUME job[t].res = None,
               job' = [job EXCEPT ![t].res = "queued", ![t].bind = binding, ![t].msg = "queued"]
        PROVE  OK
    <3>1. /\ job'[t].claimed = job[t].claimed /\ job'[t].stage = job[t].stage
          /\ job'[t].res = "queued" /\ job[t].stage = "none"
          /\ \A u \in Tasks \ {t} : job'[u] = job[u]
      BY <1>0, <2>2 DEF JobStates, JobSent
    <3>2. ASSUME t \in Jobs PROVE Executed(t)' /\ Answered(t)
      BY <2>1, <2>2, <3>1, <3>2 DEF ExecInv, Executed, Holds, Answered
    <3> QED BY <2>1, <3>1, <3>2, OneTask
  <2> QED BY <1>1, <1>a, <2>1, <2>2 DEF EnsureReturn, Dispatch
<1>2. ASSUME NEW t \in Tasks, AwaitLost(t) \/ AwaitEnds(t) PROVE OK
  <2>1. job[t].res # None /\ UNCHANGED effects
    BY <1>2 DEF AwaitLost, AwaitEnds, Waits
  <2>2. \E e \in {"uncertain", "obsolete", "deadline"} :
           job' = [job EXCEPT ![t] = Settle(t, "failed", e)]
    BY <1>2 DEF AwaitLost, AwaitEnds
  <2> QED BY <1>0, <2>1, <2>2, Settles DEF Terminal
<1>3. ASSUME NEW t \in Tasks, Publish(t) PROVE OK
  <2>1. /\ job[t].res # None /\ UNCHANGED effects /\ job[t].stage \in {"ran", "collected"}
        /\ job' = [job EXCEPT ![t] = Over(Settle(t, "completed", None))]
    BY <1>3 DEF Publish, JobSent
  <2> QED BY <1>0, <2>1, Settles DEF Terminal
<1>4. ASSUME NEW t \in Tasks, Abort(t) PROVE OK
  <2>1. /\ job[t].res # None /\ UNCHANGED effects
        /\ \E e \in {"uncertain", "obsolete", "deadline"} :
              job' = [job EXCEPT ![t] = Over(Settle(t, "failed", e))]
    BY <1>4 DEF Abort, JobSent
  <2> QED BY <1>0, <2>1, Settles DEF Terminal
<1>5. ASSUME NEW w, WorkerKilled(w) PROVE OK
  <2>1. ASSUME NEW u \in Tasks
        PROVE  /\ job'[u].claimed = job[u].claimed /\ job'[u].res = job[u].res
               /\ job'[u].stage \in {job[u].stage, "none"}
    <3>1. \/ job'[u] = job[u]
          \/ job'[u] = [Over(job[u]) EXCEPT !.msg = "queued"]
      BY <1>5 DEF WorkerKilled
    <3> QED BY <1>0, <3>1 DEF Over, JobStates
  <2>2. UNCHANGED effects
    BY <1>5 DEF WorkerKilled
  <2>3. ExecInv'
    BY <1>0, <2>1, <2>2 DEF ExecInv, Executed, Holds
  <2> QED BY <1>0, <2>1, <2>2, <2>3 DEF Answers
<1>6. ASSUME NEW t \in Tasks, Deliver(t) PROVE OK
  <2>1. job[t].res # None /\ UNCHANGED effects
    BY <1>6 DEF Deliver, JobSent
  <2>2. ASSUME ~job[t].claimed,
               job' = [job EXCEPT ![t] = [job[t] EXCEPT !.msg = "taken", !.claimed = TRUE,
                                                        !.stage = "claimed"]]
        PROVE  OK
    <3>1. /\ job'[t].claimed /\ job'[t].stage = "claimed" /\ job'[t].res = job[t].res
          /\ \A u \in Tasks \ {t} : job'[u] = job[u]
      BY <1>0, <2>2 DEF JobStates
    <3>2. ASSUME t \in Jobs PROVE Executed(t)' /\ Answered(t)
      BY <2>1, <2>2, <3>1, <3>2 DEF ExecInv, Executed, Holds, Answered
    <3> QED BY <2>1, <3>1, <3>2, OneTask
  <2>3. ASSUME NEW m, job' = [job EXCEPT ![t] = [job[t] EXCEPT !.msg = m]] PROVE OK
    <3>1. /\ job'[t].claimed = job[t].claimed /\ job'[t].stage = job[t].stage
          /\ job'[t].res = job[t].res
          /\ \A u \in Tasks \ {t} : job'[u] = job[u]
      BY <1>0, <2>3 DEF JobStates
    <3>2. ASSUME t \in Jobs PROVE Executed(t)' /\ Answered(t)
      BY <2>1, <3>1, <3>2 DEF ExecInv, Executed, Holds, Answered
    <3> QED BY <2>1, <3>1, <3>2, OneTask
  <2>4. ASSUME NEW m, NEW e \in {"uncertain", "obsolete"},
               job' = [job EXCEPT ![t] = [Settle(t, "failed", e) EXCEPT !.msg = m]]
        PROVE  OK
    <3>0. /\ Settle(t, "failed", e) \in JobStates /\ job' = [job EXCEPT ![t] = job'[t]]
          /\ job'[t] = [Settle(t, "failed", e) EXCEPT !.msg = m]
      BY <1>0, <2>4, SettleOK DEF Terminal
    <3>1. /\ job'[t].claimed = job[t].claimed /\ job'[t].stage = job[t].stage
          /\ job'[t].res = IF job[t].res \in Terminal THEN job[t].res ELSE "failed"
          /\ \A u \in Tasks \ {t} : job'[u] = job[u]
      BY <1>0, <3>0 DEF JobStates, Settle
    <3>2. job[t].res \in Terminal \cup {"queued", "running"}
      BY <1>0, <2>1 DEF JobStates
    <3>3. ASSUME t \in Jobs PROVE Executed(t)' /\ Answered(t)
      BY <2>1, <3>1, <3>2, <3>3 DEF ExecInv, Executed, Holds, Answered, Terminal
    <3> QED BY <2>1, <3>1, <3>3, OneTask
  <2>5. \/ /\ ~job[t].claimed
           /\ job' = [job EXCEPT ![t] = [job[t] EXCEPT !.msg = "taken", !.claimed = TRUE,
                                                       !.stage = "claimed"]]
        \/ \E m \in {"acked", "taken"} : job' = [job EXCEPT ![t] = [job[t] EXCEPT !.msg = m]]
        \/ \E m \in {"acked", "taken"}, e \in {"uncertain", "obsolete"} :
              job' = [job EXCEPT ![t] = [Settle(t, "failed", e) EXCEPT !.msg = m]]
    BY <1>6 DEF Deliver, Unclaimed
  <2> QED BY <2>2, <2>3, <2>4, <2>5
<1>7. ASSUME NEW t \in Tasks, Redeliver(t) PROVE OK
  <2>1. job' = [job EXCEPT ![t].msg = "queued"] /\ UNCHANGED effects
    BY <1>7 DEF Redeliver
  <2>2. /\ job'[t].claimed = job[t].claimed /\ job'[t].stage = job[t].stage
        /\ job'[t].res = job[t].res
        /\ \A u \in Tasks \ {t} : job'[u] = job[u]
    BY <1>0, <2>1 DEF JobStates
  <2>3. ASSUME t \in Jobs PROVE Executed(t)' /\ Answered(t)
    BY <2>1, <2>2, <2>3 DEF ExecInv, Executed, Holds, Answered
  <2> QED BY <2>1, <2>2, <2>3, OneTask
<1>8. ASSUME NEW t \in Tasks, Lock(t) PROVE OK
  <2>1. job[t].res # None /\ UNCHANGED effects /\ job[t].stage = "claimed"
        /\ job[t].res \notin Terminal
    BY <1>8 DEF Lock, JobSent, GuardHolds
  <2>2. PICK r : /\ job' = [job EXCEPT ![t].stage = "locked", ![t].res = r]
                 /\ t \in Jobs => r = "running"
    BY <1>8 DEF Lock
  <2>3. /\ job'[t].claimed = job[t].claimed /\ job'[t].stage = "locked"
        /\ job'[t].res = r /\ job[t].res \in {"queued", "running"}
        /\ \A u \in Tasks \ {t} : job'[u] = job[u]
    BY <1>0, <2>1, <2>2 DEF JobStates
  <2>4. ASSUME t \in Jobs PROVE Executed(t)' /\ Answered(t)
    BY <2>1, <2>2, <2>3, <2>4 DEF ExecInv, Executed, Holds, Answered
  <2> QED BY <2>1, <2>3, <2>4, OneTask
<1>9. ASSUME NEW j \in Jobs, SessionLost(j) \/ Restore(j) \/ MarkRound(j) PROVE OK
  <2>1. UNCHANGED effects /\ job[j].res # None /\ j \in Tasks /\ job[j].stage # "none"
    BY <1>0, <1>9 DEF SessionLost, Restore, MarkRound, JobSent
  <2>2. \/ \E e \in {"deadline", "unavailable"} :
              job' = [job EXCEPT ![j] = Over(Settle(j, "failed", e))]
        \/ \E s \in {"restored", "running"} :
              /\ job' = [job EXCEPT ![j].stage = s]
              /\ job[j].stage \in {"read", "restored"}
    BY <1>9 DEF SessionLost, Restore, MarkRound
  <2> QED BY <1>0, <2>1, <2>2, Settles, MovesOn DEF Terminal
<1>10. ASSUME NEW j \in Jobs, ReadRounds(j) PROVE OK
  <2>1. j \in Tasks /\ job[j].stage = "locked" /\ UNCHANGED effects
    BY <1>0, <1>10 DEF ReadRounds
  <2>2. PICK r : job' = [job EXCEPT ![j].stage = "read", ![j].prev = mark, ![j].round = r]
    BY <1>10 DEF ReadRounds
  <2>3. /\ job'[j].claimed = job[j].claimed /\ job'[j].stage = "read"
        /\ job'[j].res = job[j].res
        /\ \A u \in Tasks \ {j} : job'[u] = job[u]
    BY <1>0, <2>1, <2>2 DEF JobStates
  <2>4. Executed(j)' /\ Answered(j)
    BY <2>1, <2>3 DEF ExecInv, Executed, Holds, Answered
  <2> QED BY <2>1, <2>3, <2>4, OneTask
<1>11. ASSUME NEW j \in Jobs, Effect(j) PROVE OK
  <2>1. j \in Tasks /\ job[j].stage = "running" /\ job[j].res # None /\ effects[j].n = 0
    BY <1>0, <1>11 DEF Effect, JobSent, ExecInv, Executed
  <2>2. /\ effects' = [effects EXCEPT ![j] = [n |-> effects[j].n + 1, ws |-> job[j].bind.ws,
                                              round |-> job[j].round]]
        /\ job' = [job EXCEPT ![j].stage = "ran"]
    BY <1>11 DEF Effect
  <2>3. effects'[j].n = 1 /\ \A i \in Jobs \ {j} : effects'[i] = effects[i]
    BY <2>1, <2>2 DEF TypeOK
  <2>4. /\ job'[j].claimed = job[j].claimed /\ job'[j].stage = "ran" /\ job'[j].res = job[j].res
        /\ \A u \in Tasks \ {j} : job'[u] = job[u]
    BY <1>0, <2>1, <2>2 DEF JobStates
  <2>5. ExecInv'
    BY <1>0, <2>1, <2>3, <2>4 DEF ExecInv, Executed, Holds
  <2>6. Job!Execute(j)
    <3>1. [i \in Jobs |-> job[i].res]' = [i \in Jobs |-> job[i].res]
      BY <1>0, <2>4
    <3>2. [i \in Jobs |-> effects[i].n]' = [[i \in Jobs |-> effects[i].n] EXCEPT ![j] = 1]
      BY <2>3
    <3> QED BY <2>1, <3>1, <3>2 DEF Job!Execute, None
  <2> QED BY <2>5, <2>6 DEF Answers, Job!Next
<1>12. ASSUME NEW r \in Rounds, CheckpointSave(r) \/ CheckpointClear(r) \/ CheckpointClose(r) PROVE OK
  <2>1. r \in Tasks /\ r \notin Jobs /\ UNCHANGED effects
    BY <1>0, <1>12, SandboxNames DEF CheckpointSave, CheckpointClear, CheckpointClose
  <2>2. \E x : job' = [job EXCEPT ![r] = x]
    BY <1>12 DEF CheckpointSave, CheckpointClear, CheckpointClose
  <2>3. \A u \in Tasks \ {r} : job'[u] = job[u]
    BY <1>0, <2>2
  <2> QED BY <2>1, <2>3, OneTask
<1> QED
  BY ZenonT(60), <1>a, <1>1, <1>2, <1>3, <1>4, <1>5, <1>6, <1>7, <1>8, <1>9, <1>10, <1>11, <1>12
  DEF Next, vars, Client, Worker, Prep, BeginRead, BeginWrite, FinishRound, JudgeRound, Submit,
      EnsureGone, ReturnFenced, EnsureRecover, Acquire, LocalPrepare, LocalGiveUp, PrepLost,
      PrepFailed, PrepStale, Commit, GiveUp, ResetPrepare, ClientFails, ClientDies, AwaitResult,
      LeaseRemoved, LeaseLapses, Heartbeat, WorkerStart, PrepDeliver, PrepLock, PrepAct,
      PrepCheck, PrepDone, PrepAborts, RecoveryExpires, RoundExpires, Evict, EvictKilled,
      WorkerCrash, Expire, Cleanup

-----------------------------------------------------------------------------
(* The theorems *)

IInv == /\ TypeOK /\ WorkersBound /\ JobSent /\ PrepSent /\ Bound /\ OneHolder /\ RunsInTree
        /\ Epochs /\ Owned /\ Fence /\ NoStaleWriter /\ Prepared /\ ReadyIsPrepared
        /\ Waits /\ ExecInv

LEMMA InitType == Init => TypeOK
<1> SUFFICES ASSUME Init PROVE TypeOK
  OBVIOUS
<1>1. RedisOK
  BY NoBindingOK DEF Init, RedisOK
<1>2. DisksOK
  BY DEF Init, DisksOK
<1>3. HostsOK
  BY DEF Init, HostsOK
<1>4. client \in [Tasks -> ClientStates]
  <2>1. MaxResets + 1 \in Nat
    BY SandboxBounds
  <2> QED BY <2>1, NoBindingOK, Names DEF Init, ClientStates
<1>5. job \in [Tasks -> JobStates]
  BY NoBindingOK DEF Init, JobStates
<1>6. preps \in [Preps -> PrepStates]
  BY NoBindingOK, Names DEF Init, PrepStates
<1>7. effects \in [Jobs -> [n : Nat, ws : Workspaces, round : Rounds \cup {None, Standalone}]]
  BY Names DEF Init
<1> QED BY <1>1, <1>2, <1>3, <1>4, <1>5, <1>6, <1>7 DEF TypeOK

LEMMA InitInv == Init => IInv
<1> SUFFICES ASSUME Init PROVE IInv
  OBVIOUS
<1>1. TypeOK
  BY InitType
<1>2. /\ binding = NoBinding /\ owner = None
      /\ \A t \in Tasks : /\ client[t].pc = "idle" /\ client[t].cur = 0
                          /\ client[t].own = NoBinding
                          /\ job[t].res = None /\ job[t].msg = "none" /\ job[t].bind = NoBinding
                          /\ job[t].stage = "none"
      /\ \A n \in Preps : preps[n].res = None /\ preps[n].msg = "none" /\ preps[n].stage = "none"
      /\ \A j \in Jobs : effects[j].n = 0
  BY DEF Init
<1>3. NoBinding.epoch = 0 /\ NoBinding.status = None /\ NoBinding.rec = None
  BY DEF NoBinding
<1>4. WorkersBound /\ JobSent /\ PrepSent
  BY <1>2 DEF WorkersBound, JobSent, PrepSent, Recovering
<1>5. Bound /\ Epochs /\ Owned
  BY <1>2, <1>3 DEF Bound, Epochs, Owned, None
<1>6. OneHolder /\ RunsInTree /\ NoStaleWriter
  BY <1>2 DEF OneHolder, Holds, Prepares, RunsInTree, InTree, NoStaleWriter
<1>7. Fence /\ Prepared /\ ReadyIsPrepared
  BY <1>2, <1>3 DEF Fence, Prepared, Checked, ReadyIsPrepared, None
<1>8. Waits /\ ExecInv
  BY <1>2 DEF Waits, ExecInv, Executed, Holds, Tasks
<1> QED BY <1>1, <1>4, <1>5, <1>6, <1>7, <1>8 DEF IInv

LEMMA TypeStep == ASSUME TypeOK, WorkersBound, RunsInTree, [Next]_vars PROVE TypeOK'
  BY RedisStep, HostsStep, ClientsStep, JobsStep, PrepsStep, EffectsStep, DisksMove DEF TypeOK

LEMMA InvStep == IInv /\ [Next]_vars => IInv'
  BY TypeStep, WorkersBoundStep, SentStep, BindingMoves, OneHolderStep, RunsInTreeStep, EpochsStep,
     OwnedStep, FenceStep, NoStaleWriterStep, PreparedStep, ReadyIsPreparedStep, WaitsStep, JobStep
  DEF IInv

(* The inductive invariant: the types, the lock, the epochs, the recoveries and the *)
(* executions together; no part is inductive without the others it is proved with.   *)
THEOREM SandboxInductive == Spec => []IInv
  BY InitInv, InvStep, PTL DEF Spec

(* Every record of the session, results and preparations has its shape in every     *)
(* reachable state: the Lua scripts, the workers and the clients write nothing else. *)
THEOREM SandboxTypeCorrect == Spec => []TypeOK
  BY SandboxInductive, PTL DEF IInv

(* The fence: nobody executes in the workspace of a READY placement on behalf of      *)
(* another epoch.  A recovery that publishes one had its workspace to itself, from    *)
(* the success of its preparation under the lock to the compare-and-set.              *)
THEOREM SandboxNoStaleWriter == Spec => []NoStaleWriter
  BY SandboxInductive, PTL DEF IInv

(* Only a successful physical preparation publishes a placement: what a READY one     *)
(* names is on the disk, however often workers, leases and clients were lost.         *)
THEOREM SandboxReadyIsPrepared == Spec => []ReadyIsPrepared
  BY SandboxInductive, PTL DEF IInv

(* One epoch is one placement, for every job ever sent with it.                        *)
THEOREM SandboxEpochFences == Spec => []EpochFences
<1>1. TypeOK /\ Epochs => EpochFences
  <2> SUFFICES ASSUME TypeOK, Epochs, NEW t \in Tasks, job[t].bind # NoBinding
               PROVE  /\ job[t].bind.epoch <= binding.epoch
                      /\ job[t].bind.epoch = binding.epoch /\ binding.status = "READY"
                           => Matches(job[t].bind, binding)
                      /\ \A u \in Tasks : job[u].bind.epoch = job[t].bind.epoch
                           => Matches(job[u].bind, job[t].bind)
    BY DEF EpochFences
  <2>1. job[t].bind.epoch \in Nat /\ job[t].bind.epoch >= 1 /\ NoBinding.epoch = 0
    BY DEF Epochs, TypeOK, JobStates, Bindings, NoBinding
  <2>2. \A u \in Tasks : job[u].bind.epoch = job[t].bind.epoch => job[u].bind # NoBinding
    BY <2>1
  <2> QED BY <2>2 DEF Epochs
<1> QED BY <1>1, SandboxInductive, PTL DEF IInv

(* submit keeps its promise: the gateway, the workers and the recoveries implement     *)
(* SandboxJob, a command that is sent once, runs at most once and gets one answer.     *)
THEOREM SandboxImplementsJob == Spec => ImplementsJob
<1>1. Init => Job!Init
  BY DEF Init, Job!Init, Tasks, None
<1>2. IInv /\ [Next]_vars => [Job!Next]_<<[j \in Jobs |-> job[j].res], [j \in Jobs |-> effects[j].n]>>
  BY JobStep DEF IInv, Answers
<1> QED BY <1>1, <1>2, SandboxInductive, PTL DEF Spec, ImplementsJob, Job!Spec

-----------------------------------------------------------------------------
(* A round keeps its work *)

(* The generation of a placement names its workspace, for every task. *)
Generations == \A t \in Tasks :
  /\ job[t].bind.gen <= binding.gen
  /\ job[t].bind.gen = binding.gen => job[t].bind.ws = binding.ws

LEMMA GenerationMoves ==
  ASSUME TypeOK, [Next]_vars
  PROVE  \/ binding'.gen = binding.gen /\ binding'.ws = binding.ws
         \/ binding'.gen > binding.gen
<1> DEFINE Moved == \/ binding'.gen = binding.gen /\ binding'.ws = binding.ws
                    \/ binding'.gen > binding.gen
<1>0. binding \in Bindings /\ \A t \in Tasks : client[t].own \in Bindings
  BY DEF TypeOK, RedisOK, ClientStates
<1>1. ASSUME NEW t \in Tasks, Acquire(t) PROVE Moved
  <2>1. ASSUME NEW b \in Candidates, binding' = Recovered(b, t) PROVE Moved
    <3>1. b.gen = binding.gen /\ b.ws = binding.ws /\ b \in Bindings
      <4>1. CASE binding # NoBinding
        BY <1>0, <2>1, <4>1 DEF Candidates
      <4>2. CASE binding = NoBinding
        <5>1. PICK w \in Workers :
                b = [NoBinding EXCEPT !.worker = w, !.inst = lease[w], !.epoch = 1]
          BY <2>1, <4>2 DEF Candidates
        <5>2. b.gen = NoBinding.gen /\ b.ws = NoBinding.ws
          BY <5>1 DEF NoBinding
        <5> QED BY <4>2, <5>2, CandidatesOK
      <4> QED BY <4>1, <4>2
    <3>2. binding'.gen = b.gen /\ binding'.ws = b.ws
      BY <2>1, <3>1 DEF Recovered, Bindings
    <3> QED BY <3>1, <3>2
  <2> QED BY <1>1, <2>1 DEF Acquire
<1>2. ASSUME NEW t \in Tasks, Commit(t) PROVE Moved
  <2>1. CASE UNCHANGED binding
    BY <2>1
  <2>2. CASE MayCommit(t) /\ binding' = Placement(t)
    <3>1. client[t].own.gen = binding.gen /\ client[t].own.ws = binding.ws
      BY <2>2 DEF MayCommit, Current, Matches
    <3>2. PICK p : Placement(t) \in {Refreshed(client[t].own, p), Replacement(client[t].own, p)}
      BY DEF Placement
    <3>3. /\ Refreshed(client[t].own, p).gen = client[t].own.gen
          /\ Refreshed(client[t].own, p).ws = client[t].own.ws
          /\ Replacement(client[t].own, p).gen = client[t].own.gen + 1
      BY <1>0 DEF Refreshed, Replacement, Bindings
    <3>4. client[t].own.gen \in Nat
      BY <1>0 DEF Bindings
    <3> QED BY <2>2, <3>1, <3>2, <3>3, <3>4
  <2> QED BY <1>2, <2>1, <2>2 DEF Commit
<1>3. ASSUME UNCHANGED binding \/ binding' = Abandoned(binding) PROVE Moved
  <2>1. Abandoned(binding).gen = binding.gen /\ Abandoned(binding).ws = binding.ws
    BY <1>0 DEF Abandoned, Bindings
  <2> QED BY <1>3, <2>1
<1>4. ASSUME NEW t \in Tasks, GiveUp(t) PROVE Moved
  <2>1. CASE AbandonRecovery(t)
    BY <1>3, <2>1 DEF AbandonRecovery
  <2>2. CASE MayCommit(t) /\ binding' = [client[t].own EXCEPT !.status = "RESETTING"]
    <3>1. client[t].own.gen = binding.gen /\ client[t].own.ws = binding.ws
      BY <2>2 DEF MayCommit, Current, Matches
    <3>2. binding'.gen = client[t].own.gen /\ binding'.ws = client[t].own.ws
      BY <1>0, <2>2 DEF Bindings
    <3> QED BY <3>1, <3>2
  <2> QED BY <1>3, <1>4, <2>1, <2>2 DEF GiveUp
<1>5. ASSUME NEW t \in Tasks, ClientFails(t) PROVE Moved
  BY <1>3, <1>5 DEF ClientFails, AbandonRecovery
<1>6. CASE Cleanup
  BY <1>3, <1>6 DEF Cleanup, Tombstone
<1>7. CASE UNCHANGED binding
  BY <1>7
<1> QED
  BY ZenonT(60), <1>1, <1>2, <1>4, <1>5, <1>6, <1>7
  DEF Next, vars, redis, Client, Worker, Prep, BeginRead, BeginWrite, FinishRound, JudgeRound,
      CheckpointSave, CheckpointClear, CheckpointClose, Submit, SessionLost, ReadRounds, Restore,
      MarkRound, Effect, EnsureGone, EnsureReturn, ReturnFenced, EnsureRecover, LocalPrepare,
      LocalGiveUp, PrepLost, PrepFailed, PrepStale, ResetPrepare, ClientDies, AwaitLost,
      AwaitEnds, AwaitResult, Deliver, Redeliver, Lock, Publish, Abort, WorkerCrash, WorkerKilled,
      EvictKilled, LeaseRemoved, LeaseLapses, Heartbeat, WorkerStart, PrepDeliver, PrepLock,
      PrepAct, PrepCheck, PrepDone, PrepAborts, RecoveryExpires, RoundExpires, Evict, Expire

LEMMA GenerationsStep ==
  ASSUME TypeOK, TypeOK', JobSent, Generations, [Next]_vars
  PROVE  Generations'
<1> SUFFICES ASSUME NEW t \in Tasks
             PROVE  /\ job'[t].bind.gen <= binding'.gen
                    /\ job'[t].bind.gen = binding'.gen => job'[t].bind.ws = binding'.ws
  BY DEF Generations
<1>1. /\ binding.gen \in Nat /\ binding'.gen \in Nat
      /\ job[t].bind.gen \in Nat /\ job'[t].bind.gen \in Nat
  BY DEF TypeOK, RedisOK, JobStates, Bindings
<1>2. CASE job'[t].bind = binding /\ UNCHANGED binding
  BY <1>1, <1>2
<1>3. CASE job'[t].bind = job[t].bind
  BY <1>1, <1>3, GenerationMoves DEF Generations
<1> QED BY <1>2, <1>3, JobMoves DEF Sent

(* The client of r is through with begin_round. *)
Past(r) == client[r].pc \notin {"idle", "begin"}

LEMMA PastStays ==
  ASSUME TypeOK, [Next]_vars, NEW u \in Tasks, Past(u)
  PROVE  Past(u)'
<1>0. client \in [Tasks -> ClientStates]
  BY DEF TypeOK
<1>a. ASSUME NEW t \in Tasks, NEW x, x.pc \notin {"idle", "begin"}, client' = [client EXCEPT ![t] = x]
      PROVE  Past(u)'
  BY <1>0, <1>a DEF Past
<1>b. ASSUME NEW t \in Tasks, NEW pc, pc \notin {"idle", "begin"}, Goto(t, pc) PROVE Past(u)'
  <2> DEFINE x == [client[t] EXCEPT !.pc = pc, !.cur = 0,
                     !.own = IF pc \in {"giveup", "reset"} THEN client[t].own ELSE NoBinding]
  <2>1. client' = [client EXCEPT ![t] = x]
    BY <1>b DEF Goto
  <2>2. x.pc = pc
    BY <1>0 DEF ClientStates
  <2> HIDE DEF x
  <2> QED BY <1>a, <1>b, <2>1, <2>2
<1>c. ASSUME NEW t \in Tasks, Goto(t, After(t)) PROVE Past(u)'
  BY <1>b, <1>c, AfterOK
<1>1. ASSUME NEW r \in Rounds, BeginRead(r) PROVE Past(u)'
  <2>1. client[r].pc = "idle" /\ client' = [client EXCEPT ![r].pc = "begin", ![r].own = binding]
    BY <1>1 DEF BeginRead
  <2>2. u # r
    BY <2>1 DEF Past
  <2>3. client'[u] = client[u]
    BY <1>0, <2>1, <2>2
  <2> QED BY <2>3 DEF Past
<1>2. ASSUME NEW r \in Rounds, BeginWrite(r) \/ FinishRound(r) \/ JudgeRound(r) PROVE Past(u)'
  <2>1. r \in Tasks
    BY DEF Tasks
  <2> QED BY <1>2, <1>b, <2>1 DEF BeginWrite, FinishRound, JudgeRound
<1>3. ASSUME NEW j \in Jobs, Submit(j) PROVE Past(u)'
  <2>1. j \in Tasks
    BY DEF Tasks
  <2>2. PICK s : client' = [client EXCEPT ![j].pc = "ensure", ![j].seen = s]
    BY <1>3 DEF Submit
  <2>3. [client[j] EXCEPT !.pc = "ensure", !.seen = s].pc = "ensure"
    BY <1>0, <2>1 DEF ClientStates
  <2> QED BY <1>0, <2>1, <2>2, <2>3 DEF Past
<1>4. ASSUME NEW t \in Tasks, EnsureReturn(t) PROVE Past(u)'
  <2>1. Dispatch(t, binding)
    BY <1>4 DEF EnsureReturn
  <2> QED BY <1>b, <1>c, <2>1 DEF Dispatch
<1>5. ASSUME NEW t \in Tasks,
             \/ EnsureGone(t) \/ ReturnFenced(t) \/ LocalGiveUp(t) \/ ClientFails(t)
             \/ ClientDies(t) \/ AwaitLost(t) \/ AwaitEnds(t) \/ AwaitResult(t)
      PROVE  Past(u)'
  <2>1. \/ Goto(t, "done") \/ Goto(t, "giveup") \/ Goto(t, "judge") \/ Goto(t, "ensure")
        \/ Goto(t, "force") \/ Goto(t, After(t))
    <3>1. CASE AwaitResult(t)
      <4>1. Goto(t, RecoverFrom(job[t])) \/ Goto(t, After(t))
        BY <3>1 DEF AwaitResult
      <4> QED BY <4>1 DEF RecoverFrom
    <3>2. CASE AwaitEnds(t)
      BY <3>2 DEF AwaitEnds
    <3>3. CASE AwaitLost(t) \/ LocalGiveUp(t)
      BY <3>3 DEF AwaitLost, LocalGiveUp
    <3>4. CASE EnsureGone(t) \/ ReturnFenced(t) \/ ClientFails(t) \/ ClientDies(t)
      BY <3>4 DEF EnsureGone, ReturnFenced, ClientFails, ClientDies
    <3> QED BY <1>5, <3>1, <3>2, <3>3, <3>4
  <2> QED BY <1>b, <1>c, <2>1
<1>6. ASSUME NEW t \in Tasks, NEW b, NEW pc \in {"acquire", "first", "local", "reset", "recovered"},
             \/ client' = [client EXCEPT ![t].pc = pc, ![t].own = b]
             \/ client' = [client EXCEPT ![t].own = b, ![t].pc = pc]
             \/ client' = [client EXCEPT ![t].cur = 0, ![t].pc = pc, ![t].own = b]
      PROVE  Past(u)'
  BY <1>0, <1>6 DEF Past, ClientStates
<1>7. ASSUME NEW t \in Tasks, EnsureRecover(t) PROVE Past(u)'
  BY <1>6, <1>7 DEF EnsureRecover
<1>8. ASSUME NEW t \in Tasks, Acquire(t) PROVE Past(u)'
  <2>1. CASE Goto(t, "ensure")
    BY <1>b, <2>1
  <2>2. CASE ~Goto(t, "ensure")
    <3>1. PICK b \in Candidates, pc \in {"first", "local"} :
             client' = [client EXCEPT ![t].own = Recovered(b, t), ![t].pc = pc]
      BY <1>8, <2>2 DEF Acquire
    <3> QED BY <1>6, <3>1
  <2> QED BY <2>1, <2>2
<1>9. ASSUME NEW t \in Tasks, NEW n, client' = [client EXCEPT ![t].cur = n] PROVE Past(u)'
  BY <1>0, <1>9 DEF Past, ClientStates
<1>10. ASSUME NEW t \in Tasks, LocalPrepare(t) \/ ResetPrepare(t) PROVE Past(u)'
  <2>1. PICK n \in Preps : client' = [client EXCEPT ![t].cur = n]
    BY <1>10 DEF LocalPrepare, ResetPrepare, SendPrep
  <2> QED BY <1>9, <2>1
<1>11. ASSUME NEW t \in Tasks, PrepFailed(t) PROVE Past(u)'
  <2>1. PICK pc \in {"giveup", client[t].pc} :
           client' = [client EXCEPT ![t].cur = 0, ![t].pc = pc]
    BY <1>11, OnwardOK
  <2> QED BY <1>0, <2>1 DEF Past, ClientStates
<1>12. ASSUME NEW t \in Tasks, PrepStale(t) PROVE Past(u)'
  <2>1. ASSUME NEW pc \in {"giveup", client[t].pc},
               client' = [client EXCEPT ![t].cur = 0, ![t].pc = pc]
        PROVE  Past(u)'
    BY <1>0, <2>1 DEF Past, ClientStates
  <2> QED BY <1>12, <1>b, <2>1, OnwardOK
<1>13. ASSUME NEW t \in Tasks, Commit(t) PROVE Past(u)'
  BY <1>6, <1>13, <1>b DEF Commit
<1>14. ASSUME NEW t \in Tasks, GiveUp(t) PROVE Past(u)'
  BY <1>6, <1>14, <1>b, <1>c DEF GiveUp
<1>15. CASE UNCHANGED client
  BY <1>15 DEF Past
<1> QED
  BY ZenonT(60), <1>1, <1>2, <1>3, <1>4, <1>5, <1>7, <1>8, <1>10, <1>11, <1>12, <1>13, <1>14, <1>15
  DEF Next, vars, hosts, Client, Worker, Prep, CheckpointSave, CheckpointClear, CheckpointClose,
      SessionLost, ReadRounds, Restore, MarkRound, Effect, PrepLost, Deliver, Redeliver, Lock,
      Publish, Abort, WorkerCrash, WorkerKilled, EvictKilled, LeaseRemoved, LeaseLapses,
      Heartbeat, WorkerStart, PrepDeliver, PrepLock, PrepAct, PrepCheck, PrepDone, PrepAborts,
      RecoveryExpires, RoundExpires, Evict, Expire, Cleanup

(* The active round is opened once, by begin_round; the mark is a command's or dropped. *)
LEMMA RoundsMove ==
  ASSUME TypeOK, [Next]_vars
  PROVE  /\ active' \in {active, None} \/ \E r \in Rounds : active' = r /\ ~Past(r) /\ Past(r)'
         /\ mark' \in {mark, None} \/ \E i \in Jobs : MarkRound(i)
<1> DEFINE Moved ==
             /\ active' \in {active, None} \/ \E r \in Rounds : active' = r /\ ~Past(r) /\ Past(r)'
             /\ mark' \in {mark, None} \/ \E i \in Jobs : MarkRound(i)
<1>1. ASSUME NEW r \in Rounds, BeginWrite(r) PROVE Moved
  <2>1. ~Past(r) /\ Goto(r, "open") /\ active' \in {active, r} /\ UNCHANGED mark
    BY <1>1 DEF BeginWrite, Past
  <2>2. client'[r].pc = "open"
    BY <2>1 DEF Goto, TypeOK, ClientStates, Tasks
  <2> QED BY <2>1, <2>2 DEF Past
<1>2. ASSUME NEW r \in Rounds, FinishRound(r) \/ JudgeRound(r) \/ CheckpointClear(r)
                               \/ CheckpointClose(r)
      PROVE  Moved
  BY <1>2 DEF FinishRound, JudgeRound, CheckpointClear, CheckpointClose, CloseRound
<1>3. ASSUME NEW t \in Tasks, Commit(t) \/ GiveUp(t) \/ ClientFails(t) PROVE Moved
  BY <1>3 DEF Commit, GiveUp, ClientFails, AbandonRecovery
<1>4. CASE RoundExpires \/ Evict \/ Cleanup
  BY <1>4 DEF RoundExpires, Evict, Cleanup, Tombstone
<1>5. ASSUME NEW j \in Jobs, MarkRound(j) PROVE Moved
  BY <1>5 DEF MarkRound
<1>6. CASE UNCHANGED <<active, mark>>
  BY <1>6
<1> QED
  BY ZenonT(60), <1>1, <1>2, <1>3, <1>4, <1>5, <1>6
  DEF Next, vars, redis, Client, Worker, Prep, BeginRead, CheckpointSave, Submit, SessionLost,
      ReadRounds, Restore, Effect, EnsureGone, EnsureReturn, ReturnFenced, EnsureRecover, Acquire,
      LocalPrepare, LocalGiveUp, PrepLost, PrepFailed, PrepStale, ResetPrepare, ClientDies,
      AwaitLost, AwaitEnds, AwaitResult, Deliver, Redeliver, Lock, Publish, Abort, WorkerCrash,
      WorkerKilled, EvictKilled, LeaseRemoved, LeaseLapses, Heartbeat, WorkerStart, PrepDeliver,
      PrepLock, PrepAct, PrepCheck, PrepDone, PrepAborts, RecoveryExpires, Expire

LEMMA SettleRounds ==
  ASSUME job \in [Tasks -> JobStates], NEW t \in Tasks, NEW res \in Terminal,
         NEW err \in {None, "uncertain", "obsolete", "unavailable", "deadline"}
  PROVE  /\ Settle(t, res, err).stage = job[t].stage /\ Settle(t, res, err).round = job[t].round
         /\ Settle(t, res, err).prev = job[t].prev /\ Settle(t, res, err).res \in {res, job[t].res}
         /\ Over(Settle(t, res, err)).stage = "none" /\ Over(Settle(t, res, err)).round = None
         /\ Over(Settle(t, res, err)).res \in {res, job[t].res}
         /\ Over(job[t]).stage = "none" /\ Over(job[t]).round = None
         /\ Over(job[t]).res = job[t].res
  BY DEF Settle, Over, JobStates, Terminal, None

(* A command that has not read the rounds yet, or not any more, knows none. *)
Idles(i) == /\ job'[i].stage \in {"none", "claimed", "locked"}
            /\ job'[i].round \in {None, job[i].round}

(* A command keeps what it read of the rounds. *)
KeepsRounds(i) == job'[i].round = job[i].round /\ job'[i].prev = job[i].prev

Reads(i) == /\ job'[i].stage = "read" /\ job'[i].prev = mark /\ UNCHANGED <<active, mark, files>>
            /\ job'[i].round = IF active = None THEN Standalone ELSE active

Restores(i) == job[i].stage = "read" /\ job'[i].stage = "restored" /\ KeepsRounds(i)

Marks(i) == /\ job[i].stage = "restored" /\ job'[i].stage = "running" /\ KeepsRounds(i)
            /\ MarkRound(i)

Runs(i) == /\ job[i].stage = "running" /\ job'[i].stage = "ran" /\ KeepsRounds(i)
           /\ Effect(i) /\ effects'[i].n > 0 /\ effects'[i].round = job[i].round

(* How a command deals with the rounds. *)
CommandMoves(i) ==
  /\ \/ Idles(i) \/ Reads(i) \/ Restores(i) \/ Marks(i) \/ Runs(i)
     \/ job'[i].stage = job[i].stage /\ KeepsRounds(i)
  /\ effects'[i] = effects[i] \/ Runs(i)
  /\ job'[i].res = "completed" => job[i].res = "completed" \/ job[i].stage = "ran"

LEMMA CommandsMove ==
  ASSUME TypeOK, ExecInv, [Next]_vars, NEW i \in Jobs
  PROVE  CommandMoves(i)
<1>0. /\ job \in [Tasks -> JobStates] /\ i \in Tasks /\ Jobs \subseteq Tasks
      /\ effects \in [Jobs -> [n : Nat, ws : Workspaces, round : Rounds \cup {None, Standalone}]]
      /\ job[i] \in JobStates
      /\ job[i].stage \notin {"saved", "cleared", "collected"}
  BY DEF TypeOK, Tasks, ExecInv, Executed
<1>a. ASSUME job'[i] = job[i], effects'[i] = effects[i] PROVE CommandMoves(i)
  BY <1>a DEF CommandMoves, KeepsRounds
<1>b. ASSUME NEW t \in Tasks, NEW x, job' = [job EXCEPT ![t] = x], UNCHANGED effects,
             t = i => /\ \/ x.stage \in {"none", "claimed", "locked"} /\ x.round \in {None, job[i].round}
                         \/ x.stage = job[i].stage /\ x.round = job[i].round /\ x.prev = job[i].prev
                      /\ x.res = "completed" => job[i].res = "completed" \/ job[i].stage = "ran"
      PROVE  CommandMoves(i)
  BY <1>0, <1>a, <1>b DEF CommandMoves, Idles, KeepsRounds
<1>c. ASSUME NEW t \in Tasks, NEW r \in Terminal,
             NEW e \in {None, "uncertain", "obsolete", "unavailable", "deadline"},
             \/ job' = [job EXCEPT ![t] = Settle(t, r, e)]
             \/ job' = [job EXCEPT ![t] = Over(Settle(t, r, e))],
             r = "completed" /\ t = i => job[i].stage = "ran",
             UNCHANGED effects
      PROVE  CommandMoves(i)
  BY <1>0, <1>b, <1>c, SettleRounds
<1>1. ASSUME NEW t \in Tasks, EnsureReturn(t) PROVE CommandMoves(i)
  <2>1. Dispatch(t, binding) /\ UNCHANGED effects
    BY <1>1 DEF EnsureReturn
  <2>2. CASE UNCHANGED job
    BY <1>a, <2>1, <2>2
  <2>3. ASSUME job' = [job EXCEPT ![t].res = "queued", ![t].bind = binding, ![t].msg = "queued"]
        PROVE  CommandMoves(i)
    <3> DEFINE x == [job[t] EXCEPT !.res = "queued", !.bind = binding, !.msg = "queued"]
    <3>1. /\ x.stage = job[t].stage /\ x.round = job[t].round /\ x.prev = job[t].prev
          /\ x.res = "queued" /\ job' = [job EXCEPT ![t] = x]
      BY <1>0, <2>3 DEF JobStates
    <3> HIDE DEF x
    <3> QED BY <1>b, <2>1, <3>1
  <2> QED BY <2>1, <2>2, <2>3 DEF Dispatch
<1>2. ASSUME NEW t \in Tasks, AwaitLost(t) \/ AwaitEnds(t) PROVE CommandMoves(i)
  BY <1>c, <1>2 DEF AwaitLost, AwaitEnds, Terminal
<1>3. ASSUME NEW t \in Tasks, Publish(t) PROVE CommandMoves(i)
  <2>1. /\ job[t].stage \in {"ran", "collected"} /\ UNCHANGED effects
        /\ job' = [job EXCEPT ![t] = Over(Settle(t, "completed", None))]
    BY <1>3 DEF Publish
  <2> QED BY <1>0, <1>c, <2>1 DEF Terminal
<1>4. ASSUME NEW t \in Tasks, Abort(t) PROVE CommandMoves(i)
  <2>1. PICK e \in {"deadline", "uncertain", "obsolete"} :
          job' = [job EXCEPT ![t] = Over(Settle(t, "failed", e))]
    BY <1>4 DEF Abort
  <2>2. UNCHANGED effects
    BY <1>4 DEF Abort
  <2> QED BY <1>c, <2>1, <2>2 DEF Terminal
<1>5. ASSUME NEW w, WorkerKilled(w) PROVE CommandMoves(i)
  <2>1. UNCHANGED effects /\ job'[i] \in {job[i], [Over(job[i]) EXCEPT !.msg = "queued"]}
    BY <1>0, <1>5 DEF WorkerKilled
  <2>2. /\ [Over(job[i]) EXCEPT !.msg = "queued"].stage = "none"
        /\ [Over(job[i]) EXCEPT !.msg = "queued"].round = None
        /\ [Over(job[i]) EXCEPT !.msg = "queued"].res = job[i].res
    BY <1>0 DEF Over, JobStates
  <2> QED BY <1>a, <2>1, <2>2 DEF CommandMoves, Idles
<1>6. ASSUME NEW t \in Tasks, Deliver(t) PROVE CommandMoves(i)
  <2>0. UNCHANGED effects
    BY <1>6 DEF Deliver
  <2>1. PICK own \in BOOLEAN, e \in {"uncertain", "obsolete"} :
          job' = [job EXCEPT ![t] =
             IF own /\ Unclaimed(t)
             THEN [job[t] EXCEPT !.msg = "taken", !.claimed = TRUE, !.stage = "claimed"]
             ELSE IF own THEN [job[t] EXCEPT !.msg = IF job[t].stage = "none" THEN "acked" ELSE "taken"]
             ELSE [Settle(t, "failed", e)
                     EXCEPT !.msg = IF job[t].stage = "none" THEN "acked" ELSE "taken"]]
    <3> DEFINE o == job[t].bind.inst = inst[job[t].bind.worker] /\ GuardHolds(t) /\ session # "gone"
               e == IF job[t].res = "running" THEN "uncertain" ELSE "obsolete"
    <3>1. o \in BOOLEAN /\ e \in {"uncertain", "obsolete"}
      OBVIOUS
    <3> QED BY <1>6, <3>1 DEF Deliver
  <2> DEFINE m == IF job[t].stage = "none" THEN "acked" ELSE "taken"
             x1 == [job[t] EXCEPT !.msg = "taken", !.claimed = TRUE, !.stage = "claimed"]
             x2 == [job[t] EXCEPT !.msg = m]
             x3 == [Settle(t, "failed", e) EXCEPT !.msg = m]
  <2>2. /\ x1.stage = "claimed" /\ x1.round = job[t].round /\ x1.res = job[t].res
        /\ x2.stage = job[t].stage /\ x2.round = job[t].round /\ x2.prev = job[t].prev
        /\ x2.res = job[t].res
    BY <1>0 DEF JobStates
  <2>3. /\ x3.stage = job[t].stage /\ x3.round = job[t].round /\ x3.prev = job[t].prev
        /\ x3.res \in {"failed", job[t].res}
    BY <1>0 DEF Settle, JobStates
  <2>4. job' = [job EXCEPT ![t] = x1] \/ job' = [job EXCEPT ![t] = x2] \/ job' = [job EXCEPT ![t] = x3]
    BY <2>1
  <2> HIDE DEF x1, x2, x3
  <2>5. CASE job' = [job EXCEPT ![t] = x1]
    BY <1>b, <2>0, <2>2, <2>5
  <2>6. CASE job' = [job EXCEPT ![t] = x2]
    BY <1>b, <2>0, <2>2, <2>6
  <2>7. CASE job' = [job EXCEPT ![t] = x3]
    BY <1>b, <2>0, <2>3, <2>7
  <2> QED BY <2>4, <2>5, <2>6, <2>7
<1>7. ASSUME NEW t \in Tasks, Redeliver(t) PROVE CommandMoves(i)
  <2> DEFINE x == [job[t] EXCEPT !.msg = "queued"]
  <2>1. /\ x.stage = job[t].stage /\ x.round = job[t].round /\ x.prev = job[t].prev
        /\ x.res = job[t].res
    BY <1>0 DEF JobStates
  <2>2. job' = [job EXCEPT ![t] = x] /\ UNCHANGED effects
    BY <1>7 DEF Redeliver
  <2> HIDE DEF x
  <2> QED BY <1>b, <2>1, <2>2
<1>8. ASSUME NEW t \in Tasks, Lock(t) PROVE CommandMoves(i)
  <2>0. PICK s \in {"running", job[t].res} : job' = [job EXCEPT ![t].stage = "locked", ![t].res = s]
    BY <1>8 DEF Lock
  <2> DEFINE x == [job[t] EXCEPT !.stage = "locked", !.res = s]
  <2>1. x.stage = "locked" /\ x.round = job[t].round /\ x.res = s
    BY <1>0 DEF JobStates
  <2>2. job' = [job EXCEPT ![t] = x] /\ UNCHANGED effects
    BY <1>8, <2>0 DEF Lock
  <2> HIDE DEF x
  <2> QED BY <1>b, <2>1, <2>2
<1>9. ASSUME NEW j \in Jobs, SessionLost(j) PROVE CommandMoves(i)
  BY <1>0, <1>c, <1>9 DEF SessionLost, Terminal
<1>10. ASSUME NEW j \in Jobs, ReadRounds(j) PROVE CommandMoves(i)
  <2> DEFINE s == IF active = None THEN Standalone ELSE active
  <2>1. /\ job' = [job EXCEPT ![j].stage = "read", ![j].prev = mark, ![j].round = s]
        /\ UNCHANGED <<effects, active, mark, files>>
    BY <1>10 DEF ReadRounds, redis, disks
  <2>2. CASE j = i
    <3>1. /\ job'[i].stage = "read" /\ job'[i].prev = mark /\ job'[i].round = s
          /\ job'[i].res = job[i].res
      BY <1>0, <2>1, <2>2 DEF JobStates
    <3> QED BY <2>1, <3>1 DEF CommandMoves, Reads
  <2> QED BY <1>0, <1>a, <2>1, <2>2
<1>11. ASSUME NEW j \in Jobs, Restore(j) PROVE CommandMoves(i)
  <2>1. /\ UNCHANGED effects /\ job[j].stage = "read"
        /\ \/ job' = [job EXCEPT ![j] = Over(Settle(j, "failed", "unavailable"))]
           \/ job' = [job EXCEPT ![j].stage = "restored"]
    BY <1>11 DEF Restore
  <2>2. CASE job' = [job EXCEPT ![j] = Over(Settle(j, "failed", "unavailable"))]
    BY <1>0, <1>c, <2>1, <2>2 DEF Terminal
  <2>3. CASE job' = [job EXCEPT ![j].stage = "restored"]
    <3>1. CASE j = i
      <4>1. job'[i].stage = "restored" /\ KeepsRounds(i) /\ job'[i].res = job[i].res
        BY <1>0, <2>3, <3>1 DEF JobStates, KeepsRounds
      <4> QED BY <2>1, <3>1, <4>1 DEF CommandMoves, Restores
    <3> QED BY <1>0, <1>a, <2>1, <2>3, <3>1
  <2> QED BY <2>1, <2>2, <2>3
<1>12. ASSUME NEW j \in Jobs, MarkRound(j) PROVE CommandMoves(i)
  <2>1. /\ UNCHANGED effects /\ job[j].stage = "restored"
        /\ job' = [job EXCEPT ![j].stage = "running"]
    BY <1>12 DEF MarkRound
  <2>2. CASE j = i
    <3>1. job'[i].stage = "running" /\ KeepsRounds(i) /\ job'[i].res = job[i].res
      BY <1>0, <2>1, <2>2 DEF JobStates, KeepsRounds
    <3> QED BY <1>12, <2>1, <2>2, <3>1 DEF CommandMoves, Marks
  <2> QED BY <1>0, <1>a, <2>1, <2>2
<1>13. ASSUME NEW j \in Jobs, Effect(j) PROVE CommandMoves(i)
  <2>1. /\ job[j].stage = "running" /\ job' = [job EXCEPT ![j].stage = "ran"]
        /\ effects' = [effects EXCEPT ![j] = [n |-> effects[j].n + 1, ws |-> job[j].bind.ws,
                                              round |-> job[j].round]]
    BY <1>13 DEF Effect
  <2>2. CASE j = i
    <3>1. job'[i].stage = "ran" /\ KeepsRounds(i) /\ job'[i].res = job[i].res
      BY <1>0, <2>1, <2>2 DEF JobStates, KeepsRounds
    <3>2. effects'[i].n > 0 /\ effects'[i].round = job[i].round
      BY <1>0, <2>1, <2>2
    <3> QED BY <1>13, <2>1, <2>2, <3>1, <3>2 DEF CommandMoves, Runs
  <2> QED BY <1>0, <1>a, <2>1, <2>2
<1>14. ASSUME NEW r \in Rounds, CheckpointSave(r) \/ CheckpointClear(r) \/ CheckpointClose(r) PROVE CommandMoves(i)
  <2>1. r # i /\ UNCHANGED effects
    BY <1>14, SandboxNames DEF CheckpointSave, CheckpointClear, CheckpointClose
  <2>2. \E x : job' = [job EXCEPT ![r] = x]
    BY <1>14 DEF CheckpointSave, CheckpointClear, CheckpointClose
  <2> QED BY <1>0, <1>a, <2>1, <2>2
<1>15. CASE UNCHANGED <<job, effects>>
  BY <1>a, <1>15
<1> QED
  BY ZenonT(60), <1>1, <1>2, <1>3, <1>4, <1>5, <1>6, <1>7, <1>8, <1>9, <1>10, <1>11, <1>12, <1>13,
     <1>14, <1>15
  DEF Next, vars, Client, Worker, Prep, BeginRead, BeginWrite, FinishRound, JudgeRound, Submit,
      EnsureGone, ReturnFenced, EnsureRecover, Acquire, LocalPrepare, LocalGiveUp, PrepLost,
      PrepFailed, PrepStale, Commit, GiveUp, ResetPrepare, ClientFails, ClientDies, AwaitResult,
      LeaseRemoved, LeaseLapses, Heartbeat, WorkerStart, PrepDeliver, PrepLock, PrepAct,
      PrepCheck, PrepDone, PrepAborts, RecoveryExpires, RoundExpires, Evict, EvictKilled,
      WorkerCrash, Expire, Cleanup

(* Files leave a workspace only with a round that was interrupted. *)
LEMMA FilesStay ==
  ASSUME TypeOK, [Next]_vars, active # None, ~Interrupted(active),
         NEW j \in Jobs, NEW ws \in Workspaces, j \in files[ws],
         \A i \in Jobs : job[i].stage = "read" /\ job[i].bind.ws = ws => ~OtherRound(i)
  PROVE  j \in files'[ws]
<1>0. /\ files \in [Workspaces -> (SUBSET Jobs) \cup {Missing}] /\ files[ws] # Missing
  BY Names DEF TypeOK, DisksOK, Missing
<1>a. ASSUME NEW v, NEW tree, PutTree(v, tree), v = ws => j \in tree PROVE j \in files'[ws]
  BY <1>0, <1>a DEF PutTree
<1>b. ASSUME NEW allowEmpty PROVE Restored(ws, allowEmpty, FALSE) = files[ws]
  BY <1>0 DEF Restored
<1>1. ASSUME NEW n \in Preps, PrepAct(n) PROVE j \in files'[ws]
  <2>1. CASE UNCHANGED files
    BY <2>1
  <2>2. ASSUME NEW tree,
               tree = IF preps[n].restore
                      THEN Restored(preps[n].ws, session = "empty", Interrupted(active))
                      ELSE IF files[preps[n].ws] = Missing THEN {} ELSE files[preps[n].ws],
               PutTree(preps[n].ws, tree)
        PROVE  j \in files'[ws]
    <3>1. Interrupted(active) = FALSE
      BY DEF Interrupted
    <3>2. preps[n].ws = ws => tree = files[ws]
      BY <1>0, <1>b, <2>2, <3>1
    <3> QED BY <1>a, <2>2, <3>2
  <2> QED BY <1>1, <2>1, <2>2 DEF PrepAct
<1>2. ASSUME NEW i \in Jobs, Restore(i) PROVE j \in files'[ws]
  <2>1. CASE UNCHANGED files
    BY <2>1
  <2>2. ASSUME PutTree(job[i].bind.ws, Restored(job[i].bind.ws, session = "empty", OtherRound(i)))
        PROVE  j \in files'[ws]
    <3>1. job[i].bind.ws = ws => OtherRound(i) = FALSE
      BY <1>2 DEF Restore, OtherRound
    <3>2. job[i].bind.ws = ws =>
            Restored(job[i].bind.ws, session = "empty", OtherRound(i)) = files[ws]
      BY <1>b, <3>1
    <3> QED BY <1>a, <2>2, <3>2
  <2> QED BY <1>2, <2>1, <2>2 DEF Restore
<1>3. ASSUME NEW i \in Jobs, Effect(i) PROVE j \in files'[ws]
  <2>1. files' = [files EXCEPT ![job[i].bind.ws] = files[job[i].bind.ws] \cup {i}]
    BY <1>3 DEF Effect
  <2> QED BY <1>0, <2>1
<1>4. ASSUME NEW r \in Rounds, CheckpointSave(r) PROVE j \in files'[ws]
  <2>1. CASE UNCHANGED disks
    BY <2>1 DEF disks
  <2>2. ASSUME NEW tree,
               tree = IF Interrupted(r) \/ session = "used"
                      THEN Restored(job[r].bind.ws, FALSE, Interrupted(r))
                      ELSE files[job[r].bind.ws],
               active \in {None, r}, PutTree(job[r].bind.ws, tree)
        PROVE  j \in files'[ws]
    <3>1. Interrupted(r) = FALSE
      BY <2>2 DEF Interrupted
    <3>2. job[r].bind.ws = ws => tree = files[ws]
      BY <1>b, <2>2, <3>1
    <3> QED BY <1>a, <2>2, <3>2
  <2> QED BY <1>4, <2>1, <2>2 DEF CheckpointSave
<1>5. CASE Evict \/ EvictKilled \/ Cleanup
  BY <1>5 DEF Evict, EvictKilled, MayEvict, Cleanup
<1>6. CASE UNCHANGED files
  BY <1>6
<1> QED
  BY ZenonT(60), <1>1, <1>2, <1>3, <1>4, <1>5, <1>6
  DEF Next, vars, disks, Client, Worker, Prep, BeginRead, BeginWrite, FinishRound, JudgeRound,
      CheckpointClear, CheckpointClose, Submit, SessionLost, ReadRounds, MarkRound,
      EnsureGone, EnsureReturn, ReturnFenced, EnsureRecover, Acquire, LocalPrepare, LocalGiveUp,
      PrepLost, PrepFailed, PrepStale, Commit, GiveUp, ResetPrepare, ClientFails, ClientDies,
      AwaitLost, AwaitEnds, AwaitResult, Deliver, Redeliver, Lock, Publish, Abort, WorkerCrash,
      LeaseRemoved, LeaseLapses, Heartbeat, WorkerStart, PrepDeliver, PrepLock, PrepCheck, PrepDone,
      PrepAborts, RecoveryExpires, RoundExpires, Expire

(* Nothing is known of a round that was not opened, and who works in one knows it. *)
Opened == \A r \in Rounds : ~Past(r) =>
  active # r /\ \A j \in Jobs : job[j].round # r /\ effects[j].round # r

Informed == \A j \in Jobs :
  /\ job[j].stage \in {"read", "restored", "running", "ran"} => job[j].round # None
  /\ effects[j].n > 0 => effects[j].round # None
  /\ effects[j].round # None => job[j].res # None
  /\ job[j].res = "completed" => effects[j].n > 0

LEMMA OpenedStep ==
  ASSUME TypeOK, ExecInv, Opened, [Next]_vars
  PROVE  Opened'
<1> SUFFICES ASSUME NEW r \in Rounds, ~Past(r)'
             PROVE  active' # r /\ \A j \in Jobs : job'[j].round # r /\ effects'[j].round # r
  BY DEF Opened
<1>1. r \in Tasks /\ r # None /\ r # Standalone
  BY SandboxNames DEF Tasks, None, Standalone
<1>2. ~Past(r)
  BY <1>1, PastStays
<1>3. active # r /\ \A j \in Jobs : job[j].round # r /\ effects[j].round # r
  BY <1>2 DEF Opened
<1>4. active' # r
  BY <1>1, <1>3, RoundsMove
<1>5. ASSUME NEW j \in Jobs PROVE job'[j].round # r /\ effects'[j].round # r
  <2>1. CommandMoves(j)
    BY CommandsMove
  <2>2. job'[j].round # r
    BY <1>1, <1>3, <2>1 DEF CommandMoves, Idles, Reads, Restores, Marks, Runs, KeepsRounds
  <2>3. effects'[j].round # r
    BY <1>3, <2>1 DEF CommandMoves, Runs
  <2> QED BY <2>2, <2>3
<1> QED BY <1>4, <1>5

LEMMA InformedStep ==
  ASSUME TypeOK, JobSent, ExecInv, Informed, [Next]_vars
  PROVE  Informed'
<1> SUFFICES ASSUME NEW j \in Jobs
             PROVE  /\ job'[j].stage \in {"read", "restored", "running", "ran"} => job'[j].round # None
                    /\ effects'[j].n > 0 => effects'[j].round # None
                    /\ effects'[j].round # None => job'[j].res # None
                    /\ job'[j].res = "completed" => effects'[j].n > 0
  BY DEF Informed
<1>1. CommandMoves(j)
  BY CommandsMove
<1>2. Standalone # None
  BY DEF None, Standalone
<1>3. job'[j].stage \in {"read", "restored", "running", "ran"} => job'[j].round # None
  BY <1>1, <1>2 DEF CommandMoves, Idles, Reads, Restores, Marks, Runs, KeepsRounds, Informed
<1>4. effects'[j].n > 0 => effects'[j].round # None
  BY <1>1 DEF CommandMoves, Runs, Informed
<1>5. job[j].stage = "ran" => effects[j].n > 0
  BY DEF ExecInv, Executed
<1>6. job'[j].res = "completed" => effects'[j].n > 0
  BY <1>1, <1>5 DEF CommandMoves, Runs, Informed
<1>7. effects'[j].round # None => job'[j].res # None
  <2>1. job[j].stage # "none" => job[j].res # None
    BY DEF JobSent, Tasks
  <2>2. job[j].res # None => job'[j].res # None
    BY JobMoves DEF Sent, Tasks, None
  <2> QED BY <1>1, <2>1, <2>2 DEF CommandMoves, Runs, Informed
<1> QED BY <1>3, <1>4, <1>6, <1>7

(* The round r that j ran in is the active one, and the generation j was sent with is *)
(* still the session's.                                                                *)
InRound(j, r) == r = active /\ r # None /\ job[j].bind.gen = binding.gen

(* Until the round ends or the session is reset, nobody takes the workspace of a command *)
(* that writes or wrote for one that another round left behind.                          *)
WorkKept == \A j \in Jobs :
  /\ job[j].stage = "running" /\ InRound(j, job[j].round) => mark \in {None, active}
  /\ InRound(j, effects[j].round) =>
       /\ mark \in {None, active}
       /\ j \in files[job[j].bind.ws]
       /\ \A i \in Jobs : job[i].stage \in {"read", "restored"} /\ job[i].bind.ws = job[j].bind.ws =>
            job[i].round = active /\ job[i].prev \in {None, active}

RoundInv == Generations /\ Opened /\ Informed /\ WorkKept

(* A round that is active now, and known to a command, was active before. *)
LEMMA RoundGoesOn ==
  ASSUME TypeOK, TypeOK', Generations, Opened, [Next]_vars, NEW j \in Jobs,
         job'[j].bind = job[j].bind, active' # None, job'[j].bind.gen = binding'.gen,
         job[j].round = active' \/ effects[j].round = active'
  PROVE  /\ active = active' /\ job[j].bind.gen = binding.gen
         /\ job[j].bind.ws = binding.ws
<1>1. active = active'
  BY RoundsMove DEF Opened
<1>2. /\ binding.gen \in Nat /\ binding'.gen \in Nat /\ job[j].bind.gen \in Nat /\ j \in Tasks
  BY DEF TypeOK, RedisOK, JobStates, Bindings, Tasks
<1>3. job[j].bind.gen = binding.gen
  BY <1>2, GenerationMoves DEF Generations
<1> QED BY <1>1, <1>2, <1>3 DEF Generations

(* A command that marks the workspace of the placement works in it. *)
LEMMA MarksItsWorkspace ==
  ASSUME TypeOK, NEW i \in Jobs, MarkRound(i)
  PROVE  /\ job[i].bind.ws = binding.ws /\ job[i].stage = "restored" /\ Holds(i)
         /\ mark' = job[i].round
  BY DEF MarkRound, Current, Matches, Holds

LEMMA WorkKeptStep ==
  ASSUME IInv, IInv', RoundInv, [Next]_vars
  PROVE  WorkKept'
<1>0. /\ TypeOK /\ TypeOK' /\ JobSent /\ OneHolder /\ OneHolder' /\ ExecInv
      /\ Generations /\ Opened /\ Informed /\ WorkKept /\ Jobs \subseteq Tasks
  BY DEF IInv, RoundInv, Tasks
<1>1. ASSUME NEW j \in Jobs, job'[j].stage = "running", InRound(j, job[j].round)'
      PROVE  mark' \in {None, active'}
  <2>1. job'[j].bind = job[j].bind
    BY <1>0, <1>1, HoldsBefore DEF Holds
  <2>2. CommandMoves(j)
    BY <1>0, CommandsMove
  <2>3. Marks(j) \/ (job[j].stage = "running" /\ KeepsRounds(j))
    BY <1>1, <2>2 DEF CommandMoves, Idles, Reads, Restores, Runs
  <2>4. job'[j].round = job[j].round
    BY <2>3 DEF Marks, KeepsRounds
  <2>5. active = active' /\ job[j].bind.gen = binding.gen /\ job[j].bind.ws = binding.ws
        /\ active # None /\ job[j].round = active
    BY <1>0, <1>1, <2>1, <2>4, RoundGoesOn DEF InRound
  <2>6. CASE Marks(j)
    BY <2>5, <2>6, <1>0, MarksItsWorkspace DEF Marks
  <2>7. CASE job[j].stage = "running"
    <3>1. mark \in {None, active}
      BY <1>0, <2>5, <2>7 DEF WorkKept, InRound
    <3>2. ASSUME NEW i \in Jobs, MarkRound(i) PROVE FALSE
      <4>1. Holds(i) /\ Holds(j) /\ job[i].bind.ws = job[j].bind.ws /\ i # j
        BY <1>0, <2>5, <2>7, <3>2, MarksItsWorkspace DEF Holds
      <4> QED BY <1>0, <4>1 DEF OneHolder
    <3> QED BY <1>0, <2>5, <3>1, <3>2, RoundsMove
  <2> QED BY <2>3, <2>6, <2>7
<1>2. ASSUME NEW j \in Jobs, InRound(j, effects[j].round)'
      PROVE  /\ mark' \in {None, active'}
             /\ j \in files'[job'[j].bind.ws]
             /\ \A i \in Jobs : job'[i].stage \in {"read", "restored"}
                                /\ job'[i].bind.ws = job'[j].bind.ws =>
                  job'[i].round = active' /\ job'[i].prev \in {None, active'}
  <2>1. effects'[j].round = active' /\ active' # None /\ job'[j].bind.gen = binding'.gen
    BY <1>2 DEF InRound
  <2>2. CommandMoves(j)
    BY <1>0, CommandsMove
  <2>3. CASE Runs(j)
    <3>1. Holds(j)' /\ job'[j].stage = "ran" /\ job[j].stage = "running"
      BY <2>3 DEF Runs, Holds
    <3>2. job'[j].bind = job[j].bind
      BY <1>0, <3>1, HoldsBefore
    <3>3. active = active' /\ job[j].bind.gen = binding.gen /\ job[j].round = active
      BY <1>0, <2>1, <2>3, <3>2, RoundGoesOn DEF Runs
    <3>4. mark \in {None, active}
      BY <1>0, <2>1, <3>1, <3>3 DEF WorkKept, InRound
    <3>5. mark' = mark
      BY <2>3 DEF Runs, Effect, redis
    <3>6. job[j].bind.ws \in Workspaces
      BY <1>0 DEF TypeOK, JobStates, Bindings
    <3>7. j \in files'[job[j].bind.ws]
      BY <1>0, <2>3, <3>6 DEF Runs, Effect, TypeOK, DisksOK
    <3>8. ASSUME NEW i \in Jobs, job'[i].stage \in {"read", "restored"},
                 job'[i].bind.ws = job'[j].bind.ws
          PROVE  FALSE
      <4>1. Holds(i)' /\ i # j
        BY <3>1, <3>8 DEF Holds
      <4> QED BY <1>0, <3>1, <3>8, <4>1 DEF OneHolder
    <3> QED BY <3>2, <3>3, <3>4, <3>5, <3>7, <3>8
  <2>4. CASE effects'[j] = effects[j]
    <3>1. job[j].res # None
      BY <1>0, <2>1, <2>4 DEF Informed
    <3>2. job'[j].bind = job[j].bind
      BY <1>0, <3>1, JobMoves DEF Sent
    <3>3. active = active' /\ job[j].bind.gen = binding.gen /\ job[j].bind.ws = binding.ws
          /\ InRound(j, effects[j].round)
      BY <1>0, <2>1, <2>4, <3>2, RoundGoesOn DEF InRound
    <3>4. /\ mark \in {None, active} /\ j \in files[job[j].bind.ws]
          /\ \A i \in Jobs : job[i].stage \in {"read", "restored"}
                             /\ job[i].bind.ws = job[j].bind.ws =>
               job[i].round = active /\ job[i].prev \in {None, active}
      BY <1>0, <3>3 DEF WorkKept
    <3>5. mark' \in {None, active'}
      BY <1>0, <3>3, <3>4, RoundsMove, MarksItsWorkspace
    <3>6. j \in files'[job[j].bind.ws]
      <4>1. active # None /\ ~Interrupted(active)
        BY <2>1, <3>3, <3>4 DEF Interrupted
      <4>2. \A i \in Jobs : job[i].stage = "read" /\ job[i].bind.ws = job[j].bind.ws => ~OtherRound(i)
        BY <3>4 DEF OtherRound
      <4>3. job[j].bind.ws \in Workspaces
        BY <1>0 DEF TypeOK, JobStates, Bindings
      <4> QED BY <1>0, <3>4, <4>1, <4>2, <4>3, FilesStay
    <3>7. ASSUME NEW i \in Jobs, job'[i].stage \in {"read", "restored"},
                 job'[i].bind.ws = job'[j].bind.ws
          PROVE  job'[i].round = active' /\ job'[i].prev \in {None, active'}
      <4>1. job'[i].bind = job[i].bind
        BY <1>0, <3>7, HoldsBefore DEF Holds
      <4>2. CommandMoves(i)
        BY <1>0, CommandsMove
      <4>3. \/ Reads(i)
            \/ job[i].stage \in {"read", "restored"} /\ KeepsRounds(i)
        BY <3>7, <4>2 DEF CommandMoves, Idles, Restores, Marks, Runs
      <4> QED BY <2>1, <3>2, <3>3, <3>4, <3>7, <4>1, <4>3 DEF Reads, KeepsRounds
    <3> QED BY <3>2, <3>5, <3>6, <3>7
  <2> QED BY <2>2, <2>3, <2>4 DEF CommandMoves
<1> QED BY <1>1, <1>2 DEF WorkKept

(* Files of a command that completed in the active round are in the workspace until    *)
(* the session is reset: recoveries, checkpoints and later commands of the round, in    *)
(* any number and order, keep them.                                                     *)
THEOREM SandboxRoundKeepsItsWork == Spec => []RoundKeepsItsWork
<1>1. Init => RoundInv
  <2> SUFFICES ASSUME Init PROVE RoundInv
    OBVIOUS
  <2>1. /\ binding = NoBinding /\ active = None /\ \A t \in Tasks : job[t].bind = NoBinding
        /\ \A j \in Jobs : /\ job[j].stage = "none" /\ job[j].round = None /\ job[j].res = None
                           /\ effects[j].n = 0 /\ effects[j].round = None
    BY DEF Init, Tasks
  <2>2. Generations
    BY <2>1 DEF Generations, NoBinding
  <2>3. Opened
    BY <2>1, SandboxNames DEF Opened, None
  <2>4. Informed /\ WorkKept
    BY <2>1 DEF Informed, WorkKept, InRound, None
  <2> QED BY <2>2, <2>3, <2>4 DEF RoundInv
<1>2. IInv /\ IInv' /\ RoundInv /\ [Next]_vars => RoundInv'
  BY GenerationsStep, OpenedStep, InformedStep, WorkKeptStep DEF IInv, RoundInv
<1>3. IInv /\ RoundInv => RoundKeepsItsWork
  <2> SUFFICES ASSUME IInv, RoundInv, NEW j \in Jobs,
                      job[j].res = "completed", effects[j].round = active,
                      binding.gen = job[j].bind.gen
               PROVE  j \in files[binding.ws]
    BY DEF RoundKeepsItsWork
  <2>1. effects[j].round # None
    BY DEF RoundInv, Informed
  <2>2. j \in files[job[j].bind.ws]
    BY <2>1 DEF RoundInv, WorkKept, InRound
  <2>3. job[j].bind.ws = binding.ws
    BY DEF RoundInv, Generations, Tasks
  <2> QED BY <2>2, <2>3
<1> QED BY <1>1, <1>2, <1>3, SandboxInductive, PTL DEF Spec

=============================================================================
