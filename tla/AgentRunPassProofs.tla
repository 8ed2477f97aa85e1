-------------------------- MODULE AgentRunPassProofs --------------------------
(***************************************************************************)
(* More theorems about AgentRun: where no run is dispatched twice, one     *)
(* worker at a time executes a run, with the payload of its row; what      *)
(* follows for its final answer, and for the approvals of a stopped run.   *)
(***************************************************************************)
EXTENDS AgentRunParkProofs

-----------------------------------------------------------------------------
(* Who carries a run to a worker, and who executes it *)

(* The labels of a worker that executes its run, from the claim to the     *)
(* park, the last transition of the try block or the exception.            *)
AtWork == (BeforeTry \ {"load", "claim"}) \cup (TryBlock \ {"recheck"}) \cup {"executing"}

(* Past claim_completion. *)
Finishing == {"finalize", "completed"}

(* Worker w executes run r. *)
Executes(w, r) == wrun[w] = r /\ pc[w] \in AtWork

(* No worker executes run r. *)
Nobody(r) == \A w \in Workers : ~Executes(w, r)

(* Worker w is about to claim its run, or to send it again. *)
Carrying(w) == pc[w] \in {"load", "claim", "dispatch"} \/ after[w] = "dispatch"

(* The run of that worker is r. *)
Carries(w, r) == wrun[w] = r /\ Carrying(w)

(* Nothing will start run r: no publication, no message, no worker. *)
NoCarrier(r) ==
  /\ \A k \in Call0 : ~InBroker(<<r, k>>)
  /\ \A w \in Workers : ~Carries(w, r)

(* A publication, a message or a worker, but one only, and the payload it  *)
(* has is the one of the row.                                              *)
OneCarrier(r) ==
  /\ \A k \in Call0 : <<r, k>> \in pub => k = marker[r] /\ msgs[<<r, k>>] = 0
  /\ \A k \in Call0 : msgs[<<r, k>>] > 0 => k = marker[r] /\ msgs[<<r, k>>] = 1
  /\ \A w \in Workers : Carries(w, r) =>
       /\ wcall[w] = marker[r]
       /\ \A k \in Call0 : ~InBroker(<<r, k>>)
       /\ \A v \in Workers : Carries(v, r) => v = w

(* A queued run has at most one carrier, a run that was claimed and has    *)
(* not finished has none.                                                  *)
CarriersOK ==
  \A r \in Runs :
    /\ status[r] = "absent" => marker[r] = 0
    /\ status[r] = "queued" => OneCarrier(r)
    /\ status[r] \notin Terminal \cup {"queued"} => NoCarrier(r)

(* One worker executes a run, and where it is goes with the status. *)
PassesOK ==
  \A r \in Runs, w \in Workers : Executes(w, r) =>
    /\ \A v \in Workers : Executes(v, r) => v = w
    /\ status[r] \in {"running", "stopping", "completing", "failed", "interrupted"}
    /\ status[r] = "completing" => pc[w] \in Finishing
    /\ pc[w] \in Finishing => status[r] \notin {"running", "stopping"}

(* Where no run is dispatched twice, every pass is the only one. *)
OnePass == CarriersOK /\ PassesOK

-----------------------------------------------------------------------------
(* What most steps have in common: no carrier and no worker is gained *)

(* A row moves on: it is not queued and not claimed, it stops or completes *)
(* when its worker leaves, and completing is where its worker goes.        *)
RowOnward(r) ==
  /\ \/ status'[r] = status[r]
     \/ status'[r] \in {"failed", "interrupted"}
     \/ status[r] = "running" /\ status'[r] = "stopping"
     \/ status'[r] \in {"stopped", "completed"} /\ Nobody(r)'
     \/ status[r] = "running" /\ status'[r] = "waiting" /\ Nobody(r)'
     \/ /\ status[r] = "running" /\ status'[r] = "completing"
        /\ \A w \in Workers : Executes(w, r)' => pc'[w] \in Finishing
  /\ marker'[r] = marker[r] \/ status'[r] \notin {"absent", "queued"}

(* A worker moves on: it returns, or stays with its run and starts no pass. *)
WorkerOnward(v) ==
  \/ wrun'[v] = NoRun /\ pc'[v] = "idle"
  \/ /\ wrun'[v] = wrun[v]
     /\ wcall'[v] = wcall[v] \/ status'[wrun[v]] # "queued"
     /\ Carrying(v)' => Carrying(v)
     /\ pc'[v] \in AtWork =>
          /\ pc[v] \in AtWork
          /\ pc[v] \in Finishing => pc'[v] \in Finishing
          /\ pc'[v] \in Finishing => pc[v] \in Finishing \/ status'[wrun[v]] = "completing"

(* Rows and workers that move on keep the invariant. *)
LEMMA OnePassKept ==
  ASSUME TypeOK, TypeOK', OnePass, msgs' = msgs, pub' \subseteq pub,
         \A r \in Runs : RowOnward(r), \A v \in Workers : WorkerOnward(v)
  PROVE  OnePass'
  <1> SUFFICES ASSUME NEW r \in Runs
               PROVE  /\ status'[r] = "absent" => marker'[r] = 0
                      /\ status'[r] = "queued" => OneCarrier(r)'
                      /\ status'[r] \notin Terminal \cup {"queued"} => NoCarrier(r)'
                      /\ \A w \in Workers : Executes(w, r)' =>
                           /\ \A v \in Workers : Executes(v, r)' => v = w
                           /\ status'[r] \in {"running", "stopping", "completing", "failed", "interrupted"}
                           /\ status'[r] = "completing" => pc'[w] \in Finishing
                           /\ pc'[w] \in Finishing => status'[r] \notin {"running", "stopping"}
    BY DEF OnePass, CarriersOK, PassesOK
  <1>0. RowOnward(r)
    OBVIOUS
  <1>1. \A w \in Workers : Carries(w, r)' =>
          Carries(w, r) /\ (wcall'[w] = wcall[w] \/ status'[r] # "queued")
    BY AgentRunAssumption DEF WorkerOnward, Carries, Carrying
  <1>2. \A w \in Workers : Executes(w, r)' =>
          /\ Executes(w, r)
          /\ pc[w] \in Finishing => pc'[w] \in Finishing
          /\ pc'[w] \in Finishing => pc[w] \in Finishing \/ status'[r] = "completing"
    BY AgentRunAssumption DEF WorkerOnward, Executes
  <1>3. status'[r] = "absent" => marker'[r] = 0
    BY <1>0 DEF RowOnward, OnePass, CarriersOK
  <1>4. status'[r] = "queued" => OneCarrier(r)'
    <2> SUFFICES ASSUME status'[r] = "queued" PROVE OneCarrier(r)'
      OBVIOUS
    <2>1. OneCarrier(r) /\ marker'[r] = marker[r]
      BY <1>0 DEF RowOnward, OnePass, CarriersOK
    <2> QED BY <1>1, <2>1 DEF OneCarrier, InBroker
  <1>5. status'[r] \notin Terminal \cup {"queued"} => NoCarrier(r)'
    <2> SUFFICES ASSUME status'[r] \notin Terminal \cup {"queued"} PROVE NoCarrier(r)'
      OBVIOUS
    <2>1. NoCarrier(r)
      BY <1>0 DEF RowOnward, OnePass, CarriersOK, Terminal
    <2> QED BY <1>1, <2>1 DEF NoCarrier, InBroker
  <1>6. ASSUME NEW w \in Workers, Executes(w, r)'
        PROVE  /\ \A v \in Workers : Executes(v, r)' => v = w
               /\ status'[r] \in {"running", "stopping", "completing", "failed", "interrupted"}
               /\ status'[r] = "completing" => pc'[w] \in Finishing
               /\ pc'[w] \in Finishing => status'[r] \notin {"running", "stopping"}
    BY <1>0, <1>2, <1>6 DEF RowOnward, OnePass, PassesOK, Nobody
  <1> QED BY <1>3, <1>4, <1>5, <1>6

(* One of its workers does a step. *)
LEMMA PassGoesOn ==
  ASSUME TypeOK, OnePass, [Next]_vars, NEW w \in Workers, Only(w), WorkerOnward(w),
         UNCHANGED <<msgs, pub>>, \A r \in Runs : RowOnward(r)
  PROVE  OnePass'
  <1>1. \A v \in Workers : WorkerOnward(v)
    BY DEF Only, Same, WorkerOnward, Carrying
  <1> QED BY <1>1, TypeStep, OnePassKept

(* An endpoint or a task does. *)
LEMMA PassGoesOnBeside ==
  ASSUME TypeOK, OnePass, [Next]_vars, UNCHANGED <<pc, wrun, wcall, after, msgs>>,
         pub' \subseteq pub, \A r \in Runs : RowOnward(r)
  PROVE  OnePass'
  <1>1. \A v \in Workers : WorkerOnward(v)
    BY DEF WorkerOnward, Carrying
  <1> QED BY <1>1, TypeStep, OnePassKept

(* A compare-and-set to failed or interrupted goes on, ... *)
LEMMA CasOnward ==
  ASSUME TypeOK, NEW r \in Runs, NEW allowed, NEW s \in {"failed", "interrupted"},
         Transition(r, allowed, s), UNCHANGED marker
  PROVE  \A q \in Runs : RowOnward(q)
  BY CasTo DEF RowOnward

(* ... and so does one to stopped or completed by the worker at work. *)
LEMMA LastOnward ==
  ASSUME TypeOK, OnePass, NEW w \in Workers, NEW r \in Runs, r = wrun[w],
         Only(w), pc[w] \in AtWork, pc'[w] \notin AtWork,
         NEW allowed, NEW s \in {"stopped", "completed"},
         Transition(r, allowed, s), UNCHANGED marker
  PROVE  \A q \in Runs : RowOnward(q)
  <1>1. Nobody(r)'
    BY DEF Nobody, Executes, OnePass, PassesOK, Only, Same
  <1> QED BY <1>1, CasTo DEF RowOnward

(* A run is queued, by a publication or by the worker that parked it. *)
LEMMA QueuedKept ==
  ASSUME TypeOK, TypeOK', AfterOK, OnePass, NEW r \in Runs, status[r] \in {"absent", "waiting"},
         status'[r] = "queued",
         \A q \in Runs \ {r} : status'[q] = status[q] /\ marker'[q] = marker[q],
         UNCHANGED <<pc, wrun, wcall, after, msgs>>, pub' = pub \cup {<<r, marker'[r]>>}
  PROVE  OnePass'
  <1>1. NoCarrier(r) /\ Nobody(r)
    BY DEF OnePass, CarriersOK, PassesOK, Terminal, Nobody
  <1>2. OneCarrier(r)' /\ Nobody(r)'
    BY <1>1
    DEF NoCarrier, OneCarrier, InBroker, Carries, Carrying, Nobody, Executes, TypeOK,
        SharedOK, Jobs
  <1>4. CarriersOK'
    <2>1. ASSUME NEW q \in Runs \ {r}
          PROVE  /\ status'[q] = "absent" => marker'[q] = 0
                 /\ status'[q] = "queued" => OneCarrier(q)'
                 /\ status'[q] \notin Terminal \cup {"queued"} => NoCarrier(q)'
      <3>1. q \in Runs /\ status'[q] = status[q] /\ marker'[q] = marker[q]
        OBVIOUS
      <3>2. (NoCarrier(q) => NoCarrier(q)') /\ (OneCarrier(q) => OneCarrier(q)')
        BY DEF NoCarrier, OneCarrier, InBroker, Carries, Carrying
      <3>3. /\ status[q] = "absent" => marker[q] = 0
            /\ status[q] = "queued" => OneCarrier(q)
            /\ status[q] \notin Terminal \cup {"queued"} => NoCarrier(q)
        BY DEF OnePass, CarriersOK
      <3> QED BY <3>1, <3>2, <3>3
    <2>2. status'[r] = "queued" /\ OneCarrier(r)'
      BY <1>2
    <2> QED BY <2>1, <2>2 DEF CarriersOK
  <1>5. PassesOK'
    BY <1>2 DEF OnePass, PassesOK, Executes, Nobody
  <1> QED BY <1>4, <1>5 DEF OnePass

(* The carrier of a run is handed over: to the broker or to a worker. *)
LEMMA HandedOver ==
  ASSUME TypeOK, OnePass, NEW r \in Runs, UNCHANGED <<status, marker>>,
         \A q \in Runs \ {r}, k \in Call0 :
           (<<q, k>> \in pub' <=> <<q, k>> \in pub) /\ msgs'[<<q, k>>] = msgs[<<q, k>>],
         \A q \in Runs \ {r}, v \in Workers :
           wrun'[v] = q /\ Carrying(v)' => wrun[v] = q /\ Carrying(v) /\ wcall'[v] = wcall[v],
         \A v \in Workers :
           pc'[v] \in AtWork => pc[v] = pc'[v] /\ wrun[v] = wrun'[v],
         status[r] = "queued" => OneCarrier(r)',
         status[r] \notin Terminal \cup {"queued"} => NoCarrier(r)'
  PROVE  OnePass'
  <1>1. CarriersOK'
    <2>1. ASSUME NEW q \in Runs \ {r}
          PROVE  /\ status'[q] = "absent" => marker'[q] = 0
                 /\ status'[q] = "queued" => OneCarrier(q)'
                 /\ status'[q] \notin Terminal \cup {"queued"} => NoCarrier(q)'
      <3>1. (NoCarrier(q) => NoCarrier(q)') /\ (OneCarrier(q) => OneCarrier(q)')
        BY DEF NoCarrier, OneCarrier, InBroker, Carries
      <3> QED BY <3>1 DEF OnePass, CarriersOK
    <2>2. status'[r] = "absent" => marker'[r] = 0
      BY DEF OnePass, CarriersOK
    <2> QED BY <2>1, <2>2 DEF CarriersOK
  <1>2. PassesOK'
    BY DEF OnePass, PassesOK, Executes
  <1> QED BY <1>1, <1>2 DEF OnePass

-----------------------------------------------------------------------------
(* Every step keeps it, if no run is dispatched twice. *)
LEMMA PassStep ==
  ASSUME ~Redispatch, TypeOK, AfterOK, OnePass, [Next]_vars PROVE OnePass'
  <1>0. TypeOK'
    BY TypeStep
  <1>s. UNCHANGED <<status, marker>> => \A r \in Runs : RowOnward(r)
    BY DEF RowOnward
  <1>Load. ASSUME NEW w \in Workers, Load(w) PROVE OnePass'
    <2>1. status[wrun[w]] \in {"running", "stopping"} => FALSE
      BY <1>Load
      DEF Load, OnePass, CarriersOK, NoCarrier, Carries, Carrying, TypeOK, WorkersOK,
          Terminal
    <2>2. WorkerOnward(w)
      BY <1>Load, <2>1, LoadSplits, GotoTo, ReturnTo
      DEF Load, WorkerOnward, Carrying, AtWork, Finishing, BeforeTry, TryBlock, LoopSteps,
          workerVars
    <2> QED
      BY <1>Load, <1>s, <2>2, Alone, PassGoesOn DEF Load, WorkerStep, rowVars, brokerVars
  <1>Claim. ASSUME NEW w \in Workers, Claim(w) PROVE OnePass'
    <2>1. CASE status[wrun[w]] = "queued"
      <3>0. PICK r \in Runs : r = wrun[w]
        BY <1>Claim DEF Claim, TypeOK, WorkersOK
      <3>1. /\ status'[r] = "running" /\ pc'[w] = "precheck" /\ after[w] = "return"
            /\ \A q \in Runs \ {r} : status'[q] = status[q]
            /\ UNCHANGED <<wrun, wcall, after, msgs, pub, marker>> /\ Only(w)
        BY <1>Claim, <2>1, <3>0, GotoTo, Alone
        DEF Claim, WorkerStep, TypeOK, RowsOK, WorkersOK, AfterOK, Safety, FailFrom,
            InFlight, brokerVars
      <3>2. OneCarrier(r) /\ Carries(w, r) /\ Nobody(r)
        BY <1>Claim, <2>1, <3>0, <3>1
        DEF Claim, OnePass, CarriersOK, PassesOK, Nobody, Carries, Carrying
      <3>3. NoCarrier(r)'
        BY <3>0, <3>1, <3>2
        DEF OneCarrier, NoCarrier, InBroker, Carries, Carrying, Only, Same
      <3>4. CarriersOK'
        <4>1. ASSUME NEW q \in Runs \ {r}
              PROVE  /\ status'[q] = "absent" => marker'[q] = 0
                     /\ status'[q] = "queued" => OneCarrier(q)'
                     /\ status'[q] \notin Terminal \cup {"queued"} => NoCarrier(q)'
          <5>1. (NoCarrier(q) => NoCarrier(q)') /\ (OneCarrier(q) => OneCarrier(q)')
            BY <3>0, <3>1 DEF NoCarrier, OneCarrier, InBroker, Carries, Carrying, Only, Same
          <5> QED BY <3>1, <5>1 DEF OnePass, CarriersOK
        <4> QED BY <3>1, <3>3, <4>1 DEF CarriersOK
      <3>5. PassesOK'
        BY <3>0, <3>1, <3>2 DEF OnePass, PassesOK, Executes, Nobody, Only, Same, Finishing
      <3> QED BY <3>4, <3>5 DEF OnePass
    <2>2. CASE status[wrun[w]] # "queued"
      BY <1>Claim, <1>s, <2>2, ReturnTo, PassGoesOn DEF Claim, WorkerOnward, brokerVars
    <2> QED BY <2>1, <2>2
  <1>PreCheck. ASSUME NEW w \in Workers, PreCheck(w) PROVE OnePass'
    <2>1. WorkerOnward(w)
      BY <1>PreCheck, GotoTo
      DEF PreCheck, WorkerOnward, Carrying, AtWork, Finishing, BeforeTry, TryBlock,
          LoopSteps, workerVars
    <2> QED
      BY <1>PreCheck, <1>s, <2>1, Alone, PassGoesOn
      DEF PreCheck, WorkerStep, rowVars, brokerVars
  <1>PreStop. ASSUME NEW w \in Workers, PreStop(w) PROVE OnePass'
    <2>1. WorkerOnward(w)
      BY <1>PreStop, GotoTo
      DEF PreStop, WorkerOnward, Carrying, AtWork, Finishing, BeforeTry, TryBlock,
          LoopSteps, workerVars
    <2> QED
      BY <1>PreStop, <1>s, <2>1, Alone, PassGoesOn
      DEF PreStop, WorkerStep, rowVars, brokerVars
  <1>PreMark. ASSUME NEW w \in Workers, PreMark(w) PROVE OnePass'
    <2>1. \A r \in Runs : RowOnward(r)
      <3>1. pc'[w] \notin AtWork /\ Only(w)
        BY <1>PreMark, ReturnTo
        DEF PreMark, Carrying, AtWork, Finishing, BeforeTry, TryBlock, LoopSteps
      <3> QED
        BY <1>PreMark, <3>1, LastOnward
        DEF PreMark, TypeOK, WorkersOK, Carrying, AtWork, Finishing, BeforeTry, TryBlock,
            LoopSteps
    <2> QED
      BY <1>PreMark, <2>1, ReturnTo, PassGoesOn DEF PreMark, WorkerOnward, brokerVars
  <1>Acquire. ASSUME NEW w \in Workers, Acquire(w) PROVE OnePass'
    <2>1. WorkerOnward(w)
      BY <1>Acquire, GotoTo
      DEF Acquire, WorkerOnward, Carrying, AtWork, Finishing, BeforeTry, TryBlock,
          LoopSteps, workerVars
    <2> QED
      BY <1>Acquire, <1>s, <2>1, Alone, PassGoesOn
      DEF Acquire, WorkerStep, rowVars, brokerVars
  <1>Busy. ASSUME NEW w \in Workers, Busy(w) PROVE OnePass'
    <2>1. WorkerOnward(w)
      BY <1>Busy, GotoTo
      DEF Busy, WorkerOnward, Carrying, AtWork, Finishing, BeforeTry, TryBlock, LoopSteps,
          workerVars
    <2> QED
      BY <1>Busy, <1>s, <2>1, Alone, PassGoesOn
      DEF Busy, WorkerStep, rowVars, brokerVars
  <1>LockBusy. ASSUME NEW w \in Workers, LockBusy(w) PROVE OnePass'
    <2>1. \A r \in Runs : RowOnward(r)
      BY <1>LockBusy, CasOnward DEF LockBusy, TypeOK, WorkersOK
    <2> QED
      BY <1>LockBusy, <2>1, ReturnTo, PassGoesOn DEF LockBusy, WorkerOnward, brokerVars
  <1>Owned. ASSUME NEW w \in Workers, Owned(w) PROVE OnePass'
    <2>1. WorkerOnward(w)
      BY <1>Owned, GotoTo
      DEF Owned, WorkerOnward, Carrying, AtWork, Finishing, BeforeTry, TryBlock, LoopSteps,
          workerVars
    <2> QED
      BY <1>Owned, <1>s, <2>1, Alone, PassGoesOn
      DEF Owned, WorkerStep, rowVars, brokerVars
  <1>DropInputs. ASSUME NEW w \in Workers, DropInputs(w) PROVE OnePass'
    <2>1. WorkerOnward(w)
      BY <1>DropInputs, GotoTo
      DEF DropInputs, WorkerOnward, Carrying, AtWork, Finishing, BeforeTry, TryBlock,
          LoopSteps, workerVars
    <2> QED
      BY <1>DropInputs, <1>s, <2>1, Alone, PassGoesOn
      DEF DropInputs, WorkerStep, rowVars, brokerVars
  <1>FinishApproved. ASSUME NEW w \in Workers, FinishApproved(w) PROVE OnePass'
    <2>1. WorkerOnward(w)
      BY <1>FinishApproved, GotoTo
      DEF FinishApproved, WorkerOnward, Carrying, AtWork, Finishing, BeforeTry, TryBlock,
          LoopSteps, workerVars
    <2> QED
      BY <1>FinishApproved, <1>s, <2>1, Alone, PassGoesOn
      DEF FinishApproved, WorkerStep, rowVars, brokerVars
  <1>RecordResult. ASSUME NEW w \in Workers, RecordResult(w) PROVE OnePass'
    <2>1. status'[wrun[w]] # "queued"
      BY <1>RecordResult
      DEF RecordResult, OnePass, PassesOK, Executes, Carrying, AtWork, Finishing, BeforeTry,
          TryBlock, LoopSteps, TypeOK, WorkersOK, rowVars
    <2>2. \A r \in Runs : RowOnward(r)
      BY <1>RecordResult, <2>1
      DEF RecordResult, RowOnward, rowVars, TypeOK, RowsOK, WorkersOK
    <2>3. WorkerOnward(w)
      BY <1>RecordResult, <2>1, GotoTo
      DEF RecordResult, WorkerOnward, Carrying, AtWork, Finishing, BeforeTry, TryBlock,
          LoopSteps
    <2> QED
      BY <1>RecordResult, <2>2, <2>3, Alone, PassGoesOn
      DEF RecordResult, WorkerStep, rowVars, brokerVars
  <1>Rebuild. ASSUME NEW w \in Workers, Rebuild(w) PROVE OnePass'
    <2>1. WorkerOnward(w)
      BY <1>Rebuild, GotoTo
      DEF Rebuild, WorkerOnward, Carrying, AtWork, Finishing, BeforeTry, TryBlock,
          LoopSteps, workerVars
    <2> QED
      BY <1>Rebuild, <1>s, <2>1, Alone, PassGoesOn
      DEF Rebuild, WorkerStep, rowVars, brokerVars
  <1>LoopHead. ASSUME NEW w \in Workers, LoopHead(w) PROVE OnePass'
    <2>1. WorkerOnward(w)
      BY <1>LoopHead, GotoTo
      DEF LoopHead, WorkerOnward, Carrying, AtWork, Finishing, BeforeTry, TryBlock,
          LoopSteps, workerVars
    <2> QED
      BY <1>LoopHead, <1>s, <2>1, Alone, PassGoesOn
      DEF LoopHead, WorkerStep, rowVars, brokerVars
  <1>LoopCheck. ASSUME NEW w \in Workers, LoopCheck(w) PROVE OnePass'
    <2>1. WorkerOnward(w)
      BY <1>LoopCheck, GotoTo
      DEF LoopCheck, WorkerOnward, Carrying, AtWork, Finishing, BeforeTry, TryBlock,
          LoopSteps, workerVars
    <2> QED
      BY <1>LoopCheck, <1>s, <2>1, Alone, PassGoesOn
      DEF LoopCheck, WorkerStep, rowVars, brokerVars
  <1>Turn. ASSUME NEW w \in Workers, Turn(w) PROVE OnePass'
    <2>1. WorkerOnward(w)
      BY <1>Turn, GotoTo
      DEF Turn, WorkerOnward, Carrying, AtWork, Finishing, BeforeTry, TryBlock, LoopSteps,
          workerVars
    <2> QED
      BY <1>Turn, <1>s, <2>1, Alone, PassGoesOn
      DEF Turn, WorkerStep, rowVars, brokerVars
  <1>TurnPauses. ASSUME NEW w \in Workers, TurnPauses(w) PROVE OnePass'
    <2>1. status'[wrun[w]] # "queued"
      BY <1>TurnPauses
      DEF TurnPauses, OnePass, PassesOK, Executes, Carrying, AtWork, Finishing, BeforeTry,
          TryBlock, LoopSteps, TypeOK, WorkersOK, rowVars
    <2>2. \A r \in Runs : RowOnward(r)
      BY <1>TurnPauses, <2>1 DEF TurnPauses, RowOnward, rowVars, TypeOK, RowsOK, WorkersOK
    <2>3. WorkerOnward(w)
      BY <1>TurnPauses, <2>1, GotoTo
      DEF TurnPauses, WorkerOnward, Carrying, AtWork, Finishing, BeforeTry, TryBlock,
          LoopSteps
    <2> QED
      BY <1>TurnPauses, <2>2, <2>3, Alone, PassGoesOn
      DEF TurnPauses, WorkerStep, rowVars, brokerVars
  <1>Drain. ASSUME NEW w \in Workers, Drain(w) PROVE OnePass'
    <2>1. WorkerOnward(w)
      BY <1>Drain, GotoTo
      DEF Drain, WorkerOnward, Carrying, AtWork, Finishing, BeforeTry, TryBlock, LoopSteps,
          workerVars
    <2> QED
      BY <1>Drain, <1>s, <2>1, Alone, PassGoesOn
      DEF Drain, WorkerStep, rowVars, brokerVars
  <1>LastCheck. ASSUME NEW w \in Workers, LastCheck(w) PROVE OnePass'
    <2>1. WorkerOnward(w)
      BY <1>LastCheck, GotoTo
      DEF LastCheck, WorkerOnward, Carrying, AtWork, Finishing, BeforeTry, TryBlock,
          LoopSteps, workerVars
    <2> QED
      BY <1>LastCheck, <1>s, <2>1, Alone, PassGoesOn
      DEF LastCheck, WorkerStep, rowVars, brokerVars
  <1>Park. ASSUME NEW w \in Workers, Park(w) PROVE OnePass'
    <2>1. WorkerOnward(w) /\ Only(w) /\ pc'[w] \in {"recheck", "except"} /\ wrun[w] \in Runs
      BY <1>Park, GotoTo, Alone
      DEF Park, WorkerStep, WorkerOnward, Carrying, AtWork, Finishing, BeforeTry, TryBlock,
          LoopSteps, workerVars, TypeOK, RowsOK, WorkersOK
    <2>2. CASE status[wrun[w]] = "running"
      <3>1. ASSUME NEW r \in Runs, r = wrun[w] PROVE Nobody(r)'
        <4>1. pc[w] \in AtWork /\ pc'[w] \notin AtWork
          BY <1>Park, <2>1
          DEF Park, Carrying, AtWork, Finishing, BeforeTry, TryBlock, LoopSteps
        <4> QED BY <2>1, <3>1, <4>1 DEF Nobody, Executes, OnePass, PassesOK, Only, Same
      <3>2. \A r \in Runs : RowOnward(r)
        BY <1>Park, <2>1, <2>2, <3>1 DEF Park, RowOnward, TypeOK, RowsOK
      <3> QED
        BY <1>Park, <2>1, <3>2, PassGoesOn DEF Park, brokerVars
    <2>3. CASE status[wrun[w]] # "running"
      BY <1>Park, <1>s, <2>1, <2>3, PassGoesOn DEF Park, brokerVars
    <2> QED BY <2>2, <2>3
  <1>Recheck. ASSUME NEW w \in Workers, Recheck(w) PROVE OnePass'
    <2>1. CASE Resumable(wrun[w], wcall[w])
      <3>0. PICK r \in Runs, m \in Call0 : r = wrun[w] /\ m = ResumeMarker(exec[wrun[w]][wcall[w]], wcall[w])
        BY <1>Recheck, MarkerOK DEF Recheck, TypeOK, WorkersOK
      <3>1. /\ status[r] = "waiting" /\ status'[r] = "queued" /\ marker'[r] = m
            /\ \A q \in Runs \ {r} : status'[q] = status[q] /\ marker'[q] = marker[q]
        BY <1>Recheck, <2>1, <3>0
        DEF Recheck, QueueResume, Resumable, TypeOK, RowsOK, WorkersOK
      <3>2. /\ pc'[w] = "release" /\ after'[w] = "dispatch" /\ wcall'[w] = m
            /\ UNCHANGED <<wrun, msgs, pub>> /\ Only(w)
        BY <1>Recheck, <2>1, <3>0, GotoTo, Alone
        DEF Recheck, WorkerStep, brokerVars, TypeOK, WorkersOK
      <3>3. NoCarrier(r) /\ Nobody(r)
        BY <3>1 DEF OnePass, CarriersOK, PassesOK, Terminal, Nobody
      <3>4. OneCarrier(r)'
        BY <3>0, <3>1, <3>2, <3>3
        DEF NoCarrier, OneCarrier, InBroker, Carries, Carrying, Only, Same
      <3>5. CarriersOK'
        <4>1. ASSUME NEW q \in Runs \ {r}
              PROVE  /\ status'[q] = "absent" => marker'[q] = 0
                     /\ status'[q] = "queued" => OneCarrier(q)'
                     /\ status'[q] \notin Terminal \cup {"queued"} => NoCarrier(q)'
          <5>1. (NoCarrier(q) => NoCarrier(q)') /\ (OneCarrier(q) => OneCarrier(q)')
            BY <3>0, <3>1, <3>2
            DEF NoCarrier, OneCarrier, InBroker, Carries, Carrying, Only, Same
          <5> QED BY <3>1, <5>1 DEF OnePass, CarriersOK
        <4> QED BY <3>1, <3>4, <4>1 DEF CarriersOK
      <3>6. PassesOK'
        <4>1. \A v \in Workers : pc'[v] \in AtWork => v # w
          BY <3>2 DEF Carrying, AtWork, Finishing, BeforeTry, TryBlock, LoopSteps
        <4> QED BY <3>0, <3>1, <3>2, <3>3, <4>1
                DEF OnePass, PassesOK, Executes, Nobody, Only, Same
      <3> QED BY <3>5, <3>6 DEF OnePass
    <2>2. CASE ~Resumable(wrun[w], wcall[w])
      <3>1. WorkerOnward(w)
        BY <1>Recheck, <2>2, GotoTo
        DEF Recheck, WorkerOnward, Carrying, AtWork, Finishing, BeforeTry, TryBlock,
            LoopSteps
      <3> QED
        BY <1>Recheck, <1>s, <2>2, <3>1, Alone, PassGoesOn
        DEF Recheck, WorkerStep, brokerVars
    <2> QED BY <2>1, <2>2
  <1>FinalizeStopped. ASSUME NEW w \in Workers, FinalizeStopped(w) PROVE OnePass'
    <2>1. WorkerOnward(w)
      BY <1>FinalizeStopped, GotoTo
      DEF FinalizeStopped, WorkerOnward, Carrying, AtWork, Finishing, BeforeTry, TryBlock,
          LoopSteps, workerVars
    <2> QED
      BY <1>FinalizeStopped, <1>s, <2>1, Alone, PassGoesOn
      DEF FinalizeStopped, WorkerStep, rowVars, brokerVars
  <1>MarkStopped. ASSUME NEW w \in Workers, MarkStopped(w) PROVE OnePass'
    <2>1. pc'[w] = "release" /\ Only(w)
      BY <1>MarkStopped, GotoTo, Alone DEF MarkStopped, WorkerStep
    <2>2. \A r \in Runs : RowOnward(r)
      BY <1>MarkStopped, <2>1, LastOnward
      DEF MarkStopped, TypeOK, WorkersOK, Carrying, AtWork, Finishing, BeforeTry, TryBlock,
          LoopSteps
    <2>3. WorkerOnward(w)
      BY <1>MarkStopped, <2>1
      DEF MarkStopped, WorkerOnward, Carrying, AtWork, Finishing, BeforeTry, TryBlock,
          LoopSteps, workerVars
    <2> QED
      BY <1>MarkStopped, <2>1, <2>2, <2>3, PassGoesOn DEF MarkStopped, brokerVars
  <1>ClaimCompletion. ASSUME NEW w \in Workers, ClaimCompletion(w) PROVE OnePass'
    <2>1. WorkerOnward(w) /\ Only(w)
      BY <1>ClaimCompletion, GotoTo, Alone
      DEF ClaimCompletion, WorkerStep, WorkerOnward, Carrying, AtWork, Finishing, BeforeTry,
          TryBlock, LoopSteps, workerVars, TypeOK, RowsOK, WorkersOK
    <2>2. CASE status[wrun[w]] = "running"
      <3>1. /\ wrun[w] \in Runs /\ UNCHANGED wrun
            /\ status'[wrun[w]] = "completing" /\ pc'[w] = "finalize"
            /\ \A q \in Runs \ {wrun[w]} : status'[q] = status[q]
        BY <1>ClaimCompletion, <2>2, GotoTo
        DEF ClaimCompletion, TypeOK, RowsOK, WorkersOK, workerVars
      <3>2. \A v \in Workers : Executes(v, wrun[w])' => v = w
        BY <1>ClaimCompletion, <2>1, <3>1
        DEF ClaimCompletion, OnePass, PassesOK, Executes, Only, Same, Carrying, AtWork,
            Finishing, BeforeTry, TryBlock, LoopSteps
      <3>3. RowOnward(wrun[w])
        BY <1>ClaimCompletion, <2>2, <3>1, <3>2
        DEF ClaimCompletion, RowOnward, Executes, Finishing
      <3>4. \A r \in Runs : RowOnward(r)
        BY <1>ClaimCompletion, <3>1, <3>3 DEF ClaimCompletion, RowOnward
      <3> QED
        BY <1>ClaimCompletion, <2>1, <3>4, PassGoesOn DEF ClaimCompletion, brokerVars
    <2>3. CASE status[wrun[w]] # "running"
      BY <1>ClaimCompletion, <1>s, <2>1, <2>3, PassGoesOn DEF ClaimCompletion, brokerVars
    <2> QED BY <2>2, <2>3
  <1>FinalizeCompleted. ASSUME NEW w \in Workers, FinalizeCompleted(w) PROVE OnePass'
    <2>1. WorkerOnward(w)
      BY <1>FinalizeCompleted, GotoTo
      DEF FinalizeCompleted, WorkerOnward, Carrying, AtWork, Finishing, BeforeTry, TryBlock,
          LoopSteps, workerVars
    <2> QED
      BY <1>FinalizeCompleted, <1>s, <2>1, Alone, PassGoesOn
      DEF FinalizeCompleted, WorkerStep, rowVars, brokerVars
  <1>MarkCompleted. ASSUME NEW w \in Workers, MarkCompleted(w) PROVE OnePass'
    <2>1. pc'[w] = "release" /\ Only(w)
      BY <1>MarkCompleted, GotoTo, Alone DEF MarkCompleted, WorkerStep
    <2>2. \A r \in Runs : RowOnward(r)
      BY <1>MarkCompleted, <2>1, LastOnward
      DEF MarkCompleted, TypeOK, WorkersOK, Carrying, AtWork, Finishing, BeforeTry,
          TryBlock, LoopSteps
    <2>3. WorkerOnward(w)
      BY <1>MarkCompleted, <2>1
      DEF MarkCompleted, WorkerOnward, Carrying, AtWork, Finishing, BeforeTry, TryBlock,
          LoopSteps, workerVars
    <2> QED
      BY <1>MarkCompleted, <2>1, <2>2, <2>3, PassGoesOn DEF MarkCompleted, brokerVars
  <1>Except. ASSUME NEW w \in Workers, Except(w) PROVE OnePass'
    <2>1. \A r \in Runs : RowOnward(r)
      BY <1>Except, CasOnward DEF Except, TypeOK, WorkersOK
    <2>2. WorkerOnward(w)
      BY <1>Except, GotoTo
      DEF Except, WorkerOnward, Carrying, AtWork, Finishing, BeforeTry, TryBlock, LoopSteps,
          workerVars
    <2> QED
      BY <1>Except, <2>1, <2>2, Alone, PassGoesOn DEF Except, WorkerStep, brokerVars
  <1>ReleaseGet. ASSUME NEW w \in Workers, ReleaseGet(w) PROVE OnePass'
    <2>1. WorkerOnward(w)
      BY <1>ReleaseGet, GotoTo, ReturnTo
      DEF ReleaseGet, AfterRelease, WorkerOnward, Carrying, AtWork, Finishing, BeforeTry,
          TryBlock, LoopSteps, workerVars, TypeOK, WorkersOK
    <2> QED
      BY <1>ReleaseGet, <1>s, <2>1, Alone, PassGoesOn
      DEF ReleaseGet, WorkerStep, rowVars, brokerVars
  <1>ReleaseDelete. ASSUME NEW w \in Workers, ReleaseDelete(w) PROVE OnePass'
    <2>1. WorkerOnward(w)
      BY <1>ReleaseDelete, GotoTo, ReturnTo
      DEF ReleaseDelete, AfterRelease, WorkerOnward, Carrying, AtWork, Finishing, BeforeTry,
          TryBlock, LoopSteps, workerVars, TypeOK, WorkersOK
    <2> QED
      BY <1>ReleaseDelete, <1>s, <2>1, Alone, PassGoesOn
      DEF ReleaseDelete, WorkerStep, rowVars, brokerVars
  <1>DispatchDeferred. ASSUME NEW w \in Workers, DispatchDeferred(w) PROVE OnePass'
    <2>1. /\ wrun[w] \in Runs /\ wcall[w] \in Call0 /\ <<wrun[w], wcall[w]>> \in Jobs
          /\ pc'[w] = "idle" /\ wrun'[w] = NoRun /\ after'[w] = "return" /\ Only(w)
      BY <1>DispatchDeferred, ReturnTo DEF DispatchDeferred, TypeOK, WorkersOK, Jobs
    <2>2. CASE UNCHANGED msgs
      <3>1. Transition(wrun[w], {"queued"}, "failed")
        BY <1>DispatchDeferred, <2>1, <2>2, NoMsgKept DEF DispatchDeferred, TypeOK, SharedOK
      <3>2. \A r \in Runs : RowOnward(r)
        BY <1>DispatchDeferred, <2>1, <3>1, CasOnward DEF DispatchDeferred
      <3> QED
        BY <1>DispatchDeferred, <2>1, <2>2, <3>2, PassGoesOn
        DEF DispatchDeferred, WorkerOnward
    <2>3. CASE ~UNCHANGED msgs
      <3>0. PICK r \in Runs, k \in Call0, j \in Jobs : r = wrun[w] /\ k = wcall[w] /\ j = <<r, k>>
        BY <2>1 DEF Jobs
      <3>1. UNCHANGED <<status, marker, pub>> /\ msgs' = [msgs EXCEPT ![j] = @ + 1]
        BY <1>DispatchDeferred, <2>3, <3>0 DEF DispatchDeferred
      <3>2. msgs'[j] = msgs[j] + 1 /\ \A i \in Jobs \ {j} : msgs'[i] = msgs[i]
        BY <3>1, MsgMore DEF TypeOK, SharedOK
      <3>3. Carries(w, r) /\ pc'[w] = "idle" /\ ~Carries(w, r)'
        BY <1>DispatchDeferred, <2>1, <3>0, AgentRunAssumption
        DEF DispatchDeferred, Carries, Carrying
      <3>4. status[r] = "queued" => OneCarrier(r)'
        <4> SUFFICES ASSUME status[r] = "queued" PROVE OneCarrier(r)'
          OBVIOUS
        <4>1. OneCarrier(r)
          BY DEF OnePass, CarriersOK
        <4>2. /\ k = marker[r] /\ \A i \in Call0 : <<r, i>> \notin pub /\ msgs[<<r, i>>] = 0
              /\ \A v \in Workers : Carries(v, r) => v = w
          BY <3>0, <3>3, <4>1 DEF OneCarrier, InBroker, TypeOK, SharedOK, Jobs
        <4>3. \A v \in Workers : ~Carries(v, r)'
          BY <2>1, <3>3, <4>2 DEF Carries, Carrying, Only, Same
        <4> QED BY <3>0, <3>1, <3>2, <4>2, <4>3 DEF OneCarrier, Jobs
      <3>5. status[r] \in Terminal \cup {"queued"}
        BY <3>3 DEF OnePass, CarriersOK, NoCarrier
      <3> QED
        BY <2>1, <3>0, <3>1, <3>2, <3>4, <3>5, HandedOver, AgentRunAssumption
        DEF Jobs, Only, Same, Carrying, AtWork, Finishing, BeforeTry, TryBlock, LoopSteps
    <2> QED BY <2>2, <2>3
  <1>SafetyNet. ASSUME NEW w \in Workers, SafetyNet(w) PROVE OnePass'
    <2>1. WorkerOnward(w)
      <3>1. CASE Return(w)
        BY <3>1, ReturnTo DEF WorkerOnward
      <3>2. CASE ~Return(w)
        <4>1. UNCHANGED workerVars
              /\ pc'[w] \in {"fail_queued", "fail_running", "fail_stopping", "fail_completing"}
          BY <1>SafetyNet, <3>2, GotoTo DEF SafetyNet, FailFrom, InFlight
        <4> QED BY <4>1
                DEF WorkerOnward, workerVars, Carrying, AtWork, Finishing, BeforeTry,
                    TryBlock, LoopSteps
      <3> QED BY <3>1, <3>2
    <2> QED
      BY <1>SafetyNet, <1>s, <2>1, Alone, PassGoesOn
      DEF SafetyNet, WorkerStep, rowVars, brokerVars
  <1>SafetyFail. ASSUME NEW w \in Workers, SafetyFail(w) PROVE OnePass'
    <2>1. PICK s \in InFlight : pc[w] = FailFrom[s] /\ Transition(wrun[w], {s}, "failed")
      BY <1>SafetyFail DEF SafetyFail
    <2>2. wrun[w] \in Runs
      BY <2>1 DEF TypeOK, WorkersOK, FailFrom, InFlight
    <2>3. \A r \in Runs : RowOnward(r)
      BY <1>SafetyFail, <2>1, <2>2, CasOnward DEF SafetyFail
    <2> QED
      BY <1>SafetyFail, <2>3, ReturnTo, PassGoesOn DEF SafetyFail, WorkerOnward, brokerVars
  <1>ContextLost. ASSUME NEW w \in Workers, ContextLost(w) PROVE OnePass'
    <2>1. \A r \in Runs : RowOnward(r)
      BY <1>ContextLost, CasOnward DEF ContextLost, TypeOK, WorkersOK
    <2> QED
      BY <1>ContextLost, <2>1, ReturnTo, PassGoesOn
      DEF ContextLost, WorkerOnward, brokerVars
  <1>WorkerError. ASSUME NEW w \in Workers, WorkerError(w) PROVE OnePass'
    <2>1. WorkerOnward(w)
      BY <1>WorkerError, GotoTo
      DEF WorkerError, WorkerOnward, Carrying, AtWork, Finishing, BeforeTry, TryBlock,
          LoopSteps, TypeOK, WorkersOK
    <2> QED
      BY <1>WorkerError, <1>s, <2>1, Alone, PassGoesOn
      DEF WorkerError, rowVars, brokerVars
  <1>WorkerDies. ASSUME NEW w \in Workers, WorkerDies(w) PROVE OnePass'
    BY <1>WorkerDies, <1>s, ReturnTo, PassGoesOn
    DEF WorkerDies, WorkerOnward, rowVars, brokerVars
  <1>Receive. ASSUME NEW w \in Workers, NEW j \in Jobs, Receive(w, j) PROVE OnePass'
    <2>0. PICK r \in Runs, k \in Call0 : j = <<r, k>>
      BY DEF Jobs
    <2>1. /\ pc'[w] = "load" /\ wrun'[w] = r /\ wcall'[w] = k
          /\ pc[w] = "idle" /\ ~Carrying(w) /\ Only(w)
          /\ UNCHANGED <<status, marker, pub, after>>
      BY <1>Receive, <2>0, GotoTo
      DEF Receive, TypeOK, WorkersOK, Only, Same, rowVars, AfterOK, Carrying, Safety,
          FailFrom, InFlight
    <2>2. msgs[j] > 0 /\ msgs'[j] = msgs[j] - 1 /\ \A i \in Jobs \ {j} : msgs'[i] = msgs[i]
      BY <1>Receive DEF Receive, TypeOK, SharedOK
    <2>3. status[r] = "queued" => OneCarrier(r)'
      <3> SUFFICES ASSUME status[r] = "queued" PROVE OneCarrier(r)'
        OBVIOUS
      <3>1. OneCarrier(r)
        BY DEF OnePass, CarriersOK
      <3>2. /\ k = marker[r] /\ msgs[j] = 1
            /\ \A i \in Call0 : <<r, i>> \notin pub
            /\ \A i \in Call0 \ {k} : ~(msgs[<<r, i>>] > 0)
            /\ \A v \in Workers : ~Carries(v, r)
        BY <2>0, <2>2, <3>1 DEF OneCarrier, InBroker
      <3>3. \A i \in Call0 : ~InBroker(<<r, i>>)'
        BY <2>0, <2>1, <2>2, <3>2, AgentRunAssumption DEF InBroker, Jobs
      <3>4. \A v \in Workers : Carries(v, r)' => v = w
        BY <2>1, <3>2 DEF Carries, Carrying, Only, Same
      <3> QED BY <2>1, <3>2, <3>3, <3>4 DEF OneCarrier, InBroker
    <2>4. status[r] \in Terminal \cup {"queued"}
      BY <2>0, <2>2 DEF OnePass, CarriersOK, NoCarrier, InBroker
    <2> QED
      BY <2>0, <2>1, <2>2, <2>3, <2>4, HandedOver
      DEF Jobs, Only, Same, Carrying, AtWork, Finishing, BeforeTry, TryBlock, LoopSteps
  <1>Publish. ASSUME NEW j \in Jobs, Publish(j) PROVE OnePass'
    <2>0. PICK r \in Runs, k \in Call0 : j = <<r, k>>
      BY DEF Jobs
    <2>1. /\ j \in pub /\ pub' = pub \ {j} /\ UNCHANGED <<status, marker, pc, wrun, wcall, after>>
          /\ msgs' = [msgs EXCEPT ![j] = @ + 1]
      BY <1>Publish DEF Publish, rowVars, workerVars
    <2>2. msgs'[j] = msgs[j] + 1 /\ \A i \in Jobs \ {j} : msgs'[i] = msgs[i]
      BY <2>1, MsgMore DEF TypeOK, SharedOK
    <2>3. status[r] = "queued" => OneCarrier(r)'
      <3> SUFFICES ASSUME status[r] = "queued" PROVE OneCarrier(r)'
        OBVIOUS
      <3>1. OneCarrier(r)
        BY DEF OnePass, CarriersOK
      <3>2. /\ k = marker[r] /\ msgs[j] = 0
            /\ \A i \in Call0 : <<r, i>> \in pub => i = k
            /\ \A i \in Call0 : ~(msgs[<<r, i>>] > 0)
            /\ \A v \in Workers : ~Carries(v, r)
        BY <2>0, <2>1, <3>1 DEF OneCarrier, InBroker
      <3>3. \A v \in Workers : ~Carries(v, r)'
        BY <2>1, <3>2 DEF Carries, Carrying
      <3>4. /\ \A i \in Call0 : <<r, i>> \notin pub'
            /\ \A i \in Call0 : msgs'[<<r, i>>] > 0 => i = k /\ msgs'[<<r, i>>] = 1
        BY <2>0, <2>1, <2>2, <3>2 DEF Jobs
      <3> QED BY <2>1, <3>2, <3>3, <3>4 DEF OneCarrier
    <2>4. status[r] \in Terminal \cup {"queued"}
      BY <2>0, <2>1 DEF OnePass, CarriersOK, NoCarrier, InBroker
    <2> QED
      BY <2>0, <2>1, <2>2, <2>3, <2>4, HandedOver DEF Jobs, Carrying
  <1>PublishFails. ASSUME NEW j \in Jobs, PublishFails(j) PROVE OnePass'
    <2>1. \A q \in Runs : RowOnward(q)
      <3>1. j[1] \in Runs /\ Transition(j[1], {"queued"}, "failed") /\ UNCHANGED marker
        BY <1>PublishFails DEF PublishFails, Jobs
      <3> QED BY <3>1, CasOnward
    <2> QED
      BY <1>PublishFails, <2>1, PassGoesOnBeside DEF PublishFails, workerVars
  <1>Submit. ASSUME NEW r \in Runs, Submit(r) PROVE OnePass'
    <2>1. marker[r] = 0
      BY <1>Submit DEF Submit, OnePass, CarriersOK
    <2>2. status'[r] = "queued" /\ \A q \in Runs \ {r} : status'[q] = status[q]
      BY <1>Submit DEF Submit, TypeOK, RowsOK
    <2> QED
      BY <1>Submit, <1>0, <2>1, <2>2, QueuedKept DEF Submit, workerVars
  <1>StopParked. ASSUME NEW r \in Runs, StopParked(r) PROVE OnePass'
    <2>1. status'[r] = "stopped" /\ \A q \in Runs \ {r} : status'[q] = status[q]
      BY <1>StopParked DEF StopParked, TypeOK, RowsOK
    <2>2. Nobody(r)'
      BY <1>StopParked DEF StopParked, OnePass, PassesOK, Nobody, Executes, workerVars
    <2>3. \A q \in Runs : RowOnward(q)
      BY <1>StopParked, <2>1, <2>2 DEF StopParked, RowOnward
    <2> QED
      BY <1>StopParked, <2>3, PassGoesOnBeside DEF StopParked, brokerVars, workerVars
  <1>StopRunning. ASSUME NEW r \in Runs, StopRunning(r) PROVE OnePass'
    <2>1. status'[r] = "stopping" /\ \A q \in Runs \ {r} : status'[q] = status[q]
      BY <1>StopRunning DEF StopRunning, TypeOK, RowsOK
    <2>2. \A q \in Runs : RowOnward(q)
      BY <1>StopRunning, <2>1 DEF StopRunning, RowOnward
    <2> QED
      BY <1>StopRunning, <2>2, PassGoesOnBeside DEF StopRunning, brokerVars, workerVars
  <1>SubmitAnswers. ASSUME NEW r \in Runs, SubmitAnswers(r) PROVE OnePass'
    <2>1. status'[r] = "queued" /\ \A q \in Runs \ {r} : status'[q] = status[q]
      BY <1>SubmitAnswers DEF SubmitAnswers, TypeOK, RowsOK
    <2> QED
      BY <1>SubmitAnswers, <1>0, <2>1, QueuedKept DEF SubmitAnswers, workerVars
  <1>SweepMark. ASSUME NEW r \in Runs, SweepMark(r) PROVE OnePass'
    <2>1. \A q \in Runs : RowOnward(q)
      BY <1>SweepMark, CasOnward DEF SweepMark
    <2> QED
      BY <1>SweepMark, <2>1, PassGoesOnBeside DEF SweepMark, brokerVars, workerVars
  <1>ScheduleResume. ASSUME NEW r \in Runs, NEW k \in Calls, ScheduleResume(r, k)
                     PROVE  OnePass'
    <2>1. CASE Resumable(r, k)
      <3>1. PICK m : QueueResume(r, m) /\ pub' = pub \cup {<<r, m>>}
        BY <1>ScheduleResume, <2>1 DEF ScheduleResume
      <3>2. /\ status[r] = "waiting" /\ status'[r] = "queued" /\ marker'[r] = m
            /\ \A q \in Runs \ {r} : status'[q] = status[q] /\ marker'[q] = marker[q]
        BY <2>1, <3>1 DEF QueueResume, Resumable, TypeOK, RowsOK
      <3> QED
        BY <1>ScheduleResume, <1>0, <3>1, <3>2, QueuedKept DEF ScheduleResume, workerVars
    <2>2. CASE ~Resumable(r, k)
      BY <1>ScheduleResume, <1>s, <2>2, PassGoesOnBeside DEF ScheduleResume, workerVars
    <2> QED BY <2>1, <2>2
  <1>ApiDies. ASSUME ApiDies PROVE OnePass'
    <2>1. pub' \subseteq pub
      BY <1>ApiDies DEF ApiDies
    <2> QED
      BY <1>ApiDies, <1>s, <2>1, PassGoesOnBeside DEF ApiDies, rowVars, workerVars
  <1>RedispatchQueued. ASSUME NEW r \in Runs, RedispatchQueued(r) PROVE OnePass'
    BY <1>RedispatchQueued DEF RedispatchQueued
  <1>quiet. ASSUME UNCHANGED <<status, marker, pub, msgs, pc, wrun, wcall, after>>
            PROVE  OnePass'
    BY <1>quiet, <1>s, PassGoesOnBeside
  <1> QED BY ZenonT(60), <1>quiet, <1>Load, <1>Claim, <1>PreCheck, <1>PreStop,
     <1>PreMark, <1>Acquire, <1>Busy, <1>LockBusy, <1>Owned, <1>DropInputs,
     <1>FinishApproved, <1>RecordResult, <1>Rebuild, <1>LoopHead,
     <1>LoopCheck, <1>Turn, <1>TurnPauses, <1>Drain, <1>LastCheck, <1>Park,
     <1>Recheck, <1>FinalizeStopped, <1>MarkStopped, <1>ClaimCompletion,
     <1>FinalizeCompleted, <1>MarkCompleted, <1>Except, <1>ReleaseGet,
     <1>ReleaseDelete, <1>DispatchDeferred, <1>SafetyNet, <1>SafetyFail,
     <1>ContextLost, <1>WorkerError, <1>WorkerDies, <1>Receive, <1>Publish,
     <1>PublishFails, <1>Submit, <1>StopParked, <1>StopRunning,
     <1>SubmitAnswers, <1>SweepMark, <1>ScheduleResume, <1>ApiDies,
     <1>RedispatchQueued DEF vars, rowVars, brokerVars, apiVars, workerVars,
     Next, WorkerStep, Dispatching, Endpoints, Approvals, ListPending,
     CancelPending, EnqueueStop, PostStopInput, GrowOld, SweepRead, SweepCheck, Decide,
     Expire, StaleClaim, LeaseExpires

-----------------------------------------------------------------------------
(* What one pass at a time gives *)

(* The invariants of a pass hold, if no run is dispatched twice. *)
LEMMA PassInvariant == ~Redispatch => (Spec => [](AfterOK /\ OnePass))
  <1> SUFFICES ASSUME ~Redispatch PROVE Spec => [](AfterOK /\ OnePass)
    OBVIOUS
  <1>1. Init => AfterOK /\ OnePass
    <2> SUFFICES ASSUME Init PROVE AfterOK /\ OnePass
      OBVIOUS
    <2>1. AfterOK
      BY DEF Init, AfterOK
    <2>2. \A r \in Runs : NoCarrier(r)
      BY DEF Init, NoCarrier, InBroker, Carries, Carrying, Jobs
    <2>3. CarriersOK
      BY <2>2 DEF Init, CarriersOK
    <2>4. PassesOK
      BY DEF Init, PassesOK, Executes, AtWork, BeforeTry, TryBlock, LoopSteps
    <2> QED BY <2>1, <2>3, <2>4 DEF OnePass
  <1>2. TypeOK /\ AfterOK /\ OnePass /\ [Next]_vars => (AfterOK /\ OnePass)'
    BY AfterStep, PassStep
  <1> QED BY <1>1, <1>2, TypeCorrect, PTL DEF Spec

(* Without a second dispatch of the same run, the message on its way to a  *)
(* queued run carries the payload of the row: an approved call is not      *)
(* forgotten and not executed for another resume.                          *)
THEOREM PayloadCurrent == Spec => []PayloadIsCurrent
  <1>1. CASE Redispatch
    <2>1. PayloadIsCurrent
      BY <1>1 DEF PayloadIsCurrent
    <2> QED BY <2>1, PTL
  <1>2. CASE ~Redispatch
    <2>1. OnePass => PayloadIsCurrent
      BY DEF OnePass, CarriersOK, OneCarrier, Carries, Carrying, PayloadIsCurrent
    <2> QED BY <1>2, <2>1, PassInvariant, PTL
  <1> QED BY <1>1, <1>2

-----------------------------------------------------------------------------
(* The final answer *)

(* The final answer is written by a worker that claimed the completion and *)
(* is about to mark the row.                                               *)
AnswersOK ==
  \A r \in Runs :
    /\ status[r] = "completed" => answer[r] = "completed"
    /\ answer[r] = "completed" => status[r] \in {"completing"} \cup Terminal
    /\ \A w \in Workers : Executes(w, r) =>
         (answer[r] = "completed" <=> pc[w] = "completed")

(* A worker stays short of the completion, or leaves the run. *)
StaysShort(v) ==
  pc'[v] \in AtWork =>
    \/ wrun'[v] = wrun[v] /\ pc[v] \in AtWork \ {"completed"} /\ pc'[v] # "completed"
    \/ UNCHANGED <<pc[v], wrun[v]>>
    \/ status[wrun[v]] = "queued" /\ wrun'[v] = wrun[v] /\ pc'[v] # "completed"

(* Short of FinalizeCompleted and MarkCompleted the answers stay true. *)
LEMMA AnswersKept ==
  ASSUME TypeOK, AnswersOK, [Next]_vars, UNCHANGED answer,
         \A r \in Runs : status'[r] = "completed" => status[r] = "completed",
         \A v \in Workers : StaysShort(v)
  PROVE  AnswersOK'
  <1> SUFFICES ASSUME NEW r \in Runs
               PROVE  /\ status'[r] = "completed" => answer'[r] = "completed"
                      /\ answer'[r] = "completed" => status'[r] \in {"completing"} \cup Terminal
                      /\ \A w \in Workers : Executes(w, r)' =>
                           (answer'[r] = "completed" <=> pc'[w] = "completed")
    BY DEF AnswersOK
  <1>1. status'[r] = "completed" => answer'[r] = "completed"
    BY DEF AnswersOK
  <1>2. answer'[r] = "completed" => status'[r] \in {"completing"} \cup Terminal
    BY StatusFollows DEF AnswersOK, Lifecycle!After, Terminal
  <1>3. ASSUME NEW w \in Workers, Executes(w, r)'
        PROVE  answer'[r] = "completed" <=> pc'[w] = "completed"
    BY <1>3 DEF AnswersOK, Executes, StaysShort, Terminal
  <1> QED BY <1>1, <1>2, <1>3

(* Every step keeps them true, and keeps a final answer. *)
LEMMA AnswersStep ==
  ASSUME TypeOK, OnePass, AnswersOK, [Next]_vars
  PROVE  /\ AnswersOK'
         /\ \A r \in Runs : answer[r] = "completed" => answer'[r] = "completed"
  <1> DEFINE Kept == \A r \in Runs : answer[r] = "completed" => answer'[r] = "completed"
  <1> USE DEF StaysShort
  <1>1. ASSUME NEW w \in Workers, Only(w), StaysShort(w), UNCHANGED answer,
               \A r \in Runs : status'[r] = "completed" => status[r] = "completed"
        PROVE  AnswersOK' /\ Kept
    <2>1. \A v \in Workers : StaysShort(v)
      BY <1>1 DEF Only, Same
    <2> QED BY <1>1, <2>1, AnswersKept
  <1>2. ASSUME UNCHANGED <<pc, wrun, answer>>,
               \A r \in Runs : status'[r] = "completed" => status[r] = "completed"
        PROVE  AnswersOK' /\ Kept
    BY <1>2, AnswersKept
  <1>cas. ASSUME NEW r \in Runs, NEW allowed, NEW s, s # "completed", Transition(r, allowed, s)
          PROVE  \A q \in Runs : status'[q] = "completed" => status[q] = "completed"
    BY <1>cas, CasTo
  <1>Load. ASSUME NEW w \in Workers, Load(w) PROVE AnswersOK' /\ Kept
    <2>1. StaysShort(w)
      <3>1. status[wrun[w]] \in {"running", "stopping"} => FALSE
        BY <1>Load
        DEF Load, OnePass, CarriersOK, NoCarrier, Carries, Carrying, TypeOK, WorkersOK,
            Terminal
      <3> QED
        BY <1>Load, <3>1, LoadSplits, GotoTo, ReturnTo
        DEF AtWork, BeforeTry, TryBlock, LoopSteps
    <2> QED BY <1>Load, <1>1, <2>1, Alone DEF Load, WorkerStep, rowVars
  <1>Claim. ASSUME NEW w \in Workers, Claim(w) PROVE AnswersOK' /\ Kept
    <2>1. StaysShort(w)
      BY <1>Claim, GotoTo, ReturnTo DEF Claim, AtWork, BeforeTry, TryBlock, LoopSteps
    <2>2. \A r \in Runs : status'[r] = "completed" => status[r] = "completed"
      BY <1>Claim DEF Claim, TypeOK, RowsOK, WorkersOK
    <2> QED BY <1>Claim, <1>1, <2>1, <2>2, Alone DEF Claim, WorkerStep
  <1>Checks. ASSUME NEW w \in Workers,
                    PreCheck(w) \/ PreStop(w) \/ Acquire(w) \/ Busy(w) \/ Owned(w) \/ DropInputs(w)
                      \/ FinishApproved(w) \/ RecordResult(w)
             PROVE  AnswersOK' /\ Kept
    <2>1. Only(w)
      BY <1>Checks, Alone DEF WorkerStep
    <2>2. UNCHANGED <<status, answer>> /\ wrun' = wrun
      BY <1>Checks DEF PreCheck, PreStop, Acquire, Busy, Owned, DropInputs, FinishApproved,
                       RecordResult, rowVars, workerVars
    <2>3. pc[w] \in AtWork \ {"completed"} /\ pc'[w] # "completed"
      BY <1>Checks, GotoTo
      DEF PreCheck, PreStop, Acquire, Busy, Owned, DropInputs, FinishApproved,
                       RecordResult, AtWork, BeforeTry, TryBlock, LoopSteps
    <2> QED BY <1>1, <2>1, <2>2, <2>3
  <1>Loop. ASSUME NEW w \in Workers,
                  LoopHead(w) \/ LoopCheck(w) \/ Turn(w) \/ TurnPauses(w) \/ Drain(w) \/ LastCheck(w)
           PROVE  AnswersOK' /\ Kept
    <2>1. Only(w)
      BY <1>Loop, Alone DEF WorkerStep
    <2>2. UNCHANGED <<status, answer>> /\ wrun' = wrun
      BY <1>Loop
      DEF LoopHead, LoopCheck, Turn, TurnPauses, Drain, LastCheck, rowVars, workerVars
    <2>3. pc[w] \in AtWork \ {"completed"} /\ pc'[w] # "completed"
      BY <1>Loop, GotoTo DEF LoopHead, LoopCheck, Turn, TurnPauses, Drain, LastCheck,
                             AtWork, BeforeTry, TryBlock, LoopSteps
    <2> QED BY <1>1, <2>1, <2>2, <2>3
  <1>Ends. ASSUME NEW w \in Workers,
                  PreMark(w) \/ LockBusy(w) \/ MarkStopped(w) \/ Except(w) \/ ContextLost(w)
           PROVE  AnswersOK' /\ Kept
    <2>1. Only(w) /\ wrun[w] \in Runs /\ UNCHANGED answer /\ pc'[w] \in {"idle", "release"}
      BY <1>Ends, Alone, GotoTo, ReturnTo
      DEF WorkerStep, PreMark, LockBusy, MarkStopped, Except, ContextLost, TypeOK, WorkersOK
    <2>2. \A r \in Runs : status'[r] = "completed" => status[r] = "completed"
      BY <1>Ends, <1>cas, <2>1 DEF PreMark, LockBusy, MarkStopped, Except, ContextLost
    <2> QED BY <1>1, <2>1, <2>2 DEF AtWork, BeforeTry, TryBlock, LoopSteps
  <1>Park. ASSUME NEW w \in Workers, Park(w) \/ Recheck(w) PROVE AnswersOK' /\ Kept
    <2>1. Only(w) /\ UNCHANGED answer /\ pc'[w] \in {"recheck", "except", "release"}
      BY <1>Park, Alone, GotoTo DEF WorkerStep, Park, Recheck
    <2>2. \A r \in Runs : status'[r] = "completed" => status[r] = "completed"
      BY <1>Park DEF Park, Recheck, QueueResume, TypeOK, RowsOK, WorkersOK
    <2> QED BY <1>1, <2>1, <2>2 DEF AtWork, BeforeTry, TryBlock, LoopSteps
  <1>ClaimCompletion. ASSUME NEW w \in Workers, ClaimCompletion(w) PROVE AnswersOK' /\ Kept
    <2>1. Only(w) /\ UNCHANGED <<wrun, answer>> /\ pc[w] = "complete" /\ pc'[w] # "completed"
      BY <1>ClaimCompletion, Alone, GotoTo DEF WorkerStep, ClaimCompletion, workerVars
    <2>2. \A r \in Runs : status'[r] = "completed" => status[r] = "completed"
      BY <1>ClaimCompletion DEF ClaimCompletion, TypeOK, RowsOK, WorkersOK
    <2> QED BY <1>1, <2>1, <2>2 DEF AtWork, BeforeTry, TryBlock, LoopSteps
  <1>Rewrite. ASSUME NEW w \in Workers, Rebuild(w) \/ FinalizeStopped(w)
              PROVE  AnswersOK' /\ Kept
    <2>0. PICK r \in Runs : r = wrun[w]
      BY <1>Rewrite DEF Rebuild, FinalizeStopped, TypeOK, WorkersOK
    <2>1. /\ Only(w) /\ UNCHANGED <<status, wrun>> /\ pc'[w] \in AtWork \ {"completed"}
          /\ Executes(w, r) /\ pc[w] # "completed"
      BY <1>Rewrite, <2>0, Alone, GotoTo
      DEF WorkerStep, Rebuild, FinalizeStopped, workerVars, Executes, AtWork, BeforeTry,
          TryBlock, LoopSteps
    <2>2. /\ answer[r] # "completed" /\ status[r] # "completed"
          /\ \A v \in Workers : Executes(v, r) => v = w
      BY <2>1 DEF AnswersOK, OnePass, PassesOK
    <2>3. /\ answer'[r] # "completed" /\ \A q \in Runs \ {r} : answer'[q] = answer[q]
      BY <1>Rewrite, <2>0, <2>2 DEF Rebuild, FinalizeStopped, TypeOK, RowsOK
    <2>4. AnswersOK'
      <3> SUFFICES ASSUME NEW q \in Runs
                   PROVE  /\ status'[q] = "completed" => answer'[q] = "completed"
                          /\ answer'[q] = "completed" => status'[q] \in {"completing"} \cup Terminal
                          /\ \A v \in Workers : Executes(v, q)' =>
                               (answer'[q] = "completed" <=> pc'[v] = "completed")
        BY DEF AnswersOK
      <3>1. CASE q = r
        BY <2>1, <2>2, <2>3, <3>1 DEF Executes, Only, Same
      <3>2. CASE q # r
        BY <2>0, <2>1, <2>3, <3>2 DEF AnswersOK, Executes, Only, Same
      <3> QED BY <3>1, <3>2
    <2> QED BY <2>2, <2>3, <2>4
  <1>FinalizeCompleted. ASSUME NEW w \in Workers, FinalizeCompleted(w)
                        PROVE  AnswersOK' /\ Kept
    <2>0. PICK r \in Runs : r = wrun[w]
      BY <1>FinalizeCompleted DEF FinalizeCompleted, TypeOK, WorkersOK
    <2>1. /\ Only(w) /\ UNCHANGED <<status, wrun>> /\ pc'[w] = "completed"
          /\ Executes(w, r) /\ pc[w] = "finalize"
      BY <1>FinalizeCompleted, <2>0, Alone, GotoTo
      DEF WorkerStep, FinalizeCompleted, workerVars, Executes, AtWork, BeforeTry, TryBlock,
          LoopSteps
    <2>2. status[r] \in {"completing"} \cup Terminal /\ \A v \in Workers : Executes(v, r) => v = w
      BY <2>1 DEF OnePass, PassesOK, Finishing, Terminal
    <2>3. answer'[r] = "completed" /\ \A q \in Runs \ {r} : answer'[q] = answer[q]
      BY <1>FinalizeCompleted, <2>0 DEF FinalizeCompleted, TypeOK, RowsOK
    <2>4. AnswersOK'
      <3> SUFFICES ASSUME NEW q \in Runs
                   PROVE  /\ status'[q] = "completed" => answer'[q] = "completed"
                          /\ answer'[q] = "completed" => status'[q] \in {"completing"} \cup Terminal
                          /\ \A v \in Workers : Executes(v, q)' =>
                               (answer'[q] = "completed" <=> pc'[v] = "completed")
        BY DEF AnswersOK
      <3>1. CASE q = r
        BY <2>1, <2>2, <2>3, <3>1 DEF Executes, Only, Same
      <3>2. CASE q # r
        BY <2>0, <2>1, <2>3, <3>2 DEF AnswersOK, Executes, Only, Same
      <3> QED BY <3>1, <3>2
    <2> QED BY <2>3, <2>4
  <1>MarkCompleted. ASSUME NEW w \in Workers, MarkCompleted(w) PROVE AnswersOK' /\ Kept
    <2>0. PICK r \in Runs : r = wrun[w]
      BY <1>MarkCompleted DEF MarkCompleted, TypeOK, WorkersOK
    <2>1. /\ Only(w) /\ UNCHANGED <<answer, wrun>> /\ pc'[w] = "release"
          /\ Executes(w, r) /\ pc[w] = "completed"
      BY <1>MarkCompleted, <2>0, Alone, GotoTo
      DEF WorkerStep, MarkCompleted, workerVars, Executes, AtWork, BeforeTry, TryBlock,
          LoopSteps
    <2>2. answer[r] = "completed" /\ status'[r] \in {"completing"} \cup Terminal
      BY <1>MarkCompleted, <2>0, <2>1, CasTo DEF MarkCompleted, AnswersOK, Terminal
    <2>3. \A q \in Runs \ {r} : status'[q] = status[q]
      BY <1>MarkCompleted, <2>0, CasTo DEF MarkCompleted
    <2>4. \A v \in Workers, q \in Runs : Executes(v, q)' => Executes(v, q) /\ pc'[v] = pc[v]
      BY <2>1 DEF Executes, Only, Same, AtWork, BeforeTry, TryBlock, LoopSteps
    <2> QED BY <2>1, <2>2, <2>3, <2>4 DEF AnswersOK
  <1>Finally. ASSUME NEW w \in Workers,
                     ReleaseGet(w) \/ ReleaseDelete(w) \/ SafetyNet(w) \/ WorkerError(w)
                       \/ WorkerDies(w)
              PROVE  AnswersOK' /\ Kept
    <2>1. Only(w) /\ UNCHANGED <<status, answer>>
      BY <1>Finally, Alone
      DEF WorkerStep, ReleaseGet, ReleaseDelete, SafetyNet, WorkerError, WorkerDies, rowVars
    <2>2. pc'[w] \notin AtWork
      BY <1>Finally, GotoTo, ReturnTo
      DEF ReleaseGet, ReleaseDelete, AfterRelease, SafetyNet, WorkerError, WorkerDies,
          FailFrom, InFlight,
          TypeOK, WorkersOK, AtWork, BeforeTry, TryBlock, LoopSteps
    <2> QED BY <1>1, <2>1, <2>2
  <1>Fail. ASSUME NEW w \in Workers, DispatchDeferred(w) \/ SafetyFail(w)
           PROVE  AnswersOK' /\ Kept
    <2>1. Only(w) /\ UNCHANGED answer /\ pc'[w] = "idle"
      BY <1>Fail, ReturnTo DEF DispatchDeferred, SafetyFail
    <2>2. wrun[w] \in Runs
      BY <1>Fail DEF DispatchDeferred, SafetyFail, FailFrom, InFlight, TypeOK, WorkersOK
    <2>3. \A r \in Runs : status'[r] = "completed" => status[r] = "completed"
      BY <1>Fail, <1>cas, <2>2 DEF DispatchDeferred, SafetyFail
    <2> QED BY <1>1, <2>1, <2>3 DEF AtWork, BeforeTry, TryBlock, LoopSteps
  <1>Receive. ASSUME NEW w \in Workers, NEW j \in Jobs, Receive(w, j)
              PROVE  AnswersOK' /\ Kept
    <2>1. Only(w) /\ UNCHANGED <<status, answer>> /\ pc'[w] = "load"
      BY <1>Receive, GotoTo DEF Receive, TypeOK, WorkersOK, Only, Same, rowVars
    <2> QED BY <1>1, <2>1 DEF AtWork, BeforeTry, TryBlock, LoopSteps
  <1>PublishFails. ASSUME NEW j \in Jobs, PublishFails(j) PROVE AnswersOK' /\ Kept
    <2>1. \A q \in Runs : status'[q] = "completed" => status[q] = "completed"
      BY <1>PublishFails, <1>cas DEF PublishFails, Jobs
    <2> QED BY <1>PublishFails, <1>2, <2>1 DEF PublishFails, workerVars
  <1>SweepMark. ASSUME NEW r \in Runs, SweepMark(r) PROVE AnswersOK' /\ Kept
    BY <1>SweepMark, <1>cas, <1>2 DEF SweepMark, workerVars
  <1>Rows. ASSUME NEW r \in Runs, Submit(r) \/ StopParked(r) \/ StopRunning(r) \/ SubmitAnswers(r)
           PROVE  AnswersOK' /\ Kept
    <2>1. \A q \in Runs : status'[q] = "completed" => status[q] = "completed"
      BY <1>Rows DEF Submit, StopParked, StopRunning, SubmitAnswers, TypeOK, RowsOK
    <2> QED BY <1>Rows, <1>2, <2>1
            DEF Submit, StopParked, StopRunning, SubmitAnswers, workerVars
  <1>ScheduleResume. ASSUME NEW r \in Runs, NEW k \in Calls, ScheduleResume(r, k)
                     PROVE  AnswersOK' /\ Kept
    <2>1. \A q \in Runs : status'[q] = "completed" => status[q] = "completed"
      BY <1>ScheduleResume DEF ScheduleResume, QueueResume, TypeOK, RowsOK
    <2> QED BY <1>ScheduleResume, <1>2, <2>1 DEF ScheduleResume, workerVars
  <1>quiet. ASSUME UNCHANGED <<status, answer, pc, wrun>> PROVE AnswersOK' /\ Kept
    BY <1>quiet, <1>2
  <1> HIDE DEF Kept
  <1>q. AnswersOK' /\ Kept
    BY ZenonT(60), <1>quiet, <1>Load, <1>Claim, <1>Checks, <1>Loop, <1>Ends, <1>Park,
       <1>ClaimCompletion, <1>Rewrite, <1>FinalizeCompleted, <1>MarkCompleted, <1>Finally, <1>Fail,
       <1>Receive, <1>PublishFails, <1>SweepMark, <1>Rows, <1>ScheduleResume
    DEF vars, rowVars, brokerVars, apiVars, workerVars, Next, WorkerStep, Dispatching,
        Endpoints,
        Approvals, Publish, RedispatchQueued, ListPending, CancelPending, EnqueueStop,
        PostStopInput, GrowOld,
        SweepRead, SweepCheck, Decide, Expire, StaleClaim, LeaseExpires, ApiDies
  <1> QED BY <1>q DEF Kept

(* A run is completed with its final answer written, and no later step of  *)
(* any process turns that answer back into a stopped one, where no run is  *)
(* dispatched twice.                                                       *)
THEOREM AnswerStays == ~Redispatch => (Spec => FinalAnswerKept)
  <1> SUFFICES ASSUME ~Redispatch PROVE Spec => FinalAnswerKept
    OBVIOUS
  <1>1. Init => AnswersOK
    BY DEF Init, AnswersOK, Executes, AtWork, BeforeTry, TryBlock, LoopSteps
  <1>2. TypeOK /\ OnePass /\ AnswersOK /\ [Next]_vars => AnswersOK'
    BY AnswersStep
  <1>3. TypeOK /\ OnePass /\ AnswersOK /\ [Next]_vars =>
          [\A r \in Runs :
             /\ status'[r] = "completed" => answer'[r] = "completed"
             /\ answer[r] = "completed" => answer'[r] = "completed"]_vars
    BY AnswersStep DEF AnswersOK
  <1> QED BY <1>1, <1>2, <1>3, PassInvariant, TypeCorrect, PTL DEF Spec, FinalAnswerKept

-----------------------------------------------------------------------------
(* The approvals of a stopped run *)

(* The stop endpoint is to list the open calls of run r, or to cancel k.   *)
CancelDue(r, k) == <<r, 0>> \in cancelApi \/ <<r, k>> \in cancelApi

(* Who an approval waits for: the parked run that names it, the stop       *)
(* endpoint that is about to cancel it, or the worker that is to park on   *)
(* it, unless that worker is gone.                                         *)
AwaitedBy(r, k) ==
  \/ status[r] = "waiting" /\ pending[r] = k
  \/ status[r] = "stopped" /\ CancelDue(r, k)
  \/ /\ status[r] \in {"running", "stopping", "failed", "interrupted"}
     /\ \A w \in Workers : Executes(w, r) => pc[w] = "park" /\ wcall[w] = k

(* The invariant behind StoppedNotActionable. *)
Awaited == \A r \in Runs, k \in Calls : exec[r][k] = "awaiting" => AwaitedBy(r, k)

(* No call of run r awaits a decision. *)
NoneAwaits(r) == \A k \in Calls : exec[r][k] # "awaiting"

(* What a step may do to a row whose calls are awaited, ... *)
RowAwaits(r) ==
  \/ status'[r] = status[r] /\ pending'[r] = pending[r]
  \/ status'[r] \in {"failed", "interrupted"}
  \/ status[r] = "running" /\ status'[r] = "stopping"
  \/ status'[r] = "stopped" /\ <<r, 0>> \in cancelApi'
  \/ NoneAwaits(r)'

(* ... and to a worker. *)
WorkerAwaits(v) ==
  pc'[v] \in AtWork =>
    \/ /\ wrun'[v] = wrun[v] /\ pc[v] \in AtWork
       /\ pc[v] = "park" => pc'[v] = "park" /\ wcall'[v] = wcall[v]
    \/ NoneAwaits(wrun[v]) /\ wrun'[v] = wrun[v]

(* Rows and workers that do only this keep the invariant. *)
LEMMA AwaitedKept ==
  ASSUME TypeOK, OnePass, Awaited, [Next]_vars,
         \A r \in Runs, k \in Calls : exec'[r][k] = "awaiting" => exec[r][k] = "awaiting",
         \A r \in Runs, k \in Calls :
           CancelDue(r, k) => CancelDue(r, k)' \/ exec'[r][k] # "awaiting",
         \A r \in Runs : RowAwaits(r), \A v \in Workers : WorkerAwaits(v)
  PROVE  Awaited'
  <1> SUFFICES ASSUME NEW r \in Runs, NEW k \in Calls, exec'[r][k] = "awaiting"
               PROVE  AwaitedBy(r, k)'
    BY DEF Awaited
  <1>1. AwaitedBy(r, k) /\ ~NoneAwaits(r) /\ ~NoneAwaits(r)'
    BY DEF Awaited, NoneAwaits
  <1>2. \A w \in Workers : Executes(w, r)' =>
          /\ Executes(w, r)
          /\ pc[w] = "park" => pc'[w] = "park" /\ wcall'[w] = wcall[w]
    BY <1>1, AgentRunAssumption DEF WorkerAwaits, Executes
  <1>3. RowAwaits(r)
    OBVIOUS
  <1>4. status[r] \in {"waiting", "stopped"} => Nobody(r)
    BY DEF OnePass, PassesOK, Nobody
  <1>5. status[r] = "stopped" => status'[r] = "stopped"
    BY TerminalStays DEF Terminal
  <1>6. CancelDue(r, k) => CancelDue(r, k)'
    OBVIOUS
  <1>7. <<r, 0>> \in cancelApi' => CancelDue(r, k)'
    BY DEF CancelDue
  <1> QED BY <1>1, <1>2, <1>3, <1>4, <1>5, <1>6, <1>7 DEF AwaitedBy, RowAwaits, Nobody

(* Every step keeps it, while no process is killed: TurnPauses creates the *)
(* approval before Park names it, StopParked takes the run before          *)
(* ListPending lists its calls for cancellation.                                        *)
LEMMA AwaitedStep ==
  ASSUME ~Crash, TypeOK, OnePass, Awaited, [Next]_vars
  PROVE  Awaited'
  <1> USE DEF WorkerAwaits
  <1>1. ASSUME NEW w \in Workers, Only(w), WorkerAwaits(w), UNCHANGED cancelApi,
               \A r \in Runs, k \in Calls : exec'[r][k] = "awaiting" => exec[r][k] = "awaiting",
               \A r \in Runs : RowAwaits(r)
        PROVE  Awaited'
    <2>1. \A v \in Workers : WorkerAwaits(v)
      BY <1>1 DEF Only, Same
    <2>2. \A r \in Runs, k \in Calls : CancelDue(r, k) => CancelDue(r, k)'
      BY <1>1 DEF CancelDue
    <2> QED BY <1>1, <2>1, <2>2, AwaitedKept
  <1>2. ASSUME UNCHANGED <<pc, wrun, wcall>>,
               \A r \in Runs, k \in Calls : exec'[r][k] = "awaiting" => exec[r][k] = "awaiting",
               \A r \in Runs, k \in Calls :
                 CancelDue(r, k) => CancelDue(r, k)' \/ exec'[r][k] # "awaiting",
               \A r \in Runs : RowAwaits(r)
        PROVE  Awaited'
    BY <1>2, AwaitedKept
  <1>s. UNCHANGED <<status, pending>> => \A r \in Runs : RowAwaits(r)
    BY DEF RowAwaits
  <1>open. ASSUME NEW r \in Runs, NEW k \in Call0, Resumable(r, k) PROVE NoneAwaits(r)
    BY <1>open
    DEF Resumable, Decided, Awaited, AwaitedBy, NoneAwaits, OnePass, PassesOK, TypeOK, RowsOK
  <1>cas. ASSUME NEW r \in Runs, NEW allowed, NEW s, Transition(r, allowed, s), UNCHANGED pending,
                 s \in {"failed", "interrupted"} \/ NoneAwaits(r)'
          PROVE  \A q \in Runs : RowAwaits(q)
    BY <1>cas, CasTo DEF RowAwaits
  <1>none. ASSUME NEW w \in Workers, NEW r \in Runs, wrun[w] = r, pc[w] \in AtWork \ {"park"}
           PROVE  NoneAwaits(r)
    BY <1>none DEF Awaited, AwaitedBy, NoneAwaits, Executes, OnePass, PassesOK
  <1>Load. ASSUME NEW w \in Workers, Load(w) PROVE Awaited'
    <2>1. WorkerAwaits(w)
      <3>1. status[wrun[w]] \in {"running", "stopping"} => FALSE
        BY <1>Load
        DEF Load, OnePass, CarriersOK, NoCarrier, Carries, Carrying, TypeOK, WorkersOK,
            Terminal
      <3> QED
        BY <1>Load, <3>1, LoadSplits, GotoTo, ReturnTo
        DEF AtWork, BeforeTry, TryBlock, LoopSteps
    <2> QED BY <1>Load, <1>1, <1>s, <2>1, Alone DEF Load, WorkerStep, rowVars, apiVars
  <1>Claim. ASSUME NEW w \in Workers, Claim(w) PROVE Awaited'
    <2>0. PICK r \in Runs : r = wrun[w]
      BY <1>Claim DEF Claim, TypeOK, WorkersOK
    <2>1. status[r] = "queued" => NoneAwaits(r)
      BY DEF Awaited, AwaitedBy, NoneAwaits
    <2>2. WorkerAwaits(w)
      BY <1>Claim, <2>0, <2>1, ReturnTo DEF Claim, AtWork, BeforeTry, TryBlock, LoopSteps
    <2>3. /\ status[r] # "queued" => status' = status
          /\ \A q \in Runs \ {r} : status'[q] = status[q]
      BY <1>Claim, <2>0 DEF Claim, TypeOK, RowsOK
    <2>4. \A q \in Runs : RowAwaits(q)
      BY <1>Claim, <2>1, <2>3 DEF Claim, RowAwaits, NoneAwaits
    <2> QED BY <1>Claim, <1>1, <2>2, <2>4, Alone DEF Claim, WorkerStep, apiVars
  <1>Checks. ASSUME NEW w \in Workers,
                    PreCheck(w) \/ Acquire(w) \/ Busy(w) \/ DropInputs(w) \/ RecordResult(w)
                      \/ Rebuild(w) \/ FinalizeStopped(w) \/ FinalizeCompleted(w)
             PROVE  Awaited'
    <2>1. Only(w)
      BY <1>Checks, Alone DEF WorkerStep
    <2>2. UNCHANGED <<status, pending, exec, cancelApi, wrun>>
      BY <1>Checks
      DEF PreCheck, Acquire, Busy, DropInputs, RecordResult, Rebuild, FinalizeStopped,
                       FinalizeCompleted, rowVars, apiVars, workerVars
    <2>3. pc[w] \in AtWork \ {"park"}
      BY <1>Checks
      DEF PreCheck, Acquire, Busy, DropInputs, RecordResult, Rebuild, FinalizeStopped,
                       FinalizeCompleted, AtWork, BeforeTry, TryBlock, LoopSteps
    <2> QED BY <1>1, <1>s, <2>1, <2>2, <2>3
  <1>Calls. ASSUME NEW w \in Workers, PreStop(w) \/ Owned(w) \/ FinishApproved(w)
            PROVE  Awaited'
    <2>0. PICK r \in Runs, c \in Call0 : r = wrun[w] /\ c = wcall[w]
      BY <1>Calls DEF PreStop, Owned, FinishApproved, TypeOK, WorkersOK
    <2>1. Only(w) /\ UNCHANGED <<status, pending, cancelApi, wrun>> /\ pc[w] \in AtWork \ {"park"}
      BY <1>Calls, Alone
      DEF WorkerStep, PreStop, Owned, FinishApproved, rowVars, apiVars, workerVars,
          AtWork, BeforeTry, TryBlock, LoopSteps
    <2>2. \A q \in Runs, k \in Calls : exec'[q][k] = "awaiting" => exec[q][k] = "awaiting"
      <3>1. CASE exec' = exec
        BY <3>1
      <3>2. CASE CancelCalls(r, {c})
        BY <3>2, CancelTo
      <3>3. CASE \E s \in {"executing", "cancelled", "done"} : exec' = [exec EXCEPT ![r][c] = s]
        BY <3>3 DEF TypeOK, CallsOK
      <3>4. PreStop(w) => CancelCalls(r, {c}) \/ exec' = exec
        BY <2>0 DEF PreStop
      <3>5. Owned(w) => \/ CancelCalls(r, {c}) \/ exec' = exec
                        \/ exec' = [exec EXCEPT ![r][c] = "executing"]
                        \/ exec' = [exec EXCEPT ![r][c] = "cancelled"]
        BY <2>0 DEF Owned
      <3>6. ASSUME FinishApproved(w)
            PROVE  \A q \in Runs, k \in Calls : exec'[q][k] = "awaiting" => exec[q][k] = "awaiting"
        <4>1. exec' = [exec EXCEPT ![r][c] = IF exec[r][c] = "executing" THEN "done" ELSE exec[r][c]]
          BY <2>0, <3>6 DEF FinishApproved
        <4> QED BY <4>1 DEF TypeOK, CallsOK
      <3> QED BY <1>Calls, <3>1, <3>2, <3>3, <3>4, <3>5, <3>6
    <2> QED BY <1>1, <1>s, <2>1, <2>2
  <1>Loop. ASSUME NEW w \in Workers,
                  LoopHead(w) \/ LoopCheck(w) \/ Turn(w) \/ Drain(w) \/ LastCheck(w)
           PROVE  Awaited'
    <2>1. Only(w)
      BY <1>Loop, Alone DEF WorkerStep
    <2>2. UNCHANGED <<status, pending, exec, cancelApi, wrun>>
      BY <1>Loop
      DEF LoopHead, LoopCheck, Turn, Drain, LastCheck, rowVars, apiVars, workerVars
    <2>3. pc[w] \in AtWork \ {"park"}
      BY <1>Loop
      DEF LoopHead, LoopCheck, Turn, Drain, LastCheck, AtWork, BeforeTry, TryBlock,
          LoopSteps
    <2> QED BY <1>1, <1>s, <2>1, <2>2, <2>3
  <1>TurnPauses. ASSUME NEW w \in Workers, TurnPauses(w) PROVE Awaited'
    <2>0. PICK r \in Runs : r = wrun[w]
      BY <1>TurnPauses DEF TurnPauses, TypeOK, WorkersOK
    <2>1. PICK c \in Calls, kind \in {"ask_user", "awaiting"} :
            exec' = [exec EXCEPT ![r][c] = kind] /\ wcall' = [wcall EXCEPT ![w] = c]
      BY <1>TurnPauses, <2>0 DEF TurnPauses
    <2>2. /\ Only(w) /\ UNCHANGED <<status, pending, cancelApi, wrun>>
          /\ pc[w] = "turn" /\ pc'[w] = "park" /\ wcall'[w] = c
      BY <1>TurnPauses, <2>1, Alone, GotoTo
      DEF TurnPauses, WorkerStep, rowVars, apiVars, TypeOK, WorkersOK
    <2>3. /\ \A k \in Calls \ {c} : exec'[r][k] = exec[r][k]
          /\ \A q \in Runs \ {r}, k \in Calls : exec'[q][k] = exec[q][k]
      BY <2>1 DEF TypeOK, CallsOK
    <2>4. NoneAwaits(r)
      BY <1>none, <2>0, <2>2 DEF AtWork, BeforeTry, TryBlock, LoopSteps
    <2>5. Executes(w, r)
      BY <2>0, <2>2 DEF Executes, AtWork, BeforeTry, TryBlock, LoopSteps
    <2>6. /\ status[r] \in {"running", "stopping", "failed", "interrupted"}
          /\ \A v \in Workers : Executes(v, r) => v = w
      BY <2>2, <2>5 DEF OnePass, PassesOK, Finishing
    <2>7. AwaitedBy(r, c)'
      BY <2>0, <2>2, <2>6 DEF AwaitedBy, Executes, Only, Same
    <2>8. ASSUME NEW q \in Runs, NEW k \in Calls, exec'[q][k] = "awaiting" PROVE AwaitedBy(q, k)'
      <3>1. CASE q = r
        BY <2>3, <2>4, <2>7, <2>8, <3>1 DEF NoneAwaits
      <3>2. CASE q # r
        <4>1. AwaitedBy(q, k)
          BY <2>3, <2>8, <3>2 DEF Awaited
        <4> QED BY <2>0, <2>2, <3>2, <4>1 DEF AwaitedBy, CancelDue, Executes, Only, Same
      <3> QED BY <3>1, <3>2
    <2> QED BY <2>8 DEF Awaited
  <1>Park. ASSUME NEW w \in Workers, Park(w) PROVE Awaited'
    <2>0. PICK r \in Runs : r = wrun[w]
      BY <1>Park DEF Park, TypeOK, WorkersOK
    <2>1. /\ Only(w) /\ UNCHANGED <<exec, cancelApi, wrun>> /\ pc[w] = "park" /\ pc'[w] \notin AtWork
          /\ Executes(w, r)
      BY <1>Park, <2>0, Alone, GotoTo
      DEF Park, WorkerStep, apiVars, workerVars, Executes, AtWork, BeforeTry, TryBlock,
          LoopSteps
    <2>2. CASE status[r] = "running"
      <3>1. /\ status'[r] = "waiting" /\ pending'[r] = wcall[w]
            /\ \A q \in Runs \ {r} : status'[q] = status[q] /\ pending'[q] = pending[q]
        BY <1>Park, <2>0, <2>2 DEF Park, TypeOK, RowsOK
      <3>2. ASSUME NEW q \in Runs, NEW k \in Calls, exec'[q][k] = "awaiting" PROVE AwaitedBy(q, k)'
        <4>1. AwaitedBy(q, k)
          BY <2>1, <3>2 DEF Awaited
        <4>2. CASE q = r
          BY <2>1, <2>2, <3>1, <4>1, <4>2 DEF AwaitedBy
        <4>3. CASE q # r
          BY <2>0, <2>1, <3>1, <4>1, <4>3 DEF AwaitedBy, CancelDue, Executes, Only, Same
        <4> QED BY <4>2, <4>3
      <3> QED BY <3>2 DEF Awaited
    <2>3. CASE status[r] # "running"
      BY <1>Park, <1>1, <1>s, <2>0, <2>1, <2>3 DEF Park
    <2> QED BY <2>2, <2>3
  <1>Recheck. ASSUME NEW w \in Workers, Recheck(w) PROVE Awaited'
    <2>0. PICK r \in Runs, c \in Call0 : r = wrun[w] /\ c = wcall[w]
      BY <1>Recheck DEF Recheck, TypeOK, WorkersOK
    <2>1. Only(w) /\ UNCHANGED <<exec, cancelApi, wrun>> /\ pc'[w] \notin AtWork
      BY <1>Recheck, Alone, GotoTo
      DEF Recheck, WorkerStep, apiVars, AtWork, BeforeTry, TryBlock, LoopSteps
    <2>2. Resumable(r, c) => NoneAwaits(r)
      BY <1>open
    <2>3. \A q \in Runs : RowAwaits(q)
      BY <1>Recheck, <2>0, <2>1, <2>2
      DEF Recheck, QueueResume, RowAwaits, NoneAwaits, TypeOK, RowsOK
    <2> QED BY <1>1, <2>1, <2>3
  <1>Ends. ASSUME NEW w \in Workers,
                  PreMark(w) \/ LockBusy(w) \/ MarkStopped(w) \/ MarkCompleted(w) \/ Except(w)
                    \/ ContextLost(w)
           PROVE  Awaited'
    <2>0. PICK r \in Runs : r = wrun[w]
      BY <1>Ends
      DEF PreMark, LockBusy, MarkStopped, MarkCompleted, Except, ContextLost, TypeOK,
          WorkersOK
    <2>1. Only(w) /\ UNCHANGED <<pending, exec, cancelApi>> /\ pc'[w] \in {"idle", "release"}
      BY <1>Ends, Alone, GotoTo, ReturnTo
      DEF WorkerStep, PreMark, LockBusy, MarkStopped, MarkCompleted, Except, ContextLost,
          apiVars
    <2>2. pc[w] # "except" => NoneAwaits(r)'
      <3>1. pc[w] # "except" => NoneAwaits(r)
        BY <1>Ends, <1>none, <2>0
        DEF PreMark, LockBusy, MarkStopped, MarkCompleted, Except, ContextLost,
            AtWork, BeforeTry, TryBlock, LoopSteps
      <3> QED BY <2>1, <3>1 DEF NoneAwaits
    <2>3. \A q \in Runs : RowAwaits(q)
      BY <1>Ends, <1>cas, <2>0, <2>1, <2>2
      DEF PreMark, LockBusy, MarkStopped, MarkCompleted, Except, ContextLost
    <2> QED BY <1>1, <2>1, <2>3 DEF AtWork, BeforeTry, TryBlock, LoopSteps
  <1>ClaimCompletion. ASSUME NEW w \in Workers, ClaimCompletion(w) PROVE Awaited'
    <2>0. PICK r \in Runs : r = wrun[w]
      BY <1>ClaimCompletion DEF ClaimCompletion, TypeOK, WorkersOK
    <2>1. Only(w) /\ UNCHANGED <<pending, exec, cancelApi, wrun>> /\ pc[w] \in AtWork \ {"park"}
      BY <1>ClaimCompletion, Alone
      DEF WorkerStep, ClaimCompletion, apiVars, workerVars, AtWork, BeforeTry, TryBlock,
          LoopSteps
    <2>2. NoneAwaits(r)'
      BY <1>none, <2>0, <2>1 DEF NoneAwaits
    <2>3. \A q \in Runs : RowAwaits(q)
      BY <1>ClaimCompletion, <2>0, <2>1, <2>2 DEF ClaimCompletion, RowAwaits, TypeOK, RowsOK
    <2> QED BY <1>1, <2>1, <2>3
  <1>Finally. ASSUME NEW w \in Workers,
                     ReleaseGet(w) \/ ReleaseDelete(w) \/ SafetyNet(w) \/ WorkerError(w)
              PROVE  Awaited'
    <2>1. Only(w) /\ UNCHANGED <<status, pending, exec, cancelApi>>
      BY <1>Finally, Alone
      DEF WorkerStep, ReleaseGet, ReleaseDelete, SafetyNet, WorkerError, rowVars, apiVars
    <2>2. pc'[w] \notin AtWork
      BY <1>Finally, GotoTo, ReturnTo
      DEF ReleaseGet, ReleaseDelete, AfterRelease, SafetyNet, WorkerError, FailFrom,
          InFlight,
          TypeOK, WorkersOK, AtWork, BeforeTry, TryBlock, LoopSteps
    <2> QED BY <1>1, <1>s, <2>1, <2>2
  <1>Fail. ASSUME NEW w \in Workers, DispatchDeferred(w) \/ SafetyFail(w) PROVE Awaited'
    <2>0. PICK r \in Runs : r = wrun[w]
      BY <1>Fail DEF DispatchDeferred, SafetyFail, FailFrom, InFlight, TypeOK, WorkersOK
    <2>1. Only(w) /\ UNCHANGED <<pending, exec, cancelApi>> /\ pc'[w] = "idle"
      BY <1>Fail, ReturnTo DEF DispatchDeferred, SafetyFail, apiVars
    <2>2. \A q \in Runs : RowAwaits(q)
      BY <1>Fail, <1>cas, <1>s, <2>0, <2>1 DEF DispatchDeferred, SafetyFail
    <2> QED BY <1>1, <2>1, <2>2 DEF AtWork, BeforeTry, TryBlock, LoopSteps
  <1>Receive. ASSUME NEW w \in Workers, NEW j \in Jobs, Receive(w, j) PROVE Awaited'
    <2>1. Only(w) /\ UNCHANGED <<status, pending, exec, cancelApi>> /\ pc'[w] = "load"
      BY <1>Receive, GotoTo DEF Receive, TypeOK, WorkersOK, Only, Same, rowVars, apiVars
    <2> QED BY <1>1, <1>s, <2>1 DEF AtWork, BeforeTry, TryBlock, LoopSteps
  <1>PublishFails. ASSUME NEW j \in Jobs, PublishFails(j) PROVE Awaited'
    <2>1. \A q \in Runs : RowAwaits(q)
      BY <1>PublishFails, <1>cas, <1>s DEF PublishFails, Jobs
    <2> QED BY <1>PublishFails, <1>2, <2>1 DEF PublishFails, CancelDue, workerVars, apiVars
  <1>SweepMark. ASSUME NEW r \in Runs, SweepMark(r) PROVE Awaited'
    BY <1>SweepMark, <1>cas, <1>2 DEF SweepMark, CancelDue, workerVars, apiVars
  <1>Submit. ASSUME NEW r \in Runs, Submit(r) PROVE Awaited'
    <2>1. NoneAwaits(r)'
      BY <1>Submit DEF Submit, Awaited, AwaitedBy, NoneAwaits
    <2>2. \A q \in Runs : RowAwaits(q)
      BY <1>Submit, <2>1 DEF Submit, RowAwaits, TypeOK, RowsOK
    <2> QED BY <1>Submit, <1>2, <2>2 DEF Submit, CancelDue, workerVars, apiVars
  <1>StopParked. ASSUME NEW r \in Runs, StopParked(r) PROVE Awaited'
    <2>1. \A q \in Runs : RowAwaits(q)
      BY <1>StopParked DEF StopParked, RowAwaits, TypeOK, RowsOK
    <2> QED BY <1>StopParked, <1>2, <2>1 DEF StopParked, CancelDue, workerVars
  <1>ListPending. ASSUME NEW r \in Runs, ListPending(r) PROVE Awaited'
    <2>1. \A q \in Runs, k \in Calls :
            CancelDue(q, k) => CancelDue(q, k)' \/ exec'[q][k] # "awaiting"
      BY <1>ListPending DEF ListPending, CancelDue
    <2> QED BY <1>ListPending, <1>2, <1>s, <2>1 DEF ListPending, rowVars, workerVars
  <1>CancelPending. ASSUME NEW r \in Runs, NEW c \in Calls, CancelPending(r, c)
                    PROVE  Awaited'
    <2>1. /\ CancelCalls(r, {c}) /\ cancelApi' = cancelApi \ {<<r, c>>}
          /\ UNCHANGED <<pc, wrun, wcall, status, pending>>
      BY <1>CancelPending DEF CancelPending, rowVars, workerVars
    <2>2. exec'[r][c] # "awaiting"
      BY <2>1 DEF CancelCalls, TypeOK, CallsOK
    <2>3. \A q \in Runs, k \in Calls : exec'[q][k] = "awaiting" => exec[q][k] = "awaiting"
      BY <2>1, CancelTo
    <2>4. \A q \in Runs, k \in Calls :
            CancelDue(q, k) => CancelDue(q, k)' \/ exec'[q][k] # "awaiting"
      BY <2>1, <2>2, AgentRunAssumption DEF CancelDue, Calls
    <2> QED BY <1>2, <1>s, <2>1, <2>3, <2>4
  <1>StopRunning. ASSUME NEW r \in Runs, StopRunning(r) PROVE Awaited'
    <2>1. \A q \in Runs : RowAwaits(q)
      BY <1>StopRunning DEF StopRunning, RowAwaits, TypeOK, RowsOK
    <2> QED BY <1>StopRunning, <1>2, <2>1 DEF StopRunning, CancelDue, workerVars
  <1>SubmitAnswers. ASSUME NEW r \in Runs, SubmitAnswers(r) PROVE Awaited'
    <2>1. NoneAwaits(r)'
      BY <1>SubmitAnswers DEF SubmitAnswers, Awaited, AwaitedBy, NoneAwaits
    <2>2. \A q \in Runs : RowAwaits(q)
      BY <1>SubmitAnswers, <2>1 DEF SubmitAnswers, RowAwaits, TypeOK, RowsOK
    <2> QED BY <1>SubmitAnswers, <1>2, <2>2 DEF SubmitAnswers, CancelDue, workerVars, apiVars
  <1>Decided. ASSUME NEW r \in Runs, NEW k \in Calls, Decide(r, k) \/ Expire(r, k) \/ StaleClaim(r, k)
              PROVE  Awaited'
    <2>1. UNCHANGED <<pc, wrun, wcall, status, pending, cancelApi>>
      BY <1>Decided DEF Decide, Expire, StaleClaim, rowVars, apiVars, workerVars
    <2>2. PICK s \in {"ready", "cancelled", "done"} : exec' = [exec EXCEPT ![r][k] = s]
      BY <1>Decided DEF Decide, Decided, Expire, StaleClaim
    <2>3. \A q \in Runs, i \in Calls : exec'[q][i] = "awaiting" => exec[q][i] = "awaiting"
      BY <2>2 DEF TypeOK, CallsOK
    <2> QED BY <1>2, <1>s, <2>1, <2>3 DEF CancelDue
  <1>ScheduleResume. ASSUME NEW r \in Runs, NEW k \in Calls, ScheduleResume(r, k)
                     PROVE  Awaited'
    <2>1. Resumable(r, k) => NoneAwaits(r)
      BY <1>open, AgentRunAssumption DEF Calls, Call0
    <2>2. \A q \in Runs : RowAwaits(q)
      BY <1>ScheduleResume, <2>1
      DEF ScheduleResume, QueueResume, RowAwaits, NoneAwaits, TypeOK, RowsOK
    <2> QED BY <1>ScheduleResume, <1>2, <2>2 DEF ScheduleResume, CancelDue, workerVars
  <1>quiet. ASSUME UNCHANGED <<status, pending, exec, cancelApi, pc, wrun, wcall>>
            PROVE  Awaited'
    BY <1>quiet, <1>2, <1>s DEF CancelDue
  <1> QED
    BY ZenonT(60), <1>quiet, <1>Load, <1>Claim, <1>Checks, <1>Calls, <1>Loop, <1>TurnPauses, <1>Park,
       <1>Recheck, <1>Ends, <1>ClaimCompletion, <1>Finally, <1>Fail, <1>Receive, <1>PublishFails,
       <1>SweepMark, <1>Submit, <1>StopParked, <1>ListPending, <1>CancelPending, <1>StopRunning,
       <1>SubmitAnswers, <1>Decided, <1>ScheduleResume
    DEF vars, rowVars, brokerVars, apiVars, workerVars, Next, WorkerStep, Dispatching,
        Endpoints,
        Approvals, Publish, RedispatchQueued, EnqueueStop, PostStopInput, GrowOld, SweepRead,
        SweepCheck, LeaseExpires, WorkerDies, ApiDies

(* "Stop is terminal: an outstanding approval must not stay actionable":   *)
(* once the stop endpoint is through with a run, no approval of it can     *)
(* still be decided.                                                       *)
THEOREM StopCancelsApprovals == Spec => []StoppedNotActionable
  <1>1. CASE Crash \/ Redispatch
    <2>1. StoppedNotActionable
      BY <1>1 DEF StoppedNotActionable
    <2> QED BY <2>1, PTL
  <1>2. CASE ~Crash /\ ~Redispatch
    <2>1. Init => Awaited
      BY DEF Init, Awaited
    <2>2. TypeOK /\ OnePass /\ Awaited /\ [Next]_vars => Awaited'
      BY <1>2, AwaitedStep
    <2>3. Awaited => StoppedNotActionable
      BY DEF Awaited, AwaitedBy, CancelDue, StoppedNotActionable
    <2> QED BY <1>2, <2>1, <2>2, <2>3, PassInvariant, TypeCorrect, PTL DEF Spec
  <1> QED BY <1>1, <1>2
===============================================================================
