-------------------------- MODULE ToolApprovalProofs --------------------------
(***************************************************************************)
(* Proofs about ToolApproval, for every set of attempts, deliveries, keys  *)
(* and editors: the claim allows one invocation, an invocation is          *)
(* authorised, and the recorded outcome is true.                           *)
(***************************************************************************)
EXTENDS ToolApproval, TLAPS

(* Statuses from which the side effect has not been reachable yet. *)
Untouched == {"absent", "cancelled"} \cup Pending

(* An attempt past Find works on an execution. *)
Placed ==
  \A a \in Attempts :
    pc[a] \in {"authorize", "claim"} \cup Claimed => at[a] \in Executions

(* The holder of a claim is alone on its execution, which has left the     *)
(* statuses that can be claimed or cancelled; before Invoke there is no    *)
(* effect, after it there is one.                                          *)
ClaimHeld ==
  \A a \in Attempts : pc[a] \in Claimed =>
    /\ token[at[a]] = a
    /\ status[at[a]] \notin Untouched
    /\ effects[at[a]] = (IF pc[a] \in Outcomes THEN 1 ELSE 0)

Allowed ==
  \A x \in Executions :
    /\ status[x] \in {"ready", "executing"} \cup Outcomes => Authorised(x)
    /\ status[x] = "awaiting_approval" => bound[x].policy = "require"

(* The inductive invariant. *)
ClaimInv ==
  /\ TypeOK
  /\ Placed
  /\ ClaimHeld
  /\ EffectOnce
  /\ OutcomeTruthful
  /\ \A x \in Executions : status[x] = "absent" => effects[x] = 0
  /\ Allowed

-----------------------------------------------------------------------------
(* The tool rows. *)
LEMMA WorldStep == ASSUME WorldOK, [Next]_vars PROVE WorldOK'
<1> USE DEF WorldOK
<1>1. CASE \E e \in Editors : UpdateRead(e)
  BY <1>1 DEF UpdateRead
<1>2. ASSUME NEW e \in Editors, UpdateSave(e) PROVE WorldOK'
  <2>1. draft[e] \in Tools
    BY <1>2 DEF UpdateSave
  <2>2. draft[e].def + 1 \in Nat
    BY <2>1 DEF Tools
  <2>3. PICK p \in Policies : tool' = [def |-> draft[e].def + 1, policy |-> p, author |-> e]
    BY <1>2 DEF UpdateSave
  <2>4. tool' \in Tools
    BY <2>2, <2>3 DEF Tools
  <2> QED BY <1>2, <2>4 DEF UpdateSave
<1>3. CASE RunEnds \/ LockLost
  BY <1>3 DEF RunEnds, LockLost
<1>4. CASE UNCHANGED worldVars
  BY <1>4 DEF worldVars
<1> QED
  BY <1>1, <1>2, <1>3, <1>4
  DEF Next, vars, AttemptStep, Begin, Find, Create, Authorize, Claim, Load, Invoke,
      Finish, AttemptFails, Receive, DecideRead, DecideLocked, FallDue, ExpireDue,
      CancelExecution, MarkStale

(* The rows of executions. *)
LEMMA ExecutionsStep == ASSUME TypeOK, [Next]_vars PROVE ExecutionsOK'
<1> USE DEF TypeOK, ExecutionsOK
<1>1. ASSUME NEW a \in Attempts, Create(a) PROVE ExecutionsOK'
  <2>1. copy[a] \in Tools
    BY DEF AttemptsOK
  <2>2. FirstStatus(copy[a].policy) \in Statuses
    BY DEF FirstStatus, Statuses, Pending
  <2>3. PICK x \in Executions :
          /\ status' = [status EXCEPT ![x] = FirstStatus(copy[a].policy)]
          /\ request' = [request EXCEPT ![x] =
                           IF copy[a].policy = "require" THEN "pending" ELSE "none"]
          /\ bound' = [bound EXCEPT ![x] = copy[a]]
    BY <1>1 DEF Create
  <2>4. status' \in [Executions -> Statuses]
    BY <2>2, <2>3
  <2>5. request' \in [Executions -> Requests]
    BY <2>3 DEF Requests
  <2>6. bound' \in [Executions -> Tools]
    BY <2>1, <2>3
  <2> QED BY <1>1, <2>4, <2>5, <2>6 DEF Create
<1>2. ASSUME NEW a \in Attempts, Claim(a) PROVE ExecutionsOK'
  <2>1. status' \in [Executions -> Statuses]
    BY <1>2 DEF Claim, Close, Statuses, execVars
  <2>2. request' \in [Executions -> Requests]
    BY <1>2 DEF Claim, Close, Requests, execVars
  <2>3. token' \in [Executions -> Attempts \cup {Nobody}]
    BY <1>2 DEF Claim, execVars
  <2> QED BY <1>2, <2>1, <2>2, <2>3 DEF Claim, execVars
<1>3. ASSUME NEW a \in Attempts, Finish(a) PROVE ExecutionsOK'
  <2>1. status' \in [Executions -> Statuses]
    BY <1>3 DEF Finish, Statuses, Outcomes
  <2> QED BY <1>3, <2>1 DEF Finish
<1>4. ASSUME NEW d \in Deliveries, DecideLocked(d) PROVE ExecutionsOK'
  <2>1. status' \in [Executions -> Statuses]
    BY <1>4 DEF DecideLocked, Verdict, Close, Statuses, Pending
  <2>2. request' \in [Executions -> Requests]
    BY <1>4 DEF DecideLocked, Close, Requests
  <2> QED BY <1>4, <2>1, <2>2 DEF DecideLocked
<1>5. ASSUME NEW x \in Executions,
             FallDue(x) \/ ExpireDue(x) \/ CancelExecution(x) \/ MarkStale(x)
      PROVE  ExecutionsOK'
  <2>1. status' \in [Executions -> Statuses]
    BY <1>5 DEF FallDue, ExpireDue, CancelExecution, MarkStale, Close, Statuses
  <2>2. request' \in [Executions -> Requests]
    BY <1>5 DEF FallDue, ExpireDue, CancelExecution, MarkStale, Close, Requests
  <2>3. due' \in [Executions -> BOOLEAN]
    BY <1>5 DEF FallDue, ExpireDue, CancelExecution, MarkStale
  <2> QED BY <1>5, <2>1, <2>2, <2>3 DEF FallDue, ExpireDue, CancelExecution, MarkStale
<1>6. CASE UNCHANGED execVars
  BY <1>6 DEF execVars
<1> QED
  BY <1>1, <1>2, <1>3, <1>4, <1>5, <1>6
  DEF Next, vars, AttemptStep, Begin, Find, Authorize, Load, Invoke, AttemptFails,
      Receive, DecideRead, RunEnds, LockLost, UpdateRead, UpdateSave

(* The attempts. *)
LEMMA AttemptsStep == ASSUME TypeOK, [Next]_vars PROVE AttemptsOK'
<1> USE DEF TypeOK, AttemptsOK
<1>1. ASSUME NEW a \in Attempts, Begin(a) PROVE AttemptsOK'
  BY <1>1 DEF Begin, Goto, Labels, Active, WorldOK
<1>2. ASSUME NEW a \in Attempts, Find(a) \/ Create(a) PROVE AttemptsOK'
  <2>1. at' \in [Attempts -> 0..MaxExecs]
    BY <1>2, ApprovalAssumption DEF Find, Create, Executions
  <2>2. pc' \in [Attempts -> Labels]
    BY <1>2 DEF Find, Create, Goto, Route, Labels, Active
  <2> QED BY <1>2, <2>1, <2>2 DEF Find, Create
<1>3. ASSUME NEW a \in Attempts, Invoke(a) PROVE AttemptsOK'
  <2>1. pc' \in [Attempts -> Labels]
    BY <1>3 DEF Invoke, Goto, Labels, Active
  <2>2. effects' \in [Executions -> Nat]
    <3>1. effects' = [effects EXCEPT ![at[a]] = effects[at[a]] + 1]
      BY <1>3 DEF Invoke
    <3>2. CASE at[a] \in Executions
      BY <3>1, <3>2
    <3>3. CASE at[a] \notin Executions
      BY <3>1, <3>3
    <3> QED BY <3>2, <3>3
  <2> QED BY <1>3, <2>1, <2>2 DEF Invoke
<1>4. ASSUME NEW a \in Attempts,
             Authorize(a) \/ Claim(a) \/ Load(a) \/ Finish(a) \/ AttemptFails(a)
      PROVE  AttemptsOK'
  <2>1. pc' \in [Attempts -> Labels]
    BY <1>4 DEF Authorize, Claim, Load, Finish, AttemptFails, Goto, Labels, Active
  <2> QED BY <1>4, <2>1 DEF Authorize, Claim, Load, Finish, AttemptFails
<1>5. CASE UNCHANGED <<attemptVars, effects>>
  BY <1>5 DEF attemptVars
<1> QED
  BY <1>1, <1>2, <1>3, <1>4, <1>5
  DEF Next, vars, AttemptStep, Receive, DecideRead, DecideLocked, FallDue, ExpireDue,
      CancelExecution, MarkStale, RunEnds, LockLost, UpdateRead, UpdateSave

(* The deliveries and the decisions. *)
LEMMA DecisionsStep == ASSUME TypeOK, [Next]_vars PROVE DecisionsOK'
<1> USE DEF TypeOK, DecisionsOK
<1>1. ASSUME NEW d \in Deliveries, Receive(d) PROVE DecisionsOK'
  <2>1. PICK b \in Decisions :
          letter' = [letter EXCEPT ![d] = [body |-> b, place |-> "read"]]
    BY <1>1 DEF Receive
  <2>2. [body |-> b, place |-> "read"] \in Letters
    BY DEF Letters
  <2> QED BY <1>1, <2>1, <2>2 DEF Receive
<1>2. ASSUME NEW d \in Deliveries, NEW p \in Answers \cup {"locked"},
             letter[d].place \in {"read", "locked"}, Answer(d, p)
      PROVE  letter' \in [Deliveries -> Letters \cup {Unsent}]
  <2>1. letter[d] \in Letters
    BY <1>2 DEF Unsent
  <2>2. [letter[d] EXCEPT !.place = p] \in Letters
    BY <2>1 DEF Letters, Answers
  <2> QED BY <1>2, <2>2 DEF Answer
<1>3. ASSUME NEW d \in Deliveries, DecideRead(d) PROVE DecisionsOK'
  <2>1. \E p \in Answers \cup {"locked"} : Answer(d, p)
    BY <1>3 DEF DecideRead, Replay, Answers
  <2> QED BY <1>2, <1>3, <2>1 DEF DecideRead
<1>4. ASSUME NEW d \in Deliveries, DecideLocked(d) PROVE DecisionsOK'
  <2>1. \E p \in Answers \cup {"locked"} : Answer(d, p)
    BY <1>4 DEF DecideLocked, Replay, Answers
  <2>2. letter[d] \in Letters
    BY <1>4 DEF DecideLocked, Unsent
  <2>3. letter[d].body \in Decisions
    BY <2>2 DEF Letters
  <2>4. decisions' \subseteq Decisions
    BY <1>4, <2>3 DEF DecideLocked
  <2> QED BY <1>2, <1>4, <2>1, <2>4 DEF DecideLocked
<1>5. CASE UNCHANGED <<decisions, letter>>
  BY <1>5
<1> QED
  BY <1>1, <1>3, <1>4, <1>5
  DEF Next, vars, AttemptStep, Begin, Find, Create, Authorize, Claim, Load, Invoke,
      Finish, AttemptFails, FallDue, ExpireDue, CancelExecution, MarkStale, RunEnds,
      LockLost, UpdateRead, UpdateSave

(* The initial values have their types. *)
LEMMA InitType == Init => TypeOK
<1> SUFFICES ASSUME Init PROVE TypeOK
  OBVIOUS
<1>1. tool \in Tools
  BY DEF Init, Tools
<1>2. WorldOK
  BY <1>1 DEF Init, WorldOK
<1>3. ExecutionsOK
  <2>1. due \in [Executions -> BOOLEAN]
    BY DEF Init
  <2> QED BY <1>1, <2>1 DEF Init, ExecutionsOK, Statuses, Requests
<1>4. AttemptsOK
  BY <1>1, ApprovalAssumption DEF Init, AttemptsOK, Labels
<1>5. DecisionsOK
  BY DEF Init, DecisionsOK
<1> QED BY <1>2, <1>3, <1>4, <1>5 DEF TypeOK

(* Every variable keeps its type, for every set of attempts, deliveries,   *)
(* keys and editors.                                                       *)
THEOREM ApprovalTypeCorrect == Spec => []TypeOK
<1>1. Init => TypeOK
  BY InitType
<1>2. TypeOK /\ [Next]_vars => TypeOK'
  BY WorldStep, ExecutionsStep, AttemptsStep, DecisionsStep DEF TypeOK
<1> QED BY <1>1, <1>2, PTL DEF Spec

-----------------------------------------------------------------------------
(* The labels and statuses, as the following proofs use them. *)
USE DEF Claimed, Outcomes, Untouched, Pending

(* Steps that leave the executions, the attempts and the effects alone,    *)
(* and take no decision away.                                              *)
LEMMA ClaimStutter ==
  ASSUME ClaimInv, TypeOK', UNCHANGED <<status, bound, request, token, pc, at, effects, decisions>>
  PROVE  ClaimInv'
  BY DEF ClaimInv, Placed, ClaimHeld, EffectOnce, OutcomeTruthful, Allowed, Authorised

(* An attempt moves to a label outside a claim, on an execution.           *)
LEMMA AttemptMoves ==
  ASSUME ClaimInv, TypeOK', NEW a \in Attempts,
         UNCHANGED <<status, bound, request, token, effects, decisions>>,
         \A b \in Attempts \ {a} : pc'[b] = pc[b] /\ at'[b] = at[b],
         pc'[a] \notin Claimed,
         pc'[a] \in {"authorize", "claim"} => at'[a] \in Executions
  PROVE  ClaimInv'
<1>1. Placed' /\ ClaimHeld'
  BY DEF ClaimInv, Placed, ClaimHeld
<1>2. EffectOnce' /\ OutcomeTruthful' /\ Allowed'
  BY DEF ClaimInv, EffectOnce, OutcomeTruthful, Allowed, Authorised
<1> QED BY <1>1, <1>2 DEF ClaimInv

(* An execution is closed before it was claimed. *)
LEMMA Closed ==
  ASSUME ClaimInv, TypeOK', NEW x \in Executions, NEW how, how # "approved",
         status[x] \in Pending, Close(x, how),
         UNCHANGED <<bound, token, effects, decisions>>,
         UNCHANGED at,
         \A b \in Attempts : pc'[b] = pc[b] \/ pc'[b] = "over"
  PROVE  ClaimInv'
<1> USE DEF ClaimInv
<1>0. /\ status \in [Executions -> Statuses] /\ request \in [Executions -> Requests]
      /\ status' = [status EXCEPT ![x] = "cancelled"]
      /\ request' = [request EXCEPT ![x] = IF @ = "pending" THEN how ELSE @]
  BY DEF TypeOK, ExecutionsOK, Close
<1>1. Placed'
  BY DEF Placed
<1>2. ClaimHeld'
  BY <1>0 DEF ClaimHeld, Placed
<1>3. EffectOnce' /\ OutcomeTruthful' /\ \A y \in Executions : status'[y] = "absent" => effects'[y] = 0
  BY <1>0 DEF EffectOnce, OutcomeTruthful
<1>4. Allowed'
  BY <1>0 DEF Allowed, Authorised
<1> QED BY <1>1, <1>2, <1>3, <1>4

(* create_execution: nobody holds a claim on a row that did not exist. *)
LEMMA CreateKeeps ==
  ASSUME ClaimInv, TypeOK', NEW a \in Attempts, Create(a) PROVE ClaimInv'
<1> USE DEF ClaimInv
<1>1. PICK x \in Executions :
        /\ status[x] = "absent"
        /\ status' = [status EXCEPT ![x] = FirstStatus(copy[a].policy)]
        /\ pc' = [pc EXCEPT ![a] = Route(FirstStatus(copy[a].policy))]
        /\ request' = [request EXCEPT ![x] =
                         IF copy[a].policy = "require" THEN "pending" ELSE "none"]
        /\ bound' = [bound EXCEPT ![x] = copy[a]]
        /\ at' = [at EXCEPT ![a] = x]
  BY DEF Create, Goto
<1>2. /\ status \in [Executions -> Statuses] /\ request \in [Executions -> Requests]
      /\ bound \in [Executions -> Tools] /\ pc \in [Attempts -> Labels]
      /\ at \in [Attempts -> 0..MaxExecs]
      /\ UNCHANGED <<token, decisions, effects>>
  BY DEF TypeOK, ExecutionsOK, AttemptsOK, Create
<1>3. pc'[a] \in {"authorize", "over"} /\ FirstStatus(copy[a].policy) \in Untouched
  BY <1>1, <1>2 DEF Route, FirstStatus
<1>4. Placed'
  BY <1>1, <1>2, <1>3 DEF Placed
<1>5. ClaimHeld'
  BY <1>1, <1>2, <1>3 DEF ClaimHeld, Placed
<1>6. EffectOnce' /\ OutcomeTruthful' /\ \A y \in Executions : status'[y] = "absent" => effects'[y] = 0
  BY <1>1, <1>2, <1>3 DEF EffectOnce, OutcomeTruthful
<1>7. Allowed'
  BY <1>1, <1>2 DEF Allowed, Authorised, FirstStatus
<1> QED BY <1>4, <1>5, <1>6, <1>7

(* claim_execution: the row is ready, so no other attempt holds it. *)
LEMMA ClaimKeeps ==
  ASSUME ClaimInv, TypeOK', NEW a \in Attempts, Claim(a) PROVE ClaimInv'
<1> USE DEF ClaimInv
<1> DEFINE x == at[a]
<1>1. x \in Executions
  BY DEF Claim, Placed
<1>2. /\ status \in [Executions -> Statuses] /\ pc \in [Attempts -> Labels]
      /\ token \in [Executions -> Attempts \cup {Nobody}]
      /\ UNCHANGED <<decisions, at, effects>>
  BY DEF TypeOK, ExecutionsOK, AttemptsOK, Claim
<1>3. CASE status[x] # "ready"
  <2>1. pc' = [pc EXCEPT ![a] = "over"] /\ UNCHANGED execVars
    BY <1>3 DEF Claim, Goto
  <2> QED BY <1>2, <2>1, AttemptMoves DEF execVars
<1>4. CASE status[x] = "ready" /\ (due[x] \/ ~SameBinding(a, x))
  <2>1. /\ pc' = [pc EXCEPT ![a] = "over"]
        /\ Close(x, "expired") \/ Close(x, "cancelled")
        /\ UNCHANGED <<bound, token>>
    BY <1>4 DEF Claim, Goto
  <2>2. \A b \in Attempts : pc'[b] = pc[b] \/ pc'[b] = "over"
    BY <1>2, <2>1
  <2> HIDE DEF x
  <2> QED BY <1>1, <1>2, <1>4, <2>1, <2>2, Closed
<1>5. CASE status[x] = "ready" /\ ~due[x] /\ SameBinding(a, x)
  <2>1. /\ status' = [status EXCEPT ![x] = "executing"]
        /\ token' = [token EXCEPT ![x] = a]
        /\ pc' = [pc EXCEPT ![a] = "load"]
        /\ UNCHANGED <<bound, request>>
    BY <1>5 DEF Claim, Goto
  <2>2. effects[x] = 0
    BY <1>1, <1>5 DEF OutcomeTruthful
  <2>3. Placed'
    BY <1>1, <1>2, <2>1 DEF Placed
  <2>4. ClaimHeld'
    BY <1>1, <1>2, <1>5, <2>1, <2>2 DEF ClaimHeld, Placed
  <2>5. EffectOnce' /\ OutcomeTruthful' /\ \A y \in Executions : status'[y] = "absent" => effects'[y] = 0
    BY <1>1, <1>2, <2>1 DEF EffectOnce, OutcomeTruthful
  <2>6. Allowed'
    BY <1>1, <1>2, <1>5, <2>1 DEF Allowed, Authorised
  <2> QED BY <2>3, <2>4, <2>5, <2>6
<1> QED BY <1>3, <1>4, <1>5

(* load_execution_parameters: the claim is held on. *)
LEMMA LoadKeeps ==
  ASSUME ClaimInv, TypeOK', NEW a \in Attempts, Load(a) PROVE ClaimInv'
<1> USE DEF ClaimInv
<1>1. /\ pc \in [Attempts -> Labels] /\ pc[a] = "load"
      /\ pc' = [pc EXCEPT ![a] = "invoke"] \/ pc' = [pc EXCEPT ![a] = "over"]
      /\ UNCHANGED <<status, bound, request, token, decisions, at, effects>>
  BY DEF TypeOK, AttemptsOK, Load, Goto, execVars
<1>2. Placed' /\ ClaimHeld'
  BY <1>1 DEF Placed, ClaimHeld
<1>3. EffectOnce' /\ OutcomeTruthful' /\ Allowed'
  BY <1>1 DEF EffectOnce, OutcomeTruthful, Allowed, Authorised
<1> QED BY <1>1, <1>2, <1>3

(* The side effect: the first one of the execution, and nobody else is     *)
(* about to cause another.                                                 *)
LEMMA InvokeKeeps ==
  ASSUME ClaimInv, TypeOK', NEW a \in Attempts, Invoke(a) PROVE ClaimInv'
<1> USE DEF ClaimInv
<1>1. PICK o \in Outcomes : pc' = [pc EXCEPT ![a] = o]
  BY DEF Invoke, Goto
<1>2. /\ pc \in [Attempts -> Labels] /\ pc[a] = "invoke"
      /\ effects \in [Executions -> Nat]
      /\ effects' = [effects EXCEPT ![at[a]] = effects[at[a]] + 1]
      /\ UNCHANGED <<status, bound, request, token, decisions, at>>
  BY DEF TypeOK, AttemptsOK, Invoke, execVars
<1>3. /\ at[a] \in Executions /\ effects[at[a]] = 0 /\ token[at[a]] = a
      /\ status[at[a]] \notin Untouched
  BY <1>2 DEF Placed, ClaimHeld
<1>4. effects'[at[a]] = 1 /\ \A y \in Executions \ {at[a]} : effects'[y] = effects[y]
  BY <1>2, <1>3
<1>5. Placed'
  BY <1>1, <1>2, <1>3 DEF Placed
<1>6. ClaimHeld'
  <2> SUFFICES ASSUME NEW b \in Attempts, pc'[b] \in Claimed
               PROVE  /\ token[at[b]] = b
                      /\ status[at[b]] \notin Untouched
                      /\ effects'[at[b]] = (IF pc'[b] \in Outcomes THEN 1 ELSE 0)
    BY <1>2 DEF ClaimHeld
  <2>1. CASE b = a
    BY <1>1, <1>2, <1>3, <1>4, <2>1
  <2>2. CASE b # a
    <3>1. pc'[b] = pc[b]
      BY <1>1, <1>2, <2>2
    <3>2. /\ at[b] \in Executions /\ token[at[b]] = b
          /\ status[at[b]] \notin Untouched
          /\ effects[at[b]] = (IF pc[b] \in Outcomes THEN 1 ELSE 0)
      BY <3>1 DEF Placed, ClaimHeld
    <3>3. at[b] # at[a]
      BY <1>3, <2>2, <3>2
    <3> QED BY <1>4, <3>1, <3>2, <3>3
  <2> QED BY <2>1, <2>2
<1>7. EffectOnce' /\ OutcomeTruthful' /\ \A y \in Executions : status'[y] = "absent" => effects'[y] = 0
  BY <1>2, <1>3, <1>4 DEF EffectOnce, OutcomeTruthful
<1>8. Allowed'
  BY <1>2 DEF Allowed, Authorised
<1> QED BY <1>5, <1>6, <1>7, <1>8

(* _finish_execution: what is recorded happened. *)
LEMMA FinishKeeps ==
  ASSUME ClaimInv, TypeOK', NEW a \in Attempts, Finish(a) PROVE ClaimInv'
<1> USE DEF ClaimInv
<1>1. /\ pc \in [Attempts -> Labels] /\ status \in [Executions -> Statuses]
      /\ pc[a] \in Outcomes /\ pc' = [pc EXCEPT ![a] = "over"]
      /\ UNCHANGED <<bound, request, token, decisions, at, effects>>
  BY DEF TypeOK, AttemptsOK, ExecutionsOK, Finish, Goto
<1>2. CASE UNCHANGED status
  BY <1>1, <1>2, AttemptMoves
<1>3. CASE status[at[a]] = "executing" /\ status' = [status EXCEPT ![at[a]] = pc[a]]
  <2>1. at[a] \in Executions /\ effects[at[a]] = 1
    BY <1>1 DEF Placed, ClaimHeld
  <2>2. Placed'
    BY <1>1 DEF Placed
  <2>3. ClaimHeld'
    BY <1>1, <1>3, <2>1 DEF ClaimHeld, Placed
  <2>4. EffectOnce' /\ OutcomeTruthful' /\ \A y \in Executions : status'[y] = "absent" => effects'[y] = 0
    BY <1>1, <1>3, <2>1 DEF EffectOnce, OutcomeTruthful
  <2>5. Allowed'
    BY <1>1, <1>3, <2>1 DEF Allowed, Authorised
  <2> QED BY <2>2, <2>3, <2>4, <2>5
<1> QED BY <1>2, <1>3 DEF Finish

(* decide_approval: a recorded approval is what makes the execution ready. *)
LEMMA DecideKeeps ==
  ASSUME ClaimInv, TypeOK', NEW d \in Deliveries, DecideLocked(d) PROVE ClaimInv'
<1> USE DEF ClaimInv
<1> DEFINE b == letter[d].body
           x == b.exec
<1>1. b \in Decisions
  <2>1. letter[d] \in Letters
    BY DEF TypeOK, DecisionsOK, DecideLocked, Unsent
  <2> QED BY <2>1 DEF Letters
<1>2. x \in Executions
  BY <1>1 DEF Decisions
<1>3. /\ status \in [Executions -> Statuses] /\ request \in [Executions -> Requests]
      /\ UNCHANGED <<bound, token, pc, at, effects>>
  BY DEF TypeOK, ExecutionsOK, DecideLocked, attemptVars
<1> HIDE DEF b
<1>4. CASE UNCHANGED <<status, request, decisions>>
  BY <1>3, <1>4, ClaimStutter
<1>5. CASE status[x] = "awaiting_approval" /\ Close(x, "expired") /\ UNCHANGED decisions
  <2> HIDE DEF x
  <2> QED BY <1>2, <1>3, <1>5, Closed
<1>6. CASE /\ status[x] = "awaiting_approval"
           /\ decisions' = decisions \cup {b}
           /\ request' = [request EXCEPT ![x] =
                            IF b.vote = "approve" THEN "approved" ELSE "rejected"]
           /\ status' = [status EXCEPT ![x] =
                           IF b.vote = "approve" THEN "ready" ELSE "cancelled"]
  <2>1. Placed'
    BY <1>3 DEF Placed
  <2>2. ClaimHeld'
    BY <1>2, <1>3, <1>6 DEF ClaimHeld, Placed
  <2>3. EffectOnce' /\ OutcomeTruthful' /\ \A y \in Executions : status'[y] = "absent" => effects'[y] = 0
    BY <1>2, <1>3, <1>6 DEF EffectOnce, OutcomeTruthful
  <2>4. Allowed'
    BY <1>2, <1>3, <1>6 DEF Allowed, Authorised
  <2> QED BY <2>1, <2>2, <2>3, <2>4
<1> QED BY <1>4, <1>5, <1>6 DEF DecideLocked, Verdict, b

(* mark_stale_executing_outcome_unknown claims nothing about the effect. *)
LEMMA StaleKeeps ==
  ASSUME ClaimInv, TypeOK', NEW x \in Executions, MarkStale(x) PROVE ClaimInv'
<1> USE DEF ClaimInv
<1>1. /\ status \in [Executions -> Statuses] /\ status[x] = "executing"
      /\ status' = [status EXCEPT ![x] = "outcome_unknown"]
      /\ UNCHANGED <<bound, request, token, decisions, pc, at, effects>>
  BY DEF TypeOK, ExecutionsOK, MarkStale, attemptVars
<1>2. Placed'
  BY <1>1 DEF Placed
<1>3. ClaimHeld'
  BY <1>1 DEF ClaimHeld, Placed
<1>4. EffectOnce' /\ OutcomeTruthful' /\ \A y \in Executions : status'[y] = "absent" => effects'[y] = 0
  BY <1>1 DEF EffectOnce, OutcomeTruthful
<1>5. Allowed'
  BY <1>1 DEF Allowed, Authorised
<1> QED BY <1>2, <1>3, <1>4, <1>5

(* Every step keeps the inductive invariant. *)
LEMMA ClaimStep == ASSUME ClaimInv, [Next]_vars PROVE ClaimInv'
<1>0. TypeOK'
  BY WorldStep, ExecutionsStep, AttemptsStep, DecisionsStep DEF ClaimInv, TypeOK
<1>1. /\ pc \in [Attempts -> Labels] /\ at \in [Attempts -> 0..MaxExecs]
  BY DEF ClaimInv, TypeOK, AttemptsOK
<1>2. ASSUME NEW a \in Attempts, AttemptStep(a) PROVE ClaimInv'
  <2>1. CASE Begin(a)
    BY <1>0, <1>1, <2>1, AttemptMoves DEF Begin, Goto, execVars
  <2>2. CASE Find(a)
    <3>1. /\ \A b \in Attempts \ {a} : pc'[b] = pc[b] /\ at'[b] = at[b]
          /\ pc'[a] \in {"create", "authorize", "over"}
          /\ pc'[a] = "authorize" => at'[a] \in Executions
      BY <1>1, <2>2 DEF Find, Goto, Route
    <3> QED BY <1>0, <2>2, <3>1, AttemptMoves DEF Find, execVars
  <2>3. CASE Authorize(a)
    <3>1. /\ \A b \in Attempts \ {a} : pc'[b] = pc[b] /\ at'[b] = at[b]
          /\ pc'[a] \in {"claim", "over"}
          /\ at'[a] \in Executions
      BY <1>1, <2>3 DEF Authorize, Goto, ClaimInv, Placed
    <3> QED BY <1>0, <2>3, <3>1, AttemptMoves DEF Authorize, execVars
  <2>4. CASE AttemptFails(a)
    BY <1>0, <1>1, <2>4, AttemptMoves DEF AttemptFails, Goto, execVars
  <2> QED
    BY <1>0, <1>2, <2>1, <2>2, <2>3, <2>4, CreateKeeps, ClaimKeeps, LoadKeeps, InvokeKeeps,
       FinishKeeps
    DEF AttemptStep
<1>3. ASSUME NEW d \in Deliveries, Receive(d) \/ DecideRead(d) PROVE ClaimInv'
  BY <1>0, <1>3, ClaimStutter DEF Receive, DecideRead, execVars, attemptVars
<1>4. ASSUME NEW x \in Executions, ExpireDue(x) \/ CancelExecution(x) PROVE ClaimInv'
  <2>1. /\ status[x] \in Pending
        /\ Close(x, "expired") \/ Close(x, "cancelled")
        /\ UNCHANGED <<bound, token, effects, decisions, pc, at>>
    BY <1>4 DEF ExpireDue, CancelExecution, attemptVars
  <2> QED BY <1>0, <2>1, Closed
<1>5. ASSUME NEW x \in Executions, FallDue(x) PROVE ClaimInv'
  BY <1>0, <1>5, ClaimStutter DEF FallDue, attemptVars
<1>6. CASE RunEnds \/ LockLost \/ \E e \in Editors : UpdateRead(e) \/ UpdateSave(e)
  BY <1>0, <1>6, ClaimStutter
  DEF RunEnds, LockLost, UpdateRead, UpdateSave, execVars, attemptVars
<1>7. CASE UNCHANGED vars
  BY <1>0, <1>7, ClaimStutter DEF vars, execVars, attemptVars
<1> QED
  BY <1>0, <1>2, <1>3, <1>4, <1>5, <1>6, <1>7, DecideKeeps, StaleKeeps DEF Next

(* It holds in every reachable state. *)
LEMMA ClaimInvariant == Spec => []ClaimInv
<1>1. Init => ClaimInv
  <2> SUFFICES ASSUME Init PROVE ClaimInv
    OBVIOUS
  <2>1. TypeOK
    BY InitType
  <2>2. /\ \A a \in Attempts : pc[a] = "new"
        /\ \A x \in Executions : status[x] = "absent" /\ effects[x] = 0
    BY DEF Init
  <2> QED
    BY <2>1, <2>2
    DEF ClaimInv, Placed, ClaimHeld, EffectOnce, OutcomeTruthful, Allowed
<1>2. ClaimInv /\ [Next]_vars => ClaimInv'
  BY ClaimStep
<1> QED BY <1>1, <1>2, PTL DEF Spec

(* claim_execution lets one worker call the external adapter: however many *)
(* attempts overlap, are killed or come again, an execution is invoked at  *)
(* most once.                                                              *)
THEOREM InvokedOnce == Spec => []EffectOnce
<1>1. ClaimInv => EffectOnce
  BY DEF ClaimInv
<1> QED BY <1>1, ClaimInvariant, PTL

(* No execution is invoked that its policy neither allows nor requires an  *)
(* approval for that was recorded.                                         *)
THEOREM InvokedWhenAuthorised == Spec => []EffectAuthorised
<1>1. ClaimInv => EffectAuthorised
  <2> SUFFICES ASSUME ClaimInv, NEW x \in Executions, effects[x] > 0 PROVE Authorised(x)
    BY DEF EffectAuthorised
  <2>1. status[x] \in Statuses /\ effects[x] \in Nat
    BY DEF ClaimInv, TypeOK, ExecutionsOK, AttemptsOK
  <2>2. status[x] \in {"ready", "executing"} \cup Outcomes
    BY <2>1 DEF ClaimInv, OutcomeTruthful, Statuses
  <2> QED BY <2>2 DEF ClaimInv, Allowed
<1> QED BY <1>1, ClaimInvariant, PTL

(* A cancelled execution had no side effect; a recorded success or failure *)
(* had one.                                                                *)
THEOREM OutcomesTrue == Spec => []OutcomeTruthful
<1>1. ClaimInv => OutcomeTruthful
  BY DEF ClaimInv
<1> QED BY <1>1, ClaimInvariant, PTL

(* A settled execution, its request and its claim never change again, and  *)
(* no decision is taken back: neither a late outcome after the stale-claim *)
(* sweep nor a late decision after a cancellation rewrites the rows.       *)
THEOREM SettledStays == Spec => SettledFrozen
<1> DEFINE Frozen ==
      /\ \A x \in Executions : status[x] \in Settled =>
           /\ status'[x] = status[x] /\ request'[x] = request[x]
           /\ token'[x] = token[x] /\ bound'[x] = bound[x]
      /\ decisions \subseteq decisions'
<1>1. ASSUME TypeOK, [Next]_vars PROVE Frozen
  <2> USE DEF Settled
  <2>0. /\ status \in [Executions -> Statuses] /\ request \in [Executions -> Requests]
        /\ bound \in [Executions -> Tools]
        /\ token \in [Executions -> Attempts \cup {Nobody}]
    BY <1>1 DEF TypeOK, ExecutionsOK
  <2>1. ASSUME NEW a \in Attempts, Create(a) PROVE Frozen
    BY <2>0, <2>1 DEF Create
  <2>2. ASSUME NEW a \in Attempts, Claim(a) PROVE Frozen
    BY <2>0, <2>2 DEF Claim, Close, execVars
  <2>3. ASSUME NEW a \in Attempts, Finish(a) PROVE Frozen
    BY <2>0, <2>3 DEF Finish
  <2>4. ASSUME NEW d \in Deliveries, DecideLocked(d) PROVE Frozen
    BY <2>0, <2>4 DEF DecideLocked, Close
  <2>5. ASSUME NEW x \in Executions,
               FallDue(x) \/ ExpireDue(x) \/ CancelExecution(x) \/ MarkStale(x)
        PROVE  Frozen
    BY <2>0, <2>5 DEF FallDue, ExpireDue, CancelExecution, MarkStale, Close
  <2>6. CASE UNCHANGED <<execVars, decisions>>
    BY <2>6 DEF execVars
  <2> QED
    BY <1>1, <2>1, <2>2, <2>3, <2>4, <2>5, <2>6
    DEF Next, vars, AttemptStep, Begin, Find, Authorize, Load, Invoke, AttemptFails,
        Receive, DecideRead, RunEnds, LockLost, UpdateRead, UpdateSave
<1>2. TypeOK /\ [Next]_vars => [Frozen]_vars
  BY <1>1
<1> QED BY <1>2, ApprovalTypeCorrect, PTL DEF Spec, SettledFrozen

-----------------------------------------------------------------------------
(* Requests and decisions *)

(* The inductive invariant of the request rows: beside what is promised,   *)
(* an execution that does not exist has no request, hence no decision.     *)
RequestInv ==
  /\ TypeOK
  /\ RequestFollowsExecution
  /\ \A x \in Executions : status[x] = "absent" => request[x] = "none"

(* Only these three parts of the state are looked at. *)
LEMMA RequestStutter ==
  ASSUME RequestInv, TypeOK', UNCHANGED <<status, request, decisions>>
  PROVE  RequestInv'
  BY DEF RequestInv, RequestFollowsExecution

(* An execution that is not awaiting a decision goes on, its request stays.*)
LEMMA RequestKept ==
  ASSUME RequestInv, TypeOK', NEW x, NEW s, UNCHANGED <<request, decisions>>,
         status[x] \notin {"absent", "awaiting_approval"},
         s \notin {"absent", "awaiting_approval"},
         status' = [status EXCEPT ![x] = s]
  PROVE  RequestInv'
<1>1. /\ status \in [Executions -> Statuses]
      /\ \A y \in Executions : status'[y] = IF y = x THEN s ELSE status[y]
  BY DEF RequestInv, TypeOK, ExecutionsOK
<1>2. \A y \in Executions :
        /\ (status'[y] = "awaiting_approval") <=> (status[y] = "awaiting_approval")
        /\ status'[y] = "absent" => status[y] = "absent"
  BY <1>1
<1> QED BY <1>2 DEF RequestInv, RequestFollowsExecution

(* A cancellation or an expiry closes the request with the execution; a    *)
(* pending request has no decision yet.                                    *)
LEMMA RequestClosed ==
  ASSUME RequestInv, TypeOK', NEW x \in Executions, NEW how \in {"expired", "cancelled"},
         status[x] \in Pending, Close(x, how), UNCHANGED decisions
  PROVE  RequestInv'
<1>1. /\ status \in [Executions -> Statuses] /\ request \in [Executions -> Requests]
  BY DEF RequestInv, TypeOK, ExecutionsOK
<1>2. /\ status'[x] = "cancelled"
      /\ request'[x] = IF request[x] = "pending" THEN how ELSE request[x]
      /\ \A y \in Executions \ {x} : status'[y] = status[y] /\ request'[y] = request[y]
  BY <1>1 DEF Close
<1>3. /\ (request[x] = "pending") <=> (status[x] = "awaiting_approval")
      /\ \A q \in decisions : q.exec = x =>
           request[x] = (IF q.vote = "approve" THEN "approved" ELSE "rejected")
      /\ request[x] \in {"approved", "rejected"} => \E q \in decisions : q.exec = x
  BY DEF RequestInv, RequestFollowsExecution
<1>4. /\ request'[x] # "pending"
      /\ \A q \in decisions : q.exec = x =>
           request'[x] = (IF q.vote = "approve" THEN "approved" ELSE "rejected")
      /\ request'[x] \in {"approved", "rejected"} => \E q \in decisions : q.exec = x
  BY <1>2, <1>3
<1> QED BY <1>2, <1>4 DEF RequestInv, RequestFollowsExecution

(* create_execution: the execution and its request are inserted together. *)
LEMMA RequestCreated ==
  ASSUME RequestInv, TypeOK', NEW a \in Attempts, Create(a) PROVE RequestInv'
<1>1. PICK x \in Executions :
        /\ status[x] = "absent"
        /\ status' = [status EXCEPT ![x] = FirstStatus(copy[a].policy)]
        /\ request' = [request EXCEPT ![x] =
                         IF copy[a].policy = "require" THEN "pending" ELSE "none"]
        /\ UNCHANGED decisions
  BY DEF Create
<1>2. /\ status \in [Executions -> Statuses] /\ request \in [Executions -> Requests]
  BY DEF RequestInv, TypeOK, ExecutionsOK
<1>3. /\ status'[x] = FirstStatus(copy[a].policy)
      /\ request'[x] = IF copy[a].policy = "require" THEN "pending" ELSE "none"
      /\ \A y \in Executions \ {x} : status'[y] = status[y] /\ request'[y] = request[y]
  BY <1>1, <1>2
<1>4. /\ (request'[x] = "pending") <=> (status'[x] = "awaiting_approval")
      /\ status'[x] # "absent"
      /\ request'[x] \notin {"approved", "rejected"}
  BY <1>3 DEF FirstStatus
<1>5. \A q \in decisions : q.exec # x
  BY <1>1 DEF RequestInv, RequestFollowsExecution
<1> QED BY <1>1, <1>3, <1>4, <1>5 DEF RequestInv, RequestFollowsExecution

(* decide_approval: the request is closed by the one decision inserted.    *)
LEMMA RequestDecided ==
  ASSUME RequestInv, TypeOK', NEW d \in Deliveries, DecideLocked(d) PROVE RequestInv'
<1> DEFINE b == letter[d].body
<1>1. b \in Decisions
  <2>1. letter[d] \in Letters
    BY DEF RequestInv, TypeOK, DecisionsOK, DecideLocked, Unsent
  <2> QED BY <2>1 DEF Letters
<1>2. b.exec \in Executions /\ b.vote \in Votes
  BY <1>1 DEF Decisions
<1>3. \/ UNCHANGED <<status, request, decisions>>
      \/ /\ status[b.exec] = "awaiting_approval" /\ Close(b.exec, "expired")
         /\ UNCHANGED decisions
      \/ /\ status[b.exec] = "awaiting_approval" /\ request[b.exec] = "pending"
         /\ decisions' = decisions \cup {b}
         /\ request' = [request EXCEPT ![b.exec] =
                          IF b.vote = "approve" THEN "approved" ELSE "rejected"]
         /\ status' = [status EXCEPT ![b.exec] = Verdict(b.vote)]
  BY DEF DecideLocked
<1> HIDE DEF b
<1>4. CASE UNCHANGED <<status, request, decisions>>
  BY <1>4, RequestStutter
<1>5. CASE /\ status[b.exec] = "awaiting_approval" /\ Close(b.exec, "expired")
           /\ UNCHANGED decisions
  BY <1>2, <1>5, RequestClosed
<1>6. ASSUME /\ status[b.exec] = "awaiting_approval" /\ request[b.exec] = "pending"
             /\ decisions' = decisions \cup {b}
             /\ request' = [request EXCEPT ![b.exec] =
                              IF b.vote = "approve" THEN "approved" ELSE "rejected"]
             /\ status' = [status EXCEPT ![b.exec] = Verdict(b.vote)]
      PROVE  RequestInv'
  <2> DEFINE x == b.exec
  <2>1. /\ status \in [Executions -> Statuses] /\ request \in [Executions -> Requests]
    BY DEF RequestInv, TypeOK, ExecutionsOK
  <2>2. /\ status'[x] \in {"ready", "cancelled"}
        /\ request'[x] = IF b.vote = "approve" THEN "approved" ELSE "rejected"
        /\ \A y \in Executions \ {x} : status'[y] = status[y] /\ request'[y] = request[y]
    BY <1>2, <1>6, <2>1 DEF Verdict
  <2>3. \A q \in decisions : q.exec # x
    BY <1>2, <1>6 DEF RequestInv, RequestFollowsExecution
  <2>4. \A q \in decisions' : q.exec = x => q = b
    BY <1>6, <2>3
  <2>5. \A q \in decisions' : q.exec # x => q \in decisions
    BY <1>6
  <2>6. b \in decisions' /\ decisions \subseteq decisions'
    BY <1>6
  <2> QED BY <1>2, <2>2, <2>4, <2>5, <2>6 DEF RequestInv, RequestFollowsExecution
<1> QED BY <1>3, <1>4, <1>5, <1>6

(* Every step keeps the request rows in step with their executions. *)
LEMMA RequestStep == ASSUME RequestInv, [Next]_vars PROVE RequestInv'
<1>0. TypeOK'
  BY WorldStep, ExecutionsStep, AttemptsStep, DecisionsStep DEF RequestInv, TypeOK
<1>1. ASSUME NEW a \in Attempts, Claim(a) PROVE RequestInv'
  <2> DEFINE x == at[a]
  <2>1. UNCHANGED decisions
    BY <1>1 DEF Claim
  <2>2. CASE UNCHANGED execVars
    BY <1>0, <2>1, <2>2, RequestStutter DEF execVars
  <2>3. CASE status[x] = "ready" /\ (Close(x, "expired") \/ Close(x, "cancelled"))
    <3>1. CASE x \in Executions
      BY <1>0, <2>1, <2>3, <3>1, RequestClosed
    <3>2. CASE x \notin Executions
      BY <1>0, <2>1, <2>3, <3>2, RequestStutter
      DEF Close, RequestInv, TypeOK, ExecutionsOK
    <3> QED BY <3>1, <3>2
  <2>4. CASE /\ status[x] = "ready" /\ UNCHANGED request
             /\ status' = [status EXCEPT ![x] = "executing"]
    BY <1>0, <2>1, <2>4, RequestKept
  <2> QED BY <1>1, <2>2, <2>3, <2>4 DEF Claim
<1>2. ASSUME NEW a \in Attempts, Finish(a) PROVE RequestInv'
  <2>1. CASE UNCHANGED status
    BY <1>0, <1>2, <2>1, RequestStutter DEF Finish
  <2>2. CASE status[at[a]] = "executing" /\ status' = [status EXCEPT ![at[a]] = pc[a]]
    BY <1>0, <1>2, <2>2, RequestKept DEF Finish
  <2> QED BY <1>2, <2>1, <2>2 DEF Finish
<1>3. ASSUME NEW x \in Executions, ExpireDue(x) \/ CancelExecution(x) PROVE RequestInv'
  <2>1. /\ status[x] \in Pending /\ UNCHANGED decisions
        /\ Close(x, "expired") \/ Close(x, "cancelled")
    BY <1>3 DEF ExpireDue, CancelExecution
  <2> QED BY <1>0, <2>1, RequestClosed
<1>4. ASSUME NEW x \in Executions, MarkStale(x) PROVE RequestInv'
  BY <1>0, <1>4, RequestKept DEF MarkStale
<1>5. CASE UNCHANGED <<status, request, decisions>>
  BY <1>0, <1>5, RequestStutter
<1> QED
  BY <1>0, <1>1, <1>2, <1>3, <1>4, <1>5, RequestCreated, RequestDecided
  DEF Next, vars, execVars, AttemptStep, Begin, Find, Authorize, Load, Invoke,
      AttemptFails, Receive, DecideRead, FallDue, RunEnds, LockLost, UpdateRead, UpdateSave

LEMMA RequestInvariant == Spec => []RequestInv
<1>1. Init => RequestInv
  <2> SUFFICES ASSUME Init PROVE RequestInv
    OBVIOUS
  <2>1. TypeOK
    BY InitType
  <2> QED BY <2>1 DEF Init, RequestInv, RequestFollowsExecution
<1>2. RequestInv /\ [Next]_vars => RequestInv'
  BY RequestStep
<1> QED BY <1>1, <1>2, PTL DEF Spec

(* A request is open exactly while its execution awaits approval, and it   *)
(* is approved or rejected exactly by a decision that says so: no expiry,  *)
(* cancellation or overlapping decision leaves the two rows apart.         *)
THEOREM RequestsFollow == Spec => []RequestFollowsExecution
<1>1. RequestInv => RequestFollowsExecution
  BY DEF RequestInv
<1> QED BY <1>1, RequestInvariant, PTL

(* An answer moves one letter, whose body stays. *)
LEMMA AnswerMoves ==
  ASSUME TypeOK, NEW d \in Deliveries, NEW p, Answer(d, p), letter[d] # Unsent
  PROVE  /\ letter'[d].place = p /\ letter'[d].body = letter[d].body
         /\ \A e \in Deliveries \ {d} : letter'[e] = letter[e]
<1>1. letter \in [Deliveries -> Letters \cup {Unsent}] /\ letter[d] \in Letters
  BY DEF TypeOK, DecisionsOK
<1>2. letter'[d] = [letter[d] EXCEPT !.place = p]
  BY <1>1 DEF Answer
<1>3. letter'[d].place = p /\ letter'[d].body = letter[d].body
  BY <1>1, <1>2 DEF Letters
<1> QED BY <1>1, <1>3 DEF Answer

(* A delivery that asks again is told "replayed" of a stored decision only.*)
LEMMA AnswersKept ==
  ASSUME TypeOK, DecisionsStand, NEW d \in Deliveries, NEW p, Answer(d, p),
         letter[d] # Unsent, UNCHANGED decisions,
         p \in {"recorded", "replayed"} => letter[d].body \in decisions
  PROVE  DecisionsStand'
<1>1. /\ letter'[d].place = p /\ letter'[d].body = letter[d].body
      /\ \A e \in Deliveries \ {d} : letter'[e] = letter[e]
  BY AnswerMoves
<1> QED BY <1>1 DEF DecisionsStand

LEMMA DecisionsStandStep ==
  ASSUME RequestInv, DecisionsStand, [Next]_vars PROVE DecisionsStand'
<1>0. TypeOK
  BY DEF RequestInv
<1>1. ASSUME NEW d \in Deliveries, Receive(d) PROVE DecisionsStand'
  <2>1. PICK b \in Decisions :
          letter' = [letter EXCEPT ![d] = [body |-> b, place |-> "read"]]
    BY <1>1 DEF Receive
  <2>2. /\ letter'[d].place = "read"
        /\ \A e \in Deliveries \ {d} : letter'[e] = letter[e]
    BY <1>0, <2>1 DEF TypeOK, DecisionsOK
  <2> QED BY <1>1, <2>2 DEF Receive, DecisionsStand
<1>2. ASSUME NEW d \in Deliveries, DecideRead(d) PROVE DecisionsStand'
  <2>1. letter[d] # Unsent
    BY <1>2 DEF DecideRead, Unsent
  <2>2. PICK p : /\ Answer(d, p) /\ p \in {"replayed", "refused", "locked"}
                 /\ p = "replayed" => letter[d].body \in decisions
    BY <1>2 DEF DecideRead, Replay
  <2> QED BY <1>0, <1>2, <2>1, <2>2, AnswersKept DEF DecideRead
<1>3. ASSUME NEW d \in Deliveries, DecideLocked(d) PROVE DecisionsStand'
  <2> DEFINE b == letter[d].body
  <2>1. letter[d] # Unsent
    BY <1>3 DEF DecideLocked, Unsent
  <2>2. CASE UNCHANGED decisions /\ (Answer(d, "refused") \/ Replay(d))
    <3>1. PICK p : /\ Answer(d, p) /\ p \in {"replayed", "refused"}
                   /\ p = "replayed" => letter[d].body \in decisions
      BY <2>2 DEF Replay
    <3> QED BY <1>0, <2>1, <2>2, <3>1, AnswersKept
  <2>3. CASE /\ request[b.exec] = "pending" /\ ~KeyUsed(b.key)
             /\ decisions' = decisions \cup {b} /\ Answer(d, "recorded")
    <3>1. b.exec \in Executions
      <4>1. letter[d] \in Letters
        BY <1>0, <2>1 DEF TypeOK, DecisionsOK
      <4> QED BY <4>1 DEF Letters, Decisions
    <3>2. \A q \in decisions : q.exec # b.exec /\ q.key # b.key
      BY <2>3, <3>1 DEF RequestInv, RequestFollowsExecution, KeyUsed
    <3>3. /\ letter'[d].body = b
          /\ \A e \in Deliveries \ {d} : letter'[e] = letter[e]
      BY <1>0, <2>1, <2>3, AnswerMoves
    <3> HIDE DEF b
    <3>4. \A q, s \in decisions' : q.key = s.key \/ q.exec = s.exec => q = s
      BY <2>3, <3>2 DEF DecisionsStand
    <3>5. \A e \in Deliveries :
            letter'[e].place \in {"recorded", "replayed"} => letter'[e].body \in decisions'
      BY <2>3, <3>3 DEF DecisionsStand
    <3> QED BY <3>4, <3>5 DEF DecisionsStand
  <2> QED BY <1>3, <2>2, <2>3 DEF DecideLocked
<1>4. CASE UNCHANGED <<decisions, letter>>
  BY <1>4 DEF DecisionsStand
<1> QED
  BY <1>1, <1>2, <1>3, <1>4
  DEF Next, vars, AttemptStep, Begin, Find, Create, Authorize, Claim, Load, Invoke,
      Finish, AttemptFails, FallDue, ExpireDue, CancelExecution, MarkStale, RunEnds,
      LockLost, UpdateRead, UpdateSave

(* Whatever deliveries are repeated, overlap or lose the race for a key, a *)
(* client that is told "recorded" finds its decision stored, one key is    *)
(* one decision and one request is decided once.                           *)
THEOREM DecisionsAreFinal == Spec => []DecisionsStand
<1>1. Init => DecisionsStand
  BY DEF Init, DecisionsStand, Unsent
<1>2. RequestInv /\ DecisionsStand /\ [Next]_vars => DecisionsStand'
  BY DecisionsStandStep
<1> QED BY <1>1, <1>2, RequestInvariant, PTL DEF Spec

-----------------------------------------------------------------------------
(* One execution of one tool call, as long as the run's lock is held *)

(* What the lock is for: attempts do not overlap, so that the look-up of   *)
(* one cannot miss the execution that another creates.                     *)
OneCall ==
  ~lockLost =>
    /\ \A a, b \in Attempts : pc[a] \in Active /\ pc[b] \in Active => a = b
    /\ \A x, y \in Executions : status[x] # "absent" /\ status[y] # "absent" => x = y
    /\ \A a \in Attempts : pc[a] = "create" => \A x \in Executions : status[x] = "absent"

(* Executions are only ever created, and by create_execution alone. *)
LEMMA RowsPersist ==
  ASSUME TypeOK, [Next]_vars, \A a \in Attempts : ~Create(a)
  PROVE  \A x \in Executions : (status'[x] = "absent") <=> (status[x] = "absent")
<1>0. status \in [Executions -> Statuses]
  BY DEF TypeOK, ExecutionsOK
<1>1. ASSUME NEW a \in Attempts, Claim(a), NEW x \in Executions
      PROVE  (status'[x] = "absent") <=> (status[x] = "absent")
  BY <1>0, <1>1 DEF Claim, Close, execVars
<1>2. ASSUME NEW a \in Attempts, Finish(a), NEW x \in Executions
      PROVE  (status'[x] = "absent") <=> (status[x] = "absent")
  BY <1>0, <1>2 DEF Finish
<1>3. ASSUME NEW d \in Deliveries, DecideLocked(d), NEW x \in Executions
      PROVE  (status'[x] = "absent") <=> (status[x] = "absent")
  BY <1>0, <1>3 DEF DecideLocked, Verdict, Close
<1>4. ASSUME NEW y \in Executions, ExpireDue(y) \/ CancelExecution(y) \/ MarkStale(y),
             NEW x \in Executions
      PROVE  (status'[x] = "absent") <=> (status[x] = "absent")
  BY <1>0, <1>4 DEF ExpireDue, CancelExecution, MarkStale, Close
<1>5. CASE UNCHANGED status
  BY <1>5
<1> QED
  BY <1>1, <1>2, <1>3, <1>4, <1>5
  DEF Next, vars, execVars, AttemptStep, Begin, Find, Authorize, Load, Invoke,
      AttemptFails, Receive, DecideRead, FallDue, RunEnds, LockLost, UpdateRead, UpdateSave

(* One attempt moves at a time; only Begin makes one active, only Find     *)
(* sends one to create.                                                    *)
LEMMA AttemptsMove ==
  ASSUME TypeOK, [Next]_vars, \A a \in Attempts : ~Begin(a) /\ ~Find(a)
  PROVE  \A a \in Attempts : /\ pc'[a] \in Active => pc[a] \in Active
                             /\ pc'[a] # "create" \/ UNCHANGED pc \/ pc'[a] = pc[a]
<1>0. pc \in [Attempts -> Labels]
  BY DEF TypeOK, AttemptsOK
<1>1. ASSUME NEW b \in Attempts,
             \/ Create(b) \/ Authorize(b) \/ Claim(b) \/ Load(b) \/ Invoke(b)
             \/ Finish(b) \/ AttemptFails(b)
      PROVE  /\ pc[b] \in Active /\ pc'[b] # "create"
             /\ \A a \in Attempts \ {b} : pc'[a] = pc[a]
  <2>1. CASE Create(b)
    BY <1>0, <2>1 DEF Create, Goto, Route, Active
  <2>2. CASE Authorize(b) \/ Load(b)
    BY <1>0, <2>2 DEF Authorize, Load, Goto, Active
  <2>3. CASE Claim(b)
    BY <1>0, <2>3 DEF Claim, Goto, Active
  <2>4. CASE Invoke(b)
    BY <1>0, <2>4 DEF Invoke, Goto, Active
  <2>5. CASE Finish(b) \/ AttemptFails(b)
    BY <1>0, <2>5 DEF Finish, AttemptFails, Goto, Active
  <2> QED BY <1>1, <2>1, <2>2, <2>3, <2>4, <2>5
<1>2. CASE UNCHANGED pc
  BY <1>2
<1> QED
  BY <1>1, <1>2
  DEF Next, vars, attemptVars, AttemptStep, Receive, DecideRead, DecideLocked, FallDue,
      ExpireDue, CancelExecution, MarkStale, RunEnds, LockLost, UpdateRead, UpdateSave

LEMMA OneCallStep == ASSUME TypeOK, OneCall, [Next]_vars PROVE OneCall'
<1> SUFFICES ASSUME ~lockLost'
             PROVE  /\ \A a, b \in Attempts : pc'[a] \in Active /\ pc'[b] \in Active => a = b
                    /\ \A x, y \in Executions :
                         status'[x] # "absent" /\ status'[y] # "absent" => x = y
                    /\ \A a \in Attempts : pc'[a] = "create" =>
                         \A x \in Executions : status'[x] = "absent"
  BY DEF OneCall
<1>0. /\ pc \in [Attempts -> Labels] /\ status \in [Executions -> Statuses]
  BY DEF TypeOK, AttemptsOK, ExecutionsOK
<1>1. ~lockLost
  <2>1. CASE LockLost
    BY <2>1 DEF LockLost
  <2>2. CASE UNCHANGED lockLost
    BY <2>2
  <2> QED
    BY <2>1, <2>2
    DEF Next, vars, worldVars, AttemptStep, Begin, Find, Create, Authorize, Claim, Load,
        Invoke, Finish, AttemptFails, Receive, DecideRead, DecideLocked, FallDue, ExpireDue,
        CancelExecution, MarkStale, RunEnds, UpdateRead, UpdateSave
<1>a. /\ \A a, b \in Attempts : pc[a] \in Active /\ pc[b] \in Active => a = b
      /\ \A x, y \in Executions : status[x] # "absent" /\ status[y] # "absent" => x = y
      /\ \A a \in Attempts : pc[a] = "create" => \A x \in Executions : status[x] = "absent"
  BY <1>1 DEF OneCall
<1>2. CASE \E a \in Attempts : Begin(a)
  <2>1. PICK a \in Attempts : Begin(a)
    BY <1>2
  <2>2. /\ \A b \in Attempts : pc[b] \notin Active
        /\ pc'[a] = "find" /\ \A b \in Attempts \ {a} : pc'[b] = pc[b]
        /\ UNCHANGED status
    BY <1>0, <1>1, <2>1 DEF Begin, Goto, execVars
  <2> QED BY <1>a, <2>2 DEF Active
<1>3. CASE \E a \in Attempts : Find(a)
  <2>1. PICK a \in Attempts : Find(a)
    BY <1>3
  <2>2. /\ pc[a] = "find" /\ UNCHANGED status
        /\ \A b \in Attempts \ {a} : pc'[b] = pc[b]
    BY <1>0, <2>1 DEF Find, Goto, execVars
  <2>3. pc'[a] = "create" => \A x \in Executions : status[x] = "absent"
    BY <1>0, <2>1 DEF Find, Goto, Route
  <2>4. pc[a] \in Active
    BY <2>2 DEF Active
  <2> QED BY <1>a, <2>2, <2>3, <2>4
<1>4. CASE \E a \in Attempts : Create(a)
  <2>1. PICK a \in Attempts : Create(a)
    BY <1>4
  <2>2. PICK z \in Executions : \A x \in Executions \ {z} : status'[x] = status[x]
    BY <1>0, <2>1 DEF Create
  <2>3. /\ pc[a] = "create" /\ pc'[a] # "create"
        /\ \A b \in Attempts \ {a} : pc'[b] = pc[b]
    BY <1>0, <2>1 DEF Create, Goto, Route
  <2>4. pc[a] \in Active /\ \A b \in Attempts : pc[b] = "create" => pc[b] \in Active
    BY <2>3 DEF Active
  <2>5. \A x \in Executions : status[x] = "absent"
    BY <1>a, <2>3
  <2> QED BY <1>a, <2>2, <2>3, <2>4, <2>5
<1>5. CASE \A a \in Attempts : ~Begin(a) /\ ~Find(a) /\ ~Create(a)
  <2>1. \A x \in Executions : (status'[x] = "absent") <=> (status[x] = "absent")
    BY <1>5, RowsPersist
  <2>2. \A a \in Attempts : /\ pc'[a] \in Active => pc[a] \in Active
                            /\ pc'[a] = "create" => pc[a] = "create"
    BY <1>5, AttemptsMove
  <2> QED BY <1>a, <2>1, <2>2
<1> QED BY <1>2, <1>3, <1>4, <1>5

(* No constraint makes the executions of a tool call unique; while the     *)
(* run's lock is not lost, the lock does: the tool is invoked at most once *)
(* for the call, through kills, retries and resumed attempts.              *)
THEOREM CalledOnce == Spec => []OneEffectPerCall
<1>1. Init => OneCall
  BY DEF Init, OneCall, Active
<1>2. TypeOK /\ OneCall /\ [Next]_vars => OneCall'
  BY OneCallStep
<1>3. ClaimInv /\ OneCall => OneEffectPerCall
  <2> SUFFICES ASSUME ClaimInv, OneCall, ~lockLost, NEW x \in Executions, NEW y \in Executions,
                      effects[x] > 0, effects[y] > 0
               PROVE  x = y
    BY DEF OneEffectPerCall
  <2>1. status[x] # "absent" /\ status[y] # "absent"
    BY DEF ClaimInv
  <2> QED BY <2>1 DEF OneCall
<1> QED BY <1>1, <1>2, <1>3, ApprovalTypeCorrect, ClaimInvariant, PTL DEF Spec

-----------------------------------------------------------------------------
(* The version that was approved *)

(* An attempt past the claim works with the version and the policy that    *)
(* its execution was created with, whatever was saved in between.          *)
VersionBound == \A a \in Attempts : pc[a] \in Claimed => SameBinding(a, at[a])

(* The claim compares version and policy; afterwards neither the attempt's *)
(* copy nor its execution's binding is written.                            *)
LEMMA VersionStep ==
  ASSUME ClaimInv, VersionBound, [Next]_vars PROVE VersionBound'
<1>0. /\ TypeOK /\ pc \in [Attempts -> Labels] /\ copy \in [Attempts -> Tools]
      /\ at \in [Attempts -> 0..MaxExecs] /\ bound \in [Executions -> Tools]
  BY DEF ClaimInv, TypeOK, AttemptsOK, ExecutionsOK
<1> USE DEF VersionBound, SameBinding
<1>1. ASSUME NEW a \in Attempts, Begin(a) PROVE VersionBound'
  <2>1. /\ pc'[a] = "find" /\ UNCHANGED <<bound, at>>
        /\ \A b \in Attempts \ {a} : pc'[b] = pc[b] /\ copy'[b] = copy[b]
    BY <1>0, <1>1 DEF Begin, Goto, execVars
  <2> QED BY <2>1 DEF Claimed, Outcomes
<1>2. ASSUME NEW a \in Attempts, Find(a) PROVE VersionBound'
  <2>1. /\ pc'[a] \in {"create", "authorize", "over"} /\ UNCHANGED <<bound, copy>>
        /\ \A b \in Attempts \ {a} : pc'[b] = pc[b] /\ at'[b] = at[b]
    BY <1>0, <1>2 DEF Find, Goto, Route, execVars
  <2> QED BY <2>1 DEF Claimed, Outcomes
<1>3. ASSUME NEW a \in Attempts, Create(a) PROVE VersionBound'
  <2>1. PICK x \in Executions :
          /\ status[x] = "absent" /\ \A y \in Executions \ {x} : bound'[y] = bound[y]
          /\ pc'[a] \in {"authorize", "over"} /\ UNCHANGED copy
          /\ \A b \in Attempts \ {a} : pc'[b] = pc[b] /\ at'[b] = at[b]
    BY <1>0, <1>3 DEF Create, Goto, Route
  <2>2. ASSUME NEW b \in Attempts \ {a}, pc[b] \in Claimed
        PROVE  at[b] \in Executions /\ at[b] # x
    BY <2>1, <2>2 DEF ClaimInv, Placed, ClaimHeld, Untouched
  <2> QED BY <2>1, <2>2 DEF Claimed, Outcomes
<1>4. ASSUME NEW a \in Attempts, Claim(a) PROVE VersionBound'
  <2>1. /\ UNCHANGED <<bound, copy, at>>
        /\ pc'[a] = "over" \/ SameBinding(a, at[a])
        /\ \A b \in Attempts \ {a} : pc'[b] = pc[b]
    BY <1>0, <1>4 DEF Claim, Goto, execVars
  <2> QED BY <2>1 DEF Claimed, Outcomes
<1>5. ASSUME NEW a \in Attempts,
             Authorize(a) \/ Load(a) \/ Invoke(a) \/ Finish(a) \/ AttemptFails(a)
      PROVE  VersionBound'
  <2>1. /\ UNCHANGED <<bound, copy, at>>
        /\ pc'[a] \in Claimed => pc[a] \in Claimed
        /\ \A b \in Attempts \ {a} : pc'[b] = pc[b]
    BY <1>0, <1>5 DEF Authorize, Load, Invoke, Finish, AttemptFails, Goto, execVars,
                      Claimed, Outcomes
  <2> QED BY <2>1
<1>6. CASE UNCHANGED <<attemptVars, bound>>
  BY <1>6 DEF attemptVars
<1> QED
  BY <1>1, <1>2, <1>3, <1>4, <1>5, <1>6
  DEF Next, vars, execVars, AttemptStep, Receive, DecideRead, DecideLocked, FallDue,
      ExpireDue, CancelExecution, MarkStale, RunEnds, LockLost, UpdateRead, UpdateSave

(* However many updates of the tool overlap, and however they interleave   *)
(* with the attempts, an attempt that passed the claim carries the version *)
(* number and the policy its execution was created with.  Which definition *)
(* a number names is another matter: two overlapping updates save one      *)
(* number for two definitions, and nothing is claimed of them.             *)
THEOREM VersionsBound == Spec => []VersionBound
<1>1. Init => VersionBound
  BY DEF Init, VersionBound, Claimed, Outcomes
<1>2. ClaimInv /\ VersionBound /\ [Next]_vars => VersionBound'
  BY VersionStep
<1> QED BY <1>1, <1>2, ClaimInvariant, PTL DEF Spec

===============================================================================
