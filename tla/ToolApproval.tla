----------------------------- MODULE ToolApproval -----------------------------
(***************************************************************************)
(* One tool call of a durable agent run under the approval policy          *)
(*   services/tool_approvals.py    ToolExecution, its request, decisions   *)
(*   services/tool_execution.py    execute_stored_tool                     *)
(*   tasks/tool_approval.py        the expiry and stale-claim sweeps       *)
(*                                                                         *)
(* Attempts are calls of execute_stored_tool for the same tool_call_id:    *)
(* the one that creates the execution and may park the run, the resumed    *)
(* one after an approval, one repeated after a killed worker.  Deliveries  *)
(* are HTTP requests that carry a decision; a client that retries sends    *)
(* another delivery with the same idempotency key.                         *)
(*                                                                         *)
(* A step is one transaction or one read.  Parameters, digests and display *)
(* data are left out: rows are not tampered with.  A tool is its           *)
(* definition_version, its policy and its definition, named after the      *)
(* editor that saved it; the connection's version is treated like the      *)
(* policy: read before the claim, compared by it.  An execution has one    *)
(* request, the caller gate, the only one that _plan_gates makes.          *)
(***************************************************************************)
EXTENDS Naturals, FiniteSets

CONSTANTS
  Attempts,     \* calls of execute_stored_tool for the tool call
  Deliveries,   \* HTTP requests that decide
  Keys,         \* idempotency keys
  Editors,      \* requests that update the tool, one update each
  Nobody,       \* no claim token; the author of the first definition
  MaxExecs      \* bound: ToolExecution rows of the tool call

ASSUME ApprovalAssumption ==
  /\ Nobody \notin Attempts \cup Editors
  /\ MaxExecs \in Nat \ {0}

VARIABLES
  tool,       \* the Tool row
  draft,      \* draft[e]: the Tool row as update_tool read it
  runOver,    \* the owning run is terminal
  lockLost,   \* the run's lock was lost: attempts may overlap
  status,     \* status[x]: ToolExecution.status, "absent" before creation
  bound,      \* bound[x]: the tool the execution was created for
  request,    \* request[x]: the ToolApprovalRequest of the caller gate
  due,        \* due[x]: expires_at has passed
  token,      \* token[x]: claim_token, the attempt that claimed
  decisions,  \* the ToolApprovalDecision rows
  pc,         \* pc[a]: where the attempt is in execute_stored_tool
  copy,       \* copy[a]: the tool as the attempt loaded it
  at,         \* at[a]: the execution it works on, 0 for none
  effects,    \* effects[x]: calls of invoke for the execution (history)
  letter      \* letter[d]: a delivery: its content, its place, its answer

execVars    == <<status, bound, request, due, token>>
attemptVars == <<pc, copy, at>>
worldVars   == <<tool, draft, runOver, lockLost>>
vars == <<worldVars, execVars, decisions, attemptVars, effects, letter>>

Executions == 1..MaxExecs
Policies   == {"allow", "require", "deny"}
Tools      == [def: Nat, policy: Policies, author: Editors \cup {Nobody}]
Votes      == {"approve", "reject"}
Decisions  == [key: Keys, exec: Executions, vote: Votes]
Pending    == {"awaiting_approval", "ready"}
Statuses   == {"absent", "executing", "succeeded", "failed", "outcome_unknown",
               "cancelled"} \cup Pending
Requests   == {"none", "pending", "approved", "rejected", "expired", "cancelled"}
Outcomes   == {"succeeded", "failed", "outcome_unknown"}
Active     == {"find", "create", "authorize", "claim", "load", "invoke"} \cup Outcomes
Claimed    == {"load", "invoke"} \cup Outcomes
Labels     == {"new", "over"} \cup Active
Answers    == {"recorded", "replayed", "refused"}
Letters    == [body: Decisions, place: {"read", "locked"} \cup Answers]
Unsent     == [place |-> "unsent"]
Unread     == [place |-> "unread"]
Saved      == [place |-> "saved"]

WorldOK ==
  /\ tool \in Tools
  /\ draft \in [Editors -> Tools \cup {Unread, Saved}]
  /\ runOver \in BOOLEAN
  /\ lockLost \in BOOLEAN

ExecutionsOK ==
  /\ status \in [Executions -> Statuses]
  /\ bound \in [Executions -> Tools]
  /\ request \in [Executions -> Requests]
  /\ due \in [Executions -> BOOLEAN]
  /\ token \in [Executions -> Attempts \cup {Nobody}]

AttemptsOK ==
  /\ pc \in [Attempts -> Labels]
  /\ copy \in [Attempts -> Tools]
  /\ at \in [Attempts -> 0..MaxExecs]
  /\ effects \in [Executions -> Nat]

DecisionsOK ==
  /\ decisions \subseteq Decisions
  /\ letter \in [Deliveries -> Letters \cup {Unsent}]

TypeOK == WorldOK /\ ExecutionsOK /\ AttemptsOK /\ DecisionsOK

Init ==
  /\ \E p \in Policies : tool = [def |-> 1, policy |-> p, author |-> Nobody]
  /\ draft = [e \in Editors |-> Unread]
  /\ runOver = FALSE /\ lockLost = FALSE
  /\ status = [x \in Executions |-> "absent"]
  /\ bound = [x \in Executions |-> tool]
  /\ request = [x \in Executions |-> "none"]
  /\ due = [x \in Executions |-> FALSE]
  /\ token = [x \in Executions |-> Nobody]
  /\ decisions = {}
  /\ pc = [a \in Attempts |-> "new"]
  /\ copy = [a \in Attempts |-> tool]
  /\ at = [a \in Attempts |-> 0]
  /\ effects = [x \in Executions |-> 0]
  /\ letter = [d \in Deliveries |-> Unsent]
-----------------------------------------------------------------------------
(* Helpers *)

Goto(a, label) == pc' = [pc EXCEPT ![a] = label]

(* execute_stored_tool goes on with a ready execution only; otherwise the  *)
(* attempt is over: the run is parked, or the call fails.                  *)
Route(s) == IF s = "ready" THEN "authorize" ELSE "over"

(* Mutant: the reason is written into the status. *)
CloseReason(x, how) ==
  /\ status' = [status EXCEPT ![x] = how]
  /\ request' = [request EXCEPT ![x] = IF @ = "pending" THEN how ELSE @]

(* Mutant: the request is left open. *)
CloseKeepsRequest(x, how) ==
  /\ status' = [status EXCEPT ![x] = "cancelled"]
  /\ request' = [request EXCEPT ![x] = @]

(* _expire_execution_locked / _cancel_execution_locked: the execution is   *)
(* cancelled; its request, if still pending, is closed with it.            *)
Close(x, how) ==
  /\ status' = [status EXCEPT ![x] = "cancelled"]
  /\ request' = [request EXCEPT ![x] = IF @ = "pending" THEN how ELSE @]

-----------------------------------------------------------------------------
(* execute_stored_tool *)

(* The attempt starts with the tool it loads, under the lock of the run.   *)
Begin(a) ==
  /\ pc[a] = "new" /\ ~runOver
  /\ lockLost \/ \A b \in Attempts : pc[b] \notin Active
  /\ copy' = [copy EXCEPT ![a] = tool]
  /\ Goto(a, "find")
  /\ UNCHANGED <<worldVars, execVars, decisions, at, effects, letter>>

(* Mutant: settled executions are not found. *)
FindUnsettled(a) ==
  /\ pc[a] = "find"
  /\ \/ /\ \A x \in Executions : status[x] \notin Pending \cup {"executing"}
        /\ Goto(a, "create")
        /\ UNCHANGED at
     \/ \E x \in Executions :
          /\ status[x] \in Pending \cup {"executing"}
          /\ at' = [at EXCEPT ![a] = x]
          /\ Goto(a, Route(status[x]))
  /\ UNCHANGED <<worldVars, execVars, decisions, copy, effects, letter>>

(* find_execution_by_tool_call: the latest one created. *)
Find(a) ==
  /\ pc[a] = "find"
  /\ \/ /\ \A x \in Executions : status[x] = "absent"
        /\ Goto(a, "create")
        /\ UNCHANGED at
     \/ \E x \in Executions :
          /\ status[x] # "absent"
          /\ \A y \in Executions : y > x => status[y] = "absent"
          /\ at' = [at EXCEPT ![a] = x]
          /\ Goto(a, Route(status[x]))
  /\ UNCHANGED <<worldVars, execVars, decisions, copy, effects, letter>>

(* deny is cancelled at once, with the reason policy_denied. *)
FirstStatus(policy) == IF policy = "allow"   THEN "ready"
                  ELSE IF policy = "require" THEN "awaiting_approval" ELSE "cancelled"

(* create_execution: the policy is evaluated on the attempt's copy of the  *)
(* tool, the execution and its request are inserted together.              *)
Create(a) ==
  /\ pc[a] = "create"
  /\ \E x \in Executions :
       /\ status[x] = "absent"
       /\ \A y \in Executions : y < x => status[y] # "absent"
       /\ status' = [status EXCEPT ![x] = FirstStatus(copy[a].policy)]
       /\ Goto(a, Route(FirstStatus(copy[a].policy)))
       /\ request' = [request EXCEPT ![x] =
                        IF copy[a].policy = "require" THEN "pending" ELSE "none"]
       /\ bound' = [bound EXCEPT ![x] = copy[a]]
       /\ at' = [at EXCEPT ![a] = x]
  /\ UNCHANGED <<worldVars, due, token, decisions, copy, effects, letter>>

(* The authorizer of claim_execution reads the tool again, before the      *)
(* transaction.                                                            *)
Authorize(a) ==
  /\ pc[a] = "authorize"
  /\ Goto(a, IF tool.def = copy[a].def THEN "claim" ELSE "over")
  /\ UNCHANGED <<worldVars, execVars, decisions, copy, at, effects, letter>>

(* Mutant: only the policy is compared. *)
SamePolicy(a, x) == bound[x].policy = copy[a].policy

(* The attempt's version and policy are the ones the execution was created *)
(* with.                                                                   *)
SameBinding(a, x) == bound[x].def = copy[a].def /\ bound[x].policy = copy[a].policy

(* Mutant: the status is not checked again under the lock. *)
ClaimBlind(a) ==
  /\ pc[a] = "claim"
  /\ status' = [status EXCEPT ![at[a]] = "executing"]
  /\ token' = [token EXCEPT ![at[a]] = a]
  /\ Goto(a, "load")
  /\ UNCHANGED <<worldVars, bound, request, due, decisions, copy, at, effects, letter>>

(* claim_execution, the transaction: ready -> executing with a fresh token, *)
(* if the deadline has not passed and the tool is still the bound one.      *)
Claim(a) ==
  /\ pc[a] = "claim"
  /\ LET x == at[a] IN
       \/ /\ status[x] # "ready"
          /\ Goto(a, "over")
          /\ UNCHANGED execVars
       \/ /\ status[x] = "ready" /\ due[x]
          /\ Close(x, "expired")
          /\ Goto(a, "over")
          /\ UNCHANGED <<bound, due, token>>
       \/ /\ status[x] = "ready" /\ ~due[x] /\ ~SameBinding(a, x)
          /\ Close(x, "cancelled")
          /\ Goto(a, "over")
          /\ UNCHANGED <<bound, due, token>>
       \/ /\ status[x] = "ready" /\ ~due[x] /\ SameBinding(a, x)
          /\ status' = [status EXCEPT ![x] = "executing"]
          /\ token' = [token EXCEPT ![x] = a]
          /\ Goto(a, "load")
          /\ UNCHANGED <<bound, request, due>>
  /\ UNCHANGED <<worldVars, decisions, copy, at, effects, letter>>

(* load_execution_parameters: only for the holder of a live claim. *)
Load(a) ==
  /\ pc[a] = "load"
  /\ Goto(a, IF status[at[a]] = "executing" /\ token[at[a]] = a
             THEN "invoke" ELSE "over")
  /\ UNCHANGED <<worldVars, execVars, decisions, copy, at, effects, letter>>

(* The side effect; the label is the outcome to be recorded. *)
Invoke(a) ==
  /\ pc[a] = "invoke"
  /\ effects' = [effects EXCEPT ![at[a]] = @ + 1]
  /\ \E o \in Outcomes : Goto(a, o)
  /\ UNCHANGED <<worldVars, execVars, decisions, copy, at, letter>>

(* Mutant: only the token is checked. *)
FinishLate(a) ==
  /\ pc[a] \in Outcomes
  /\ status' = [status EXCEPT ![at[a]] = IF token[at[a]] = a THEN pc[a] ELSE @]
  /\ Goto(a, "over")
  /\ UNCHANGED <<worldVars, bound, request, due, token, decisions, copy, at,
                 effects, letter>>

(* _finish_execution: recorded by the holder of a live claim only. *)
Finish(a) ==
  /\ pc[a] \in Outcomes
  /\ LET x == at[a] IN
       \/ /\ status[x] = "executing" /\ token[x] = a
          /\ status' = [status EXCEPT ![x] = pc[a]]
          /\ Goto(a, "over")
       \/ /\ ~(status[x] = "executing" /\ token[x] = a)
          /\ Goto(a, "over")
          /\ UNCHANGED status
  /\ UNCHANGED <<worldVars, bound, request, due, token, decisions, copy, at,
                 effects, letter>>

(* An exception, of the policy configuration, a lost connection or         *)
(* unreadable parameters, or a killed worker.  What invoke raises is an    *)
(* outcome.                                                                *)
AttemptFails(a) ==
  /\ pc[a] \in Active /\ Goto(a, "over")
  /\ UNCHANGED <<worldVars, execVars, decisions, copy, at, effects, letter>>

-----------------------------------------------------------------------------
(* decide_approval *)

(* A delivery arrives for the request of an execution. *)
Receive(d) ==
  /\ letter[d] = Unsent
  /\ \E b \in Decisions :
       /\ request[b.exec] # "none"
       /\ letter' = [letter EXCEPT ![d] = [body |-> b, place |-> "read"]]
  /\ UNCHANGED <<worldVars, execVars, decisions, attemptVars, effects>>

Answer(d, place) == letter' = [letter EXCEPT ![d].place = place]

(* Mutant: the key alone makes a replay. *)
ReplayAny(d) == Answer(d, "replayed")

(* _verify_replay: the stored decision of the key, if it is the same one. *)
Replay(d) ==
  Answer(d, IF letter[d].body \in decisions THEN "replayed" ELSE "refused")

KeyUsed(k) == \E q \in decisions : q.key = k

(* The look-up of the idempotency key, before the transaction; only the    *)
(* user who made the stored decision is shown it.                          *)
DecideRead(d) ==
  /\ letter[d].place = "read"
  /\ \/ KeyUsed(letter[d].body.key) /\ (Replay(d) \/ Answer(d, "refused"))
     \/ ~KeyUsed(letter[d].body.key) /\ Answer(d, "locked")
  /\ UNCHANGED <<worldVars, execVars, decisions, attemptVars, effects>>

(* Mutant: no pending request is left, so the execution is ready. *)
AnyVerdict(vote) == "ready"

(* The only gate approved makes the execution ready, a rejection ends it. *)
Verdict(vote) == IF vote = "approve" THEN "ready" ELSE "cancelled"

(* The transaction, under the locks of the execution and of its request:   *)
(* expired when the deadline has passed, refused when the request is       *)
(* resolved or the user is no approver (an API key is examined first),     *)
(* otherwise recorded.  A key inserted since the look-up makes the insert  *)
(* fail; the transaction is rolled back and the stored decision replayed.  *)
DecideLocked(d) ==
  /\ letter[d].place = "locked"
  /\ LET b    == letter[d].body
         x    == b.exec
         open == status[x] = "awaiting_approval" /\ ~due[x] /\ request[x] = "pending"
     IN \/ /\ status[x] = "awaiting_approval" /\ due[x]
           /\ Close(x, "expired")
           /\ Answer(d, "refused")
           /\ UNCHANGED decisions
        \/ /\ Answer(d, "refused")
           /\ UNCHANGED <<status, request, decisions>>
        \/ /\ open /\ KeyUsed(b.key)
           /\ Replay(d)
           /\ UNCHANGED <<status, request, decisions>>
        \/ /\ open /\ ~KeyUsed(b.key)
           /\ decisions' = decisions \cup {b}
           /\ request' = [request EXCEPT ![x] =
                            IF b.vote = "approve" THEN "approved" ELSE "rejected"]
           /\ status' = [status EXCEPT ![x] = Verdict(b.vote)]
           /\ Answer(d, "recorded")
  /\ UNCHANGED <<worldVars, bound, due, token, attemptVars, effects>>

-----------------------------------------------------------------------------
(* Time, sweeps, stops, updates *)

(* expires_at passes. *)
FallDue(x) ==
  /\ status[x] \in Pending /\ ~due[x]
  /\ due' = [due EXCEPT ![x] = TRUE]
  /\ UNCHANGED <<worldVars, status, bound, request, token, decisions,
                 attemptVars, effects, letter>>

(* Mutant: only undecided executions expire. *)
ExpireAwaiting(x) ==
  /\ status[x] = "awaiting_approval" /\ due[x]
  /\ Close(x, "expired")
  /\ UNCHANGED <<worldVars, bound, due, token, decisions, attemptVars,
                 effects, letter>>

(* expire_execution, from the periodic task. *)
ExpireDue(x) ==
  /\ status[x] \in Pending /\ due[x]
  /\ Close(x, "expired")
  /\ UNCHANGED <<worldVars, bound, due, token, decisions, attemptVars,
                 effects, letter>>

(* Mutant: a claimed execution is cancelled too. *)
CancelExecuting(x) ==
  /\ status[x] \in Pending \cup {"executing"}
  /\ Close(x, "cancelled")
  /\ UNCHANGED <<worldVars, bound, due, token, decisions, attemptVars,
                 effects, letter>>

(* cancel_execution: the run is stopped, or the call has no durable pause. *)
CancelExecution(x) ==
  /\ status[x] \in Pending
  /\ Close(x, "cancelled")
  /\ UNCHANGED <<worldVars, bound, due, token, decisions, attemptVars,
                 effects, letter>>

(* mark_stale_executing_outcome_unknown: an old claim of a finished run. *)
MarkStale(x) ==
  /\ status[x] = "executing" /\ runOver
  /\ status' = [status EXCEPT ![x] = "outcome_unknown"]
  /\ UNCHANGED <<worldVars, bound, request, due, token, decisions,
                 attemptVars, effects, letter>>

(* The run ends: stopped, failed, or swept with its worker still alive. *)
RunEnds ==
  /\ ~runOver
  /\ runOver' = TRUE
  /\ UNCHANGED <<tool, draft, lockLost, execVars, decisions, attemptVars, effects, letter>>

(* The lease of the run's lock runs out under its worker. *)
LockLost ==
  /\ ~lockLost
  /\ lockLost' = TRUE
  /\ UNCHANGED <<tool, draft, runOver, execVars, decisions, attemptVars, effects, letter>>

(* update_tool loads the row, without a lock. *)
UpdateRead(e) ==
  /\ draft[e] = Unread
  /\ draft' = [draft EXCEPT ![e] = tool]
  /\ UNCHANGED <<tool, runOver, lockLost, execVars, decisions, attemptVars, effects, letter>>

(* It saves the whole row with the version it read plus one. *)
UpdateSave(e) ==
  /\ draft[e] \notin {Unread, Saved}
  /\ \E p \in Policies : tool' = [def |-> draft[e].def + 1, policy |-> p, author |-> e]
  /\ draft' = [draft EXCEPT ![e] = Saved]
  /\ UNCHANGED <<runOver, lockLost, execVars, decisions, attemptVars, effects, letter>>

-----------------------------------------------------------------------------
AttemptStep(a) ==
  \/ Begin(a) \/ Find(a) \/ Create(a) \/ Authorize(a) \/ Claim(a) \/ Load(a)
  \/ Invoke(a) \/ Finish(a) \/ AttemptFails(a)

Next ==
  \/ \E a \in Attempts : AttemptStep(a)
  \/ \E d \in Deliveries : Receive(d) \/ DecideRead(d) \/ DecideLocked(d)
  \/ \E x \in Executions :
       FallDue(x) \/ ExpireDue(x) \/ CancelExecution(x) \/ MarkStale(x)
  \/ RunEnds \/ LockLost
  \/ \E e \in Editors : UpdateRead(e) \/ UpdateSave(e)

(* Time passes and beat runs both sweeps; nobody owes a decision, and any  *)
(* attempt may be killed.                                                  *)
Fairness ==
  \A x \in Executions :
    WF_vars(FallDue(x)) /\ WF_vars(ExpireDue(x)) /\ WF_vars(MarkStale(x))

Spec == Init /\ [][Next]_vars
FairSpec == Spec /\ Fairness
-----------------------------------------------------------------------------
(* Properties *)

Settled == {"cancelled"} \cup Outcomes

(* What lets an execution run: the policy allows it, or its request was    *)
(* approved by a recorded decision.                                        *)
Authorised(x) ==
  \/ bound[x].policy = "allow"
  \/ /\ bound[x].policy = "require" /\ request[x] = "approved"
     /\ \E q \in decisions : q.exec = x /\ q.vote = "approve"

(* The claim "makes exactly one worker allowed to call the external        *)
(* adapter": whatever attempts overlap, die or are retried, an execution's *)
(* tool is invoked at most once.                                           *)
EffectOnce == \A x \in Executions : effects[x] <= 1

(* find_execution_by_tool_call followed by create_execution, without a     *)
(* constraint that makes the call unique: as long as the run's lock keeps  *)
(* attempts apart, one tool call is invoked at most once.                  *)
OneEffectPerCall ==
  ~lockLost => \A x, y \in Executions : effects[x] > 0 /\ effects[y] > 0 => x = y

(* No tool is invoked against its policy or without the approval it needs, *)
(* through expiry, cancellation and policy changes between the steps.      *)
EffectAuthorised == \A x \in Executions : effects[x] > 0 => Authorised(x)

(* "a bump invalidates approvals": the definition an attempt invokes is    *)
(* the one its execution was created, shown and approved for.              *)
ApprovedDefinition ==
  \A a \in Attempts : pc[a] \in Claimed => copy[a] = bound[at[a]]

(* A cancelled execution "ended without a side effect"; a recorded result  *)
(* is one of an invocation that happened.                                  *)
OutcomeTruthful ==
  \A x \in Executions :
    /\ status[x] \in {"cancelled"} \cup Pending => effects[x] = 0
    /\ status[x] \in {"succeeded", "failed"} => effects[x] = 1

(* A request is open exactly while its execution awaits approval, and it   *)
(* is approved or rejected exactly by the one decision recorded for it.    *)
RequestFollowsExecution ==
  \A x \in Executions :
    /\ (request[x] = "pending") <=> (status[x] = "awaiting_approval")
    /\ \A q \in decisions : q.exec = x =>
         request[x] = (IF q.vote = "approve" THEN "approved" ELSE "rejected")
    /\ request[x] \in {"approved", "rejected"} => \E q \in decisions : q.exec = x

(* A delivery told that its decision is recorded, first or by a replay,    *)
(* finds it among the rows; one key is one decision, one request has one.  *)
DecisionsStand ==
  /\ \A d \in Deliveries :
       letter[d].place \in {"recorded", "replayed"} => letter[d].body \in decisions
  /\ \A q, s \in decisions : q.key = s.key \/ q.exec = s.exec => q = s

(* A settled execution, its request and its claim never change again, and  *)
(* decisions are append-only: a late outcome does not overwrite what the   *)
(* stale-claim sweep wrote, nor a late decision a cancellation.            *)
SettledFrozen ==
  [][/\ \A x \in Executions : status[x] \in Settled =>
          /\ status'[x] = status[x] /\ request'[x] = request[x]
          /\ token'[x] = token[x] /\ bound'[x] = bound[x]
     /\ decisions \subseteq decisions']_vars

(* Pending, or claimed by a run that is over. *)
Waiting(x) == status[x] \in Pending \/ (status[x] = "executing" /\ runOver)

(* Nothing waits forever: an execution awaiting approval or ready is       *)
(* decided and claimed, cancelled or expired, and the claim that a         *)
(* finished run left is closed.                                            *)
ExecutionSettles == \A x \in Executions : Waiting(x) ~> ~Waiting(x)
===============================================================================
