\* Two pauses below a branch, two approvers, two workers; one kill, cancellation or repeated dispatch.
CONSTANTS
  Nodes <- MCNodes
  Edges <- MCEdges
  BranchNodes = {"branch"}
  AskNodes = {"ask"}
  VoteNodes = {"vote"}
  Approvers = {a1, a2}
  Workers = {w1, w2}
  MaxDispatch = 1
  MaxCrashes = 1
  MaxCancels = 1
  MaxEvents = 1
SPECIFICATION Spec
INVARIANTS TypeOK OnePass NodeOncePerStart SuccessIsComplete Unanimous
PROPERTIES PrunedStaysPruned FirstDecisionStands RunningEnds
\* A run that has ended takes no more steps.
CHECK_DEADLOCK FALSE
