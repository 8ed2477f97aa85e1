\* A run is cancelled while a pass is under way.
CONSTANTS
  Nodes <- MCNodes
  Edges <- MCEdges
  BranchNodes = {"branch"}
  AskNodes = {"ask"}
  VoteNodes = {"vote"}
  Approvers = {a1}
  Workers = {w1, w2}
  MaxDispatch = 0
  MaxCrashes = 0
  MaxCancels = 1
  MaxEvents = 1
SPECIFICATION Spec
PROPERTIES CancelledStays
\* A run that has ended takes no more steps.
CHECK_DEADLOCK FALSE
