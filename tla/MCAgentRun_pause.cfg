\* One run that may pause twice, two workers; nothing is killed.
CONSTANTS
  r1 = r1
  r2 = r2
  w1 = w1
  w2 = w2
  Runs = {r1}
  Workers = {w1, w2}
  NoRun = NoRun
  MaxCalls = 2
  MaxTurns = 2
  MaxMsgs = 1
  Redispatch = FALSE
  LeaseLoss = FALSE
  Errors = TRUE
  Crash = FALSE
SPECIFICATION Spec
SYMMETRY WorkersSym
INVARIANTS TypeOK WaitingHasPendingCall QueuedIsDispatched PayloadIsCurrent StoppedNotActionable
\* Every run may end and no new one come: the system may stop.
CHECK_DEADLOCK FALSE
