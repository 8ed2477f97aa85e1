\* Queued runs are published again; processes are killed.
CONSTANTS
  r1 = r1
  r2 = r2
  w1 = w1
  w2 = w2
  Runs = {r1}
  Workers = {w1, w2}
  NoRun = NoRun
  MaxCalls = 0
  MaxTurns = 1
  MaxMsgs = 2
  Redispatch = TRUE
  LeaseLoss = FALSE
  Errors = TRUE
  Crash = TRUE
SPECIFICATION Spec
SYMMETRY WorkersSym
INVARIANTS OneActiveWorker
PROPERTIES ImplementsLifecycle
\* Every run may end and no new one come: the system may stop.
CHECK_DEADLOCK FALSE
