\* One run that may pause, two workers; workers and endpoints are killed.
CONSTANTS
  r1 = r1
  r2 = r2
  w1 = w1
  w2 = w2
  Runs = {r1}
  Workers = {w1, w2}
  NoRun = NoRun
  MaxCalls = 1
  MaxTurns = 2
  MaxMsgs = 1
  Redispatch = FALSE
  LeaseLoss = FALSE
  Errors = TRUE
  Crash = TRUE
SPECIFICATION FairSpec
PROPERTIES FinalAnswerKept LostWorkerSwept
\* Every run may end and no new one come: the system may stop.
CHECK_DEADLOCK FALSE
