\* One command and one round on two workers; a kill or lost lease, an early expiry.
CONSTANTS
  Workers = {w1, w2}
  Jobs = {j1}
  Rounds = {r1}
  MaxResets = 1
  MaxPreps = 2
  MaxFaults = 1
  MaxLapses = 1
SPECIFICATION Spec
SYMMETRY Symmetry
INVARIANTS TypeOK ReadyIsPrepared NoStaleWriter RoundKeepsItsWork EpochFences
PROPERTIES ImplementsJob
\* The one command and the one round end and the session expires.
CHECK_DEADLOCK FALSE
