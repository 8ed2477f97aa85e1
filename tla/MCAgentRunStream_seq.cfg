CONSTANTS
  Publishers = {p1, p2}
  p1 = p1
  p2 = p2
  MaxSeq = 4
  Window = 2
  MaxReconnects = 2
  Overlap = FALSE
SPECIFICATION Spec
\* Publishers leave and the client is done: the instance may stop.
CHECK_DEADLOCK FALSE
INVARIANTS NoGapNoRepeat NothingMissed
PROPERTY StreamTerminates
