CONSTANTS
  Publishers = {p1, p2}
  p1 = p1
  p2 = p2
  MaxSeq = 3
  Window = 2
  MaxReconnects = 0
  Overlap = TRUE
SPECIFICATION Spec
\* Publishers leave and the client is done: the instance may stop.
CHECK_DEADLOCK FALSE

PROPERTY StreamTerminates
