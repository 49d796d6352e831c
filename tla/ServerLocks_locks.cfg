SPECIFICATION Spec
CONSTANTS
  Servers = {s1, s2}
  Workers = {w1, w2}
  Requests <- AllRequests
  None = None
INVARIANTS TypeOK RacesKnown OnlyKillDeadlocks
SYMMETRY Renamings
CHECK_DEADLOCK FALSE
