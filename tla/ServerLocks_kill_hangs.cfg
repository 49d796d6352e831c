SPECIFICATION FairSpec
CONSTANTS
  Servers = {s1, s2}
  Workers = {w1}
  Requests <- OnlyKill
  None = None
PROPERTY KillEnds
CHECK_DEADLOCK FALSE
