SPECIFICATION FairSpec
CONSTANTS
  Servers = {s1, s2}
  Workers = {w1, w2}
  Requests <- FewRequests
  None = None
PROPERTY WaitingEnds
CHECK_DEADLOCK FALSE
