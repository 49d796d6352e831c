CONSTANTS
  p1 = p1
  p2 = p2
  p3 = p3
  a = a
  b = b
  c = c
  Procs <- ThreeProcs
  Ids = {a, b, c}
  Id <- ThreeIds
  Absent = Absent
  GOSSIP_HEARTBEAT_FANOUT = 2
  Links <- NoLinks
  MaxSeq = 1
  MaxCalls = 2
SPECIFICATION FairSpec
PROPERTY JoinsSucceed
CHECK_DEADLOCK FALSE
