CONSTANTS
  p1 = p1
  p2 = p2
  p3 = p3
  a = a
  b = b
  c = c
  Procs <- ThreeProcs
  Ids = {a, b}
  Id <- RestartIds
  Absent = Absent
  GOSSIP_HEARTBEAT_FANOUT = 2
  Links <- OneLink
  MaxSeq = 3
  MaxCalls = 1
SPECIFICATION Spec
INVARIANT MembersInv
PROPERTY EntriesChangeByNews
CHECK_DEADLOCK FALSE
