CONSTANTS
  p1 = p1
  p2 = p2
  p3 = p3
  a = a
  b = b
  c = c
  Procs <- ThreeProcs
  Ids = {a, b, c}
  Id <- ThreeIds
  Absent = Absent
  GOSSIP_HEARTBEAT_FANOUT = 2
  GOSSIP_HEARTBEAT_TIMEOUT = 10
  Deadline = 26
  MaxStops = 1
  LastStop = 1
  Links <- NoLinks
  MaxSeq = 31
  MaxCalls = 4
SPECIFICATION TimedSpec
INVARIANTS StoppedAreForgotten SuspectsAreDown DetectionInv
SYMMETRY Renamings
CHECK_DEADLOCK FALSE
