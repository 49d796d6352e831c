CONSTANTS
  s1 = s1
  s2 = s2
  c1 = c1
  c2 = c2
  Servers <- TwoServers
  Pid <- TwoPids
  Recorded <- TwoRecorded
  Links <- OneWayLinks
  Clients = {c1}
  Keys = {k1}
  GOSSIP_HEARTBEAT_FANOUT = 2
  MaxPuts = 2
  MaxClock = 4
  MaxBeats = 1
  Width = 10
  MaxSnapshots = 1
SPECIFICATION Spec
INVARIANTS TypeOK NoThinAir AgreesUnlessBack ReadsOwnUnlessBack
PROPERTIES OnlyOwnPutsRegress TokenRegressesOnlyAtPuts BackOnlyBehind
