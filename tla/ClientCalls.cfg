SPECIFICATION FairSpec
CONSTANTS
  p1 = p1
  p2 = p2
  p3 = p3
  p4 = p4
  id1 = id1
  id2 = id2
  id3 = id3
  Processes <- FourProcesses
  Ids <- ThreeIds
  IdOf <- StartedAs
  MaxCommands = 2
  None = None
INVARIANTS TypeOK DoneIsStored FailedReachesNone StoredAgainOnlyIfLost
PROPERTIES LoopAdvances CommandsEnd
CHECK_DEADLOCK FALSE
