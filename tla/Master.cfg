CONSTANTS
  Procs = {p1, p2, p3}
  Ids = {a, b, c}
  None = None
SPECIFICATION Spec
INVARIANTS TypeOK BrokenAtBothEnds PanicsOnlyOnLost AddressesMatch
SYMMETRY Renamings
CHECK_DEADLOCK FALSE
