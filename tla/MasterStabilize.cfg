CONSTANTS
  s1 = s1
  s2 = s2
  s3 = s3
  k1 = k1
  Servers = {s1, s2, s3}
  Keys = {k1}
  Networks <- OnlyLine
  Stores <- OneNewest
  LateWrites <- OneLate
  MaxCrashes = 2
  None = None
SPECIFICATION FairSpec
INVARIANTS TypeOK StaysInPartition EndMeansPropagated ReportsAreTrue NeverStuck
PROPERTIES CommandAdvances EndsUnlessUndialled
CHECK_DEADLOCK FALSE
