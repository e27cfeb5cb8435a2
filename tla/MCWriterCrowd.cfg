CONSTANTS
  c1 = c1
  c2 = c2
  c3 = c3
  NoName = NoName
  Absent = Absent
  Foreign = Foreign
  Calls = {c1, c2, c3}
  Names = {"a", "a.tmp", "a.b0", "a.b1"}
  Dest <- CrowdDest
  Temp <- CrowdTemp
  Blocks <- CrowdBlocks
  Plan <- CrowdPlan
  Faults = {"stop", "remove"}
SPECIFICATION FairSpec
INVARIANT NoMutualDefeat
PROPERTIES
  StopHonoured
  EveryCallReturns
CHECK_DEADLOCK FALSE
