CONSTANTS
  c1 = c1
  c2 = c2
  c3 = c3
  NoName = NoName
  Absent = Absent
  Foreign = Foreign
  Calls = {c1, c2}
  Names = {"a", "a.tmp", "a.b0"}
  Dest <- PairDest
  Temp <- PairTemp
  Blocks <- PairBlocks
  Plan <- PairPlan
  Faults = {"alloc"}
SPECIFICATION Spec
INVARIANTS
  FailureLeavesNoDestination
CHECK_DEADLOCK FALSE
