SPECIFICATION FairSpec
CONSTANTS
  c1 = c1
  c2 = c2
  Free = Free
  Clients = {c1, c2}
  FileSize = 9
  Plans <- Combinations
  Chunk = 3
  MaxChanges = 1
  MayStop = {c1, c2}
  Damage = {2, 4, 6, 7}
INVARIANTS TypeOK ReadsOwnBlock VerifiedBytes KeepsDestination FailsOnItsOwn
PROPERTY EveryReadEnds
CHECK_DEADLOCK FALSE
