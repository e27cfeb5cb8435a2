SPECIFICATION Spec
CONSTANTS
  Requests <- ManyBlocks
  Alignment = 16
  MaxHeader = 16777216
  Word = 1000000000
  MaxDigits = 9
INVARIANT PlanningReachesFixedPoint
CHECK_DEADLOCK FALSE
