SPECIFICATION Spec
CONSTANTS
  Images <- Pictures
  MaxChanges = 2
  Faults = {"stop", "io", "codec", "sink", "limit"}
INVARIANTS TypeOK SuccessIsVerified DamageFoundFirst RowsInOrder
PROPERTY StopHonoured
CHECK_DEADLOCK FALSE
