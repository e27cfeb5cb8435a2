SPECIFICATION Spec
CONSTANTS
  Families <- Together
  Alphabet <- Characters
  Letters = {" ", "A"}
  MaxElements = 3
  MaxLength = 5
  MaxText = 3
  MaxEncoded = 5
  MaxBytes <- Limits
  MaxValue = 2
  MaxTableText = 2
  MaxExtension = 2
INVARIANTS TypeOK BlocksAreTheirText TextGoesHome
CHECK_DEADLOCK FALSE
