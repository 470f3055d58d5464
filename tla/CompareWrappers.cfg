SPECIFICATION CompareSpec
CONSTANTS
  Char = {0, 65, 66, 97, 98}
  ConstChar = {0, 66, 97}
  InputLen = 1
  BufferSize = 3
  MaxLen = 4
  None = None
INVARIANTS
  InputAgreesWithPush
  ConstraintIsOutcome
CHECK_DEADLOCK FALSE
