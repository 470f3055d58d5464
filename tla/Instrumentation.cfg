SPECIFICATION Spec
CONSTANTS
  NumValues = 3
  Input = {0, 1}
  Actual = 0
  Null = Null
  Undef = Undef
INVARIANTS
  ExpressionsDenoteValues
  BuildersGetExpressions
  PathConditionIsPath
