SPECIFICATION Spec
CONSTANTS
  Value = {0, 1, 2, 3, 4}
  ConstValue = {0, 1}
  Opaque = 0
  Failure = 4
  Null = Null
  Params = {0, 1}
  MaxDepth = 3
INVARIANTS
  ParametersDescribeArguments
  ResultsDescribeValues
PROPERTY OpaqueResultIsConcrete
