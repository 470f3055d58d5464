SPECIFICATION Spec
CONSTANTS
  InputSpace = {i1, i2, i3, i4}
  NumCases = 3
  MaxDecisions = 3
  NoSwitch = NoSwitch
INVARIANTS
  InputSatisfiesPath
  SolverHoldsPathCondition
  EveryAlternativeGenerated
  GeneratedInputsDiverge
  InternalAssertionsHold
SYMMETRY InputSymmetry
CHECK_DEADLOCK FALSE
