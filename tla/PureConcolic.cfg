SPECIFICATION Spec
CONSTANTS
  Content = {1, 2, 3, 4}
  Name = {"a", "ab", "h2"}
  Hash <- MCHash
  Occurs <- MCOccurs
  TestCases <- MCTestCases
  Absent = Absent
PROPERTIES
  EveryInputIsRun
  GeneratedInputsAreRun
