SPECIFICATION Spec
CONSTANTS
  File = {1, 2}
  Proper = {1, 2}
  NewCoverage = {2}
  FromSeed = {1}
  Size <- MCSize
  Edge = {e1, e2}
  MaxTests = 2
  Partial = Partial
  None = None
INVARIANTS
  CoverageIsQueued
  QueuedTestcasesAreNew
  CrashesAreQueued
  EachInputCountedOnce
  NewCoverageFirst
PROPERTIES
  TestcasesAreKept
  EveryInputAnalyzed
\* The helper stops at the first error that it does not handle.
CHECK_DEADLOCK FALSE
