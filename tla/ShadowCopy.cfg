SPECIFICATION Spec
CONSTANTS
  kPageSize = 2
  Null = Null
  MemSize = 4
  MaxLen = 3
  Expr = {e1, e2}
  Idle = Idle
INVARIANTS
  PointersInPage
  ReadsOldExpression
PROPERTY ImplementsFlatShadow
