SPECIFICATION Spec
CONSTANTS
  Value = {0, 2}
  ConstValue = {0}
  Zero = 0
  ZeroValue = {0}
  Null = Null
  Wide = Wide
  InputLen = 2
  Input <- MCInput
  MemSize = 3
  MaxLen = 2
  MaxStale = 1
  kPageSize = 2
  LittleEndian = TRUE
  b1 = b1
  w1 = w1
  Reg <- MCReg
  Width <- MCWidth
  Sign <- MCSign
  Op <- MCOp
INVARIANTS
  TypeOK
  ShadowDescribesMemory
  ExprDescribesRegister
  ConcreteRunHasNoShadow
