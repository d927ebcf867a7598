CONSTANTS
  MaxItems = 4
  MaxStart = 1
  Values = {0, 1}
  Setups <- Registers
SPECIFICATION Spec
INVARIANTS
  WritesStayInBlock
