CONSTANTS
  MaxItems = 4
  MaxStart = 1
  Values = {0, 1}
  Setups <- AllSetups
SPECIFICATION Spec
INVARIANTS
  TypeOK
  BlockAllocated
PROPERTIES
  ResizeSound
