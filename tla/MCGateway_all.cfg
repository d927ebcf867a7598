CONSTANTS
  Values = {0, 1}
  DeviceSize = 2
  MaxCount = 2
  Setups <- AllSlaves
SPECIFICATION Spec
INVARIANTS TypeOK TransfersInBlock ReadAsAsked
PROPERTIES WriteAsAsked
