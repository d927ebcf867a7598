CONSTANTS
  Values = {0, 1}
  DeviceSize = 3
  MaxCount = 2
  Setups <- PduSlave
SPECIFICATION Spec
INVARIANT ReadThrough

