CONSTANTS
  c1 = c1
  c2 = c2
  Bus = Bus
  None = None
  Clients <- TwoClients
  Setups <- RunTcp
SPECIFICATION LiveSpec
PROPERTY TerminateAlwaysReturns
CHECK_DEADLOCK FALSE
