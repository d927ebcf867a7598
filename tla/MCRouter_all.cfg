CONSTANTS
  N = 3
  Setups <- AllSetups
SPECIFICATION Spec
INVARIANTS
  TypeOK
  ServesThroughMasters
  ClosedRouterReleases
  OneWalker
CHECK_DEADLOCK FALSE
