CONSTANTS
  App = App
  Daemon = Daemon
  None = None
  m1 = m1
  m2 = m2
  n1 = n1
  n2 = n2
  Threads <- TwoThreads
  Masters <- TwoMasters
  Names <- TwoNames
  Named <- Numbers
SPECIFICATION Spec
SYMMETRY Alike
INVARIANTS
  TypeOK
  OwnUnit
  DevicesAlive
PROPERTIES
  ImplementsExchange
