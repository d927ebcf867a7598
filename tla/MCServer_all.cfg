CONSTANTS
  c1 = c1
  c2 = c2
  Bus = Bus
  None = None
  Clients <- TwoClients
  Setups <- AllSetups
SPECIFICATION TalkativeSpec
INVARIANTS
  TypeOK
  ReqExclusive
  PromiseSetOnce
  ClosedIsQuiet
  StepsEnabled
PROPERTIES
  RequestNotDropped
  DaemonRecovery
  TerminateReturns
  LinkRecovered
  RequestRead
CHECK_DEADLOCK FALSE
