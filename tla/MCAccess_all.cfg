CONSTANTS
  LittleHost = TRUE
  Byte <- Bytes
  Kinds <- AllKinds
  Docs <- AllDocs
  Ids <- SomeIds
  Names = {"a", "b"}
  MaxGroups = 3
  MaxEntries = 2
  Heap <- Garbage
  UintEnd = 3000000
  Times <- SomeTimes
  Retries <- TimeDocs
  Timed <- TimeDocs
  Samples <- SomeSamples
  Shapes <- SomeShapes
  Accessed <- DataDocs
  MaxPdu = 6
  Reports <- SomeReports
  IdTypes <- SomeIdTypes
  Reported <- ReportDocs
SPECIFICATION ReportSpec
INVARIANTS
  TypesOK
  AsFarAsRead
  TimeoutsAsAsked
  DataReadsBack
  ReportAsGiven
PROPERTY ValuesInPlace
