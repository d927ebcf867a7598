CONSTANTS
  IdCount = 3
  MaxSize = 4
  Setups <- AllSetups
SPECIFICATION LiveSpec
INVARIANTS
  TypeOK
  FrameSound
  CompleteWriteFails
  AttemptEnabled
  RetriesRepeat
PROPERTIES
  SendReturns
