CONSTANTS
  RtuLength = 13
  TcpLength = 19
  Indexes = {0, 1, 8}
  ByteValues <- SomeBytes
  WordValues <- SomeWords
  Frames <- SomeFrames
  MaxCalls = 5
SPECIFICATION Spec
INVARIANTS
  TypeOK
  ReadsBack
  FrameComplete
CHECK_DEADLOCK FALSE
