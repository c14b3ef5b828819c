CONSTANTS
  EchoMax = 3
  MsgMax = 2
  MsgLen = 2
  RcvCap = 2
  SndCap = 2
  ReadSize = 1
SPECIFICATION Spec
CHECK_DEADLOCK FALSE
INVARIANTS
  TypeOK
  EchoIsExact
  MessagesIntact
  InterestFollowsOutput
PROPERTIES
  ImplementsEchoStream
  CloseIsFinished
