CONSTANTS
  Workers = {w1, w2}
  MessageSize = 3
  SndCap = 2
  MaxRounds = 2
SPECIFICATION Spec
CHECK_DEADLOCK FALSE
INVARIANTS
  TypeOK
  AnswersAreOwn
  ReportAddsUp
PROPERTY
  RunReturns
