CONSTANTS
  ThreadNum = 3
  GiveMax = 3
SPECIFICATION Spec
CHECK_DEADLOCK FALSE
INVARIANTS
  TypeOK
  StartedLoopsRun
  LoopsTakeTurns
PROPERTY
  CallsReturn
