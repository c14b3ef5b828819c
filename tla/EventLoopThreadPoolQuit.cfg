CONSTANTS
  ThreadNum = 3
  GiveMax = 3
SPECIFICATION SafeSpec
CHECK_DEADLOCK FALSE
INVARIANT QuitFindsLoop
