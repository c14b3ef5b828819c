CONSTANTS
  Conns = {c1, c2}
  Fds = {f1}
  MainLoop = main
  s1 = s1
  s2 = s2
  SubLoops <- TwoSubs
  EventFd = efd
  Listener = listener
  None = none
SPECIFICATION Spec
CHECK_DEADLOCK FALSE
PROPERTIES
  LeaversAreReleased
  InterruptEndsServer
