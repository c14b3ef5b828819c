CONSTANTS
  Conns = {c1, c2}
  Fds = {f1}
  MainLoop = main
  s1 = s1
  s2 = s2
  SubLoops <- TwoSubs
  EventFd = efd
  Listener = listener
  None = none
SPECIFICATION SafeSpec
CHECK_DEADLOCK FALSE
INVARIANT NoUseAfterFree
