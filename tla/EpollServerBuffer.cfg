CONSTANTS
  Programs = {"skel", "lt", "et", "buffer"}
  c1 = c1
  c2 = c2
  Clients <- TwoClients
  Fds = {f1}
  Listener = listener
  None = none
  EchoMax <- OneWritesMore
  RcvCap = 2
  SndCap = 1
  ReadSize = 2
SPECIFICATION Spec
CHECK_DEADLOCK FALSE
INVARIANTS
  TypeOK
  EchoIsComplete
  NoEdgeMissed
PROPERTY
  EchoComesBack
