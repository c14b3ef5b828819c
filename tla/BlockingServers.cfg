CONSTANTS
  c1 = c1
  c2 = c2
  Programs = {"single", "fork", "pthread"}
  Clients <- TwoClients
  Main = main
  None = none
  EchoMax <- OneWritesMore
  SndCap = 1
  ReadSize = 2
SPECIFICATION Spec
CHECK_DEADLOCK FALSE
INVARIANTS
  TypeOK
  EchoIsExact
PROPERTIES
  EchoComesBack
  LeaversAreReleased
  InterruptStops
