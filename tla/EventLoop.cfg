CONSTANTS
  Callers = {c1, c2}
  Tasks = {t1, t2, t3}
  Channels = {io}
  EventFd = efd
SPECIFICATION Spec
CHECK_DEADLOCK FALSE
INVARIANTS
  TypeOK
  NoLostWakeup
  ExactlyOnceInOrder
PROPERTIES
  QuitStopsLoop
  ImplementsTaskQueue
