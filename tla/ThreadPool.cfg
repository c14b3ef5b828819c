CONSTANTS
  Workers = {w1, w2}
  Owner = owner
  Tasks = {t1, t2, t3}
  None = none
SPECIFICATION Spec
CHECK_DEADLOCK FALSE
INVARIANTS
  TypeOK
  TakenInOrder
  AcceptedHaveRun
PROPERTIES
  AcceptedAreRun
  DestructorReturns
