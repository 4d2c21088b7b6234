SPECIFICATION Spec
CONSTANTS
  Threads = {t1, t2}
  Quota = 2
CHECK_DEADLOCK FALSE
INVARIANTS
  TypeOK
PROPERTIES
  ImplementsChannel
  DestructorReturns
