CONSTANTS
  k1 = k1
  k2 = k2
  b1 = b1
  b2 = b2
  Callers = {k1, k2}
  Bodies = {b1, b2}
  SlowDispatch = TRUE
  MaxTasks = 3
  MaxExpiries = 1
  MaxFailures = 2
SPECIFICATION Spec
CHECK_DEADLOCK FALSE
INVARIANTS
  OneTaskPerKey
  OwnTaskUntilStolen
PROPERTIES
  RetriesAreServed
