CONSTANTS
  Items <- MCItems
  Concurrency = 2
  MaxFailures = 1
SPECIFICATION Spec
CHECK_DEADLOCK FALSE
INVARIANTS
  ConcurrencyHeld
  FinalStatusIsTrue
PROPERTIES
  ImplementsItemLife
  BatchSettles
