CONSTANTS
  Rows = {r1, r2}
  Once = {r1}
  Ticks = {t1, t2}
  Period = 1
  MaxTime = 1
  MaxBoots = 1
  MaxToggles = 1
  MaxFailures = 1
SPECIFICATION Spec
CHECK_DEADLOCK FALSE
INVARIANTS
  OneExtraFirePerRestart
  RunningHasOneOwner
PROPERTIES
  DueRowIsServed
