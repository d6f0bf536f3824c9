CONSTANTS
  m = m
  b = b
  c1 = c1
  c2 = c2
  c3 = c3
  Calls = {c1, c2, c3}
  Users = {m, b}
  Bypass = {b}
  Cap <- MCCap
  Depth = 2
  TaskLimit = 1
  OpusLimit = 0
  RateMax = 1
  Window = 1
  MaxPeriods = 1
  MaxGrants = 1
  MaxTime = 2
  MaxWrites = 1
SYMMETRY CallSymmetry
SPECIFICATION AdmissionSpec
CHECK_DEADLOCK FALSE
INVARIANTS
  CapHeldWithoutOverlap
  RateHeld
