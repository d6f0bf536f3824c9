\* Four tasks: the depth cap, the pacing ceiling and the timeout all bite.
\* No symmetry: some of the properties are temporal.
CONSTANTS
  Tasks = {t1, t2, t3, t4}
  Capacity = 2
  MaxDepth = 2
SPECIFICATION FairSpec
CHECK_DEADLOCK FALSE
INVARIANTS
  Pacing
PROPERTIES
  Fifo
  NobodyWaitsForEver
