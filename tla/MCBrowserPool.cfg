\* Three tasks for two slots: one more than the pool can hold.
\* No symmetry: some of the properties are temporal.
CONSTANTS
  Tasks = {t1, t2, t3}
  MaxInstances = 2
SPECIFICATION FairPoolSpec
CHECK_DEADLOCK FALSE
INVARIANTS
  LeftoversOnlyFromFailedSpawns
PROPERTIES
  IdleIsReclaimed
  ImplementsSlotLease
