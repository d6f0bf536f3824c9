\* Two tasks for one slot and one place in the queue: the second waits or is
\* refused.  No symmetry: some of the properties are temporal.
CONSTANTS
  Tasks = {t1, t2}
  MaxInstances = 1
  MaxDepth = 1
SPECIFICATION FairSpec
CHECK_DEADLOCK FALSE
INVARIANTS
  BrowsersBelongToRuns
PROPERTIES
  RefusedOnlyWhileDraining
  ImplementsTaskLife
  SlotIsReturned
  RowSettles
