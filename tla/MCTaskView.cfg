CONSTANTS
  a = a
  b = b
  Tasks = {a, b}
  Spawned = {b}
  MaxTicks = 1
  MaxAsks = 1
  MaxLists = 1
  MaxFrames = 3
  MaxCalls = 1
  MaxDrops = 1
SPECIFICATION ViewSpec
CHECK_DEADLOCK FALSE
INVARIANTS
  EachTickOnce
  DetailIsForSelection
PROPERTIES
  ViewConverges
