\* One client replying, three parks: a reply can meet a later park than the
\* one it was meant for.
CONSTANTS
  Replies = {r1}
  MaxParks = 3
SPECIFICATION FairSpec
CHECK_DEADLOCK FALSE
INVARIANTS
  FailureIsNeverRefused
PROPERTIES
  WokenRowIsNotParked
  RunEnds
  RowSettles
