\* No symmetry: one of the properties is temporal.
CONSTANTS
  Clients = {k1, k2}
  MaxReplies = 2
  MaxControls = 1
  MaxBoots = 1
  MaxFailures = 1
SPECIFICATION Spec
CHECK_DEADLOCK FALSE
INVARIANTS
  OneAnswerPerPark
  EndsAsAnnounced
PROPERTIES
  TaskSettles
