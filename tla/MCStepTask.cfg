CONSTANTS
  Clients = {ext, web}
  Extensions = {ext}
  Gates <- PlainThenGated
  MaxBoots = 1
  MaxRuns = 2
  MaxCalls = 1
  MaxFailures = 1
SPECIFICATION StepSpec
CHECK_DEADLOCK FALSE
INVARIANTS
  SettledMeansReported
  GateNeedsItsOwnConfirm
