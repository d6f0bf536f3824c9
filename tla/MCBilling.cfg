CONSTANTS
  p1 = p1
  p2 = p2
  c1 = c1
  c2 = c2
  PaypalSubs = {p1}
  PaypalAddons = {p2}
  CnSubs = {c1}
  CnAddons = {c2}
  MaxCaptures = 2
  MaxFailures = 1
SPECIFICATION Spec
CHECK_DEADLOCK FALSE
INVARIANTS
  NeverOverCredited
  NothingWithoutPayment
PROPERTIES
  CapturedPaymentCompletes
