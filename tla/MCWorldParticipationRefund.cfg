CONSTANTS
  Customers = {c1}
  Capacity = 1
  MaxPayments = 2
  MaxFaults = 0
  Overtaking = FALSE
SPECIFICATION Spec
CHECK_DEADLOCK FALSE
INVARIANTS
  ReversedHasNoAccess
