CONSTANTS
  Customers = {c1}
  Capacity = 1
  MaxPayments = 1
  MaxFaults = 1
  Overtaking = FALSE
SPECIFICATION Spec
CHECK_DEADLOCK FALSE
INVARIANTS
  GrantedOnce
