CONSTANTS
  Customers = {c1}
  Capacity = 1
  MaxPayments = 1
  MaxFaults = 0
  Overtaking = TRUE
SPECIFICATION FairSpec
CHECK_DEADLOCK FALSE
PROPERTIES
  NoRequestIsLeft
