CONSTANTS
  Customers = {c1, c2}
  Capacity = 1
  MaxPayments = 1
  MaxFaults = 1
  Overtaking = TRUE
SPECIFICATION FairSpec
CHECK_DEADLOCK FALSE
INVARIANTS
  TypeOK
  CapacityRespected
PROPERTIES
  EveryRequestIsAnswered
