CONSTANTS
  a = a
  b = b
  d = d
  e = e
  p = p
  x = x
  z = z
  Commands = {a, p}
  Kind <- Handled
  Foreign = {}
  Before <- NoOrder
  Workers = {w1}
SPECIFICATION Spec
INVARIANTS
  AppliedNeverRejected
