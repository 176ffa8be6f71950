CONSTANTS
  a = a
  b = b
  d = d
  e = e
  p = p
  x = x
  z = z
  Commands = {z, p}
  Kind <- NewWorld
  Foreign = {}
  Before <- NoOrder
  Workers = {w1}
SPECIFICATION Spec
INVARIANTS
  PartialWorldNeverGivenUp
