CONSTANTS
  a = a
  b = b
  d = d
  e = e
  p = p
  x = x
  z = z
  Commands = {x, a, e}
  Kind <- Late
  Foreign = {}
  Before <- CloseFirst
  Workers = {w1}
SPECIFICATION FairSpec
PROPERTIES
  EntitlementsAreServed
