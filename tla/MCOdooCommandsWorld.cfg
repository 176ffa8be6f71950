CONSTANTS
  a = a
  b = b
  d = d
  e = e
  p = p
  x = x
  z = z
  Commands = {z, x, e, d, b}
  Kind <- WholeLife
  Foreign = {b}
  Before <- LifeOrder
  Workers = {w1}
SPECIFICATION Spec
INVARIANTS
  SealedWithReceipt
  PartialWorldIsRetried
