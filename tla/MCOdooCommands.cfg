CONSTANTS
  a = a
  b = b
  d = d
  e = e
  p = p
  x = x
  z = z
  Commands = {z, p}
  Kind <- NewWorld
  Foreign = {}
  Before <- NoOrder
  Workers = {w1, w2}
SPECIFICATION FairSpec
INVARIANTS
  TypeOK
  ToldOnce
  AcceptedMeansApplied
PROPERTIES
  EventuallySettled
  ResultsArrive
