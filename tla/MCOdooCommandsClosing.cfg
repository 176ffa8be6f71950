CONSTANTS
  a = a
  b = b
  d = d
  e = e
  p = p
  x = x
  z = z
  Commands = {a, x}
  Kind <- Closing
  Foreign = {}
  Before <- AdminFirst
  Workers = {w1}
SPECIFICATION FairSpec
PROPERTIES
  ResultsArrive
