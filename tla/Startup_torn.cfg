SPECIFICATION FairStart
CONSTANTS
  g1 = g1
  g2 = g2
  g3 = g3
  g4 = g4
  g5 = g5
  g6 = g6
  g7 = g7
  KeyPairs = {g1, g2, g3, g4, g5, g6, g7}
  Null = Null
  MaxCrashes = 1
  Faults = {}
PROPERTIES
  ComesUp
