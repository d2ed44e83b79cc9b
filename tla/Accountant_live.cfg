SPECIFICATION FairSpec
CONSTANTS
  k1 = k1
  k2 = k2
  a = a
  b = b
  s1 = s1
  s2 = s2
  Keys = {k1, k2}
  NoKey = NoKey
  Honest = {k1, k2}
  Candidates = {a, b}
  OpenKeys = {s1}
  Counters = {0, 1, 2, 3}
  SentCounters = {1, 2}
  Opened = 3
  Ids = {1, 2}
  Null = Null
  Modes <- AllModes
  Faults = {}
INVARIANTS
  CountedIsFlagged
PROPERTIES
  VotesGetOpened
