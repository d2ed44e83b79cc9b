SPECIFICATION FairSpec
CHECK_DEADLOCK FALSE
CONSTANTS
  v1 = v1
  v2 = v2
  k1 = k1
  k2 = k2
  k3 = k3
  A = A
  B = B
  Null = Null
  Voters = {v1, v2}
  Keys = {k1, k2, k3}
  Candidates = {A, B}
  Choice <- MCChoice
  Phases <- MCPhases
INVARIANTS
  TypeOK
  BallotsAreBacked
  CountedAsChosen
PROPERTIES
  NoVoteAfterDisclosure
  EveryVoteIsCounted
