SPECIFICATION FairSpec
CONSTANTS
  t1 = t1
  t2 = t2
  t3 = t3
  t4 = t4
  p1 = p1
  p2 = p2
  NoTask = NoTask
  NoNumber = NoNumber
  Tasks = {t1, t2, t3, t4}
  Replicas = {p1, p2}
  Home <- MCHome
  BlockSize = 2
INVARIANTS
  Ownership
  UniqueNumbers
  BlocksDisjoint
PROPERTIES
  EveryCallEnds
