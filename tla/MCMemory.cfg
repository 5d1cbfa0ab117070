SPECIFICATION FairSpec
CONSTANTS
  Keys = {k1, k2, k3}
  Contents = {c1, c2}
  Tasks = {t1, t2}
  Evictor = Evictor
  Total = 3
  Threshold = 66
  None = None
INVARIANTS
  TypeOK
  LeastRecentlyUsedGoFirst
PROPERTIES
  ImplementsForgetful
  LockIsReleased
  RiseIsActedOn
