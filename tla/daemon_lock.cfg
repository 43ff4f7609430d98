SPECIFICATION MCSpec
CONSTANTS
  Proc = {p1, p2, p3, p4}
  None = None
  Stale = Stale
  MaxKills = 3
INVARIANTS LockInv OneMutatingDaemon ServesItsPath
PROPERTY StaleSocketRecovered
