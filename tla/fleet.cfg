SPECIFICATION FairSpec
CONSTANTS
  N = 3
  K = 2
  Faults = {"crash", "start", "stop", "exit", "signal"}
INVARIANTS UnharmedStacksRun NothingHalfResumed
PROPERTY DaemonServesAgain
