SPECIFICATION Spec
CONSTANTS
  app = app
  db = db
  NoDef = NoDef
  Defs = {d1}
  Services <- TwoServices
  Order <- TwoOrder
  Names <- TwoNames
  DependsOn <- TwoDependsOn
  Policy <- TwoPolicy
  MAX_RESTART_ATTEMPTS = 1
  Faults = {"install"}
INVARIANT InstallAmbiguityReported
