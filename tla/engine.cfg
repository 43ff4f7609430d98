SPECIFICATION FairSpec
CONSTANTS
  app = app
  db = db
  NoDef = NoDef
  Defs = {d1}
  Services <- OneServices
  Order <- OneOrder
  Names <- OneOrder
  DependsOn <- OneDependsOn
  Policy <- OnePolicy
  MAX_RESTART_ATTEMPTS = 2
  Faults = {"crash", "io", "install", "spawn", "proc", "wait", "ps", "kill", "signal", "linger"}
INVARIANT RestartDeadlineSound
PROPERTIES UnknownIsSticky ImplementsSessions Responsive OperationTerminates
