SPECIFICATION Spec
CONSTANTS
  Names = {1, 2, 3, 4}
  Volumes = {"data"}
  Bind = "bind"
  Components = {"a", "b"}
  Entries <- MCEntries
INVARIANTS AcceptsExactly DependenciesStartFirst StableOrder CycleReport
CHECK_DEADLOCK FALSE
