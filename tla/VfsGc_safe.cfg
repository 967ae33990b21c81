SPECIFICATION FairSpec
CONSTANTS
  FS = {"a", "b", "c"}
  Local = "local"
  Outer <- Nesting
  MaxFiles = 1
  Worlds <- SafeWorlds
INVARIANTS
  TypeOK
  NothingOpenFreed
PROPERTIES
  UnusedIsFreed
CHECK_DEADLOCK FALSE
