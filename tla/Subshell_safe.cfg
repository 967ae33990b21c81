SPECIFICATION FairSpec
CONSTANTS
  Dirs = {"home", "work"}
  Home = "home"
  Worlds <- SafeWorlds
  MaxOps = 3
  MaxLines = 1
  MaxDeaths = 1
INVARIANTS
  TypeOK
  InactiveAwaits
PROPERTIES
  CommandInPanelDir
  UserNotInterrupted
  EveryCallReturns
