SPECIFICATION FairSpec
CONSTANTS
  N = 1
  MaxPress = 2
  Worlds <- ErrorWorlds
PROPERTIES
  EveryCallReturns
CHECK_DEADLOCK FALSE
