SPECIFICATION FairSpec
CONSTANTS
  N = 2
  MaxPress = 2
  Worlds <- SafeWorlds
INVARIANTS
  TypeOK
  ListShowsJobs
  OrderlyEnds
PROPERTIES
  AnsweredByTheUser
  EveryCallReturns
CHECK_DEADLOCK FALSE
