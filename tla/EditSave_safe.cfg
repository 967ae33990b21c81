SPECIFICATION Spec
CONSTANTS
  Windows = {"w1", "w2"}
  Names = {"f", "g"}
  NoName = NoName
  MaxTexts = 2
  Worlds <- SafeWorlds
INVARIANTS
  TypeOK
  LockExclusive
  OriginalSurvives
PROPERTIES
  NoSilentOverwrite
  DeletesNoText
  ClosedMeansSaved
CHECK_DEADLOCK FALSE
