SPECIFICATION Spec
CONSTANTS
  Windows = {"w1", "w2"}
  Names = {"f", "g"}
  NoName = NoName
  MaxTexts = 2
  Worlds <- CancelWorlds
PROPERTIES
  CancelKeepsOpen
CHECK_DEADLOCK FALSE
