SPECIFICATION Spec
CONSTANTS
  Bytes = {"a", "b", "c", " "}
  Breaks = {" "}
  Keys <- ManyKeys
  Texts <- SomeTexts
  START_STACK_SIZE = 8
  max_undo = 16
  Slack = 5
  MaxOps = 5
INVARIANTS
  TypeOK
PROPERTIES
  UndoIsHistory
  UndoCanBeRedone
CHECK_DEADLOCK FALSE
