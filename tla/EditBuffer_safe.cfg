SPECIFICATION Spec
CONSTANTS
  Bytes = {"x", "nl"}
  Newline = "nl"
  BufSize = 3
  MaxLength = 7
INVARIANTS
  TypeOK
  WritesTheText
PROPERTIES
  IsText
CHECK_DEADLOCK FALSE
