SPECIFICATION Spec
CONSTANTS
  Ordinary = {"x", "y"}
  MaxLength = 5
INVARIANTS
  SuccessIsConverted
CHECK_DEADLOCK FALSE
