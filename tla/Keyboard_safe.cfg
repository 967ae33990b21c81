SPECIFICATION FairSpec
CONSTANTS
  Bytes = {"ESC", "[", "A", "1", "~", "x", " "}
  Esc = "ESC"
  Blank = " "
  Digits = {"1"}
  Defs <- Known3
  SEQ_BUFFER_LEN = 5
  Paranoia = 9
  Worlds <- SafeWorlds
  MaxKeys = 3
INVARIANTS
  TypeOK
  NoGarbage
PROPERTIES
  EveryKeyArrives
CHECK_DEADLOCK FALSE
