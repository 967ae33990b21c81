SPECIFICATION FairSpec
CONSTANTS
  Names <- NameSet
  Late = "late"
  Copied = "copied"
  Jobs <- SafeJobs
  MaxDepth = 4
INVARIANTS
  TypeOK
  GoneForAReason
  SilenceMeansDone
PROPERTIES
  AbortSticks
  Terminates
CHECK_DEADLOCK FALSE
