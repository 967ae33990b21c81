SPECIFICATION FairSpec
CONSTANTS
  NFiles = 3
  NChunks = 2
  Jobs <- SafeJobs
INVARIANTS
  TypeOK
  SafeRemoval
  FullMeansComplete
PROPERTIES
  ForeignTargetUntouched
  AbortSticks
  Terminates
