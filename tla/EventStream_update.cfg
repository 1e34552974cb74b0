SPECIFICATION FairSpec
CONSTANTS
  s1 = s1
  s2 = s2
  Sub = {s1}
  Log <- OnePerBlock
  FromLatest = {}
  BatchSize = 1
  SkipOnError = FALSE
  MaxSuspends = 0
  MaxUpdates = 1
  MaxCrashes = 0
  MaxFailures = 0
PROPERTY
  UpdateReturns
\* The update waits for a goroutine that waits itself.
CHECK_DEADLOCK FALSE
