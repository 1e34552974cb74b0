SPECIFICATION FairSpec
CONSTANTS
  s1 = s1
  s2 = s2
  Sub = {s1}
  Log <- TwoBlocks
  FromLatest = {}
  BatchSize = 2
  SkipOnError = TRUE
  MaxSuspends = 2
  MaxUpdates = 1
  MaxCrashes = 1
  MaxFailures = 0
INVARIANTS
  TypeOK
  InFlightCovers
PROPERTIES
  NoDuplicateDelivery
  SuspendSettles
\* An update may never return, and a failed one leaves the stream stopped.
CHECK_DEADLOCK FALSE
