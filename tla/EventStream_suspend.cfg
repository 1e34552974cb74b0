SPECIFICATION Spec
CONSTANTS
  s1 = s1
  s2 = s2
  Sub = {s1}
  Log <- OnePerBlock
  FromLatest = {}
  BatchSize = 1
  SkipOnError = FALSE
  MaxSuspends = 1
  MaxUpdates = 0
  MaxCrashes = 0
  MaxFailures = 0
INVARIANT
  CheckpointBehindDelivery
