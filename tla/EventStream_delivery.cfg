SPECIFICATION FairSpec
CONSTANTS
  s1 = s1
  s2 = s2
  Sub = {s1, s2}
  Log <- TwoSubs
  FromLatest = {}
  BatchSize = 2
  SkipOnError = FALSE
  MaxSuspends = 0
  MaxUpdates = 0
  MaxCrashes = 1
  MaxFailures = 1
INVARIANT
  CheckpointBehindDelivery
PROPERTY
  EveryEventDelivered
