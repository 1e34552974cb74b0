SPECIFICATION FairSpec
CONSTANTS
  Partition = {p1}
  LogEnd = 3
  MaxInFlight = 2
  Malformed <- OneMalformed
  MaxRebalances = 2
  MaxCrashes = 1
INVARIANTS
  TypeOK
  NoRequestLost
  ConfirmKnown
  NothingStranded
  NoLostWakeup
PROPERTIES
  ImplementsAtLeastOnce
  EveryRequestAnswered
  OffsetsReachEnd
  RebalanceCompletes
\* An idle bridge whose log is read to the end takes no step: it may stop.
CHECK_DEADLOCK FALSE
