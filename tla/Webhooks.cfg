SPECIFICATION FairSpec
CONSTANTS
  r1 = r1
  r2 = r2
  r3 = r3
  Client = {r1, r2, r3}
  NoAck = {r2}
  Mode = {"kafka", "direct"}
  Store = {"memory", "mongo"}
  MaxInFlight = 1
  MaxDocs <- Limits
  Limit = 1
  Asking <- TwoOrThree
  Paging <- DirectMemory
  MaxReplies = 2
  MaxCrashes = 1
  MaxFailures = 1
INVARIANTS
  TypeOK
  AckIsOwnOutcome
  NothingLeaks
  MemoryKeepsLatest
  PagesMissNothing
PROPERTIES
  HandlersReturn
  RepliesAreStored
CHECK_DEADLOCK FALSE
