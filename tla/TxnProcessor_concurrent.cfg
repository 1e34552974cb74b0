SPECIFICATION FairSpec
CONSTANTS
  a1 = a1
  a2 = a2
  Context = {c1, c2, c3}
  Address = {a1}
  Requests <- SentRequests
  InitialCount = 1
  SendConcurrency = 2
  AttemptGapFill = TRUE
  MaxCallers = 2
  MaxRetries = 0
INVARIANTS
  TypeOK
  AtMostOneReply
  TrackedWhileInFlight
  MemoryNoncesDistinct
PROPERTY
  EveryMessageAnswered
\* Once every request is answered no step is left.
CHECK_DEADLOCK FALSE
