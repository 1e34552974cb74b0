SPECIFICATION Spec
CONSTANTS
  a1 = a1
  a2 = a2
  Context = {c1, c2}
  Address = {a1}
  Requests <- OnlyManaged
  InitialCount = 1
  SendConcurrency = 1
  AttemptGapFill = TRUE
  MaxCallers = 1
  MaxRetries = 1
INVARIANT
  ManagedNoncesDistinct
\* Once every request is answered no step is left.
CHECK_DEADLOCK FALSE
