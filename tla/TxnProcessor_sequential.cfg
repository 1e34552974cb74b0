SPECIFICATION Spec
CONSTANTS
  a1 = a1
  a2 = a2
  Context = {c1, c2, c3}
  Address = {a1, a2}
  Requests <- TwoAddresses
  InitialCount = 0
  SendConcurrency = 1
  AttemptGapFill = TRUE
  MaxCallers = 1
  MaxRetries = 1
PROPERTY
  NoGapWhenNotSubmitted
\* Once every request is answered no step is left.
CHECK_DEADLOCK FALSE
