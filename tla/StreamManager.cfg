CONSTANTS
  a = a
  x = x
  y = y
  Stream = {a}
  Sub = {x}
  Home <- OnA
  Requester = {r1}
  Latest = Latest
  None = None
  MaxBlock = 1
  MaxRequests = 4
  MaxCrashes = 1
  MaxStoreFailures = 1
  MaxRPCFailures = 1
  MaxOutside = 1
SPECIFICATION FairSpec
INVARIANTS
  TypeOK
  PromisesKept
  NoOrphans
PROPERTY
  ResetServed
CHECK_DEADLOCK FALSE
