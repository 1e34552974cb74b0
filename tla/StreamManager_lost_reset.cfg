CONSTANTS
  a = a
  x = x
  y = y
  Stream = {a}
  Sub = {x}
  Home <- OnA
  Requester = {r1}
  Latest = Latest
  None = None
  MaxBlock = 1
  MaxRequests = 4
  MaxCrashes = 0
  MaxStoreFailures = 0
  MaxRPCFailures = 1
  MaxOutside = 2
SPECIFICATION FairSpec
PROPERTY
  ResetRestarts
CHECK_DEADLOCK FALSE
