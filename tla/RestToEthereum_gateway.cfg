SPECIFICATION FairSpec
CONSTANTS
  r1 = r1
  r2 = r2
  Addr = {1, 2, 3}
  Name = {"n1", "n2"}
  NoName = NoName
  Abi = {"i1", "i2", "i3"}
  NoAddr = NoAddr
  NoInfo = NoInfo
  NoFile = NoFile
  Torn = Torn
  Client = {r1, r2}
  Main = Main
  LegacyInfo <- Legacy3
  MaxCrashes = 2
  MaxFailures = 1
  Ask <- Asked
  NoRequest = NoRequest
INVARIANTS
  RestTypeOK
  NamesUnique
  StoredIsServed
  RespondsOnce
  ContractsResolvable
PROPERTIES
  NamesFollowRegistry
  SuccessIsStored
  DeployedIsKnown
CHECK_DEADLOCK FALSE
