CONSTANTS
  Names <- MCNames
  Ids <- MCIds
  Canon <- MCCanon
  Endpoints <- MCEndpoints
  GoodEndpoints <- MCGood
  Groups <- MCGroups
  Realms <- MCRealms
  Apps <- MCApps
  Locals <- MCLocals
  Files <- LivenessFiles
  FaultKinds = {"alloc", "add", "terminate"}
  MaxFaults = 1
  MaxEvents = 1
  MaxEdits = 1
SPECIFICATION FairSpec
PROPERTY TransactionEnds
PROPERTY IdleRequestHonoured
PROPERTY SnapshotConverges
