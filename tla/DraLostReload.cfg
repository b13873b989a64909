CONSTANTS
  Names <- MCNames
  Ids <- MCIds
  Canon <- MCCanon
  Endpoints <- MCEndpoints
  GoodEndpoints <- MCGood
  Groups <- MCGroups
  Realms <- MCRealms
  Apps <- MCApps
  Locals <- MCLocals
  Files <- LivenessFiles
  FaultKinds = {}
  MaxFaults = 0
  MaxEvents = 0
  MaxEdits = 2
SPECIFICATION FairSpec
PROPERTY EveryRequestHonoured
