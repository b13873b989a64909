CONSTANTS
  Names <- MCNames
  Ids <- MCIds
  Canon <- MCCanon
  Endpoints <- MCEndpoints
  GoodEndpoints <- MCGood
  Groups <- MCGroups
  Realms <- MCRealms
  Apps <- MCApps
  Locals <- MCLocals
  Files <- CaseFiles
  FaultKinds = {}
  MaxFaults = 0
  MaxEvents = 0
  MaxEdits = 1
SPECIFICATION Spec
PROPERTY UnchangedPeersStay
