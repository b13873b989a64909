CONSTANTS
  Names <- MCNames
  Ids <- MCIds
  Canon <- MCCanon
  Endpoints <- MCEndpoints
  GoodEndpoints <- MCGood
  Groups <- MCGroups
  Realms <- MCRealms
  Apps <- MCApps
  Locals <- MCLocals
  Files <- DamageFiles
  FaultKinds = {"terminate"}
  MaxFaults = 1
  MaxEvents = 0
  MaxEdits = 2
SPECIFICATION Spec
PROPERTY CommitReflectsTable
