CONSTANTS
  Names <- MCNames
  Ids <- MCIds
  Canon <- MCCanon
  Endpoints <- MCEndpoints
  GoodEndpoints <- MCGood
  Groups <- MCGroups
  Realms <- MCRealms
  Apps <- MCApps
  Locals <- MCLocals
  Files <- RuntimeFiles
  FaultKinds = {"add", "terminate"}
  MaxFaults = 1
  MaxEvents = 3
  MaxEdits = 1
SPECIFICATION Spec
INVARIANT SnapshotOpenIsReal
