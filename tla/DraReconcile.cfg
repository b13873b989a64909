CONSTANTS
  Names <- MCNames
  Ids <- MCIds
  Canon <- MCCanon
  Endpoints <- MCEndpoints
  GoodEndpoints <- MCGood
  Groups <- MCGroups
  Realms <- MCRealms
  Apps <- MCApps
  Locals <- MCLocals
  Files <- ReconcileFiles
  FaultKinds = {"alloc", "add", "terminate"}
  MaxFaults = 2
  MaxEvents = 0
  MaxEdits = 1
SPECIFICATION Spec
INVARIANT TypeOK
INVARIANT TableMatchesConfig
INVARIANT RollbackSurvivesOneFault
INVARIANT SnapshotIsCommitted
PROPERTY UnchangedPeersStay
PROPERTY ImplementsTransaction
