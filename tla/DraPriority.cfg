CONSTANTS
  Names <- MCNames
  Ids <- MCIds
  Canon <- MCCanon
  Endpoints <- MCEndpoints
  GoodEndpoints <- MCEndpoints
  Groups <- MCGroups
  Realms <- MCRealms
  Apps <- MCApps
  Locals <- MCLocals
  RealmCanon <- MCRealmCanon
  IntMax = 15
  ScoreBase = 11
  Contexts <- MCAnyContexts
  Offers <- MCOffers
SPECIFICATION Spec
INVARIANT LowerPriorityWins
