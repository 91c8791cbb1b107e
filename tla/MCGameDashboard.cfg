SPECIFICATION Spec
CONSTANTS
  Games <- MCGames
  RomPaths = {"rom", "cart", "cover"}
  SystemOf <- MCSystemOf
  Supported = {"rom", "cart", "cover"}
  Skipped = {"cover"}
  OwnIdentity <- MCOwnIdentity
  SharedCatalogue <- MCSharedCatalogue
  Pico8Catalogue <- MCPico8Catalogue
  PackagePaths = {"one", "two", "copy"}
  Cards <- MCCards
  Parents = {"parent"}
  Children = {"child"}
  Seed <- MCSeed
  PlatformOf <- MCPlatformOf
  Queries <- MCQueries
  QueueLimit = 3
  MaxPresses = 2
INVARIANTS
  NothingShownIsStale
  SeedAssignmentsLand
PROPERTIES
  ChildrenStartOnlyTheirs
  ParentDecisionsStand
