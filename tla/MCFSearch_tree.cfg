SPECIFICATION SearchSpec
CONSTANTS
  Bases <- FiveBases
  SearchTables = 2
  Profiles <- TwoProfiles
INVARIANTS
  PointersSpellTree
  WalkIsPreorder
  IDsFindTheirBases
  SearchLoopMeetsAll
CHECK_DEADLOCK FALSE
