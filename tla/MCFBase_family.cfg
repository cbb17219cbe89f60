SPECIFICATION FairSpec
CONSTANTS
  Stage = Stage
  Enemy = Enemy
  Item = Item
  Profiles <- TwoProfiles
  Scenes <- MCScenes
  mExecuteOrder <- MCExecuteOrder
  mDrawOrder <- MCDrawOrder
  BASE_ID_MAX = 5
  DrawCreates = FALSE
  OrphanCreates = FALSE
INVARIANTS
  FamilyScheduled
PROPERTIES
  NothingJoinsTheWalk
  DeletionCompletes
  CreationResolves
