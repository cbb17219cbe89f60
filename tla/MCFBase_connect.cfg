SPECIFICATION Spec
CONSTANTS
  Stage = Stage
  Enemy = Enemy
  Item = Item
  Profiles <- TwoProfiles
  Scenes <- MCScenes
  mExecuteOrder <- MCExecuteOrder
  mDrawOrder <- MCDrawOrder
  BASE_ID_MAX = 4
  DrawCreates = FALSE
  OrphanCreates = FALSE
INVARIANT ConnectLoopRedundant
