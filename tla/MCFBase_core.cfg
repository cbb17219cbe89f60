SPECIFICATION Spec
CONSTANTS
  Stage = Stage
  Enemy = Enemy
  Item = Item
  Profiles <- ThreeProfiles
  Scenes <- MCScenes
  mExecuteOrder <- MCExecuteOrder
  mDrawOrder <- MCDrawOrder
  BASE_ID_MAX = 5
  DrawCreates = TRUE
  OrphanCreates = TRUE
INVARIANTS
  IInv
  ScheduleMatchesState
  OneWayForward
  WalkIntact
  ParentOutlivesChildren
  ListsSorted
  FlagsSynced
PROPERTIES
  ChildrenDeletedFirst
  RunsLegally
  ImplementsLifecycle
