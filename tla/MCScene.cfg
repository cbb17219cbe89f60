SPECIFICATION FairSpec
CONSTANTS
  BOOT = BOOT
  STAGE = STAGE
  INVALID = INVALID
  object1 = object1
  object2 = object2
  Scenes = {BOOT, STAGE}
  Slots = {object1, object2}
  MaxU16 = 4
  Durations = {1, 2}
INVARIANTS
  SceneInv
PROPERTIES
  ImplementsSceneChange
  ChangeCompletes
  FadesMonotone
