SPECIFICATION BootSpec
CONSTANTS
  BOOT = BOOT
  TITLE = TITLE
  INVALID = INVALID
  object1 = object1
  object2 = object2
  Scenes = {BOOT, TITLE}
  Slots = {object1, object2}
  MaxU16 = 3
  Durations = {1}
  FadeTime = 1
  StrapAuto = 2
  StrapMin = 1
  InfoAuto = 2
  InfoMin = 1
  MaxFaults = 2
INVARIANTS
  BootInv
  WaitsForAComingFade
PROPERTIES
  SwapBehindScreen
  NandCommandWhenIdle
  BootEnds
