SPECIFICATION SSSpec
CONSTANTS
  mainMgr = mainMgr
  subMgr = subMgr
  Mgrs = {mainMgr, subMgr}
  Walk = Walk
  Die = Die
  Ice = Ice
  States = {Walk, Die, Ice}
  LateStates = {}
  Null = Null
INVARIANTS
  SSInv
PROPERTIES
  StateKeptUnderSubState
