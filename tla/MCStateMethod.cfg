SPECIFICATION FairSpec
CONSTANTS
  Mgrs = {stateMgr}
  stateMgr = stateMgr
  States = {A, B, C}
  A = A
  B = B
  C = C
  Null = Null
  LateStates = {C}
INVARIANTS
  IInv
  ExecutesAState
  ChangeTakesEffect
PROPERTIES
  ImplementsStateLife
  CallsReturn
