SPECIFICATION Spec
CONSTANTS
  stateMgr = stateMgr
  Mgrs = {stateMgr}
  A = A
  B = B
  C = C
  States = {A, B, C}
  LateStates = {C}
  Null = Null
INVARIANT
  ChangedDuringExecution
