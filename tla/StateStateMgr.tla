----------------------------- MODULE StateStateMgr -----------------------------
(***************************************************************************)
(* sStateStateMgr_c as the enemies use it (dEn_c): two managers, of which  *)
(* the current one gets every call.  An enemy hit by ice is put into a sub *)
(* state of its state, and takes the state up again when it thaws; any     *)
(* change of state in between ends the sub state first.                    *)
(*                                                                         *)
(* The enemy's code calls the manager between its executions (collisions,  *)
(* its create) and from the execute methods of its states.                 *)
(***************************************************************************)
EXTENDS StateMethod

CONSTANTS
  mainMgr, subMgr,
  Ice                \* dEn_c::StateID_Ice

ASSUME MgrAssumption == Mgrs = {mainMgr, subMgr} /\ mainMgr # subMgr
ASSUME IceAssumption == Ice \in States \ LateStates

VARIABLE currentMgr

ssVars == << vars, currentMgr >>

\* What is left of returnState, and of dEn_c::changeState, after a finalize.
Returning == Task(subMgr, "return")
Changing(s) == [mgr |-> mainMgr, at |-> "change", id |-> s]

SSInit ==
  /\ Init
  /\ mpNewStateID = [m \in Mgrs |-> Null]
  /\ currentMgr = mainMgr

-----------------------------------------------------------------------------
(* What the code of the enemy calls.                                        *)

isSubState == currentMgr = subMgr
isState(s) == mpStateID[currentMgr] = s

\* mIceMng.mActive: set by initializeState_Ice, reset by finalizeState_Ice.
mActive == \E m \in Mgrs : mIsValid[m] /\ mpState[m] = Ice

InEnemy == todo # << >> => Head(todo).at = "executing"
NothingElse == UNCHANGED << flagVars, idVars, mpNewStateID, mExecutionLock,
                            mStateChanged, mRefreshStateMethod >>

\* The execute operation of an enemy, once per frame.
EnemyExecute == todo = << >> /\ ExecuteState(currentMgr) /\ UNCHANGED currentMgr

\* block_hit_init of an enemy that is asleep.
EnemyInitialize == InEnemy /\ InitializeState(currentMgr) /\ UNCHANGED currentMgr

\* Mutant: the state under the sub state is changed.
EnemyChangeUnder(s) ==
  /\ InEnemy /\ isState(Ice) /\ isSubState
  /\ ChangeState(mainMgr, s) /\ UNCHANGED currentMgr

\* dEn_c::changeState in the sub state: returnState, then a change of state.
EnemyThawAndChange(s) ==
  /\ InEnemy /\ isState(Ice) /\ isSubState
  /\ Call(<< Task(subMgr, "finalize"), Returning, Changing(s) >>)
  /\ NothingElse /\ UNCHANGED currentMgr

\* dEn_c::changeState otherwise: returnState does nothing.
EnemyChange(s) ==
  /\ InEnemy /\ ~(isState(Ice) /\ isSubState)
  /\ s = Ice => ~mActive
  /\ ChangeState(currentMgr, s) /\ UNCHANGED currentMgr

\* Mutant: an enemy may be frozen again.
EnemyFreezeAgain ==
  /\ InEnemy
  /\ currentMgr' = subMgr
  /\ ChangeState(subMgr, Ice)

\* hitCallback_Ice: changeToSubState(StateID_Ice), unless frozen already.
EnemyFreeze ==
  /\ InEnemy /\ ~mActive
  /\ currentMgr' = subMgr
  /\ ChangeState(subMgr, Ice)

\* returnState_Ice: the ice has melted.
EnemyThaw ==
  /\ InEnemy /\ isSubState
  /\ Call(<< Task(subMgr, "finalize"), Returning >>)
  /\ NothingElse /\ UNCHANGED currentMgr

-----------------------------------------------------------------------------
(* What is left of them.                                                    *)

ReturnEnds ==
  /\ todo # << >> /\ Head(todo) = Returning
  /\ todo' = Tail(todo)
  /\ currentMgr' = mainMgr
  /\ NothingElse

ChangeContinues ==
  /\ todo # << >> /\ Head(todo).at = "change"
  /\ mpNewStateID' = [mpNewStateID EXCEPT ![currentMgr] = Head(todo).id]
  /\ todo' = << Task(currentMgr, "finalize"), Task(currentMgr, "initialize"),
                Task(currentMgr, "changed") >> \o Tail(todo)
  /\ UNCHANGED << flagVars, idVars, mExecutionLock, mStateChanged, mRefreshStateMethod, currentMgr >>

Continue ==
  \/ ReturnEnds \/ ChangeContinues
  \/ \E m \in Mgrs : (Manager(m) \/ Returns(m)) /\ UNCHANGED currentMgr

SSNext ==
  \/ EnemyExecute \/ EnemyInitialize \/ EnemyFreeze \/ EnemyThaw
  \/ \E s \in States : EnemyChange(s) \/ EnemyThawAndChange(s)
  \/ Continue

SSSpec == SSInit /\ [][SSNext]_ssVars

-----------------------------------------------------------------------------
SSTypeOK ==
  /\ currentMgr \in Mgrs
  /\ todo \in Seq(Tasks \cup {Returning} \cup { Changing(s) : s \in States })
  /\ LocksMatchStack /\ HolderIsCurrent

\* Between executions, the sub manager is current exactly while it has a live
\* state, and that is the ice: no enemy is left in a sub state it is not
\* executed in, nor executed in one that has ended (s_StateStateMgr.hpp:32-46).
SubStateIsIce ==
  todo = << >> =>
    /\ isSubState <=> mIsValid[subMgr]
    /\ isSubState => mpState[subMgr] = Ice

\* The ice freezes the state of an enemy once: it is not at the same time the
\* state and the sub state (d_enemy_death.cpp:380, d_a_en_shell.cpp:772).
FrozenOnce ==
  todo = << >> => ~(\A m \in Mgrs : mIsValid[m] /\ mpState[m] = Ice)

SSInv == SSTypeOK /\ SubStateIsIce /\ FrozenOnce

\* A sub state leaves the state under it as it was, to be taken up again: it
\* is neither finalised nor initialised before the sub state has ended.
StateKeptUnderSubState ==
  [][isSubState /\ isSubState' =>
       mpState'[mainMgr] = mpState[mainMgr] /\ mIsValid'[mainMgr] = mIsValid[mainMgr]]_ssVars
=============================================================================
