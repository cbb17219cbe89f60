------------------------------ MODULE StateMethod ------------------------------
(***************************************************************************)
(* sStateMethod_c with sStateMethodUsr_FI_c: the state machines of players,*)
(* enemies, menus and scenes.  A manager initialises, executes, finalises  *)
(* and changes the state of its owner by calling the state's own methods,  *)
(* which may call any manager of the owner again, this one included.       *)
(*                                                                         *)
(* `todo' is the call stack: what remains to be done, innermost first.  A  *)
(* task named like a call ("finalize") is that call about to be made; one  *)
(* named like an activity ("finalizing") is the state's method in progress.*)
(***************************************************************************)
EXTENDS Integers, Sequences

CONSTANTS
  Mgrs,            \* the managers of one owner
  States,          \* the state IDs of its class
  Null,            \* sStateID::null; also the null pointer, for mpState
  LateStates       \* those whose initialize may itself change the state

ASSUME StateAssumption == Null \notin States /\ LateStates \subseteq States

VARIABLES
  mInitFinalizeLock,
  mExecutionLock,
  mIsValid,
  mStateChanged,
  mRefreshStateMethod,
  mpNewStateID,
  mpOldStateID,
  mpStateID,
  mpState,         \* the state ID in the holder, or Null
  todo

flagVars == << mInitFinalizeLock, mIsValid >>
idVars == << mpOldStateID, mpStateID, mpState >>
vars == << flagVars, idVars, mpNewStateID, mExecutionLock, mStateChanged,
           mRefreshStateMethod, todo >>

\* The activities are the state's own methods.
Activities == {"initializing", "executing", "finalizing"}
Calls == {"initialize", "execute", "run", "finalize", "changed"}
Tasks == [mgr : Mgrs, at : Calls \cup Activities]

TypeOK ==
  /\ mInitFinalizeLock \in [Mgrs -> BOOLEAN]
  /\ mExecutionLock \in [Mgrs -> BOOLEAN]
  /\ mIsValid \in [Mgrs -> BOOLEAN]
  /\ mStateChanged \in [Mgrs -> BOOLEAN]
  /\ mRefreshStateMethod \in [Mgrs -> BOOLEAN]
  /\ mpNewStateID \in [Mgrs -> States \cup {Null}]
  /\ mpOldStateID \in [Mgrs -> States \cup {Null}]
  /\ mpStateID \in [Mgrs -> States \cup {Null}]
  /\ mpState \in [Mgrs -> States \cup {Null}]
  /\ todo \in Seq(Tasks)

Task(m, a) == [mgr |-> m, at |-> a]

Init ==
  /\ mInitFinalizeLock = [m \in Mgrs |-> FALSE]
  /\ mExecutionLock = [m \in Mgrs |-> FALSE]
  /\ mIsValid = [m \in Mgrs |-> FALSE]
  /\ mStateChanged = [m \in Mgrs |-> FALSE]
  /\ mRefreshStateMethod = [m \in Mgrs |-> FALSE]
  /\ mpNewStateID \in [Mgrs -> States \cup {Null}]
  /\ mpOldStateID = [m \in Mgrs |-> Null]
  /\ mpStateID = mpNewStateID
  /\ mpState = [m \in Mgrs |-> Null]
  /\ todo = << >>

-----------------------------------------------------------------------------
(* Calls, made by the owner (`todo' empty) or by a state's method.          *)

InCode == todo # << >> => Head(todo).at \in Activities
Call(tasks) == InCode /\ todo' = tasks \o todo

InitializeState(m) ==
  /\ Call(<< Task(m, "initialize") >>)
  /\ UNCHANGED << flagVars, idVars, mpNewStateID, mExecutionLock, mStateChanged, mRefreshStateMethod >>

ExecuteState(m) ==
  /\ Call(<< Task(m, "execute") >>)
  /\ UNCHANGED << flagVars, idVars, mpNewStateID, mExecutionLock, mStateChanged, mRefreshStateMethod >>

FinalizeState(m) ==
  /\ Call(<< Task(m, "finalize") >>)
  /\ UNCHANGED << flagVars, idVars, mpNewStateID, mExecutionLock, mStateChanged, mRefreshStateMethod >>

\* The state is neither live nor absent: its initialize is in progress.
Initializing(m) == mInitFinalizeLock[m] /\ ~mIsValid[m]

\* Mutant: the live state is not finalised first.
ChangeStateOver(m, s) ==
  /\ Call(<< Task(m, "initialize"), Task(m, "changed") >>)
  /\ mpNewStateID' = [mpNewStateID EXCEPT ![m] = s]
  /\ UNCHANGED << flagVars, idVars, mExecutionLock, mStateChanged, mRefreshStateMethod >>

\* A request for the null state is ignored.
ChangeState(m, s) ==
  /\ Initializing(m) => mpStateID[m] \in LateStates
  /\ Call(<< Task(m, "finalize"), Task(m, "initialize"), Task(m, "changed") >>)
  /\ mpNewStateID' = [mpNewStateID EXCEPT ![m] = s]
  /\ UNCHANGED << flagVars, idVars, mExecutionLock, mStateChanged, mRefreshStateMethod >>

RefreshState(m) ==
  /\ Call(<< >>)
  /\ mRefreshStateMethod' = [mRefreshStateMethod EXCEPT ![m] = TRUE]
  /\ UNCHANGED << flagVars, idVars, mpNewStateID, mExecutionLock, mStateChanged >>

-----------------------------------------------------------------------------
(* What the manager does.                                                   *)

\* The innermost task is done, and leaves these to do in its place.
Do(m, a, tasks) ==
  /\ todo # << >> /\ Head(todo) = Task(m, a)
  /\ todo' = tasks \o Tail(todo)

\* Mutant: the lock is not looked at.
CanInitializeAgain(m) == mpNewStateID[m] # Null /\ ~mIsValid[m]

CanInitialize(m) == mpNewStateID[m] # Null /\ ~mInitFinalizeLock[m] /\ ~mIsValid[m]
CanFinalize(m) == mpNewStateID[m] # Null /\ ~mInitFinalizeLock[m] /\ mIsValid[m]

\* The requested state becomes the current one and its initialize is called.
StartInitialize(m) ==
  /\ CanInitialize(m)
  /\ Do(m, "initialize", << Task(m, "initializing") >>)
  /\ mInitFinalizeLock' = [mInitFinalizeLock EXCEPT ![m] = TRUE]
  /\ mpStateID' = [mpStateID EXCEPT ![m] = mpNewStateID[m]]
  /\ mpState' = [mpState EXCEPT ![m] = mpNewStateID[m]]
  /\ UNCHANGED << mIsValid, mpOldStateID, mpNewStateID, mExecutionLock, mStateChanged, mRefreshStateMethod >>

SkipInitialize(m) ==
  /\ ~CanInitialize(m)
  /\ Do(m, "initialize", << >>)
  /\ UNCHANGED << flagVars, idVars, mpNewStateID, mExecutionLock, mStateChanged, mRefreshStateMethod >>

\* Mutant: the lock is kept.
InitializeReturnsLocked(m) ==
  /\ Do(m, "initializing", << >>)
  /\ mIsValid' = [mIsValid EXCEPT ![m] = TRUE]
  /\ UNCHANGED << mInitFinalizeLock, idVars, mpNewStateID, mExecutionLock, mStateChanged, mRefreshStateMethod >>

\* initializeStateLocalMethod of this class always returns 1.
InitializeReturns(m) ==
  /\ Do(m, "initializing", << >>)
  /\ mIsValid' = [mIsValid EXCEPT ![m] = TRUE]
  /\ mInitFinalizeLock' = [mInitFinalizeLock EXCEPT ![m] = FALSE]
  /\ UNCHANGED << idVars, mpNewStateID, mExecutionLock, mStateChanged, mRefreshStateMethod >>

StartFinalize(m) ==
  /\ CanFinalize(m)
  /\ Do(m, "finalize", << Task(m, "finalizing") >>)
  /\ mInitFinalizeLock' = [mInitFinalizeLock EXCEPT ![m] = TRUE]
  /\ mpOldStateID' = [mpOldStateID EXCEPT ![m] = mpStateID[m]]
  /\ UNCHANGED << mIsValid, mpStateID, mpState, mpNewStateID, mExecutionLock, mStateChanged, mRefreshStateMethod >>

SkipFinalize(m) ==
  /\ ~CanFinalize(m)
  /\ Do(m, "finalize", << >>)
  /\ UNCHANGED << flagVars, idVars, mpNewStateID, mExecutionLock, mStateChanged, mRefreshStateMethod >>

\* The holder is disposed of.
FinalizeReturns(m) ==
  /\ Do(m, "finalizing", << >>)
  /\ mpState' = [mpState EXCEPT ![m] = Null]
  /\ mIsValid' = [mIsValid EXCEPT ![m] = FALSE]
  /\ mInitFinalizeLock' = [mInitFinalizeLock EXCEPT ![m] = FALSE]
  /\ UNCHANGED << mpOldStateID, mpStateID, mpNewStateID, mExecutionLock, mStateChanged, mRefreshStateMethod >>

Changed(m) ==
  /\ Do(m, "changed", << >>)
  /\ mStateChanged' = [mStateChanged EXCEPT ![m] = TRUE]
  /\ UNCHANGED << flagVars, idVars, mpNewStateID, mExecutionLock, mRefreshStateMethod >>

\* A pass of the loop, if there is a state to execute.
Pass(m, tasks) ==
  IF mpNewStateID[m] # Null
  THEN /\ mExecutionLock' = [mExecutionLock EXCEPT ![m] = TRUE]
       /\ Do(m, "execute", tasks)
  ELSE Do(m, "execute", << >>) /\ UNCHANGED mExecutionLock

\* Mutants: the state need not be initialised; the request to be executed again
\* is not taken.
StartPassBare(m) ==
  /\ ~mExecutionLock[m]
  /\ mRefreshStateMethod' = [mRefreshStateMethod EXCEPT ![m] = FALSE]
  /\ Pass(m, << Task(m, "run") >>)
  /\ UNCHANGED << flagVars, idVars, mpNewStateID, mStateChanged >>
StartPassAgain(m) ==
  /\ ~mExecutionLock[m]
  /\ Pass(m, << Task(m, "initialize"), Task(m, "run") >>)
  /\ UNCHANGED << flagVars, idVars, mpNewStateID, mRefreshStateMethod, mStateChanged >>

\* The state is initialised if it is not, then executed.
StartPass(m) ==
  /\ ~mExecutionLock[m]
  /\ mRefreshStateMethod' = [mRefreshStateMethod EXCEPT ![m] = FALSE]
  /\ Pass(m, << Task(m, "initialize"), Task(m, "run") >>)
  /\ UNCHANGED << flagVars, idVars, mpNewStateID, mStateChanged >>

SkipExecute(m) ==
  /\ mExecutionLock[m]
  /\ Do(m, "execute", << >>)
  /\ UNCHANGED << flagVars, idVars, mpNewStateID, mExecutionLock, mStateChanged, mRefreshStateMethod >>

\* mpState->execute(): the null pointer would be followed here.
RunState(m) ==
  /\ mpState[m] # Null
  /\ Do(m, "run", << Task(m, "executing") >>)
  /\ UNCHANGED << flagVars, idVars, mpNewStateID, mExecutionLock, mStateChanged, mRefreshStateMethod >>

\* The end of a pass, and the condition of the loop.
ExecuteReturns(m) ==
  /\ mExecutionLock' = [mExecutionLock EXCEPT ![m] = FALSE]
  /\ Do(m, "executing", IF mRefreshStateMethod[m] /\ mStateChanged[m]
                        THEN << Task(m, "execute") >> ELSE << >>)
  /\ UNCHANGED << flagVars, idVars, mpNewStateID, mStateChanged, mRefreshStateMethod >>

-----------------------------------------------------------------------------
GameCode(m) ==
  \/ InitializeState(m) \/ ExecuteState(m) \/ FinalizeState(m) \/ RefreshState(m)
  \/ \E s \in States : ChangeState(m, s)

Returns(m) == InitializeReturns(m) \/ FinalizeReturns(m) \/ ExecuteReturns(m)

Manager(m) ==
  \/ StartInitialize(m) \/ SkipInitialize(m)
  \/ StartFinalize(m) \/ SkipFinalize(m) \/ Changed(m)
  \/ StartPass(m) \/ SkipExecute(m) \/ RunState(m)

Next == \E m \in Mgrs : GameCode(m) \/ Manager(m) \/ Returns(m)

Spec == Init /\ [][Next]_vars

-----------------------------------------------------------------------------
(* The inductive invariant.                                                 *)

InProgress(m, a) == \E i \in 1..Len(todo) : todo[i] = Task(m, a)

\* The two locks are held exactly while the methods they guard are in
\* progress, each of them at most once.
LocksMatchStack ==
  \A m \in Mgrs :
    /\ mInitFinalizeLock[m] <=>
         InProgress(m, IF mIsValid[m] THEN "finalizing" ELSE "initializing")
    /\ ~InProgress(m, IF mIsValid[m] THEN "initializing" ELSE "finalizing")
    /\ mExecutionLock[m] <=> InProgress(m, "run") \/ InProgress(m, "executing")

Excludes(t, u) ==
  /\ t.mgr = u.mgr
  /\ \/ {t.at, u.at} \subseteq {"initializing", "finalizing"}
     \/ {t.at, u.at} \subseteq {"run", "executing"}
AtMostOnce == \A i, j \in 1..Len(todo) : Excludes(todo[i], todo[j]) => i = j

\* The holder holds the current state, from before it is initialised until
\* after it is finalised.
HolderIsCurrent ==
  \A m \in Mgrs :
    IF mIsValid[m] \/ mInitFinalizeLock[m]
    THEN mpState[m] = mpStateID[m] /\ mpState[m] # Null /\ mpNewStateID[m] # Null
    ELSE mpState[m] = Null

\* A state about to be executed is there, or about to be initialised.
RunIsPrepared ==
  \A i \in 1..Len(todo) : todo[i].at = "run" =>
    LET m == todo[i].mgr IN
    /\ mpNewStateID[m] # Null
    /\ IF i = 1 THEN mpState[m] # Null
       ELSE todo[i - 1] \in { Task(m, "initialize"), Task(m, "initializing") }

\* Only inside initialize can a state come to be live that is not the one
\* last requested: otherwise the request is being carried out.
CurrentIsRequested ==
  \A m \in Mgrs : mpStateID[m] \notin LateStates =>
    /\ Initializing(m) => mpStateID[m] = mpNewStateID[m]
    /\ mIsValid[m] /\ ~mInitFinalizeLock[m] /\ mpStateID[m] # mpNewStateID[m]
         => todo # << >> /\ Head(todo) = Task(m, "finalize")

IInv ==
  /\ TypeOK
  /\ LocksMatchStack
  /\ AtMostOnce
  /\ HolderIsCurrent
  /\ RunIsPrepared
  /\ CurrentIsRequested

-----------------------------------------------------------------------------
(* Properties.                                                              *)

\* executeStateLocalMethod never follows a null mpState, however the states'
\* methods call the manager (s_StateMethodUsr_FI.cpp:14-17).
ExecutesAState ==
  todo # << >> /\ Head(todo).at = "run" => mpState[Head(todo).mgr] # Null

\* Whenever code of the game runs, a live state is the one requested last:
\* no request is lost, whatever is in progress when it is made, but for those
\* made by the initialize of a state itself (s_StateMethod.cpp:64-70).
ChangeTakesEffect ==
  InCode => \A m \in Mgrs :
    mIsValid[m] /\ ~mInitFinalizeLock[m] /\ mpStateID[m] \notin LateStates
      => mpStateID[m] = mpNewStateID[m]

\* mStateChanged tells of a change of the execution in progress: it is false
\* when an execution begins ("If the current state has changed during
\* execution", s_StateMethod.hpp:41).
ChangedDuringExecution ==
  Len(todo) > 1 /\ todo[2].at = "run" /\ Head(todo).at = "initialize"
    => ~mStateChanged[todo[2].mgr]

\* The life of a state that the manager shows: what its methods see of it.
phase ==
  [m \in Mgrs |-> IF InProgress(m, "initializing") THEN "entering"
                  ELSE IF InProgress(m, "finalizing") THEN "leaving"
                  ELSE IF mIsValid[m] THEN "live" ELSE "none"]
running == { m \in Mgrs : InProgress(m, "executing") }

Life == INSTANCE StateLife WITH current <- mpState

\* States are initialised and finalised in turn, one at a time, and never
\* executed when there is none or while being executed.
ImplementsStateLife == Life!Spec

\* The methods of the states return, and do not call the managers forever.
Fairness ==
  \A m \in Mgrs : /\ WF_vars(Manager(m))
                  /\ SF_vars(InitializeReturns(m))
                  /\ SF_vars(FinalizeReturns(m))
                  /\ SF_vars(ExecuteReturns(m))
FairSpec == Spec /\ Fairness

\* Every call of a manager returns, unless states ask forever to be executed
\* again: the loop of executeStateMethod ends (s_StateMethod.cpp:40-48).
CallsReturn ==
  (\A m \in Mgrs : <>[][~RefreshState(m)]_vars) => (todo # << >> ~> todo = << >>)

=============================================================================
