-------------------------------- MODULE FBase --------------------------------
(***************************************************************************)
(* The process framework: fBase_c, the base of every scene and actor, and  *)
(* fManager_c, which schedules the bases' operations through linked lists  *)
(* once per frame (DELETE, CREATE, EXECUTE, DRAW, CONNECT).                *)
(*                                                                         *)
(* The framework runs on one thread, and the interleaving that matters is  *)
(* re-entrancy: while a list is being walked, the operation of the current *)
(* base (game code) creates bases, whose create operation runs at once,    *)
(* nested, and requests deletions.  `stack' holds the bases whose          *)
(* operation is in progress, and game code is every action that is enabled *)
(* while `stack' is not empty.                                             *)
(***************************************************************************)
EXTENDS FList

CONSTANTS
  BASE_ID_MAX,         \* the unique ID at which the game stalls (bounds the model)
  Profiles,            \* the profile names of sProfileList that have a profile
  Scenes,              \* those of them whose class derives from dScene_c
  mExecuteOrder,       \* fBaseProfile_c::mExecuteOrder of each profile
  mDrawOrder,          \* fBaseProfile_c::mDrawOrder of each profile
  DrawCreates,         \* may game code create bases during DRAW?
  OrphanCreates        \* may game code create children of a DELETING base?

ASSUME IdAssumption == BASE_ID_MAX \in Nat /\ BASE_ID_MAX > 1
ASSUME ProfileAssumption ==
  /\ Profiles # {} /\ Scenes \subseteq Profiles
  /\ mExecuteOrder \in [Profiles -> Nat]
  /\ mDrawOrder \in [Profiles -> Nat]
ASSUME ClientAssumption == DrawCreates \in BOOLEAN /\ OrphanCreates \in BOOLEAN

BASE_ID_FIRST == 1
\* The IDs of the bases that can be constructed: taking the last one stalls.
Bases == BASE_ID_FIRST..(BASE_ID_MAX - 2)
LOOP_PROC_e == {"NONE", "CONNECT", "CREATE", "EXECUTE", "DELETE", "DRAW"}
LIFECYCLE_e == {"CREATING", "ACTIVE", "DELETING"}
PACK_RESULT_e == {"NOT_READY", "SUCCEEDED", "FAILED"}

VARIABLES
  m_rootUniqueID,      \* the ID of the next base
  live,                \* bases constructed and not destroyed: the connect tree
  parent,              \* each base's connect parent, or Null
  mProfName,           \* each base's profile name
  mLifecycleState,
  mDeleteRequested,
  mDeferExecute,
  mDeferRetryCreate,
  rootDisable,         \* ROOT_DISABLE_EXECUTE and ROOT_DISABLE_DRAW
  disable,             \* DISABLE_EXECUTE and DISABLE_DRAW
  m_createManage,
  m_executeManage,
  m_drawManage,
  m_deleteManage,
  m_nowLoopProc,
  inLoop,              \* mainLoop is running
  next,                \* walkPack's next node, Null at the end of the walk
  stack                \* bases whose operation is in progress, innermost last

baseVars == << m_rootUniqueID, live, parent, mProfName >>
flagVars == << rootDisable, disable >>
lifeVars == << mLifecycleState, mDeleteRequested, mDeferExecute, mDeferRetryCreate >>
listVars == << m_createManage, m_executeManage, m_drawManage, m_deleteManage >>
loopVars == << m_nowLoopProc, inLoop, next >>
vars == << baseVars, flagVars, lifeVars, listVars, loopVars, stack >>

TypeOK ==
  /\ m_rootUniqueID \in BASE_ID_FIRST..BASE_ID_MAX
  /\ live \subseteq Bases
  /\ parent \in [Bases -> Bases \cup {Null}]
  /\ mProfName \in [Bases -> Profiles]
  /\ mLifecycleState \in [Bases -> LIFECYCLE_e]
  /\ mDeleteRequested \in [Bases -> BOOLEAN]
  /\ mDeferExecute \in [Bases -> BOOLEAN]
  /\ mDeferRetryCreate \in [Bases -> BOOLEAN]
  /\ rootDisable \in [Bases -> BOOLEAN]
  /\ disable \in [Bases -> BOOLEAN]
  /\ m_createManage \in Seq(Bases)
  /\ m_executeManage \in Seq(Bases)
  /\ m_drawManage \in Seq(Bases)
  /\ m_deleteManage \in Seq(Bases)
  /\ m_nowLoopProc \in LOOP_PROC_e
  /\ inLoop \in BOOLEAN
  /\ next \in Bases \cup {Null}
  /\ stack \in Seq(Bases)

-----------------------------------------------------------------------------
(* The connect tree.                                                        *)

INSTANCE FTree

-----------------------------------------------------------------------------
(* Helpers of the handlers.                                                 *)

ExecuteOrder == [b \in Bases |-> mExecuteOrder[mProfName[b]]]
DrawOrder == [b \in Bases |-> mDrawOrder[mProfName[b]]]

\* The list walkPack walks in each list phase.
Walked ==
  CASE m_nowLoopProc = "DELETE"  -> m_deleteManage
    [] m_nowLoopProc = "CREATE"  -> m_createManage
    [] m_nowLoopProc = "EXECUTE" -> m_executeManage
    [] m_nowLoopProc = "DRAW"    -> m_drawManage
    [] OTHER                     -> << >>

Top == stack[Len(stack)]
Pop == SubSeq(stack, 1, Len(stack) - 1)

\* The innermost operation is a create run by fBase_make, not by a walk.
\* Only the outermost operation of a walk is one that the walk called.
IsMake == Len(stack) > 1 \/ ~inLoop
Running(op) == stack # << >> /\ (IF IsMake THEN op = "CREATE" ELSE op = m_nowLoopProc)

\* The counter has reached its end: the constructor spins forever.
Stalled == m_rootUniqueID = BASE_ID_MAX

\* The bases that a call of deleteRequest() on x marks: it descends from x
\* through bases that are neither requested nor DELETING.
Unrequested(b) == b \in live /\ ~mDeleteRequested[b] /\ mLifecycleState[b] # "DELETING"
DeleteClosure(x) ==
  LET reach[b \in Bases \cup {Null}] ==
        /\ b # Null
        /\ Unrequested(b)
        /\ b = x \/ reach[parent[b]]
  IN {b \in live : Unrequested(b) /\ (b = x \/ reach[parent[b]])}

\* mDeleteRequested after deleteRequest() is called on each base of S.
RequestDeletion(S) ==
  [b \in Bases |-> mDeleteRequested[b] \/ \E x \in S : b \in DeleteClosure(x)]

-----------------------------------------------------------------------------
(* The frame: fManager_c::mainLoop and the walks.                           *)

Init ==
  /\ m_rootUniqueID = BASE_ID_FIRST
  /\ live = {}
  /\ parent = [b \in Bases |-> Null]
  /\ mProfName = [b \in Bases |-> CHOOSE p \in Profiles : TRUE]
  /\ mLifecycleState = [b \in Bases |-> "CREATING"]
  /\ mDeleteRequested = [b \in Bases |-> FALSE]
  /\ mDeferExecute = [b \in Bases |-> FALSE]
  /\ mDeferRetryCreate = [b \in Bases |-> FALSE]
  /\ rootDisable = [b \in Bases |-> FALSE]
  /\ disable = [b \in Bases |-> FALSE]
  /\ m_createManage = << >>
  /\ m_executeManage = << >>
  /\ m_drawManage = << >>
  /\ m_deleteManage = << >>
  /\ m_nowLoopProc = "CONNECT"
  /\ inLoop = FALSE
  /\ next = Null
  /\ stack = << >>

\* mainLoop sets m_nowLoopProc and the walk starts at the first node.
BeginWalk(proc, first) ==
  /\ m_nowLoopProc' = proc
  /\ next' = first
  /\ inLoop' = TRUE
  /\ UNCHANGED << baseVars, flagVars, lifeVars, listVars, stack >>

StartLoop ==
  /\ ~Stalled /\ ~inLoop /\ stack = << >>
  /\ BeginWalk("DELETE", First(m_deleteManage))

\* The walk has reached the end of its list: mainLoop goes on to the next.
WalkDone == ~Stalled /\ inLoop /\ stack = << >> /\ next = Null

NextProc ==
  /\ WalkDone
  /\ \/ m_nowLoopProc = "DELETE"  /\ BeginWalk("CREATE", First(m_createManage))
     \/ m_nowLoopProc = "CREATE"  /\ BeginWalk("EXECUTE", First(m_executeManage))
     \/ m_nowLoopProc = "EXECUTE" /\ BeginWalk("DRAW", First(m_drawManage))
     \/ m_nowLoopProc = "DRAW"    /\ BeginWalk("CONNECT", FirstOf(Roots))

EndLoop ==
  /\ WalkDone /\ m_nowLoopProc = "CONNECT"
  /\ m_nowLoopProc' = "NONE"
  /\ inLoop' = FALSE
  /\ UNCHANGED << baseVars, flagVars, lifeVars, listVars, next, stack >>

\* Mutants: a base is deleted before its children, or runs while disabled.
ReadyWithChildren(b) == m_nowLoopProc \in {"EXECUTE", "DRAW"} => ~mDeleteRequested[b] /\ ~disable[b]
ReadyIfDisabled(b) ==
  CASE m_nowLoopProc = "DELETE" -> Children(b) = {}
    [] m_nowLoopProc = "CREATE" -> TRUE
    [] OTHER                    -> ~mDeleteRequested[b]

\* What preDelete, preCreate, preExecute and preDraw return for a base.
Ready(b) ==
  CASE m_nowLoopProc = "DELETE" -> Children(b) = {}
    [] m_nowLoopProc = "CREATE" -> TRUE
    [] OTHER                    -> ~mDeleteRequested[b] /\ ~disable[b]

\* walkPack reads the next node, then calls the operation of the current one:
\* commonPack goes on to the do method if the pre method lets it.
WalkPack ==
  /\ ~Stalled /\ inLoop /\ stack = << >>
  /\ m_nowLoopProc # "CONNECT" /\ next # Null
  /\ next' = NextOf(Walked, next)
  /\ stack' = IF Ready(next) THEN << next >> ELSE << >>
  /\ UNCHANGED << baseVars, flagVars, lifeVars, listVars, m_nowLoopProc, inLoop >>

-----------------------------------------------------------------------------
(* What game code may call while an operation is in progress.               *)

\* Mutants: the base leaves the execute list, or its lifecycle ends, at once.
DeleteRequestUnlinks(x) ==
  /\ ~Stalled /\ stack # << >>
  /\ DeleteClosure(x) # {}
  /\ mDeleteRequested' = RequestDeletion({x})
  /\ m_executeManage' = Unlink(m_executeManage, x)
  /\ UNCHANGED << baseVars, flagVars, mLifecycleState, mDeferExecute, mDeferRetryCreate,
                  m_createManage, m_drawManage, m_deleteManage, loopVars, stack >>
DeleteRequestEndsLife(x) ==
  /\ ~Stalled /\ stack # << >>
  /\ DeleteClosure(x) # {}
  /\ mDeleteRequested' = RequestDeletion({x})
  /\ mLifecycleState' = [mLifecycleState EXCEPT ![x] = "DELETING"]
  /\ UNCHANGED << baseVars, flagVars, mDeferExecute, mDeferRetryCreate, listVars, loopVars, stack >>

\* deleteRequest(), on any base.
DeleteRequest(x) ==
  /\ ~Stalled /\ stack # << >>
  /\ DeleteClosure(x) # {}
  /\ mDeleteRequested' = RequestDeletion({x})
  /\ UNCHANGED << baseVars, flagVars, mLifecycleState, mDeferExecute,
                  mDeferRetryCreate, listVars, loopVars, stack >>

\* Who calls createRoot() and createChild().  dScene_c::createNextScene makes a
\* scene between two frames, once the previous one is destroyed; every other
\* base is created by an operation, under any base but the one whose own
\* delete operation is in progress.
MayCreate(p, prof) ==
  IF prof \in Scenes
  THEN p = Null /\ Roots = {} /\ ~inLoop /\ stack = << >>
  ELSE /\ p \in live /\ stack # << >>
       /\ ~(m_nowLoopProc = "DELETE" /\ p = stack[1])
       /\ m_nowLoopProc = "DRAW" => DrawCreates
       /\ mLifecycleState[p] = "DELETING" => OrphanCreates

\* fBase_make: the constructors run, and runCreate calls createPack.
MakeBase(p, prof) ==
  LET b == m_rootUniqueID IN
  /\ ~Stalled /\ MayCreate(p, prof)
  /\ m_rootUniqueID + 1 # BASE_ID_MAX
  /\ m_rootUniqueID' = m_rootUniqueID + 1
  /\ live' = live \cup {b}
  /\ parent' = [parent EXCEPT ![b] = p]
  /\ mProfName' = [mProfName EXCEPT ![b] = prof]
  /\ disable' = [disable EXCEPT ![b] = p # Null /\ (rootDisable[p] \/ disable[p])]
  /\ rootDisable' = [rootDisable EXCEPT ![b] = prof \in Scenes]
  /\ stack' = Append(stack, b)
  /\ UNCHANGED << lifeVars, listVars, loopVars >>

\* The constructor of the base that takes the last ID stalls the game.
StallMake ==
  /\ ~Stalled /\ \E p \in live \cup {Null}, prof \in Profiles : MayCreate(p, prof)
  /\ m_rootUniqueID + 1 = BASE_ID_MAX
  /\ m_rootUniqueID' = BASE_ID_MAX
  /\ UNCHANGED << live, parent, mProfName, flagVars, lifeVars, listVars, loopVars, stack >>

Spin == Stalled /\ UNCHANGED vars

\* dScene_c::preExecute: the scene's bases may run once none is CREATING.
EnableScene ==
  /\ ~Stalled /\ Running("EXECUTE") /\ rootDisable[Top]
  /\ \A x \in Descendants(Top) : mLifecycleState[x] # "CREATING"
  /\ rootDisable' = [rootDisable EXCEPT ![Top] = FALSE]
  /\ stack' = Pop
  /\ UNCHANGED << baseVars, disable, lifeVars, listVars, loopVars >>

-----------------------------------------------------------------------------
(* The post methods, once the do method of the innermost operation returns. *)

\* Mutant: the base goes to the end of the lists, whatever its priority.
ActivateLast(b) ==
  /\ m_executeManage' = Append(m_executeManage, b)
  /\ m_drawManage' = Append(m_drawManage, b)
  /\ mLifecycleState' = [mLifecycleState EXCEPT ![b] = "ACTIVE"]

Activate(b) ==
  /\ m_executeManage' = AddNode(m_executeManage, b, ExecuteOrder)
  /\ m_drawManage' = AddNode(m_drawManage, b, DrawOrder)
  /\ mLifecycleState' = [mLifecycleState EXCEPT ![b] = "ACTIVE"]

\* Mutant: execution is scheduled at once in every phase.
CreateSucceededAtOnce ==
  /\ ~Stalled /\ Running("CREATE")
  /\ m_createManage' = Unlink(m_createManage, Top)
  /\ Activate(Top)
  /\ stack' = Pop
  /\ UNCHANGED << baseVars, flagVars, mDeferExecute, mDeleteRequested, mDeferRetryCreate,
                  m_deleteManage, loopVars >>

\* postCreate(SUCCESS): execution is scheduled now, or by the next CONNECT if
\* the execute list is being walked.
CreateSucceeded ==
  LET b == Top IN
  /\ ~Stalled /\ Running("CREATE")
  /\ m_createManage' = Unlink(m_createManage, b)
  /\ IF m_nowLoopProc = "EXECUTE"
     THEN /\ mDeferExecute' = [mDeferExecute EXCEPT ![b] = TRUE]
          /\ UNCHANGED << m_executeManage, m_drawManage, mLifecycleState >>
     ELSE Activate(b) /\ UNCHANGED mDeferExecute
  /\ stack' = Pop
  /\ UNCHANGED << baseVars, flagVars, mDeleteRequested, mDeferRetryCreate,
                  m_deleteManage, loopVars >>

\* Mutant: a base created during CREATE is not scheduled for a retry.
CreateWaitingForgotten ==
  LET b == Top
      reschedule == IsMake /\ ~mDeleteRequested[b] /\ ~mDeferExecute[b]
                    /\ mLifecycleState[b] = "CREATING"
  IN
  /\ ~Stalled /\ Running("CREATE")
  /\ m_createManage' = IF reschedule /\ m_nowLoopProc # "CREATE"
                       THEN Append(m_createManage, b) ELSE m_createManage
  /\ stack' = Pop
  /\ UNCHANGED << baseVars, flagVars, lifeVars, m_executeManage, m_drawManage, m_deleteManage,
                  loopVars >>

\* postCreate(WAITING), and the end of runCreate if this is the first attempt:
\* a retry is scheduled now, or by the next CONNECT if the create list is
\* being walked.
CreateWaiting ==
  LET b == Top
      reschedule == IsMake /\ ~mDeleteRequested[b] /\ ~mDeferExecute[b]
                    /\ mLifecycleState[b] = "CREATING"
  IN
  /\ ~Stalled /\ Running("CREATE")
  /\ mDeferRetryCreate' = [mDeferRetryCreate EXCEPT
                             ![b] = @ \/ (reschedule /\ m_nowLoopProc = "CREATE")]
  /\ m_createManage' = IF reschedule /\ m_nowLoopProc # "CREATE"
                       THEN Append(m_createManage, b) ELSE m_createManage
  /\ stack' = Pop
  /\ UNCHANGED << baseVars, flagVars, mLifecycleState, mDeleteRequested, mDeferExecute,
                  m_executeManage, m_drawManage, m_deleteManage, loopVars >>

\* postCreate(ERROR): the base is discarded.
CreateFailed ==
  /\ ~Stalled /\ Running("CREATE")
  /\ mDeleteRequested' = RequestDeletion({Top})
  /\ stack' = Pop
  /\ UNCHANGED << baseVars, flagVars, mLifecycleState, mDeferExecute, mDeferRetryCreate,
                  listVars, loopVars >>

\* postDelete(SUCCESS): the base leaves the tree and the list and is destroyed.
DeleteSucceeded ==
  LET b == Top IN
  /\ ~Stalled /\ Running("DELETE")
  /\ live' = live \ {b}
  /\ m_deleteManage' = Unlink(m_deleteManage, b)
  /\ stack' = Pop
  /\ UNCHANGED << m_rootUniqueID, parent, mProfName, flagVars, lifeVars, m_createManage,
                  m_executeManage, m_drawManage, loopVars >>

\* postDelete(WAITING or ERROR), postExecute and postDraw do nothing.
PackEnds ==
  /\ ~Stalled /\ (Running("DELETE") \/ Running("EXECUTE") \/ Running("DRAW"))
  /\ stack' = Pop
  /\ UNCHANGED << baseVars, flagVars, lifeVars, listVars, loopVars >>

-----------------------------------------------------------------------------
(* connectProc, called on each base of the tree in preorder.                *)

\* Mutant: an active base is left in the draw list.
LeaveListsButDraw(b) ==
  IF mLifecycleState[b] = "ACTIVE"
  THEN m_executeManage' = Unlink(m_executeManage, b) /\ UNCHANGED << m_createManage, m_drawManage >>
  ELSE m_createManage' = Unlink(m_createManage, b) /\ UNCHANGED << m_executeManage, m_drawManage >>

\* The base leaves the lists of its lifecycle state.
LeaveLists(b) ==
  IF mLifecycleState[b] = "ACTIVE"
  THEN /\ m_executeManage' = Unlink(m_executeManage, b)
       /\ m_drawManage' = Unlink(m_drawManage, b)
       /\ UNCHANGED m_createManage
  ELSE /\ m_createManage' = Unlink(m_createManage, b)
       /\ UNCHANGED << m_executeManage, m_drawManage >>

\* Mutants: the base goes to the end of the delete list, or to no list.
ScheduleDeleteLast(b) == m_deleteManage' = Append(m_deleteManage, b)
ScheduleDeleteNever(b) == UNCHANGED m_deleteManage

ScheduleDelete(b) == m_deleteManage' = Cons(b, m_deleteManage)

\* Mutants: the request is never cleared, or is not passed on.
TakeRequestAndKeepIt(b) == mDeleteRequested' = RequestDeletion(Children(b))
TakeRequestAlone(b) == mDeleteRequested' = [mDeleteRequested EXCEPT ![b] = FALSE]

\* The request has been met, and is passed on to the children.
TakeRequest(b) == mDeleteRequested' = [RequestDeletion(Children(b)) EXCEPT ![b] = FALSE]

ConnectDelete(b) ==
  /\ mDeleteRequested[b]
  /\ TakeRequest(b)
  /\ LeaveLists(b)
  /\ ScheduleDelete(b)
  /\ mLifecycleState' = [mLifecycleState EXCEPT ![b] = "DELETING"]
  /\ UNCHANGED << disable, mDeferExecute, mDeferRetryCreate >>

\* Mutant: only an active base takes them over.
InheritFlagsIfActive(b) ==
  LET p == parent[b] IN
  disable' = IF p = Null \/ mLifecycleState[b] # "ACTIVE" THEN disable
             ELSE [disable EXCEPT ![b] = rootDisable[p] \/ disable[p]]

\* The base takes over its parent's flags.
InheritFlags(b) ==
  LET p == parent[b] IN
  disable' = IF p = Null THEN disable
             ELSE [disable EXCEPT ![b] = rootDisable[p] \/ disable[p]]

\* Mutant: the deferred retry is dropped.
ScheduleDeferredRun(b) ==
  LET creating == mLifecycleState[b] = "CREATING"
      run == creating /\ ~mDeferRetryCreate[b] /\ mDeferExecute[b]
  IN
  /\ mDeferRetryCreate' = [mDeferRetryCreate EXCEPT ![b] = @ /\ ~creating]
  /\ mDeferExecute' = [mDeferExecute EXCEPT ![b] = @ /\ ~run]
  /\ IF run THEN Activate(b) ELSE UNCHANGED << m_executeManage, m_drawManage, mLifecycleState >>
  /\ UNCHANGED m_createManage

\* What the base deferred is scheduled, a retry of its creation first.
\* (mNewOrder is set by the constructor only, so no base is ever re-sorted.)
ScheduleDeferred(b) ==
  LET creating == mLifecycleState[b] = "CREATING"
      retry == creating /\ mDeferRetryCreate[b]
      run == creating /\ ~mDeferRetryCreate[b] /\ mDeferExecute[b]
  IN
  /\ mDeferRetryCreate' = [mDeferRetryCreate EXCEPT ![b] = @ /\ ~retry]
  /\ m_createManage' = IF retry THEN Append(m_createManage, b) ELSE m_createManage
  /\ mDeferExecute' = [mDeferExecute EXCEPT ![b] = @ /\ ~run]
  /\ IF run THEN Activate(b) ELSE UNCHANGED << m_executeManage, m_drawManage, mLifecycleState >>

ConnectUpdate(b) ==
  /\ ~mDeleteRequested[b]
  /\ InheritFlags(b)
  /\ ScheduleDeferred(b)
  /\ UNCHANGED << mDeleteRequested, m_deleteManage >>

ConnectProc ==
  /\ ~Stalled /\ inLoop /\ stack = << >>
  /\ m_nowLoopProc = "CONNECT" /\ next # Null
  /\ next' = TreeNext(next)
  /\ ConnectDelete(next) \/ ConnectUpdate(next)
  /\ UNCHANGED << baseVars, rootDisable, m_nowLoopProc, inLoop, stack >>

-----------------------------------------------------------------------------

\* The steps of the framework, which run on their own.
Framework == StartLoop \/ NextProc \/ EndLoop \/ WalkPack \/ ConnectProc

\* The operation in progress returns.
Return ==
  \/ CreateSucceeded \/ CreateWaiting \/ CreateFailed
  \/ DeleteSucceeded \/ PackEnds \/ EnableScene

Next ==
  \/ Framework
  \/ Return
  \/ \E x \in live : DeleteRequest(x)
  \/ \E p \in live \cup {Null}, prof \in Profiles : MakeBase(p, prof)
  \/ StallMake
  \/ Spin

Spec == Init /\ [][Next]_vars

\* mainLoop is called for ever and every operation returns; the operations of
\* no base are unready for ever.
Fairness ==
  /\ WF_vars(Framework)
  /\ WF_vars(Return)
  /\ \A b \in Bases :
       /\ SF_vars(stack # << >> /\ Top = b /\ DeleteSucceeded)
       /\ SF_vars(stack # << >> /\ Top = b /\ (CreateSucceeded \/ CreateFailed))

FairSpec == Spec /\ Fairness

-----------------------------------------------------------------------------
(* Safety.                                                                  *)

\* The bases whose first create operation is in progress.
Makes == {stack[i] : i \in {j \in 1..Len(stack) : j > 1 \/ ~inLoop}}

\* No base is linked twice into a list.
ListsInjective ==
  /\ Injective(m_createManage) /\ Injective(m_executeManage)
  /\ Injective(m_drawManage) /\ Injective(m_deleteManage)

\* mMainNode is one node for three lists: at every point of every operation a
\* base is linked into the lists of its lifecycle state and into no other
\* (c_list.cpp's remove on a node of another list would corrupt that list).
ScheduleMatchesState ==
  /\ ToSet(m_executeManage) = {b \in live : mLifecycleState[b] = "ACTIVE"}
  /\ ToSet(m_drawManage) = {b \in live : mLifecycleState[b] = "ACTIVE"}
  /\ ToSet(m_deleteManage) = {b \in live : mLifecycleState[b] = "DELETING"}
  /\ ToSet(m_createManage) \subseteq {b \in live : mLifecycleState[b] = "CREATING"}

\* A base whose create operation is unfinished has exactly one way forward:
\* its first attempt is in progress, or a retry is scheduled or deferred, or
\* its execution is deferred.  Only a requested deletion may leave it with none.
OneWayForward ==
  \A b \in live : mLifecycleState[b] = "CREATING" =>
    LET scheduled == b \in ToSet(m_createManage)
        making == b \in Makes
    IN /\ scheduled => ~making /\ ~mDeferRetryCreate[b] /\ ~mDeferExecute[b]
       /\ making => ~mDeferRetryCreate[b] /\ ~mDeferExecute[b]
       /\ mDeferRetryCreate[b] => ~mDeferExecute[b]
       /\ scheduled \/ making \/ mDeferRetryCreate[b] \/ mDeferExecute[b] \/ mDeleteRequested[b]

\* The node walkPack has read ahead is still where it was read, whatever the
\* current base's operation created, deleted or scheduled: the walk never
\* follows a node that was destroyed or moved to another list.
WalkIntact ==
  /\ next # Null => IF m_nowLoopProc = "CONNECT" THEN next \in live ELSE next \in ToSet(Walked)
  /\ inLoop /\ stack # << >> => stack[1] \in ToSet(Walked) /\ stack[1] # next

\* A base outlives its children, so no connect node points to a freed parent.
ParentOutlivesChildren ==
  \A b \in live : parent[b] # Null => parent[b] \in live /\ parent[b] < b

\* An unborn base is as its constructor will leave it; a DELETING base is not
\* requested again; operations in progress are of different, living bases, and
\* nested ones of bases still being created; nothing runs between two frames or
\* during CONNECT but a root's creation; a base whose delete operation is in
\* progress gets no child.
FreshIds ==
  /\ \A b \in live : b < m_rootUniqueID
  /\ \A b \in Bases : b >= m_rootUniqueID =>
       mLifecycleState[b] = "CREATING" /\ ~mDeleteRequested[b]
       /\ ~mDeferExecute[b] /\ ~mDeferRetryCreate[b]
RequestsTaken == \A b \in Bases : mDeleteRequested[b] => mLifecycleState[b] # "DELETING"
StackLegal ==
  /\ Injective(stack)
  /\ ToSet(stack) \subseteq live
  /\ \A b \in Makes : mLifecycleState[b] = "CREATING"
PhaseLegal ==
  /\ inLoop => m_nowLoopProc # "NONE" /\ (m_nowLoopProc = "CONNECT" => stack = << >>)
  /\ ~inLoop => m_nowLoopProc \in {"NONE", "CONNECT"} /\ next = Null
NoLateChild ==
  inLoop /\ m_nowLoopProc = "DELETE" /\ stack # << >> => Children(stack[1]) = {}

\* The inductive invariant: what the schedule, the walk and the family rely on
\* from one step to the next.
IInv ==
  /\ TypeOK /\ ListsInjective /\ ScheduleMatchesState /\ OneWayForward
  /\ WalkIntact /\ ParentOutlivesChildren
  /\ FreshIds /\ RequestsTaken /\ StackLegal /\ PhaseLegal /\ NoLateChild

\* A base that is scheduled for deletion after its parent goes before it, so
\* the walk that deletes a family meets every base when its children are gone.
\* (One that was scheduled before its parent may make the parent wait a frame.)
ChildrenDeletedFirst ==
  [][\A b \in live, p \in live :
       /\ parent[b] = p /\ mLifecycleState[p] = "DELETING"
       /\ mLifecycleState[b] # "DELETING" /\ mLifecycleState'[b] = "DELETING"
       => IndexOf(m_deleteManage', b) < IndexOf(m_deleteManage', p)]_vars

\* Once a frame has scheduled a base for deletion, its whole family is
\* scheduled with it.  (Only where nobody creates under a DELETING base.)
FamilyScheduled ==
  ~inLoop => \A b \in live : parent[b] # Null /\ mLifecycleState[parent[b]] = "DELETING"
                               => mLifecycleState[b] = "DELETING"

\* The execute and draw lists are in priority order after every insertion.
ListsSorted ==
  SortedBy(m_executeManage, ExecuteOrder) /\ SortedBy(m_drawManage, DrawOrder)

\* After a frame, what a scene disables is disabled in its whole family.
FlagsSynced ==
  ~inLoop => \A b \in live : parent[b] # Null /\ mLifecycleState[b] # "DELETING"
                 => disable[b] = (rootDisable[parent[b]] \/ disable[parent[b]])

\* An execute or draw operation starts only on an active base whose deletion is
\* not requested, and below no scene that is still waiting for its children.
RunsLegally ==
  [][\A b \in live :
       /\ stack = << >> /\ stack' = << b >>
       /\ m_nowLoopProc \in {"EXECUTE", "DRAW"}
       => /\ mLifecycleState[b] = "ACTIVE" /\ ~mDeleteRequested[b]
          /\ \A a \in Lineage(b) \ {b} : ~rootDisable[a]]_vars

\* f_manager.hpp on m_nowLoopProc: the list of the operation being executed is
\* not updated until it has finished: no base is added to the list being walked.
NothingJoinsTheWalk ==
  [][inLoop /\ m_nowLoopProc' = m_nowLoopProc /\ m_nowLoopProc # "CONNECT"
       => ToSet(Walked)' \subseteq ToSet(Walked)]_vars

\* When connectProc handles a requested deletion, the loop over the children
\* that follows finds nothing to do ("already done in deleteRequest").
ConnectLoopRedundant ==
  \A b \in live : m_nowLoopProc = "CONNECT" /\ next = b /\ mDeleteRequested[b]
                    => \A c \in Children(b) : ~Unrequested(c)

-----------------------------------------------------------------------------
(* Liveness.                                                                *)

\* f_base.dox: a base whose deletion is requested is deleted, children and all.
DeletionCompletes ==
  \A b \in Bases : (b \in live /\ mDeleteRequested[b]) ~> (b \notin live \/ Stalled)

\* A create operation that was not ready is attempted again until it resolves:
\* no retry is forgotten, whatever phase the base was created in.
CreationResolves ==
  \A b \in Bases : (b \in live /\ mLifecycleState[b] = "CREATING")
                     ~> (b \notin live \/ mLifecycleState[b] # "CREATING" \/ Stalled)

-----------------------------------------------------------------------------
(* The abstract view that game code has of the framework.                   *)

stage == [b \in Bases |-> IF b \in live THEN mLifecycleState[b]
                          ELSE IF b < m_rootUniqueID THEN "destroyed" ELSE "unborn"]
calls == [i \in 1..Len(stack) |->
            [base |-> stack[i], op |-> IF i > 1 \/ ~inLoop THEN "CREATE" ELSE m_nowLoopProc]]

Lifecycle == INSTANCE BaseLifecycle WITH kin <- parent

\* FBase implements BaseLifecycle: whatever game code does, operations run one
\* at a time, in the stage they belong to, and stages change only between them
\* or as they return.
ImplementsLifecycle == Lifecycle!Spec
=============================================================================
