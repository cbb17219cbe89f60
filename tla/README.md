# A verification of the NSMBW process framework, state machines and scenes

This directory models the parts of the decompiled game program whose
correctness is a matter of order: who is scheduled, created, run and destroyed
when, through which lists, and what other code may rely on while it happens.
The core is the process framework (`source/dol/framework`), on which every
scene and actor of the game is built; next to it stand the state machines
(`sLib/s_StateMethod*.cpp`) that most of these run, the scenes with the fader
that hides their change, the boot scene that drives all of these, and the
manager of the archives they wait for. Paths below are relative to
`src/source/dol/` unless they start with `src/`.

## 1. The system

### Components

| Part | State it keeps | Operations | What is hard |
|---|---|---|---|
| Process framework (`framework/f_base.cpp`, `f_manager.cpp`, `f_list.cpp`) | per base: lifecycle state, requested deletion, two deferrals, disable flags; per manager: create, execute, draw and delete list, connect tree, current phase | `mainLoop`, `connectProc`, `createPack` and the other packs, `createRoot`, `createChild`, `deleteRequest` | game code creates and deletes while a list is walked; creations nest; one list node serves three lists |
| Search (`framework/f_manager.cpp`, `f_tree.cpp`, `f_list.cpp`) | eight lists by ID, the connect tree | `searchBaseByID`, `searchBaseByProfName`, `searchBaseByGroupType` | IDs kept across frames; loops that continue a search from its last result |
| cLib lists and trees (`cLib/c_list.cpp`, `c_tree.cpp`) | intrusive pointers | insertion, removal, preorder walk | a node has one pair of links and no record of its list |
| Scenes and faders (`bases/d_scene.cpp`, `mLib/m_fader*.cpp`, `m_color_fader.cpp`, `m_wipe_fader.cpp`, `bases/d_next.cpp`) | next, current and old scene, fader status and frame count | `setNextScene`, `createNextScene`, `preExecute`, `fadeIn`, `fadeOut`, `calc`, `setFader` | requests while a fade or a deletion is under way; the last frame of a fade |
| State machines (`sLib/s_StateMethod*.cpp`, `s_StateStateMgr.hpp`) | current, new and old state, holder, two locks, two flags; for a pair of managers, which is current | `initializeState`, `executeState`, `finalizeState`, `changeState`, `refreshState`, `changeToSubState`, `returnState` | a state that changes the state while it is initialised, executed or finalised |
| Phases (`sLib/s_Phase.cpp`) | position in a list of methods | `callMethod` | retry until ready |
| Boot scene (`bases/d_s_boot.cpp`) | two state managers, the background phase, timers, visible screens; flags of the home menu and the reset manager | its 24 states, `execute`, `doDelete` | both machines drive one fader and one set of flags, and change each other's state; NAND commands fail; resets come at any time |
| Resources (`bases/d_res*.cpp`) | archive slots, reference counts, pending DVD commands | `setRes`, `deleteRes`, `getRes`, `syncAllRes` | a slot given up while its command is pending |
| Dynamic modules (`cLib/c_dylink.cpp`, `bases/d_dylink.cpp`) | usage, link and load counts | `link`, `unlink`, `load_async` | synchronous use while an asynchronous load runs |
| Heaps (`mLib/m_heap.cpp`, `m_allocator.cpp`) | one saved current heap | save, restore, create, adjust | none that the users of the slot meet |
| System loop (`bases/d_system.cpp`, `d_main.cpp`) | | calls `mainLoop` and `createNextScene` once a frame | |
| Game processes (`bases/d_base.cpp`, `d_actor.cpp`, `d_enemy.cpp`, `d_a_*.cpp`, `d_wm_*.cpp`, ...) | game data | operations called by the framework | they are the framework's environment |
| Library code (`src/source/lib`: OS mutexes, audio voices, graphics, math) | | | priority inheritance, interrupt callbacks |

Components talk to each other by plain calls on one thread. The calls that
matter go both ways: `mainLoop` walks a list and calls an operation of each
base, the operation is game code, and game code calls back into the framework
(`createChild`, `deleteRequest`, the searches), which changes the lists that are
being walked.

### What makes each part correct

* Framework: every base is in exactly the lists of its lifecycle state; a walk
  never follows a node that was freed or moved; nothing joins the list being
  walked; a creation that is not finished is tried again and a requested
  deletion completes; families are destroyed children first; nothing runs in a
  disabled scene or after its deletion was requested; priority order is kept.
* Search: an ID finds its base exactly while it lives; a search loop meets every
  base of a kind once.
* Lists and trees: the pointers always represent the sequence or the tree that
  their users believe in.
* State machines: a state's initialisation and finalisation alternate, whatever
  its methods call; no state is executed that is not there; a requested change is
  not lost; a state under a sub state is kept for the return.
* Scenes and faders: there is one scene at most; a change that was accepted takes
  place, once, for the scene asked for first, behind an opaque screen; a fade ends
  and never turns back.
* Boot scene: neither state machine waits for a fade that nobody has started;
  screens are exchanged in the dark; the title is reached whatever resets and
  errors do, and finds nothing switched off.
* Resources: an archive is loaded once and stays while someone holds it, under
  its own name; waiting for it ends.

## 2. The modules

| Module | What it is | Code |
|---|---|---|
| `FList` | lists as sequences: removal, successor, priority insertion | `cLib/c_list.cpp`, `framework/f_list.cpp:6-29` |
| `FTree` | the connect tree as a parent function: children, preorder successor | `cLib/c_tree.cpp`, `framework/f_base.cpp:465-477` |
| `FBase` | the framework: frame, walks, operations, creation, deletion, connect | `framework/f_base.cpp`, `f_manager.cpp`, `f_list.cpp` |
| `BaseLifecycle` | what the framework promises game code (abstract) | |
| `CList` | the lists pointer by pointer, with `addNode`'s walk step by step | `cLib/c_list.cpp`, `framework/f_list.cpp` |
| `CTree` | the tree pointer by pointer | `cLib/c_tree.cpp` |
| `FSearch` | search by ID and by profile, on top of `CTree` | `framework/f_manager.cpp`, `f_tree.cpp` |
| `StateMethod` | state managers with re-entrant calls | `sLib/s_StateMethod.cpp`, `s_StateMethodUsr_FI.cpp` |
| `StateLife` | what a state manager promises the states (abstract) | |
| `StateStateMgr` | the pair of managers of an enemy: ice as a sub state | `src/include/game/sLib/s_StateStateMgr.hpp`, `bases/d_enemy_state.cpp`, `d_enemy_death.cpp` |
| `Fader` | the fader in use: status, frame count, alpha (operators on a record) | `mLib/m_fader_base.cpp`, `m_fader.cpp`, `m_color_fader.cpp`, `m_wipe_fader.cpp` |
| `Scene` | scenes, their change and the frame, on top of `Fader` | `bases/d_scene.cpp`, `bases/d_system.cpp:254-269` |
| `SceneChange` | what a change of scenes promises the player (abstract) | |
| `Boot` | the boot scene, in place of the scene's own code in `Scene` | `bases/d_s_boot.cpp`, `sLib/s_Phase.cpp` |
| `Res` | the archives' holders, counts and DVD commands | `bases/d_res.cpp`, `d_res_info.cpp` |
| `Archives` | what the resource manager promises its callers (abstract) | |
| `FListProofs` | lemmas about the operators of `FList`, about walks up and over a tree, and about loops and searches along a walk | |
| `FBaseProofs`, `CListProofs`, `FSearchProofs` (with `CTree`), `StateMethodProofs`, `StateStateProofs`, `BootProofs` (with `Scene` and `Fader`), `ResProofs` | theorems | |
| `MCFBase`, `MCCList`, `MCFSearch`, `MCStateMethod`, `MCStateStateMgr`, `MCScene`, `MCBoot`, `MCRes` | instances for TLC | |

`FBase` computes with the operators of `FList` and `FTree`. `CList` and `CTree`
carry those same operators in history variables (`lists`; `live` and `parent`)
next to the pointers, and show that the pointers represent them. So the three
levels fit together: `CList` needs callers that insert only unlinked nodes and
remove a node through its own list or while it is in none, and that is what
`ScheduleMatchesState` and `ListsInjective` say of `FBase`.

### FBase

Variables carry the names of the fields and static members they stand for.
`live` is the set of nodes of the connect tree, `parent` their parents. A list
is the sequence of the IDs of its bases. `next` is the local variable of
`walkPack`; `stack` holds the bases whose operation is in progress, innermost
last: the first one was called by the walk (or, between frames, by
`createNextScene`), every further one is a creation nested in the one before.
Whatever happens while `stack` is not empty is done by game code.

| Action | Code |
|---|---|
| `StartLoop`, `NextProc`, `EndLoop` | `mainLoop` (`f_manager.cpp:56-83`) |
| `WalkPack` | one round of `fLiMgPTMF_c::walkPack` up to the do method: read the next node, ask the pre method |
| `ConnectProc` | one round of `fTrMgPTMF_c::walkPack` with the whole of `connectProc` (`f_base.cpp:212-287`) |
| `MakeBase`, `StallMake`, `Spin` | `fBase_make` with the constructors, up to the call of `create`; the last ID stalls |
| `CreateSucceeded`, `CreateWaiting`, `CreateFailed` | return of `create`, `postCreate`, and the end of `runCreate` if this is the first attempt |
| `DeleteSucceeded`, `PackEnds` | return of the other operations with their post methods |
| `EnableScene` | `dScene_c::preExecute` on a scene that is still disabled (`d_scene.cpp:97-104`) |
| `DeleteRequest` | `deleteRequest` by game code, on any base |

What the model leaves out, and why it may:

* The execute and the draw flags of each kind (`mProcControl`) are always set
  and cleared together (`d_scene.cpp:24-25, 100-101` are the only places that set
  the root flags), so `rootDisable` and `disable` are one flag for each pair.
* `mNewOrder` is only written by the constructor, with the value of `mOrder`:
  the re-sort branch of `connectProc` never runs.
* `m_StopProcInf` is never set. `deleteReady` is an empty hook that one scene
  overrides. The helper and the heap of a base have no user.
* A profile that is missing and an allocation that fails leave nothing behind:
  no step.
* Refusals by the pre methods of derived classes are covered: an operation may
  return without an effect (`PackEnds`, `CreateWaiting`).
* The stages of a scene's own `preExecute` before line 97 (phases, fades) are
  refusals in this sense, or a `deleteRequest`.

Assumptions about game code, each a guard of `MayCreate`:

* Scenes are made between two frames, when there is none
  (`dScene_c::createNextScene` checks `m_otherSceneFlg`, which the last scene's
  `postDelete` clears); all other bases are created with a living parent, in an
  operation.
* No operation creates a child under the base whose own delete operation is in
  progress: that base is freed when the operation returns.
* `DrawCreates` and `OrphanCreates` say whether game code creates while the draw
  list is walked, and whether it creates children of a base that is already
  DELETING. Both are TRUE in the run and in the theorems of the safety
  properties, except where a property needs them FALSE (below).

### BaseLifecycle

The abstract specification knows the stage of each base, its parent and the
operations in progress. It says that operations run one at a time except for
nested creations, each in the stage it belongs to; that stages change between
operations or as one returns; and that a base is destroyed childless. `FBase`
implements it with `stage`, `parent` and `calls` as the refinement mapping.

### CList, CTree, FSearch

`CList` has one action per operation of `cListMg_c`, and splits `addNode` into
its entry, the rounds of its loop (`Advance`) and its insertion. Nothing else
touches the lists meanwhile: the other operations wait for `Idle`, as on the one
thread they do. `CTree` constructs and destroys bases in the ways `FBase` does.
The refusal of `removeTreeNode` on a node with children is a guard, since
`preDelete` has refused before. `FSearch` adds the search lists; the eight lists
become `SearchTables`, the mask a remainder. The searches by profile and by
group type differ in the field they compare, so one stands for both.

### StateMethod, StateLife, StateStateMgr

A manager calls the methods of its states and these call managers, so what
matters is the nesting. `todo` is the call stack as a list of tasks, innermost
first: a task named like a call ("finalize") is a call about to be made, one
named like an activity ("finalizing") is a method of a state that is running.
The flags and pointers have the names of the fields; `mpState` is the ID in the
holder, or `Null`.

| Action | Code |
|---|---|
| `InitializeState`, `ExecuteState`, `FinalizeState`, `ChangeState`, `RefreshState` | a call by the owner (`todo` empty) or by a method of a state (`s_StateMgr.hpp:37-43`) |
| `StartInitialize`, `SkipInitialize`, `InitializeReturns` | `initializeStateMethod` up to the state's own method, when its condition fails, and after it |
| `StartFinalize`, `SkipFinalize`, `FinalizeReturns` | the same of `finalizeStateMethod`, with the disposal of the holder |
| `StartPass`, `SkipExecute`, `RunState`, `ExecuteReturns` | one round of the loop in `executeStateMethod`: lock, initialise if need be, execute, unlock, loop or return |
| `Changed` | the last line of `changeStateMethod` |

States call any manager of the owner in any way. One restriction is a constant:
`LateStates` are the states whose initialize method changes the state of its own
manager. The request of such a call stays pending (both locks refuse it), the
properties about requests except those states, and nothing in the repository is
one: `dAcPy_c::initializeState_DemoInDoor` changes the state of the player's other
manager. A request for the null state is ignored by the code and is not a step.

`StateLife` knows the phase of each manager (none, entering, live, leaving), the
state it lives and which states are being executed; `phase`, `mpState` and `running`
are the refinement mapping.

`StateStateMgr` extends `StateMethod` with the pair of managers of `dEn_c`. An
enemy's code calls the current one between its executions (collisions) or from
an execute method. `dEn_c::changeState` in the sub state is three calls in a
row, so what is left of it is a task, too (`Changing`), as is the end of
`returnState` (`Returning`).

### Fader, Scene, SceneChange

The fader in use is a record of its status, `mFrameCount` and `mCurrFrame`, the
latter with their width: `Tick` wraps. A fade in compares the count before the
increment and a fade out after it, so a fade out longer than `MaxU16 - 2` never
ends and a fade in of `MaxU16` neither; callers ask for `Durations`.

`Scene` follows one frame of `dSys_c::execute` with the program counter `at`:
the reset manager, `createNextScene`, then the parts of `mainLoop` that call a
scene (delete, create, execute, connect) and `dFader_c::calc`. `stage` says
where each scene object is in its life; `FBase` is the same main loop for any
number of bases, and what `Scene` uses of it is that a base that is requested to
be deleted goes to the delete list at the next connect, and is deleted when its
children are.

One assumption is about code that is not there: a scene's create operation
succeeds, or is not ready and is tried again, but does not fail. The only one in
the repository, `dScBoot_c::create`, always succeeds. A scene whose creation
failed would be gone without having named a successor, so `SceneInv`, the
refinement of `SceneChange` and their theorems rest on it.

| Action | Code |
|---|---|
| `SkipNextScene`, `CreateNextScene` | `createNextScene` with the first try of `create`; it may fail to make a base, and is called again in the next frame |
| `CreateScene`, `SkipCreate`, `DeleteScene`, `SkipDelete` | the create and the delete walk: `preCreate`, `postCreate`, `postDelete` |
| `PhaseDone`, `PhaseWait`, `PrepareNextScene`, `ChildrenCreated`, `ChildrenWait`, `PreExecute` | the branches of `preExecute`, in their order |
| `OwnCall`, `ProcessCall`, `Reset` | external: the scene's own code, its processes, the reset manager; they use `setNextScene`, the durations, the fader, the automatic fade in |

A process that runs may ask for the next scene also while the scene fades out or
is requested to be deleted, and a reset refuses all requests but the forced ones.
A frame in which the home menu or a disc error stops the game changes nothing
but the reset manager's mode, which `Reset` may change to any mode anyway.
`SceneChange` has neither frames nor faders; `Scene` implements it.

### Boot

`Boot` extends `Scene`: its `execute` operation takes the place of `OwnCall`,
its `doDelete` and destructor join `DeleteScene`, its `preExecute` permits soft
resets. The members of `dScBoot_c` and what it writes to are one record, `boot`;
the execute operation is three steps (background phase, `mResetStateMgr`,
`mStateMgr`), so that what happens on other threads (the NAND thread) may come
between. Changes of state take place at once, as `StateMethod` shows for the
managers that dScBoot_c uses: `ChangeState` is finalize, then initialize. A
state manager that is run by the other one's state (`finalizeState_ResetFadeOut`
changes `mStateMgr`) is part of that step.

`Background` lists the methods of the background phase that something else depends
on; those that only wait are joined to their neighbours. The animation of
layouts, the home menu's flag 0x08, sounds and the counts of the windows are left
out, and so are two effects of `doDelete`: it tells the reset manager that the boot
is complete, whose code is not in the repository, and sets the durations of the
fades after the boot scene, which no property of `Boot` depends on. What is external and how it is modelled:

* The reset manager (`dReset`, whose code is not in the repository) starts a soft
  reset only while it is permitted and no save window is active, which is what
  `ActiveSaveWindow` and the places that call it are for. It does not change the
  scene while the boot scene runs. Without the first assumption a reset during
  `WiiStrapFadeOut` or `GoToErrorFadeOut` would light up a screen whose
  blackness that state waits for.
* A shutdown (SAFETY_WAIT) may start at any time and never ends.
* The NAND thread may be busy at the start, finishes every command, with an
  error or not.
* The yes/no window notices what it is asked in its own execute operation of the
  same frame, and animates for some frames.
* The player may press a button in any frame, or never.

### Res, Archives

`infos` is the array of holders. A command is pending, done with an archive
(`loaded`) or without one (`failed`); `DvdDone` is the DVD thread, which may
finish any command between two looks of `syncAllRes` (`SyncStarts`,
`SyncVisit`). `set` writes the file's name and the holder's name together, so
the archive that a command brings is the one of the name the holder has at that
time. `held` counts what callers hold, and `ReleaseLoading` says whether they
release an archive that is still being loaded. `Archives` knows no holders: an
archive is absent, loading, loaded or failed.

Left out: the heap and the files of a loaded archive (`info_c::setRes` from line
99 on; a failure there leaves the archive without its data heap), the
destructors, and the width of `mRefCount`, a u16 that `MaxHolders` stays below.

## 3. The runs

| Run | Instance | Shows |
|---|---|---|
| `fbase_core` | 3 bases, 3 profiles (one scene; two actor profiles with opposite priorities in the execute and the draw list), game code free: 162,883 states | the inductive invariant and the safety properties, the action properties, and that `FBase` implements `BaseLifecycle` |
| `fbase_family` | 3 bases, 2 profiles, `DrawCreates` and `OrphanCreates` FALSE, with fairness: 36,672 states | whole families are scheduled for deletion; nothing joins the list being walked; requested deletions complete; creations resolve |
| `fbase_connect` | 2 bases | a violation, see below |
| `clist` | 4 nodes with orders 0, 1, 1, 2 and two lists: 748 states | the pointers spell the sequences; the walk of `addNode` ends |
| `fsearch_tree` | 5 bases, 2 profiles, 2 search lists: 62,649 states | the pointers spell the tree; the walk is its preorder; the search properties |
| `statemethod` | 1 manager, 3 states, one of them in `LateStates`, with fairness: 4,967 states | the inductive invariant, no null state executed, no request lost, `StateLife` implemented, calls return |
| `statemethod_changed` | the same, without fairness | a violation, see below |
| `statestate` | 2 managers, 3 states (one is the ice): 1,354 states | the sub manager is current exactly while it lives the ice; the enemy is frozen once; the state underneath is kept |
| `scene` | 2 scenes, 2 object places, durations 1 and 2, `MaxU16` 4, with fairness: 51,552 states | one scene at most; `SceneChange` implemented; accepted changes complete; fades never turn back |
| `boot` | the boot scene and its title, fades of 1 frame, timers of 1 and 2, 2 faults: 131,900 states | no state waits for a fade that does not come; screens swapped in the dark; NAND commands do not overlap; the title is reached with nothing left switched off |
| `res` | 4 archives, 3 holders, at most 2 users of one archive, with fairness: 113,548 states | counts, holders and archives agree; `Archives` implemented; waiting ends |
| `res_release` | the same, `ReleaseLoading` TRUE | a violation, see below |

Bounds. `BASE_ID_MAX` bounds the number of bases that are ever constructed
(`BASE_ID_MAX - 2`), and reaching it is part of the model: the constructor stalls.
Three bases make a scene, a child and a grandchild, or two siblings of different
or equal priority; that is enough to have nested creations in every phase, a
deferred base next to a retried one, a deletion requested between the two, and a
walk whose current, next and last node are all affected by one operation. With
four bases the invariants hold as well (1.6 million states), and the theorems
below hold for any number. In `CList`, four nodes are enough for the first,
last, inner and only node of a list and for two nodes of one order. In `FSearch`,
five bases make every shape in which a walk climbs two levels, and every list
holds at least two bases. `fsearch_tree` does not check for deadlock: when
the bases are used up and destroyed, the model has no step left.

In `StateMethod` nothing bounds the calls: the locks do, since a call that they
refuse returns at once, and the deepest stack of one manager is an execution
with an initialisation or finalisation inside and the calls these make. Three
states are a current one, a requested one and one requested in between. Two
managers with two states have been checked too (4.1 million states); the
theorems hold for any number. In `StateStateMgr` the two managers are the
system, and the two states besides the ice are the one left and the one entered.

In `Scene`, the two object places are one more than the system needs, so that a
second scene would show. Durations 1 and 2 are a fade with and without a frame
in the middle, and with `MaxU16` 4 the fade out of 2 frames is the longest one
that ends: one frame more wraps. In `Boot`, timers and fades are cut to the
smallest values that keep their order (the least display time ends before the
automatic advance; 60 and 1200 frames, 30 and 300 in the code). Two faults are a
reset and an error, an error after a retry, two resets, or one of these and a
shutdown. In `Res`, four archives for three holders make requests fail and
holders change their archive; two users make the count matter.

No symmetry is declared: base IDs are ordered, holders are searched in order, and
the other instances check liveness.

### Properties

* `ScheduleMatchesState`, `ListsInjective`: `mMainNode` and `mDrawNode` are in
  the lists of the base's state only, and once.
* `OneWayForward`: a base in creation is being created, scheduled, or deferred,
  and only one of them, unless its deletion is requested. A base in none of them
  would never be looked at again.
* `WalkIntact`: the node read ahead is still in the walked list (or in the
  tree).
* `ParentOutlivesChildren`, `ChildrenDeletedFirst`, `FamilyScheduled`: the order
  in which families are deleted. `FamilyScheduled` needs `OrphanCreates` FALSE:
  a child created under a DELETING base is requested by nobody, which the
  framework leaves to game code. What the framework does with such a child is
  checked with `OrphanCreates` TRUE in `fbase_core`: the parent waits for it.
* `ListsSorted`: the execute and draw lists are in priority order.
* `FlagsSynced`, `RunsLegally`: after a frame the disable flags agree with the
  parent's, and no operation starts below a disabled scene.
* `NothingJoinsTheWalk`: the promise of `f_manager.hpp` on `m_nowLoopProc`. It
  needs `DrawCreates` FALSE: `postCreate` defers in the EXECUTE phase only, and
  a base whose creation succeeds in the DRAW phase enters the list being walked.
* `DeletionCompletes`, `CreationResolves`: liveness, below.
* `WalkIsPreorder`: the walk along the pointers, as a function of the round
  (`WalkOrder`), visits every living base once and ends; right after a base come
  its descendants and then what `getTreeNextNotChild` leads to; and `FBase`'s
  `TreeNext` takes the same steps.
* `IDsFindTheirBases`, `SearchLoopMeetsAll`: an ID finds its base while that
  lives and nothing afterwards; the loop that game code writes, which passes each
  result as the next search's parent, meets every base of the profile once.

* `LocksMatchStack`, `AtMostOnce`, `HolderIsCurrent`, `RunIsPrepared`,
  `CurrentIsRequested`: the parts of `IInv` of `StateMethod`. A lock is held
  exactly while a method that it guards is running, and the holder has the
  current state exactly from before its initialisation to after its
  finalisation.
* `ExecutesAState`, `ChangeTakesEffect`: `executeStateLocalMethod` does not
  follow a null pointer; whenever game code runs, the live state is the one
  requested last.
* `SSInv` (`SubStateIsIce`, `FrozenOnce`), `StateKeptUnderSubState`: the pair of
  managers.
* `SceneInv`: `OneScene` (at most one object, and `m_otherSceneFlg` knows),
  `Pending` (a scene goes only with a successor named), `Dark` (black until a
  scene is prepared, and from its deletion request on).
* `ChangeCompletes`, `FadesMonotone`: an accepted request becomes the scene
  there is; a frame of the fader moves its alpha in the fade's direction only.
* `WaitsForAComingFade`: a boot state that waits for black or clear has a fade
  under way that leads there, or is there. `startFadeIn` and `startFadeOut` are
  refused in all but one status, so this is what two machines with one fader can
  get wrong.
* `SwapBehindScreen`, `NandCommandWhenIdle`: what a step of the boot scene may
  never do.
* `BootInv`: the scenes' invariant with the boot scene's code in it, and
  `LeavesNothingForbidden`: home menu, save window, automatic fade in and
  warnings are permitted again for the title.
* `BootEnds`: liveness, below.
* `ResInv`: `CountsItsUsers`, `OwnArchive`, `NothingLeftOver`, `SyncedIsLoaded`
  (after `syncAllRes` has returned false nothing that was requested is missing).
* `WaitingEnds`: liveness, below.
* `CallsReturn`: liveness, below.

### Fairness

`FairSpec` of `FBase` assumes that the frame loop goes on (`d_system.cpp` calls
`mainLoop` for ever), that every operation returns, and strong fairness of each
base's success: an operation that is called again and again is not unready for
ever (waiting for a file or a heap ends). The liveness properties allow for the
stalled game. `FairSpec` of `CList` assumes only that `addNode`'s loop runs on.
`FairSpec` of `StateMethod` assumes that the program goes on and that the
methods of the states return (strong fairness: a method may make calls first,
but not for ever). `CallsReturn` is claimed only where states do not call
`refreshState` for ever, which would keep the loop of `executeStateMethod`
going.

`Fairness` of `Scene` assumes that frames go on (weak fairness of `Frame`), and
strong fairness of the steps that an operation reaches when what it waits for is
there: a scene object can be made, is created, its phase and its children end,
its deletion is agreed to. Nothing is assumed of requests. `ChangeCompletes`
holds although the scene's own code may start fades and set faders in every
frame: `preExecute` lets the scene execute no more once there is a next scene.
`BootFairness` adds the steps of the boot scene, and that the background
methods, NAND commands, windows and the reset manager's blank screen come to an
end; nothing is assumed of the player, so `BootEnds` allows for the states that
wait for the player (`ButtonInputWait`, the error message), for the fatal error,
and for a shutdown. `Fairness` of `Res` assumes that the DVD thread finishes
each command and that callers go on calling `syncAllRes`. `WaitingEnds` is
claimed only if new requests do not keep coming: `syncAllRes` ends at the first
archive in progress, so new requests in the first holders could starve a later
one.

### Divergences found

* `f_base.cpp:228` calls the loop over the children in `connectProc` pointless,
  "already done in deleteRequest". Run `fbase_connect` shows a child that only
  this loop requests: it was created after its parent's `deleteRequest` and
  before the parent's `connectProc`. The mutant that drops the loop breaks
  `FamilyScheduled`.
* `s_StateMethod.hpp:41-42` describe `mStateChanged` as a change "during
  execution" and a refresh as one "after a state transition". The flag is never
  reset: run `statemethod_changed` shows a pass that begins with the flag set by
  an earlier change. A refresh is therefore granted without a transition, too.
* `d_res.cpp:59` ignores that `cleanup` refuses while a DVD command is in
  progress. Run `res_release` shows the consequence: `setRes(cast)`,
  `deleteRes(cast)` while it loads; the command ends and `syncAllRes` gives the
  unused holder its archive; `setRes(env)` takes that holder, and `getRes(env)`
  finds the files of cast, against `d_res.hpp:104` ("The archive accessor, or
  nullptr if the archive has not yet been loaded"). The archive of env is never
  taken from its command. Nothing in the decompiled code calls `deleteRes`, so
  whether the game does this is open; with `ReleaseLoading` FALSE the manager is
  right (run `res`, theorem `ResImplementsArchives`).

Met while modelling, with no run of their own:

* `f_manager.hpp:56` and `f_tree_mg.hpp:15` describe the second argument of the
  searches as a parent to search under. It is a place to continue from: the walk
  runs on to the end of the tree. Game code uses it so (`d_a_en_door.cpp:18`,
  `d_base_actor.cpp:124`), and `SearchLoopMeetsAll` shows that this use is
  right.
* `d_scene.hpp:40` says of `forceChange` "If the transition should always be
  performed"; a forced request is ignored as any other while a next scene is
  named (`d_scene.cpp:163`). The mutant of `ImplementsSceneChange` is the
  documented behaviour.
* `d_res.hpp:208` says of `syncAllRes` "Whether such an archive was found"; it
  returns true while an archive is in progress and false once all are loaded or
  have failed. An archive that failed to load is not tried again while someone
  holds it, and `dResMng_c::setRes` for several names (`d_res_mng.cpp:33`)
  ignores all failures.
* `~info_c` (`d_res_info.cpp:17`) follows `mpDvdCmd` without asking whether
  there is one.
* A reset in `WiiStrapDispEndWait` skips `ControllerInformationFadeIn`, whose
  finalize operation permits warnings again; they stay forbidden until the
  scene's destructor (`BootInv`).
* `cOwnerSetMg_c::add` (`cLib/c_owner_set.cpp`) does not compare with the root:
  adding the root of a set with several nodes again would unlink the others.
  Nothing in the decompiled code calls it.

## 4. The proofs

The theorems hold for every value of the constants that the named assumptions
allow, and TLC evaluates these on the instances:

| Module | For every | Assumptions |
|---|---|---|
| `FBase` | `BASE_ID_MAX`, set of profiles and scenes, priorities; game code with or without the two freedoms | `IdAssumption`, `ProfileAssumption`, `ClientAssumption` |
| `CList` | nodes, lists and orders | `NodeAssumption` |
| `CTree`, `FSearch` | bases, profiles, number of search lists | `BasesAssumption`, `SearchAssumption` |
| `StateMethod` | managers, states and `LateStates`, any nesting of calls | `StateAssumption` |
| `StateStateMgr` | states besides the ice | `MgrAssumption`, `IceAssumption` |
| `Scene`, `Fader` | scenes, object places, durations, width of the fader's counters | `SceneAssumption`, `MaxU16Assumption` |
| `Boot` | the same, timers and number of faults | `BootAssumption` |
| `Res` | archives, number of holders | `ResAssumption` |

A few theorems have a hypothesis that the run of the property satisfies as well,
because the property is false without it: `~DrawCreates`, `~OrphanCreates`,
`~ReleaseLoading` (what game code does not do) and `ShortFades` (below).

### Lists, trees and walks

`FListProofs` states what the sequence operators do: `UnlinkIs`, `AddNodeIs`,
`AppendIs`, `ConsIs` give the type, the members, injectivity and order of the
result, and `Inserted` its exact shape.

The walks (`Lineage`, `TreeNextNotChild`, `getTreeNextNotChild`) are recursive
functions, which the library's induction theorems do not reach. They are proved
about in two steps. First the function is shown to satisfy its own recursion, by
naming a function that does: for the ways up a tree, `UpsIs` takes the sets that
are closed under the parent function; for the loops of a walk and of a search,
`LoopExists` and `SearchExists`. Then what holds of every base (or every round of a
loop) is proved from a smallest (or greatest) one of which it would not: a parent
is older than its children, which `Family` and `Ages` say and every construction
keeps.

That such walks are complete is stated once, for any tree given by its nodes and
their parents (`Tree`), and cited by `FBaseProofs` and `FSearchProofs`.
`Remaining` is what a walk that stands on a node still has to visit: the node and
what is below it, and the younger siblings of its lineage with what is below them.
At the eldest root that is everything (`RootRest`), a step takes exactly the node
it leaves out of it (`PreorderStep`), and the step that is not to a child takes
out what is below as well (`PassesRest`). `Walks` abstracts from trees: something
remains in each round, and each round takes its node out. Since no more than
finitely many nodes remain, and one less every round, the walk is over after as
many rounds as there are IDs (`WalkEnds`); what remains is what it is going to
visit (`WalkVisits`); and what a part of the rest leaves out is visited before that
part, in one run (`WalkSegment`). A search along a walk ends on the first hit
(`SearchFinds`), and a loop that searches on from each hit meets every hit once
(`LoopMeetsAll`): in each round it has met what the walk has passed of them.

### The framework

`FBaseProofs` proves `IInv` inductive, action by action, and derives
`TypeCorrectness`, `OneNodeSuffices` (`ScheduleMatchesState`), `NeverForgotten`
(`OneWayForward`), `WalksAreSafe` (`WalkIntact`), `ParentsLast`
(`ParentOutlivesChildren`) and `FamiliesDeletedBottomUp`
(`ChildrenDeletedFirst`). `PriorityOrderKept` (`ListsSorted`) has an invariance
proof of its own on top of `IInv`.

Why the invariant is what it is: `WalkIntact` alone is not inductive, since an
operation removes nodes. It needs to know where each base is linked
(`ScheduleMatchesState`), that the base in progress is not the one read ahead
(`ListsInjective`), that nested operations belong to bases in creation, which
are in none of the other lists (`StackLegal`, `OneWayForward`), and that a
deletion only takes out the base in progress (`PhaseLegal`).
`ParentOutlivesChildren` needs that no child appears between the check of
`preDelete` and the end of the operation (`NoLateChild`). `FreshIds` describes
the bases that are not constructed yet, and `RequestsTaken` keeps a DELETING
base from being scheduled twice.

`FrameworkImplementsLifecycle`: every step of `FBase` is a step of
`BaseLifecycle` or changes nothing there.

Families. `FlagsSynced` and `FamilyScheduled` speak of the state between frames;
the CONNECT walk establishes them base by base, parents first. Their invariant
`FamilyInv` therefore says what holds in the middle of the walk: `Rest(next)` is
what the walk has not visited yet (`Remaining` of the connect tree), `RestBounds` and
`TreeNextRest` say that it is everything at first, nothing at the end, and loses
exactly the base visited in between, and `FlagsSpread` and `FamilyKept` hold
outside of it. The flags are not in step between two CONNECT walks (a scene may
be enabled in an operation, and a new child takes its parent's flags as they
are), but never wrong in the dangerous direction: below a base that is disabled
or disables what is below it nothing is enabled (`FlagsReach`), and
`OperationsAreLegal` (`RunsLegally`) follows. `FamiliesDeletedTogether` needs
`~OrphanCreates`: deleteRequest reaches the children there are, connectProc
those that came later, and nobody those that come after that.

`WalkedListsOnlyShrink` (`NothingJoinsTheWalk`) needs, besides `IInv`, that no
base is being made in the DRAW phase (`DrawAlone`): in all other phases
`postCreate` defers a new base, or adds it to another list than the walked one.

### The pointers

`CListProofs` proves `LinksSpellLists` (`LinksRepresentLists`) from an invariant
that also says that a node is in one list only (`OneList`) and that the walk of
`addNode` stands on a node of the list that the new node has to follow
(`ScanOnCourse`, theorem `ScanStaysOnCourse`).

`FSearchProofs` proves `PointersSpellTree` (`PointersSpell`) and
`IDsFindTheirBases` (`IDsFind`). Their invariant adds that a parent is older
(`Ages`), that the search lists are the living bases of their IDs
(`SearchLists`), and `Links`: `addTreeNode` does not clear the node it adds, so a
base that is not in the tree must have no parent left from its constructor, and
`removeTreeNode` follows `mpPrev`, which must lead to a living base. `addTreeNode`
walks to the last sibling, a recursion over younger nodes: `LastSiblingIs`.
`WalkSteps` says that the pointer walks `getTreeNext` and `getTreeNextNotChild`
lead where `TreeNext` and `TreeNextNotChild` of `FTree` say, which is what
the proofs about `FBase` use.

`WalkMeetsAll` (`WalkIsPreorder`) and `SearchMeetsAll` (`SearchLoopMeetsAll`) put
whole walks together from these steps. The walk is a function of the round, over as
many rounds as `m_rootUniqueID`, which is above every living ID (`Ages`), so that the
bound cuts nothing off. The pointers give a walk in the sense of `Walks`
(`WalkOrderIs`); what `getTreeNextNotChild` passes over is what is below, by
`WalkSegment`; and `FirstWith` is a search along it (`FirstWithIs`). For
`FirstWith` to be well defined the destroyed bases count too: `getTreeNext` of
one leads nowhere (`GetTreeNextOfDead`), because the constructor's cleared links
are restored when it leaves the tree.

### The state machines

`StateMethodProofs` first says where the tasks of a changed stack come from
(`Called`, `Done`) and which guarded tasks a step adds and removes (`Popped`,
`Replaced`), then proves `IInv` action by action (`StateMethodInvariant`).
`ExecutesAState` alone is not inductive: that the holder is filled when the
execution starts depends on the initialisation in front of it
(`RunIsPrepared`), which may be refused only if a lock is held or the state is
live, and in both cases the holder is filled (`LocksMatchStack`,
`HolderIsCurrent`). `ChangeTakesEffectTheorem` needs that a state that is
being initialised is the one requested, and that otherwise a finalisation is
due (`CurrentIsRequested`). `StateLifeTheorem` proves that every step is a
step of `StateLife` or changes nothing there; the phase is a function of the
two flags (`PhaseIs`).

`StateStateProofs` proves `SSInv` and `StateKeptUnderSubState`. Here calls nest
less freely than in `StateMethod`, so its invariant `SSIInv` reads the innermost
tasks of the stack: the current manager is at rest, entering the state that was
requested, or leaving the sub state (`AtRest`, `Entering`, `Leaving`), with the
tasks that remain in each case named; a sub state stands over a state of the main
manager that is not the ice and to which nothing is being done (`SubStateOver`).
That the enemy is frozen once comes from there: `hitCallback_Ice` freezes only
while no ice is active, and the ice of a sub state stays active until the sub
manager is on its way out.

### Scenes and the boot scene

`BootProofs` proves `SceneInv` inductive (`SceneInvariant`): `OneScene` needs
that `m_otherSceneFlg` is cleared by the one object's deletion only, `Dark`
that nothing moves the fader between the deletion request and the successor's
first execution, which is why `PreExecute` and the own code need a scene in
stage "run". `SceneImplementsSceneChange` maps every step to `Play`, `Leave`,
`Enter` or a stutter.

`FadesAreMonotone`: a fade that lasts has a frame count that a caller asked for,
and a count below the limit of its width (`FadeInv`), so `Tick` does not wrap and
the division of `Alpha` is monotone in the count (`FadedIs`). `ShortFades` states
the two conditions on the durations that this needs: none is 0, by which the
fader would divide, and none exceeds `MaxU16 - 2`, which a fade out never reaches.

The boot scene runs two state managers, one after the other, on the same members,
fader and flags. Its proof is about that world as a record: `Agree` says what any
state may rely on, every operation of every state of either manager preserves it,
and the rest of the invariant (`BootIInv`) places the calls in the frame of
`Scene`. `Agree` consists of

* `ResetFits`: a soft reset is under way exactly while `mResetStateMgr` is out of
  its waiting state, and is requested only while no save window is active. Else a
  reset could begin while another one is fading in;
* `ScreenFits`: a state that fades out keeps resets and the automatic fade in
  away, and outside of a reset each state finds the screen as it expects it.
  `WaitsForAComingFade` (`BootFades`) is a consequence, and not inductive without
  the first part: a reset that takes the screen away must leave no such state
  waiting;
* `HomeFits` and `Warned`: what a state switches off is switched on again before
  the title; `MessageFits`: once the message is shown only the way to the title
  is left.

`Route` says how far the scenes are on their way to the title, and `Turns` that
the managers run in their order and only in the scene's own operation. From
`BootIInv` follow `BootInvariant`, `BootFades`, and the action properties
`BootSwaps` and `BootCommands`; and every step of `Boot` is a step of
`SceneChange` or a stutter (`BootImplementsSceneChange`).

### Resources

`ResProofs` proves `ResInv` (`ResInvariant`). An archive has its holder's name
only because a holder that becomes unused has no command: `NothingLeftOver`,
which `Cleanup` gives for every state of the command but "pending", and
`MayRelease` rules that one out. `ResImplementsArchives` assumes
`~ReleaseLoading`; `res_release` shows why.

### Only model-checked

* Liveness under fairness, which the prover does not cover: `DeletionCompletes`,
  `CreationResolves`, `ScanEnds`, `CallsReturn`, `ChangeCompletes`, `BootEnds`,
  `WaitingEnds`.
* The three runs that show a divergence.

## 5. Plan

In order:

1. `Dylink` as a component that `Boot` waits for: link counts, and an
   asynchronous load that a synchronous link overtakes.
2. The faders' kinds as separate objects, once more of `dFader_c` is decompiled.

## 6. Not modelled

Geometry, animation, collision and game rules of actors (floating point and
data): the bulk of the repository. Graphics, sound, math, Bluetooth and other
console libraries, most of it vendor code or headers without behaviour; file and
console input and output; the build tools. Of the parts with a protocol of their
own: owner sets, which nothing uses yet; heaps, whose one saved slot has
no nested users; dynamic modules, whose loads are commands of the DVD thread as
in `Res` and whose linking is the console's; OS mutexes and voices, which the
modelled code does not call. `PROJECT.json` lists every part with its reason.
