-------------------------------- MODULE Scene --------------------------------
(***************************************************************************)
(* The scenes of the game (dScene_c) and the fader, frame by frame         *)
(* (dSys_c::execute): the reset manager runs, the next scene is created,   *)
(* the main loop walks the scene through its operations, the fader moves.  *)
(* Of the main loop a scene sees its own operations, in the order of       *)
(* fManager_c::mainLoop (modelled in FBase): delete, create, execute,      *)
(* connect.  The processes of the scene run in the execute phase as well.  *)
(*                                                                         *)
(* External: the reset manager (dReset), what a scene does in its own      *)
(* execute operation, and what its processes ask for.  They use the        *)
(* operations of dScene_c and of the fader and nothing else.               *)
(***************************************************************************)
EXTENDS Fader

CONSTANTS
  Scenes,        \* the profiles of scenes
  BOOT,          \* the scene the game starts with
  INVALID,       \* no scene
  Slots,         \* the places a scene object can be in
  Durations      \* the durations of fades that callers ask for

ASSUME SceneAssumption ==
  BOOT \in Scenes /\ INVALID \notin Scenes /\ Slots # {} /\ Durations \subseteq U16
  /\ Durations # {}

VARIABLES
  at,             \* the part of the frame that comes next
  stage,          \* where each scene object is in its life
  nextScene, nowScene,   \* m_nextScene, m_nowScene (m_oldScene is never read)
  otherSceneFlg,  \* m_otherSceneFlg
  autoFadeIn,     \* m_isAutoFadeIn
  fadeIn, fadeOut,   \* m_fadeInFrame, m_fadeOutFrame
  fader,          \* the current fader
  mode            \* what the reset manager is doing

fades == << autoFadeIn, fadeIn, fadeOut, fader >>
names == << nextScene, nowScene, otherSceneFlg >>
sceneVars == << at, stage, names, fades, mode >>

(* A scene object: being created, running its mpPhase, waiting for its     *)
(* children with ROOT_DISABLE_EXECUTE, running, requested to be deleted,   *)
(* on the delete list.                                                     *)
Stages == {"none", "create", "phase", "children", "run", "leaving", "delete"}
Parts == {"reset", "scene", "delete", "create", "execute", "own", "processes",
          "connect", "calc"}
Modes == {"NORMAL", "SOFT_RESET", "SAFETY_WAIT"}

\* The faders that are not in use: their durations are those of old fades.
OtherFaders == [status: {"OPAQUE", "HIDDEN"}, frame: Durations, cur: {0}]

In(st) == {s \in Slots : stage[s] = st}
Alive == Slots \ In("none")
Goes(to) == at' = to
Becomes(s, st) == stage' = [stage EXCEPT ![s] = st]

(* setStartScene, and the fader of dSys_c's creation.                      *)
Init ==
  /\ at = "reset" /\ stage = [s \in Slots |-> "none"]
  /\ nextScene = BOOT /\ nowScene = BOOT /\ otherSceneFlg = FALSE
  /\ autoFadeIn = TRUE /\ fadeIn \in Durations /\ fadeOut \in Durations
  /\ fader = [status |-> "OPAQUE", frame |-> fadeIn, cur |-> 0]
  /\ mode = "NORMAL"

-----------------------------------------------------------------------------
(* Requests.                                                               *)

(* setNextScene: the first request wins, and a reset refuses all but the   *)
(* forced ones.                                                            *)

\* Mutant: d_scene.hpp's words, "if the transition should always be performed".
AcceptsForced(force) == force \/ (nextScene = INVALID /\ mode = "NORMAL")

Accepts(force) == nextScene = INVALID /\ (force \/ mode = "NORMAL")
SetNextScene(s, force) == Accepts(force) /\ nextScene' = s

(* The reset manager changes its mode, and starts the scene that follows a *)
(* reset (setResetScene).  It never leaves SAFETY_WAIT: the console resets.*)
Reset ==
  /\ at = "reset" /\ Goes("scene")
  /\ mode' \in IF mode = "SAFETY_WAIT" THEN {mode} ELSE Modes
  /\ \/ UNCHANGED nextScene
     \/ mode # "NORMAL" /\ \E s \in Scenes : SetNextScene(s, TRUE)
  /\ UNCHANGED << stage, nowScene, otherSceneFlg, fades >>

(* The execute operation of the scene itself: requests, fades, the kind of *)
(* fader, the automatic fade in.                                           *)
OwnCall ==
  /\ at = "own"
  /\ \/ /\ \E s \in Scenes, force \in BOOLEAN : SetNextScene(s, force)
        /\ UNCHANGED fades
     \/ /\ \E n \in Durations, new \in OtherFaders :
             fader' \in {StartFadeIn(fader, n), StartFadeOut(fader, n), SetFader(fader, new)}
        /\ autoFadeIn' \in BOOLEAN
        /\ UNCHANGED << nextScene, fadeIn, fadeOut >>
  /\ UNCHANGED << at, stage, nowScene, otherSceneFlg, mode >>
OwnReturn == at = "own" /\ Goes("processes") /\ UNCHANGED << stage, names, fades, mode >>

(* The processes of a scene that runs, also of one that is fading out or   *)
(* is requested to be deleted: requests, and the durations of the fades.   *)
ProcessCall ==
  /\ at = "processes" /\ In("run") \cup In("leaving") # {}
  /\ \/ /\ \E s \in Scenes, force \in BOOLEAN : SetNextScene(s, force)
        /\ UNCHANGED << fadeIn, fadeOut >>
     \/ fadeIn' \in Durations /\ fadeOut' \in Durations /\ UNCHANGED nextScene
  /\ UNCHANGED << at, stage, nowScene, otherSceneFlg, autoFadeIn, fader, mode >>
ProcessesReturn ==
  at = "processes" /\ Goes("connect") /\ UNCHANGED << stage, names, fades, mode >>

-----------------------------------------------------------------------------
(* The frame.                                                              *)

(* createNextScene.  createRoot runs the create operation at once, which   *)
(* succeeds or is run again by the main loop (it never fails, as that of   *)
(* dScBoot_c); createRoot may fail to make a base, and is then called      *)
(* again in the next frame.  preCreate switches the automatic fade in on,  *)
(* postCreate tells the reset manager.                                     *)

\* Mutant: the scene that there is is not waited for.
NoNextSceneAtOnce == nextScene = INVALID

NoNextScene == otherSceneFlg \/ nextScene = INVALID
SkipNextScene ==
  /\ at = "scene" /\ Goes("delete")
  /\ UNCHANGED << stage, names, fades, mode >>

\* A soft reset is over when a scene has been created (SetSoftResetFinish).
ResetFinished(m) == IF m = "SOFT_RESET" THEN "NORMAL" ELSE m

\* Scene objects that do not exist are all alike.
NewObject == CHOOSE s \in In("none") : TRUE

CreateNextScene ==
  /\ at = "scene" /\ Goes("delete") /\ ~NoNextScene
  /\ In("none") # {}
  /\ \/ Becomes(NewObject, "create") /\ UNCHANGED mode
     \/ Becomes(NewObject, "phase") /\ mode' = ResetFinished(mode)
  /\ nowScene' = nextScene /\ nextScene' = INVALID
  /\ otherSceneFlg' = TRUE
  /\ autoFadeIn' = TRUE
  /\ UNCHANGED << fadeIn, fadeOut, fader >>

(* The delete walk: a scene goes when its children have gone and its       *)
(* doDelete agrees.                                                        *)
DeleteScene ==
  /\ at = "delete" /\ Goes("create")
  /\ \E s \in In("delete") : Becomes(s, "none")
  /\ otherSceneFlg' = FALSE
  /\ UNCHANGED << nextScene, nowScene, fades, mode >>
SkipDelete == at = "delete" /\ Goes("create") /\ UNCHANGED << stage, names, fades, mode >>

(* The create walk.                                                        *)
CreateScene ==
  /\ at = "create" /\ Goes("execute")
  /\ \E s \in In("create") : Becomes(s, "phase")
  /\ mode' = ResetFinished(mode) /\ autoFadeIn' = TRUE
  /\ UNCHANGED << names, fadeIn, fadeOut, fader >>
SkipCreate ==
  /\ at = "create" /\ Goes("execute")
  /\ autoFadeIn' = (autoFadeIn \/ In("create") # {})
  /\ UNCHANGED << stage, names, fadeIn, fadeOut, fader, mode >>

(* preExecute: the methods of the phase; then, with a next scene, the fade *)
(* out and the deletion request; then the children; then, on a black       *)
(* screen, the automatic fade in.  Only the last case lets the scene       *)
(* execute.                                                                *)
Executing == In("phase") \cup In("children") \cup In("run")

PhaseDone ==
  /\ at = "execute" /\ UNCHANGED at
  /\ \E s \in In("phase") : Becomes(s, "children")
  /\ UNCHANGED << names, fades, mode >>
PhaseWait ==
  /\ at = "execute" /\ Goes("processes")
  /\ In("phase") # {} \/ Executing = {}
  /\ UNCHANGED << stage, names, fades, mode >>

PrepareNextScene ==
  /\ at = "execute" /\ Goes("processes") /\ nextScene # INVALID
  /\ \E s \in In("children") \cup In("run") :
       \/ /\ fader.status = "HIDDEN" /\ fader' = StartFadeOut(fader, fadeOut)
          /\ UNCHANGED stage
       \/ fader.status = "OPAQUE" /\ Becomes(s, "leaving") /\ UNCHANGED fader
       \/ Fading(fader) /\ UNCHANGED << fader, stage >>
  /\ UNCHANGED << names, autoFadeIn, fadeIn, fadeOut, mode >>

ChildrenCreated ==
  /\ at = "execute" /\ Goes("processes") /\ nextScene = INVALID
  /\ \E s \in In("children") : Becomes(s, "run")
  /\ UNCHANGED << names, fades, mode >>
ChildrenWait ==
  /\ at = "execute" /\ Goes("processes") /\ nextScene = INVALID
  /\ In("children") # {}
  /\ UNCHANGED << stage, names, fades, mode >>

PreExecute ==
  /\ at = "execute" /\ Goes("own") /\ nextScene = INVALID
  /\ In("run") # {}
  /\ fader' = IF fader.status = "OPAQUE" /\ autoFadeIn
                THEN StartFadeIn(fader, fadeIn) ELSE fader
  /\ UNCHANGED << stage, names, autoFadeIn, fadeIn, fadeOut, mode >>

(* The connect walk moves a base that is requested to be deleted to the    *)
(* delete list.                                                            *)
Connect ==
  /\ at = "connect" /\ Goes("calc")
  /\ stage' = [s \in Slots |-> IF stage[s] = "leaving" THEN "delete" ELSE stage[s]]
  /\ UNCHANGED << names, fades, mode >>

FaderCalc ==
  /\ at = "calc" /\ Goes("reset")
  /\ fader' = Calc(fader)
  /\ UNCHANGED << stage, names, autoFadeIn, fadeIn, fadeOut, mode >>

-----------------------------------------------------------------------------
Frame ==
  \/ Reset \/ SkipNextScene \/ CreateNextScene \/ SkipDelete \/ DeleteScene
  \/ SkipCreate \/ CreateScene \/ PhaseDone \/ PhaseWait \/ PrepareNextScene
  \/ ChildrenCreated \/ ChildrenWait \/ PreExecute \/ OwnReturn
  \/ ProcessesReturn \/ Connect \/ FaderCalc

Next == Frame \/ OwnCall \/ ProcessCall

(* The game loop never stops, and what a frame finds unfinished is         *)
(* finished in some later frame.                                           *)
Fairness ==
  /\ WF_sceneVars(Frame)
  /\ SF_sceneVars(CreateNextScene) /\ SF_sceneVars(CreateScene)
  /\ SF_sceneVars(PhaseDone) /\ SF_sceneVars(ChildrenCreated)
  /\ SF_sceneVars(DeleteScene)

Spec == Init /\ [][Next]_sceneVars
FairSpec == Spec /\ Fairness
-----------------------------------------------------------------------------
TypeOK ==
  /\ at \in Parts /\ stage \in [Slots -> Stages] /\ mode \in Modes
  /\ nextScene \in Scenes \cup {INVALID} /\ nowScene \in Scenes
  /\ otherSceneFlg \in BOOLEAN /\ autoFadeIn \in BOOLEAN
  /\ fadeIn \in U16 /\ fadeOut \in U16 /\ fader \in Faders

\* There is at most one scene object, and m_otherSceneFlg says whether there
\* is one.
OneScene ==
  /\ \A s, t \in Alive : s = t
  /\ otherSceneFlg <=> Alive # {}

\* Without a scene object there is a next scene.
Pending == Alive = {} => nextScene # INVALID

\* The screen is black until a scene has been prepared, and from the request
\* of its deletion until it has gone, which is only for a next scene.
Dark ==
  /\ In("run") = {} => fader.status = "OPAQUE"
  /\ In("leaving") \cup In("delete") # {} => nextScene # INVALID
  /\ at = "own" => In("run") # {}
SceneInv == TypeOK /\ OneScene /\ Pending /\ Dark

(* Scene implements SceneChange.                                           *)
SC == INSTANCE SceneChange WITH
        None <- INVALID,
        on <- IF Alive = {} THEN INVALID ELSE nowScene,
        wanted <- nextScene,
        prepared <- In("run") # {},
        dark <- fader.status = "OPAQUE"
ImplementsSceneChange == SC!Spec

\* A change that has been accepted takes place: the scene there is goes and
\* the next one takes over, whatever the screen was doing.
ChangeCompletes ==
  \A s \in Scenes : nextScene = s ~> nowScene = s /\ nextScene = INVALID

\* A frame of the fader never turns a fade back, and what it ends leaves the
\* screen black or free.
FadesMonotone ==
  [][fader' = Calc(fader) /\ at = "calc" =>
       /\ fader.status = "FADE_OUT" => Shade(fader') >= Shade(fader)
       /\ fader.status = "FADE_IN" => Shade(fader') <= Shade(fader)]_sceneVars
=============================================================================
