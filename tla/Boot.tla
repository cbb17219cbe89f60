--------------------------------- MODULE Boot ---------------------------------
(***************************************************************************)
(* The boot scene (dScBoot_c): the scene the game starts with.  Two state  *)
(* managers share the fader, the flags of the home menu and of the reset   *)
(* manager, and the screens: mStateMgr leads through the strap screen, the *)
(* controller information and the save data to the title; mResetStateMgr   *)
(* may black out the screen at any time for a soft reset and suspends the  *)
(* other one until it has lit it again.  A sequence of phase methods loads *)
(* the rest of the game in the background meanwhile.                       *)
(*                                                                         *)
(* The scene's life, its preExecute and the fader are those of Scene; this *)
(* module is its execute operation, in place of Scene's OwnCall.           *)
(*                                                                         *)
(* External: the reset manager, the home menu, the NAND thread, the        *)
(* warning manager, the windows, and the player.                           *)
(***************************************************************************)
EXTENDS Scene, Sequences

CONSTANTS
  TITLE,                     \* the scene that startTitle asks for
  FadeTime,                  \* the 30 frames of the boot scene's fades
  StrapAuto, StrapMin,       \* 1200 and 60 frames
  InfoAuto, InfoMin,         \* 300 and 30 frames
  MaxFaults                  \* bound: resets, failed NAND commands, shutdowns

ASSUME BootAssumption == TITLE \in Scenes \ {BOOT} /\ FadeTime \in Durations

VARIABLE boot     \* the boot scene's members and what it writes to

bootVars == << sceneVars, boot >>

(* The methods of myBackGround_Phase, those that only wait joined to their *)
(* neighbours: fonts and messages; the yes/no window, then the warning     *)
(* manager; the home menu; the controller information; the sound; the save *)
(* banner; the modules, the environments, the wipes and the effects.       *)
Background ==
  << "fonts", "windowReady", "homeMenu", "infoReady", "sound", "saveBanner", "modules" >>
MethodsDone == boot.method > Len(Background)
Past(b, name) == \E i \in 1 .. b.method - 1 : Background[i] = name

BootInit ==
  /\ Init
  /\ \E busy \in BOOLEAN :
     boot = [ step |-> "background", method |-> 1,
              state |-> "FadeOutWait", reset |-> "ResetWait", resetting |-> FALSE,
              fadeStarted |-> FALSE, faderDone |-> FALSE,
              newFile |-> FALSE, messageShown |-> FALSE,
              auto |-> 0, min |-> 0,
              strapVisible |-> TRUE, infoVisible |-> FALSE, infoCreated |-> FALSE,
              window |-> "closed", warning |-> "none", error |-> "none", forbid |-> 0,
              homeOff |-> FALSE, saveWindow |-> FALSE,
              softReset |-> FALSE, blank |-> FALSE, permitted |-> FALSE,
              nandBusy |-> busy, nandError |-> "none", fileExists |-> FALSE,
              faults |-> 0 ]

-----------------------------------------------------------------------------
(* What a state's operations see and write: the scene's members (b), the   *)
(* fader (f), the automatic fade in (a) and the reset mode (m).            *)
World == [b |-> boot, f |-> fader, a |-> autoFadeIn, m |-> mode]
Commit(w) == boot' = w.b /\ fader' = w.f /\ autoFadeIn' = w.a /\ mode' = w.m

\* Mutant: any screen that is not free is taken for a black one.
Covered(w) == w.f.status # "HIDDEN"

Black(w) == w.f.status = "OPAQUE"
Clear(w) == w.f.status = "HIDDEN"

\* setFader(FADER_FADE), the fader the game starts with, then a fade.
BeginFadeOut(w) == [w EXCEPT !.f = StartFadeOut(SetFader(@, @), FadeTime)]

\* Mutant: the fade in is left to preExecute.
BeginFadeInLater(w) == [w EXCEPT !.f = SetFader(@, @)]

BeginFadeIn(w) == [w EXCEPT !.f = StartFadeIn(SetFader(@, @), FadeTime)]
SetTimers(w, auto, min) == [w EXCEPT !.b.auto = auto, !.b.min = min]

\* Mutant: the save window's flag is forgotten.
SetHomeOnly(w, home, save) == [w EXCEPT !.b.homeOff = home]

SetWindows(w, home, save) == [w EXCEPT !.b.homeOff = home, !.b.saveWindow = save]
NandCommand(w) == [w EXCEPT !.b.nandBusy = TRUE]
EndWarnings(w) == [w EXCEPT !.b.warning = "none"]

(* The initialize and finalize operations of mStateMgr's states.           *)
Finalize(w) ==
  CASE w.b.state = "WiiStrapFadeOut" -> EndWarnings(w)
    [] w.b.state = "ControllerInformationFadeIn" ->
         [SetWindows(w, FALSE, FALSE) EXCEPT !.a = TRUE, !.b.forbid = IF @ > 0 THEN @ - 1 ELSE 0]
    [] w.b.state = "NewSaveFileDisp" -> [w EXCEPT !.b.saveWindow = FALSE]
    [] w.b.state = "GoToErrorFadeIn" -> [w EXCEPT !.b.homeOff = FALSE]
    [] OTHER -> w

Initialize(w) ==
  CASE w.b.state = "WiiStrapKeyWait" -> SetTimers(w, StrapAuto, StrapMin)
    [] w.b.state = "WiiStrapFadeOut" ->
         [SetWindows(BeginFadeOut(w), TRUE, TRUE) EXCEPT !.a = FALSE]
    [] w.b.state = "ControllerInformationFadeIn" ->
         [BeginFadeIn(w) EXCEPT !.b.infoVisible = TRUE]
    [] w.b.state = "ControllerInformationSoundWait" -> SetTimers(w, InfoAuto, InfoMin)
    [] w.b.state = "ExistFileCheck" ->
         [NandCommand(SetWindows(w, TRUE, TRUE)) EXCEPT !.b.newFile = FALSE]
    [] w.b.state \in {"NandSpaceCheck", "CreateFile", "Load"} -> NandCommand(w)
    [] w.b.state = "NewSaveFileDisp" -> [w EXCEPT !.b.window = "asked"]
    [] w.b.state = "ButtonInputWait" -> [w EXCEPT !.b.messageShown = TRUE]
    [] w.b.state = "WindowExitWait" -> [w EXCEPT !.b.window = "hit"]
    [] w.b.state = "GoToErrorFadeOut" ->
         [BeginFadeOut(w) EXCEPT !.a = FALSE, !.b.saveWindow = TRUE]
    [] w.b.state = "GoToErrorFadeIn" -> BeginFadeIn(w)
    [] w.b.state = "ErrorWindowOnStageWait" ->
         [w EXCEPT !.b.warning = "open", !.b.error = w.b.nandError]
    [] OTHER -> w

\* A change of state takes place at once (sStateMethodUsr_FI_c).
ChangeState(w, st) == Initialize([Finalize(w) EXCEPT !.b.state = st])

(* The execute operations.  key: the player pressed a button.              *)
When(w, cond, next) == IF cond THEN ChangeState(w, next) ELSE w
Less(n) == IF n > 0 THEN n - 1 ELSE n

ExecuteScreens(w, key) ==
  CASE w.b.state = "FadeOutWait" -> When(w, Clear(w), "WiiStrapKeyWait")
    [] w.b.state = "WiiStrapKeyWait" ->
         LET t == SetTimers(w, w.b.auto - 1, w.b.min - 1)
         IN  When(t, t.b.min <= 0, "WiiStrapDispEndWait")
    [] w.b.state = "WiiStrapDispEndWait" ->
         LET t == SetTimers(w, w.b.auto - 1, w.b.min)
         IN  When(t, t.b.auto <= 0 \/ key, "WiiStrapFadeOut")
    [] w.b.state = "WiiStrapFadeOut" ->
         LET ready == Black(w) /\ w.b.infoCreated
         IN  When([w EXCEPT !.b.strapVisible = @ /\ ~ready], ready, "ControllerInformationFadeIn")
    [] w.b.state = "ControllerInformationFadeIn" ->
         When(w, Clear(w), "ControllerInformationSoundWait")
    [] w.b.state = "ControllerInformationSoundWait" ->
         When(SetTimers(w, Less(w.b.auto), Less(w.b.min)), Past(w.b, "sound"),
              "ControllerInformationKeyWait")
    [] w.b.state = "ControllerInformationKeyWait" ->
         LET t == SetTimers(w, Less(w.b.auto), w.b.min - 1)
         IN  When(t, t.b.min <= 0, "ControllerInformationDispEndWait")
    [] w.b.state = "ControllerInformationDispEndWait" ->
         LET t == SetTimers(w, IF key THEN 0 ELSE Less(w.b.auto), w.b.min)
         IN  When(t, t.b.auto <= 0, "NandCommandEndWait")

\* The error of a finished command leads to the error message.
Checked(w, ok, next) ==
  IF w.b.nandBusy THEN w
  ELSE IF w.b.nandError # "none" THEN ChangeState(w, "GoToErrorFadeOut")
  ELSE When(w, ok, next)

\* Mutant: the command in progress is not waited for.
NandReadyAtOnce(w) == w.m # "SAFETY_WAIT"

NandReady(w) == ~w.b.nandBusy /\ w.m # "SAFETY_WAIT"

ExecuteSaveData(w) ==
  CASE w.b.state = "NandCommandEndWait" -> When(w, NandReady(w), "ExistFileCheck")
    [] w.b.state = "ExistFileCheck" ->
         Checked(w, TRUE, IF w.b.fileExists THEN "Load" ELSE "NandSpaceCheck")
    [] w.b.state = "NandSpaceCheck" -> Checked(w, Past(w.b, "saveBanner"), "CreateFile")
    [] w.b.state = "CreateFile" ->
         LET t == [w EXCEPT !.b.newFile = @ \/ w.b.nandError = "none", !.a = FALSE]
         IN  IF w.b.nandBusy THEN w ELSE ChangeState(t, "GoToErrorFadeIn")
    [] w.b.state = "Load" ->
         LET loaded == ~w.b.nandBusy /\ w.b.nandError = "none"
         IN  Checked(IF loaded THEN SetWindows(w, FALSE, FALSE) ELSE w, TRUE, "ProcEnd")

Animating(w) == w.b.window \in {"opening", "closing"}

ExecuteMessages(w, key) ==
  CASE w.b.state = "NewSaveFileDisp" -> When(w, ~Animating(w), "ButtonInputWait")
    [] w.b.state = "ButtonInputWait" ->
         When([w EXCEPT !.b.saveWindow = @ \/ key], key, "WindowExitWait")
    [] w.b.state = "WindowExitWait" ->
         IF Animating(w) THEN w
         ELSE ChangeState([SetWindows(w, FALSE, FALSE) EXCEPT !.b.newFile = FALSE], "ProcEnd")
    [] w.b.state = "GoToErrorFadeOut" ->
         IF Black(w)
           THEN ChangeState([w EXCEPT !.b.strapVisible = FALSE, !.b.infoVisible = FALSE],
                            "GoToErrorFadeIn")
           ELSE w
    [] w.b.state = "GoToErrorFadeIn" ->
         IF ~Clear(w) THEN w
         ELSE IF w.b.newFile THEN ChangeState([w EXCEPT !.a = TRUE], "NewSaveFileDisp")
         ELSE ChangeState([w EXCEPT !.a = TRUE, !.b.saveWindow = FALSE], "ErrorWindowOnStageWait")
    [] w.b.state = "ErrorWindowOnStageWait" ->
         When([w EXCEPT !.b.homeOff = FALSE], w.b.warning # "open",
              IF w.b.error = "retry" THEN "NandCommandEndWait" ELSE "ErrorInfinityDisp")
    [] OTHER -> w   \* ProcEnd (RunStateMgr), ErrorInfinityDisp

Screens == {"FadeOutWait", "WiiStrapKeyWait", "WiiStrapDispEndWait", "WiiStrapFadeOut",
  "ControllerInformationFadeIn", "ControllerInformationSoundWait",
  "ControllerInformationKeyWait", "ControllerInformationDispEndWait"}
SaveData == {"NandCommandEndWait", "ExistFileCheck", "NandSpaceCheck", "CreateFile", "Load"}

Execute(w, key) ==
  IF w.b.state \in Screens THEN ExecuteScreens(w, key)
  ELSE IF w.b.state \in SaveData THEN ExecuteSaveData(w)
  ELSE ExecuteMessages(w, key)

-----------------------------------------------------------------------------
(* mResetStateMgr.                                                         *)
FinalizeResetFadeIn(w) ==
  LET lit == [SetWindows(w, FALSE, FALSE) EXCEPT !.a = TRUE]
      back == IF w.b.state \in {"ErrorWindowOnStageWait", "ErrorInfinityDisp"}
                THEN ChangeState(lit, "GoToErrorFadeOut") ELSE lit
      timed == IF back.b.state \in {"ControllerInformationKeyWait",
                                    "ControllerInformationDispEndWait"}
                 THEN SetTimers(back, 0, 0) ELSE SetTimers(back, StrapAuto, StrapMin)
  IN  [timed EXCEPT !.b.faderDone = FALSE, !.b.resetting = FALSE]

\* A reset skips the screen that waits for the player.
FinalizeResetFadeOut(w) ==
  LET over == [w EXCEPT !.b.softReset = FALSE, !.b.blank = FALSE, !.m = ResetFinished(@)]
      skipped ==
        CASE w.b.state = "WiiStrapDispEndWait" ->
               SetTimers(ChangeState(
                 [EndWarnings(over) EXCEPT !.b.infoVisible = TRUE, !.b.strapVisible = FALSE,
                                           !.b.faderDone = FALSE],
                 "ControllerInformationSoundWait"), 0, 0)
          [] w.b.state = "ControllerInformationDispEndWait" ->
               SetTimers(ChangeState(
                 [over EXCEPT !.b.infoVisible = FALSE, !.b.faderDone = FALSE],
                 "NandCommandEndWait"), 0, 0)
          [] OTHER -> over
  IN  [skipped EXCEPT !.b.fadeStarted = FALSE]

ResetWaitAgain(w) == [FinalizeResetFadeOut(w) EXCEPT !.b.reset = "ResetWait", !.b.resetting = FALSE]

ResetExecute(w) ==
  CASE w.b.reset = "ResetWait" ->
         IF ~w.b.softReset THEN w
         ELSE [BeginFadeOut(w) EXCEPT !.b.homeOff = TRUE, !.b.reset = "ResetFadeOut",
                 !.b.resetting = TRUE, !.a = FALSE, !.b.fadeStarted = Clear(w),
                 !.b.faderDone = FALSE]
    [] w.b.reset = "ResetFadeOut" /\ ~w.b.fadeStarted ->
         [w EXCEPT !.f = StartFadeOut(@, FadeTime), !.b.fadeStarted = Clear(w)]
    [] w.b.reset = "ResetFadeOut" /\ w.b.fadeStarted ->
         LET t == [w EXCEPT !.b.faderDone = @ \/ w.b.blank]
             ended == EndWarnings(t)
         IN  IF ~(t.b.faderDone /\ Black(t) /\ t.b.infoCreated) THEN t
             ELSE IF t.b.messageShown
             THEN ResetWaitAgain([ChangeState(FinalizeResetFadeIn(ended), "ProcEnd")
                                    EXCEPT !.b.window = "closed", !.b.infoVisible = FALSE])
             ELSE BeginFadeIn([FinalizeResetFadeOut(ended)
                                 EXCEPT !.b.reset = "ResetFadeIn", !.b.saveWindow = TRUE])
    [] w.b.reset = "ResetFadeIn" ->
         IF Clear(w) THEN [FinalizeResetFadeIn(w) EXCEPT !.b.reset = "ResetWait"] ELSE w

-----------------------------------------------------------------------------
(* dScBoot_c::execute: the background methods until one has to wait, then  *)
(* the two state managers.                                                 *)
Step(from, to) == boot.step = from /\ boot' = [boot EXCEPT !.step = to]
BootRuns == at = "own" /\ nowScene = BOOT
BootLeaves == at = "delete" /\ nowScene = BOOT /\ In("delete") # {}

\* A method that waits for something external may find it in any frame.
MethodReady == Background[boot.method] = "infoReady" => boot.infoCreated
MethodForbids == IF Background[boot.method] = "windowReady" THEN 1 ELSE 0

MethodOk ==
  /\ (BootRuns /\ boot.step = "background") \/ BootLeaves
  /\ ~MethodsDone /\ MethodReady
  /\ boot' = [boot EXCEPT !.method = @ + 1, !.forbid = @ + MethodForbids]
  /\ UNCHANGED sceneVars
MethodWait == BootRuns /\ Step("background", "resetMgr") /\ UNCHANGED sceneVars

RunResetMgr ==
  /\ BootRuns /\ boot.step = "resetMgr"
  /\ Commit([ResetExecute(World) EXCEPT !.b.step = "stateMgr"])
  /\ UNCHANGED << at, stage, names, fadeIn, fadeOut >>

\* startTitle asks for the title in every frame until it is accepted.
RunStateMgr ==
  /\ BootRuns /\ boot.step = "stateMgr" /\ Goes("processes")
  /\ \E key \in BOOLEAN :
       LET w == IF boot.resetting THEN World ELSE Execute(World, key)
       IN  Commit([w EXCEPT !.b.step = "background"])
  /\ IF ~boot.resetting /\ boot.state = "ProcEnd" /\ Accepts(FALSE)
       THEN SetNextScene(TITLE, FALSE) ELSE UNCHANGED nextScene
  /\ UNCHANGED << stage, nowScene, otherSceneFlg, fadeIn, fadeOut >>

-----------------------------------------------------------------------------
(* The rest of the game.                                                   *)
Elsewhere(b) == boot' = b /\ UNCHANGED sceneVars
Fault == boot.faults < MaxFaults

(* The reset manager: a soft reset starts while it is permitted and no     *)
(* save window is active; a shutdown may start at any time.                *)
BootResets ==
  /\ at = "reset" /\ Goes("scene")
  /\ \/ UNCHANGED << mode, boot >>
     \/ /\ Fault /\ mode = "NORMAL" /\ nowScene = BOOT
        /\ boot.permitted /\ ~boot.saveWindow
        /\ mode' = "SOFT_RESET"
        /\ boot' = [boot EXCEPT !.softReset = TRUE, !.faults = @ + 1]
     \/ /\ Fault /\ mode' = "SAFETY_WAIT"
        /\ boot' = [boot EXCEPT !.faults = @ + 1]
  /\ UNCHANGED << stage, names, fades >>
ResetBlank ==
  boot.softReset /\ ~boot.blank /\ Elsewhere([boot EXCEPT !.blank = TRUE])

\* The controller information is made when the home menu has been loaded.
CreateInfo ==
  /\ Past(boot, "homeMenu") /\ ~boot.infoCreated
  /\ Elsewhere([boot EXCEPT !.infoCreated = TRUE])

\* The NAND thread finishes a command.
NandEnds ==
  /\ boot.nandBusy
  /\ \E e \in {"none", "retry", "fatal"}, found \in BOOLEAN :
       /\ e # "none" => Fault
       /\ Elsewhere([boot EXCEPT !.nandBusy = FALSE, !.nandError = e,
                       !.fileExists = IF boot.state = "ExistFileCheck" THEN found ELSE @,
                       !.faults = IF e = "none" THEN @ ELSE @ + 1])

\* The window notices what it was asked in its own execute operation, and
\* animates for some frames.
WindowNotices ==
  /\ at = "processes" /\ boot.window \in {"asked", "hit"}
  /\ Elsewhere([boot EXCEPT !.window = IF @ = "asked" THEN "opening" ELSE "closing"])
WindowStops ==
  /\ boot.window \in {"opening", "closing"}
  /\ Elsewhere([boot EXCEPT !.window = IF @ = "opening" THEN "open" ELSE "closed"])

\* The player closes the error message.
WarningClosed == boot.warning = "open" /\ Elsewhere([boot EXCEPT !.warning = "none"])

(* The scene's part of the frame.  preExecute permits soft resets when it  *)
(* lets the scene execute.                                                 *)

\* Mutant: the destructor leaves the warnings forbidden.
BootDeletedForbidding == DeleteScene /\ MethodsDone /\ UNCHANGED boot

\* doDelete waits for the background methods; the destructor of a scene
\* permits warnings again.
BootDeleted ==
  /\ DeleteScene /\ MethodsDone
  /\ boot' = [boot EXCEPT !.forbid = IF @ > 0 THEN @ - 1 ELSE 0]

BootFrame ==
  \/ BootResets
  \/ PreExecute /\ boot' = [boot EXCEPT !.permitted = TRUE]
  \/ BootDeleted
  \/ ProcessesReturn /\ boot.window \notin {"asked", "hit"} /\ UNCHANGED boot
  \/ OwnReturn /\ nowScene # BOOT /\ UNCHANGED boot
  \/ /\ \/ SkipNextScene \/ CreateNextScene \/ SkipDelete \/ SkipCreate \/ CreateScene
        \/ PhaseDone \/ PhaseWait \/ PrepareNextScene \/ ChildrenCreated \/ ChildrenWait
        \/ Connect \/ FaderCalc
     /\ UNCHANGED boot

BootNext ==
  \/ BootFrame \/ MethodOk \/ MethodWait \/ RunResetMgr \/ RunStateMgr
  \/ ResetBlank \/ CreateInfo \/ NandEnds \/ WindowNotices \/ WindowStops \/ WarningClosed

\* The game loop goes on, and whatever is loaded or written is so in the
\* end; nothing is assumed of the player.
BootFairness ==
  /\ WF_bootVars(BootFrame \/ MethodWait \/ RunResetMgr \/ RunStateMgr \/ WindowNotices)
  /\ SF_bootVars(CreateNextScene /\ UNCHANGED boot) /\ SF_bootVars(CreateScene /\ UNCHANGED boot)
  /\ SF_bootVars(PhaseDone /\ UNCHANGED boot) /\ SF_bootVars(ChildrenCreated /\ UNCHANGED boot)
  /\ SF_bootVars(BootDeleted) /\ SF_bootVars(MethodOk)
  /\ WF_bootVars(ResetBlank) /\ WF_bootVars(CreateInfo) /\ WF_bootVars(NandEnds)
  /\ WF_bootVars(WindowStops)

BootSpec == BootInit /\ [][BootNext]_bootVars /\ BootFairness

-----------------------------------------------------------------------------
\* A state that waits for the fader is never forgotten: the fade it waits
\* for has been started, or has ended, or is the automatic one.
WaitsForAComingFade ==
  boot.reset = "ResetWait" /\ nextScene = INVALID /\ In("run") # {} =>
    /\ boot.state \in {"WiiStrapFadeOut", "GoToErrorFadeOut"} =>
         fader.status \in {"FADE_OUT", "OPAQUE"}
    /\ boot.state \in {"ControllerInformationFadeIn", "GoToErrorFadeIn"} =>
         fader.status \in {"FADE_IN", "HIDDEN"}

\* The screens are swapped behind a black screen only.
SwapBehindScreen ==
  [][<< boot.strapVisible, boot.infoVisible >>' # << boot.strapVisible, boot.infoVisible >>
       => fader.status = "OPAQUE"]_bootVars

\* A NAND command is only given to a thread that has finished the last one.
NandCommandWhenIdle ==
  [][boot'.state # boot.state
       /\ boot'.state \in SaveData \ {"NandCommandEndWait"}
       => ~boot.nandBusy]_bootVars

\* What the scenes rely on holds whatever the two state managers do with the
\* fader; and the boot scene leaves the home menu, the automatic fade in and
\* the warnings to the title as it found them, although both managers switch
\* them off and on again.
LeavesNothingForbidden ==
  /\ nextScene = TITLE => ~boot.homeOff /\ ~boot.saveWindow /\ autoFadeIn
  /\ nowScene = TITLE => boot.forbid = 0
BootInv == SceneInv /\ boot.forbid \in 0 .. 1 /\ LeavesNothingForbidden

\* The game reaches its title, unless it waits for the player, shows a fatal
\* error or shuts down: however resets and errors fall.
WaitsForPlayer ==
  boot.state \in {"ButtonInputWait", "ErrorInfinityDisp"} \/ boot.warning = "open"
BootEnds == <>[](nowScene # BOOT \/ WaitsForPlayer \/ mode = "SAFETY_WAIT")
=============================================================================
